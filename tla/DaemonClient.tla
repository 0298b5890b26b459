---------------------------- MODULE DaemonClient ----------------------------
(***************************************************************************)
(* How di-core's agents use a tool daemon (di-core/src/daemons/mod.rs,     *)
(* CommandDaemon and ResilientDaemon).                                     *)
(*                                                                         *)
(* A call holds the daemon's mutex until it returns.  It submits a request *)
(* to the task that owns the pipes, and waits for the task to hand it the  *)
(* answer with its id.  If the daemon is found dead, or 600 seconds pass,  *)
(* it may discard the process, spawn another and try again.  A request     *)
(* given up stays with the task and with the process.                      *)
(***************************************************************************)
EXTENDS DaemonPipes

CONSTANTS
  Caller,
  MaxCalls,        \* bound: calls a caller makes
  SpawnMayFail

ASSUME ClientAssumption == MaxCalls \in Nat \ {0} /\ SpawnMayFail \in BOOLEAN

VARIABLES
  max_attempts,  \* 1 for send_request, 2 for send_request_retry
  lockq,         \* the mutex: its holder, then those waiting for it
  want,          \* the kind of request the holder makes, once chosen
  attempts,      \* of the holder
  awaited,       \* the id whose answer the holder waits for; 0 at the top of its loop
  reply,         \* what was sent through its oneshot channel
  inner,         \* whether the wrapper has a daemon
  task,          \* whether the task that owns the pipes runs
  submitted,     \* submit_rx
  pending,       \* ids the task has no answer for
  next_id,
  made,          \* calls each caller has begun
  result,        \* of each caller's last call
  reached        \* whether the holder has spawned a process or submitted to one not dead

callVars == <<lockq, want, attempts, awaited, reply, made, result, reached>>
taskVars == <<task, submitted, pending>>
clientVars == <<max_attempts, callVars, inner, taskVars, next_id>>

None == [status |-> "none"]
NoReply == awaited # 0 /\ reply = None
Holder == Head(lockq)
Call == <<Holder, made[Holder]>>     \* names the holder's call

ClientInit ==
  /\ max_attempts \in {1, 2}
  /\ lockq = <<>> /\ want = "none" /\ attempts = 0 /\ awaited = 0 /\ reply = None
  /\ inner = TRUE /\ task = TRUE /\ submitted = <<>> /\ pending = {} /\ next_id = 1
  /\ made = [c \in Caller |-> 0]
  /\ result = [c \in Caller |-> "none"]
  /\ reached = FALSE

-----------------------------------------------------------------------------
(* A call: send_request_impl.                                              *)

Begin(c) ==
  /\ c \notin ToSet(lockq)
  /\ made[c] < MaxCalls
  /\ lockq' = Append(lockq, c)
  /\ made' = [made EXCEPT ![c] = @ + 1]
  /\ UNCHANGED <<pipeVars, max_attempts, want, attempts, awaited, reply, inner, taskVars,
                 next_id, result, reached>>

\* The holder returns, and the next in the queue begins with its own request.
Returns(status) ==
  /\ result' = [result EXCEPT ![Holder] = status]
  /\ lockq' = Tail(lockq)
  /\ attempts' = 0
  /\ awaited' = 0
  /\ reply' = None
  /\ want' = "none"
  /\ reached' = FALSE
  /\ UNCHANGED made

TaskGone == task' = FALSE /\ submitted' = <<>> /\ pending' = {}

Discarded ==
  /\ inner' = FALSE
  /\ TaskGone
  /\ proc' = "down"
  /\ UNCHANGED <<stdin, out, nread>>

Fails_AlwaysRetries ==
  \/ /\ attempts >= 1
     /\ Returns("failed")
     /\ UNCHANGED <<pipeVars, inner, taskVars>>
  \/ /\ attempts < 1
     /\ attempts' = attempts + 1
     /\ awaited' = 0
     /\ reply' = None
     /\ Discarded
     /\ UNCHANGED <<lockq, want, made, result, reached>>

\* Dead, or no answer in time: give up, or discard the daemon and try again.
Fails ==
  \/ /\ attempts + 1 >= max_attempts
     /\ Returns("failed")
     /\ UNCHANGED <<pipeVars, inner, taskVars>>
  \/ /\ attempts + 1 < max_attempts
     /\ attempts' = attempts + 1
     /\ awaited' = 0
     /\ reply' = None
     /\ Discarded
     /\ UNCHANGED <<lockq, want, made, result, reached>>

\* CommandDaemon::spawn has seen "ready".
Restart ==
  /\ lockq # <<>> /\ awaited = 0 /\ ~inner
  /\ inner' = TRUE
  /\ task' = TRUE
  /\ next_id' = 1
  /\ FreshPipes
  /\ reached' = TRUE
  /\ UNCHANGED <<max_attempts, lockq, want, attempts, awaited, reply, made, result, submitted,
                 pending>>

RestartFails ==
  /\ SpawnMayFail
  /\ lockq # <<>> /\ awaited = 0 /\ ~inner
  /\ IF attempts + 1 >= max_attempts
       THEN Returns("unavailable")
       ELSE /\ attempts' = attempts + 1
            /\ UNCHANGED <<lockq, want, awaited, reply, made, result, reached>>
  /\ UNCHANGED <<pipeVars, max_attempts, inner, taskVars, next_id>>

FreshId_Reused == CHOOSE i \in 1 .. next_id : i \notin pending /\ \A j \in 1 .. i - 1 : j \in pending
FreshId == next_id

\* send_request_untimed, up to the await.
Submit(kind) ==
  /\ lockq # <<>> /\ awaited = 0 /\ inner
  /\ task
  /\ want \in {"none", kind}
  /\ want' = kind
  /\ awaited' = FreshId
  /\ next_id' = next_id + 1
  /\ submitted' = Append(submitted, [id |-> FreshId, kind |-> kind, call |-> Call])
  /\ reached' = (reached \/ proc # "down")
  /\ UNCHANGED <<pipeVars, max_attempts, lockq, attempts, reply, inner, task, pending, made, result>>

\* The task has ended: "Daemon task died".
SubmitRefused ==
  /\ lockq # <<>> /\ awaited = 0 /\ inner
  /\ ~task
  /\ next_id' = next_id + 1
  /\ Fails
  /\ UNCHANGED max_attempts

\* The oneshot channel has an answer, or its sender is gone.
Answered ==
  /\ awaited # 0 /\ reply # None
  /\ \/ /\ reply.status # "dead"
        /\ Returns(reply.status)
        /\ UNCHANGED <<pipeVars, inner, taskVars>>
     \/ /\ reply.status = "dead"
        /\ Fails
  /\ UNCHANGED <<max_attempts, next_id>>

\* 600 seconds without an answer; the request is not withdrawn.
TimesOut ==
  /\ NoReply
  /\ Fails
  /\ UNCHANGED <<max_attempts, next_id>>

-----------------------------------------------------------------------------
(* The task of CommandDaemon::spawn: submissions first, then lines, then   *)
(* deadlines.                                                              *)

Tell(ids, status, call) ==
  reply' = IF awaited \in ids /\ reply = None THEN [status |-> status, call |-> call] ELSE reply

Dies(ids) ==
  /\ TaskGone
  /\ Tell(ids, "dead", <<>>)

calling == <<lockq, want, attempts, awaited, made, result, reached>>

\* A submission is noted and written; a broken pipe fails everything.
Forward ==
  /\ task /\ submitted # <<>>
  /\ LET r == Head(submitted) IN
       IF proc = "down"
         THEN Dies(pending \cup {q.id : q \in ToSet(submitted)}) /\ UNCHANGED stdin
         ELSE /\ stdin' = Append(stdin, r)
              /\ pending' = pending \cup {r.id}
              /\ submitted' = Tail(submitted)
              /\ UNCHANGED <<task, reply>>
  /\ UNCHANGED <<proc, out, nread, max_attempts, calling, inner, next_id>>

IsAnswer(m) == m.type \notin {"ack", "progress"}

\* A line: an answer goes to the call that waits for it, if one still does.
ReadLine ==
  /\ task /\ submitted = <<>> /\ Unread # <<>>
  /\ nread' = nread + 1
  /\ LET m == Head(Unread) IN
       IF IsAnswer(m) /\ m.id \in pending
         THEN /\ pending' = pending \ {m.id}
              /\ Tell({m.id}, IF m.type = "error" THEN "error" ELSE "ok", m.call)
         ELSE UNCHANGED <<pending, reply>>
  /\ UNCHANGED <<proc, stdin, out, max_attempts, calling, inner, task, submitted, next_id>>

\* End of stdout: "Daemon stdout closed".
EndOfFile ==
  /\ task /\ submitted = <<>> /\ Unread = <<>> /\ proc = "down"
  /\ Dies(pending)
  /\ UNCHANGED <<pipeVars, max_attempts, calling, inner, next_id>>

Expire_Blocked(id) ==
  /\ task /\ submitted = <<>> /\ Unread = <<>> /\ proc # "hung"
  /\ id \in pending
  /\ pending' = pending \ {id}
  /\ Tell({id}, "dead", <<>>)
  /\ UNCHANGED <<pipeVars, max_attempts, calling, inner, task, submitted, next_id>>

\* The timer tick finds a deadline passed.
Expire(id) ==
  /\ task /\ submitted = <<>> /\ Unread = <<>>
  /\ id \in pending
  /\ pending' = pending \ {id}
  /\ Tell({id}, "dead", <<>>)
  /\ UNCHANGED <<pipeVars, max_attempts, calling, inner, task, submitted, next_id>>

ClientNext ==
  \/ \E c \in Caller : Begin(c)
  \/ Restart \/ RestartFails
  \/ \E kind \in Kind : Submit(kind)
  \/ SubmitRefused \/ Answered \/ TimesOut
  \/ Forward \/ ReadLine \/ EndOfFile \/ \E id \in pending : Expire(id)

=============================================================================
