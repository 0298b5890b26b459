---------------------------- MODULE ToolDaemons ----------------------------
(***************************************************************************)
(* di-core with one of its two tool daemons, faults included.  The command *)
(* daemon is called with send_request (one attempt, so that nothing is run *)
(* twice), the analyzer with send_request_retry (two attempts).            *)
(***************************************************************************)
EXTENDS DaemonClient, CommandDaemon, AnalyzerDaemon

CONSTANT MaxFaults   \* bound: crashes and hangs

VARIABLES
  faults,
  started    \* how often the work of each call was started

daemonVars == <<child, serving>>
allVars == <<pipeVars, clientVars, daemonVars, faults, started>>

Calls == Caller \X (1 .. MaxCalls)
IsCommand == max_attempts = 1

ToolInit ==
  /\ PipesInit /\ ClientInit /\ CommandInit /\ AnalyzerInit
  /\ faults = 0
  /\ started = [k \in Calls |-> 0]

DaemonKept ==
  /\ child' = IF proc' = "down" THEN NoChildren ELSE child
  /\ serving' = IF proc' = "down" THEN {} ELSE serving

ClientStep(A) == A /\ DaemonKept /\ UNCHANGED <<faults, started>>

InCharge == {child[s] : s \in Active} \cup serving

\* A step of the daemon; a request that gets a slot or a thread has been started.
DaemonStep(A) ==
  /\ A
  /\ started' = [k \in Calls |->
       started[k] + Cardinality({r \in InCharge' \ InCharge : r.call = k})]
  /\ UNCHANGED <<clientVars, faults>>

CommandStep == IsCommand /\ DaemonStep(CommandNext /\ UNCHANGED serving)
AnalyzerStep == ~IsCommand /\ DaemonStep(AnalyzerNext /\ UNCHANGED child)

\* The process dies, with what it has not read; what it has written can still be read.
Crash ==
  /\ faults < MaxFaults
  /\ proc # "down"
  /\ faults' = faults + 1
  /\ proc' = "down"
  /\ stdin' = <<>>
  /\ DaemonKept
  /\ UNCHANGED <<out, nread, clientVars, started>>

\* The process stops answering.
Hang ==
  /\ faults < MaxFaults
  /\ proc = "up"
  /\ faults' = faults + 1
  /\ proc' = "hung"
  /\ UNCHANGED <<stdin, out, nread, clientVars, daemonVars, started>>

ToolNext == ClientStep(ClientNext) \/ CommandStep \/ AnalyzerStep \/ Crash \/ Hang

ToolSpec == ToolInit /\ [][ToolNext]_allVars

-----------------------------------------------------------------------------
(* Fairness.  The task and the callers are scheduled, the daemon polls and *)
(* its timers fire, its threads finish.  The 600 seconds are counted on    *)
(* only for a request that nobody is going to answer.                      *)

Ids == 1 .. 2 * Cardinality(Calls)

WillBeRead(id) ==
  \E i \in DOMAIN stdin :
    /\ stdin[i].id = id
    /\ \A j \in 1 .. i : IsCommand => Complete(stdin[j])

WillAnswer(id) ==
  /\ proc # "hung"
  /\ \/ WillBeRead(id)
     \/ \E r \in InCharge : r.id = id
     \/ \E m \in ToSet(Unread) : m.id = id /\ m.type \in {"result", "error"}

ToolFairness ==
  /\ WF_allVars(ClientStep(Restart \/ RestartFails))
  /\ WF_allVars(ClientStep(\E kind \in Kind : Submit(kind)))
  /\ WF_allVars(ClientStep(SubmitRefused))
  /\ WF_allVars(ClientStep(Answered))
  /\ WF_allVars(ClientStep(Forward))
  /\ WF_allVars(ClientStep(ReadLine))
  /\ WF_allVars(ClientStep(EndOfFile))
  /\ \A id \in Ids : WF_allVars(ClientStep(~WillAnswer(id) /\ Expire(id)))
  /\ WF_allVars(IsCommand /\ DaemonStep(TakeCommand /\ UNCHANGED serving))
  /\ \A s \in Slot : WF_allVars(IsCommand /\ DaemonStep(Finish(s) /\ UNCHANGED serving))
  /\ WF_allVars(~IsCommand /\ DaemonStep(TakeQuery /\ UNCHANGED child))
  /\ WF_allVars(~IsCommand /\ DaemonStep((\E r \in serving : Work(r)) /\ UNCHANGED child))

-----------------------------------------------------------------------------
(* Properties.                                                             *)

\* The command daemon tells one story about each request: an ack, progress, one result; or
\* one refusal.  No result comes twice, none before the ack, no progress without an ack or
\* after the result, and nothing follows an error.
InTurn == {<<"ack", "progress">>, <<"ack", "result">>, <<"progress", "result">>}

OneStory ==
  IsCommand =>
    \A i \in DOMAIN out :
      LET earlier == {j \in 1 .. i - 1 : out[j].id = out[i].id} IN
      /\ \A j \in earlier : <<out[j].type, out[i].type>> \in InTurn
      /\ out[i].type = "progress" => \E j \in earlier : out[j].type = "ack"

\* Whatever was given up, answered late or sent to an earlier process: the answer a call
\* takes is the answer to its own request.
AnswerIsMine ==
  reply.status \in {"ok", "error"} => reply.call = Call

\* "Safe default: no retry on daemon death (prevents duplicate mutations)": an attempt
\* starts its work at most once, so a command runs at most once and a query twice.
RunsPerAttempt ==
  /\ \A k \in Calls : started[k] <= max_attempts
  /\ lockq # <<>> => started[Call] <= attempts + (IF awaited = 0 THEN 0 ELSE 1)

\* The task gives a daemon up for dead only if its process is; a request without an answer
\* does not take the others with it.
NoFalseDeath == inner /\ ~task => proc = "down"

GivesUp == lockq # <<>> /\ lockq' = Tail(lockq) /\ result'[Holder] = "failed"

\* A query that fails has been tried on a living analyzer, however its predecessor died.
QueryReachesDaemon == [][GivesUp /\ ~IsCommand => reached]_allVars

\* Every call returns, and the mutex goes to the next one.
EveryCallReturns == \A c \in Caller : c \in ToSet(lockq) ~> c \notin ToSet(lockq)

=============================================================================
