-------------------------- MODULE ToolCallsProofs --------------------------
(***************************************************************************)
(* Theorems about the processes that run tools: ToolDaemons, for any       *)
(* number of callers, calls, faults, slots and threads (what a call is     *)
(* answered, and what it tries first), and WasmRunner, for any amount of   *)
(* output (what a guest is lent is taken back).                            *)
(***************************************************************************)
EXTENDS ToolDaemons, WasmRunner, SequenceTheorems, FiniteSetTheorems, WellFoundedInduction, TLAPS

-----------------------------------------------------------------------------
(* The tool daemons.                                                       *)

Request == [id : Nat \ {0}, kind : Kind, call : Caller \X Nat]
Line == [type : {"ack", "progress", "result", "error"}, id : Nat, call : Caller \X Nat]

ClientTypes ==
  /\ max_attempts \in {1, 2}
  /\ lockq \in Seq(Caller)
  /\ made \in [Caller -> Nat]
  /\ result \in [Caller -> {"none", "ok", "error", "failed", "unavailable"}]
  /\ attempts \in Nat /\ awaited \in Nat
  /\ next_id \in Nat \ {0}
  /\ pending \subseteq Nat \ {0}
  /\ reply = None \/ reply.status \in {"ok", "error", "dead"}
  /\ submitted \in Seq(Request)

PipeTypes ==
  /\ stdin \in Seq(Request)
  /\ out \in Seq(Line)
  /\ nread \in Nat
  /\ child \in [Slot -> Request \cup {Free}]
  /\ serving \subseteq Request

\* A call that waits holds the mutex and has a daemon; at the top of its loop it has been
\* sent nothing.
Waits ==
  /\ awaited # 0 => lockq # <<>> /\ inner
  /\ awaited = 0 => reply = None
  /\ AnswerIsMine

\* Without a daemon no request is under way in di-core, and a dead process works on none.
Parted ==
  /\ ~inner => submitted = <<>> /\ ~task /\ proc = "down"
  /\ proc = "down" => InCharge = {}
  /\ NoFalseDeath

\* Everything that carries an id of this daemon: requests on their way, in work, answered.
Traffic == ToSet(submitted) \cup ToSet(stdin) \cup ToSet(out) \cup InCharge

\* Ids are given out once per daemon: what carries the awaited one was made for this call.
Ours(r) == r.id \in 0 .. next_id - 1 /\ (awaited # 0 /\ r.id = awaited => r.call = Call)
OwnIds == inner => \A r \in Traffic : Ours(r)

\* A second attempt has a process of its own.
Tried == max_attempts = 2 /\ attempts # 0 /\ inner => reached

CallInv == ClientTypes /\ PipeTypes /\ Waits /\ Parted /\ OwnIds /\ Tried

-----------------------------------------------------------------------------
(* Sequences as sets.                                                      *)

\* What is appended is all that is new.
LEMMA ToSetAppend ==
  ASSUME NEW S, NEW s \in Seq(S), NEW x \in S
  PROVE  /\ Append(s, x) \in Seq(S) /\ ToSet(Append(s, x)) = ToSet(s) \cup {x}
         /\ s \o <<x>> = Append(s, x)
<1>1. /\ Append(s, x) \in Seq(S) /\ Len(Append(s, x)) = Len(s) + 1
      /\ \A i \in 1 .. Len(s) : Append(s, x)[i] = s[i]
      /\ Append(s, x)[Len(s) + 1] = x
  BY AppendProperties
<1>2. DOMAIN Append(s, x) = DOMAIN s \cup {Len(s) + 1} /\ DOMAIN s = 1 .. Len(s)
  BY <1>1, LenProperties
<1>3. ToSet(Append(s, x)) = ToSet(s) \cup {x}
  BY <1>1, <1>2 DEF ToSet
<1> QED
  BY <1>1, <1>3, AppendIsConcat

\* The head of a sequence is in it, and its tail has nothing else.
LEMMA ToSetTail ==
  ASSUME NEW S, NEW s \in Seq(S), s # <<>>
  PROVE  /\ Head(s) \in ToSet(s) /\ Head(s) \in S
         /\ Tail(s) \in Seq(S) /\ ToSet(Tail(s)) \subseteq ToSet(s)
         /\ Tail(s) # s
<1>1. /\ Tail(s) \in Seq(S) /\ Len(Tail(s)) = Len(s) - 1
      /\ \A i \in 1 .. Len(Tail(s)) : Tail(s)[i] = s[i + 1]
      /\ Head(s) = s[1] /\ Len(s) \in Nat \ {0}
  BY HeadTailProperties, EmptySeq, LenProperties
<1>2. DOMAIN s = 1 .. Len(s) /\ DOMAIN Tail(s) = 1 .. Len(Tail(s))
  BY <1>1, LenProperties
<1>3. ToSet(Tail(s)) \subseteq ToSet(s)
  BY <1>1, <1>2 DEF ToSet
<1>4. Head(s) \in ToSet(s) /\ Head(s) \in S
  BY <1>1, <1>2, ElementOfSeq DEF ToSet
<1>5. Tail(s) # s
  <2>1. \A n \in Nat : n - 1 # n
    OBVIOUS
  <2>2. Len(Tail(s)) # Len(s)
    BY <1>1, <2>1
  <2> QED
    BY <2>2
<1> QED
  BY <1>1, <1>3, <1>4, <1>5

\* The next line to read is one that was written.
LEMMA NextLine ==
  ASSUME NEW S, NEW s \in Seq(S), NEW k \in Nat, SubSeq(s, k + 1, Len(s)) # <<>>
  PROVE  Head(SubSeq(s, k + 1, Len(s))) \in ToSet(s) /\ Head(SubSeq(s, k + 1, Len(s))) \in S
<1> DEFINE u == SubSeq(s, k + 1, Len(s))
<1>1. k + 1 <= Len(s) /\ Len(s) \in Nat
  BY LenProperties, SubSeqProperties, EmptySeq
<1>2. u[1] = s[k + 1] /\ k + 1 \in DOMAIN s
  BY <1>1, SubSeqProperties, LenProperties
<1>3. Head(u) = u[1]
  BY HeadTailProperties, SubSeqProperties, <1>1
<1> QED
  BY <1>2, <1>3, ElementOfSeq, LenProperties DEF ToSet

-----------------------------------------------------------------------------
(* What carries an id.                                                     *)

\* Messages repeat the id and the call of a request, or say no id.
Carried ==
  \A m \in Traffic' : m.id = 0 \/ \E r \in Traffic : m.id = r.id /\ m.call = r.call

\* Ids below the next one stay below the one after it.
LEMMA IdsGrow ==
  ASSUME NEW a \in Nat \ {0}, NEW b \in {a, a + 1}
  PROVE  b \in Nat \ {0} /\ 0 \in 0 .. b - 1 /\ \A i \in 0 .. a - 1 : i \in 0 .. b - 1
OBVIOUS

\* Passing requests on and answering them keeps the ids apart.
LEMMA CarriedOwn ==
  ASSUME CallInv, Carried, next_id' \in {next_id, next_id + 1},
         inner' => inner, awaited' \in {0, awaited},
         awaited' # 0 => Call' = Call
  PROVE  OwnIds'
<1> SUFFICES ASSUME inner', NEW m \in Traffic'
             PROVE  Ours(m)'
  BY DEF OwnIds
<1>1. inner /\ \A r \in Traffic : Ours(r)
  BY DEF CallInv, OwnIds
<1>2. next_id \in Nat \ {0}
  BY DEF CallInv, ClientTypes
<1>3. next_id' \in Nat \ {0} /\ \A i \in 0 .. next_id - 1 : i \in 0 .. next_id' - 1
  BY <1>2, IdsGrow
<1>4. 0 \in 0 .. next_id' - 1
  BY <1>2, IdsGrow
<1>5. CASE m.id = 0
  BY <1>5, <1>4 DEF Ours
<1>6. ASSUME NEW r \in Traffic, m.id = r.id, m.call = r.call
      PROVE  Ours(m)'
  <2>1. r.id \in 0 .. next_id' - 1 /\ (awaited # 0 /\ r.id = awaited => r.call = Call)
    BY <1>1, <1>3 DEF Ours
  <2>2. awaited' # 0 => awaited' = awaited
    OBVIOUS
  <2> QED
    BY <1>6, <2>1, <2>2 DEF Ours
<1> QED
  BY <1>5, <1>6 DEF Carried

-----------------------------------------------------------------------------
(* The daemons: their steps leave di-core alone.                           *)

\* What a step of a living process on its pipes has to show.
LEMMA DaemonKeeps ==
  ASSUME CallInv, proc = "up", proc' = "up", UNCHANGED clientVars, PipeTypes', Carried
  PROVE  CallInv'
<1>1. ClientTypes' /\ Waits' /\ Tried'
  BY DEF CallInv, ClientTypes, Waits, AnswerIsMine, Call, Holder, Tried, clientVars, callVars, taskVars
<1>2. Parted'
  BY DEF CallInv, Parted, NoFalseDeath, clientVars, taskVars
<1>3. OwnIds'
  BY CarriedOwn DEF clientVars, callVars, Call, Holder
<1> QED
  BY <1>1, <1>2, <1>3 DEF CallInv

\* A line about a request.
LEMMA SaysLine ==
  ASSUME NEW type \in {"ack", "progress", "result", "error"}, NEW r \in Request
  PROVE  /\ Says(type, r) \in Line /\ Says(type, r).id = r.id /\ Says(type, r).call = r.call
         /\ Says(type, [r EXCEPT !.id = 0]) \in Line /\ Says(type, [r EXCEPT !.id = 0]).id = 0
BY DEF Says, Line, Request

\* The process writes one line: about a request, or about none.
LEMMA WritesOne ==
  ASSUME CallInv, proc = "up", proc' = "up", UNCHANGED clientVars,
         NEW m \in Line, Writes(<<m>>),
         m.id = 0 \/ \E r \in Traffic : m.id = r.id /\ m.call = r.call,
         stdin' \in Seq(Request), ToSet(stdin') \subseteq ToSet(stdin), UNCHANGED nread,
         child' \in [Slot -> Request \cup {Free}], serving' \subseteq Request,
         InCharge' \subseteq InCharge \cup ToSet(stdin)
  PROVE  CallInv'
<1>1. out \in Seq(Line)
  BY DEF CallInv, PipeTypes
<1>2. out' \in Seq(Line) /\ ToSet(out') = ToSet(out) \cup {m}
  <2>1. out' = Append(out, m)
    BY <1>1, ToSetAppend DEF Writes
  <2> QED
    BY <1>1, <2>1, ToSetAppend
<1>3. PipeTypes'
  BY <1>2 DEF CallInv, PipeTypes
<1>4. ToSet(submitted') = ToSet(submitted)
  BY DEF clientVars, taskVars
<1>5. Traffic' \subseteq Traffic \cup {m}
  BY <1>2, <1>4 DEF Traffic
<1>6. Carried
  BY <1>5 DEF Carried
<1> QED
  BY <1>3, <1>6, DaemonKeeps

\* The request at the head of stdin is taken.
LEMMA TakesHead ==
  ASSUME CallInv, NEW r, Takes(r)
  PROVE  /\ r \in Request /\ r \in ToSet(stdin) /\ r \in Traffic
         /\ stdin' \in Seq(Request) /\ ToSet(stdin') \subseteq ToSet(stdin)
<1>1. stdin \in Seq(Request)
  BY DEF CallInv, PipeTypes
<1> QED
  BY <1>1, ToSetTail DEF Takes, Traffic

\* The command daemon.
LEMMA CommandKeeps ==
  ASSUME CallInv, CommandStep
  PROVE  CallInv'
<1>1. UNCHANGED clientVars /\ UNCHANGED serving /\ CommandNext
  BY DEF CommandStep, DaemonStep
<1>2. child \in [Slot -> Request \cup {Free}] /\ serving \subseteq Request
  BY DEF CallInv, PipeTypes
<1>3. ASSUME NEW r \in ToSet(stdin), Refuse(r) \/ Reject(r)
      PROVE  CallInv'
  <2>1. Takes(r) /\ proc = "up" /\ proc' = "up" /\ nread' = nread /\ child' = child
    BY <1>3 DEF Refuse, Reject, Takes
  <2>2. PICK type \in {"error", "result"} : Writes(<<Says(type, r)>>)
    BY <1>3 DEF Refuse, Reject
  <2>3. InCharge' \subseteq InCharge \cup ToSet(stdin)
    BY <1>1, <2>1 DEF InCharge, Active
  <2>4. /\ r \in Request /\ r \in Traffic
        /\ stdin' \in Seq(Request) /\ ToSet(stdin') \subseteq ToSet(stdin)
    BY <2>1, TakesHead
  <2>5. Says(type, r) \in Line /\ Says(type, r).id = r.id /\ Says(type, r).call = r.call
    BY <2>4, SaysLine
  <2> QED
    BY <1>1, <1>2, <2>1, <2>2, <2>3, <2>4, <2>5, WritesOne
<1>4. ASSUME NEW r \in ToSet(stdin), Run(r)
      PROVE  CallInv'
  <2>1. Takes(r) /\ proc = "up" /\ proc' = "up" /\ nread' = nread /\ Writes(<<Says("ack", r)>>)
    BY <1>4 DEF Run, Takes
  <2>2. r \in Request
    BY <2>1, TakesHead
  <2>3. /\ child' \in [Slot -> Request \cup {Free}]
        /\ \A s \in Slot : child'[s] \in {child[s], r}
    BY <1>2, <1>4, <2>2 DEF Run
  <2>4. InCharge' \subseteq InCharge \cup ToSet(stdin)
    BY <1>1, <1>2, <2>3 DEF InCharge, Active
  <2> QED
    BY <1>1, <1>2, <2>1, <2>3, <2>4, TakesHead, SaysLine, WritesOne, ZenonT(40)
<1>5. ASSUME NEW s \in Slot, Progress(s) \/ Finish(s)
      PROVE  CallInv'
  <2>1. /\ proc = "up" /\ proc' = "up" /\ nread' = nread /\ stdin' = stdin
        /\ s \in Active
    BY <1>5 DEF Progress, Finish
  <2>2. child[s] \in Request /\ child[s] \in Traffic
    BY <1>2, <2>1 DEF Active, Traffic, InCharge
  <2>3. PICK type \in {"progress", "result"} : Writes(<<Says(type, child[s])>>)
    BY <1>5 DEF Progress, Finish
  <2>4. /\ child' \in [Slot -> Request \cup {Free}]
        /\ \A t \in Slot : child'[t] \in {child[t], Free}
    BY <1>2, <1>5 DEF Progress, Finish, Finished
  <2>5. InCharge' \subseteq InCharge
    BY <1>1, <1>2, <2>4 DEF InCharge, Active
  <2>6. stdin' \in Seq(Request) /\ ToSet(stdin') \subseteq ToSet(stdin)
    BY <2>1 DEF CallInv, PipeTypes
  <2>7. /\ Says(type, child[s]) \in Line
        /\ Says(type, child[s]).id = child[s].id /\ Says(type, child[s]).call = child[s].call
    BY <2>2, SaysLine, ZenonT(40)
  <2> QED
    BY <1>1, <1>2, <2>1, <2>2, <2>3, <2>4, <2>5, <2>6, <2>7, WritesOne
<1> QED
  BY <1>1, <1>3, <1>4, <1>5 DEF CommandNext, TakeCommand

\* The analyzer.
LEMMA AnalyzerKeeps ==
  ASSUME CallInv, AnalyzerStep
  PROVE  CallInv'
<1>1. UNCHANGED clientVars /\ UNCHANGED child /\ AnalyzerNext
  BY DEF AnalyzerStep, DaemonStep
<1>2. child \in [Slot -> Request \cup {Free}] /\ serving \subseteq Request
  BY DEF CallInv, PipeTypes
<1>3. ASSUME NEW r \in ToSet(stdin), TurnAway(r)
      PROVE  CallInv'
  <2>1. /\ Takes(r) /\ proc = "up" /\ proc' = "up" /\ nread' = nread /\ serving' = serving
        /\ Writes(<<Says("error", [r EXCEPT !.id = 0])>>)
    BY <1>3 DEF TurnAway, Takes
  <2>2. InCharge' = InCharge
    BY <1>1, <2>1 DEF InCharge, Active
  <2> QED
    BY <1>1, <1>2, <2>1, <2>2, TakesHead, SaysLine, WritesOne
<1>4. ASSUME NEW r \in ToSet(stdin), StartWorker(r)
      PROVE  CallInv'
  <2>1. /\ Takes(r) /\ proc = "up" /\ proc' = "up" /\ nread' = nread /\ out' = out
        /\ serving' = serving \cup {r}
    BY <1>4 DEF StartWorker, Takes
  <2>2. /\ r \in Request /\ r \in Traffic
        /\ stdin' \in Seq(Request) /\ ToSet(stdin') \subseteq ToSet(stdin)
    BY <2>1, TakesHead
  <2>3. PipeTypes'
    BY <1>1, <1>2, <2>1, <2>2 DEF CallInv, PipeTypes
  <2>4. Traffic' \subseteq Traffic
    BY <1>1, <2>1, <2>2 DEF Traffic, InCharge, Active, clientVars, taskVars
  <2> QED
    BY <1>1, <2>1, <2>3, <2>4, DaemonKeeps DEF Carried
<1>5. ASSUME NEW r \in serving, Work(r)
      PROVE  CallInv'
  <2>1. /\ proc = "up" /\ proc' = "up" /\ nread' = nread /\ stdin' = stdin
        /\ serving' = serving \ {r}
    BY <1>5 DEF Work
  <2>2. r \in Request /\ r \in Traffic
    BY <1>2 DEF Traffic, InCharge
  <2>3. PICK type \in {"error", "result"} : Writes(<<Says(type, r)>>)
    BY <1>5 DEF Work
  <2>4. InCharge' \subseteq InCharge
    BY <1>1, <2>1 DEF InCharge, Active
  <2>5. stdin' \in Seq(Request) /\ ToSet(stdin') \subseteq ToSet(stdin)
    BY <2>1 DEF CallInv, PipeTypes
  <2> QED
    BY <1>1, <1>2, <2>1, <2>2, <2>3, <2>4, <2>5, SaysLine, WritesOne, ZenonT(40)
<1> QED
  BY <1>1, <1>3, <1>4, <1>5 DEF AnalyzerNext, TakeQuery

\* Faults.
LEMMA FaultKeeps ==
  ASSUME CallInv, Crash \/ Hang
  PROVE  CallInv'
<1>1. UNCHANGED clientVars /\ out' = out /\ nread' = nread
  BY DEF Crash, Hang
<1>2. CASE Crash
  <2>1. /\ proc' = "down" /\ stdin' = <<>> /\ child' = NoChildren /\ serving' = {}
    BY <1>2 DEF Crash, DaemonKept
  <2>2. InCharge' = {}
    BY <2>1 DEF InCharge, Active, NoChildren
  <2>3. PipeTypes'
    BY <1>1, <2>1 DEF CallInv, PipeTypes, NoChildren
  <2>4. ToSet(stdin') = {}
    BY <2>1 DEF ToSet
  <2>5. Carried
    BY <1>1, <2>2, <2>4 DEF Carried, Traffic, clientVars, taskVars
  <2>6. OwnIds'
    BY <1>1, <2>5, CarriedOwn DEF clientVars, callVars, Call, Holder
  <2> QED
    BY <1>1, <2>1, <2>2, <2>3, <2>6
       DEF CallInv, ClientTypes, Waits, AnswerIsMine, Call, Holder, Tried, Parted, NoFalseDeath,
           clientVars, callVars, taskVars
<1>3. CASE Hang
  <2>1. proc = "up" /\ proc' = "hung" /\ stdin' = stdin /\ child' = child /\ serving' = serving
    BY <1>3 DEF Hang, daemonVars
  <2>2. PipeTypes' /\ Traffic' = Traffic
    BY <1>1, <2>1 DEF CallInv, PipeTypes, Traffic, InCharge, Active, clientVars, taskVars
  <2>3. OwnIds'
    BY <1>1, <2>2, CarriedOwn DEF Carried, clientVars, callVars, Call, Holder
  <2> QED
    BY <1>1, <2>1, <2>2, <2>3
       DEF CallInv, ClientTypes, Waits, AnswerIsMine, Call, Holder, Tried, Parted, NoFalseDeath,
           clientVars, callVars, taskVars
<1> QED
  BY <1>2, <1>3

-----------------------------------------------------------------------------
(* di-core: a call.                                                        *)

\* A process that has gone takes its work with it; another goes on with it.
LEMMA ChargeKept ==
  ASSUME CallInv, DaemonKept
  PROVE  /\ child' \in [Slot -> Request \cup {Free}] /\ serving' \subseteq Request
         /\ InCharge' \subseteq InCharge
         /\ proc' = "down" => InCharge' = {}
<1>1. CASE proc' = "down"
  <2>1. child' = NoChildren /\ serving' = {}
    BY <1>1 DEF DaemonKept
  <2>2. InCharge' = {}
    BY <2>1 DEF InCharge, Active, NoChildren
  <2> QED
    BY <2>1, <2>2 DEF NoChildren
<1>2. CASE proc' # "down"
  BY <1>2 DEF DaemonKept, CallInv, PipeTypes, InCharge, Active
<1> QED
  BY <1>1, <1>2

\* Traffic only shrinks where a step hands nothing on.
LEMMA LessTraffic ==
  ASSUME CallInv, DaemonKept, UNCHANGED out,
         ToSet(submitted') \subseteq ToSet(submitted), ToSet(stdin') \subseteq ToSet(stdin)
  PROVE  Carried
BY ChargeKept DEF Carried, Traffic

\* The mutex goes to the next caller.
LEMMA NextHolder ==
  ASSUME CallInv, lockq # <<>>, NEW status \in {"ok", "error", "failed", "unavailable"},
         Returns(status)
  PROVE  /\ lockq' \in Seq(Caller) /\ made' \in [Caller -> Nat]
         /\ result' \in [Caller -> {"none", "ok", "error", "failed", "unavailable"}]
         /\ attempts' = 0 /\ awaited' = 0 /\ reply' = None
         /\ result'[Holder] = status
<1>1. lockq \in Seq(Caller) /\ Holder \in Caller
  BY ToSetTail DEF CallInv, ClientTypes, Holder
<1> QED
  BY <1>1, ToSetTail DEF Returns, CallInv, ClientTypes

\* A call that returns leaves the daemon, and what is under way, to the next one.
LEMMA ReturnKeeps ==
  ASSUME CallInv, lockq # <<>>, NEW status \in {"ok", "error", "failed", "unavailable"},
         Returns(status), UNCHANGED <<pipeVars, max_attempts, inner, taskVars>>,
         next_id' \in {next_id, next_id + 1}, DaemonKept
  PROVE  CallInv'
<1>1. ClientTypes'
  BY NextHolder, SMTT(40) DEF CallInv, ClientTypes, taskVars, None
<1>2. PipeTypes'
  BY ChargeKept DEF CallInv, PipeTypes, pipeVars
<1>3. Waits' /\ Tried'
  BY NextHolder DEF Waits, AnswerIsMine, Tried, None
<1>4. Parted'
  BY ChargeKept DEF CallInv, Parted, NoFalseDeath, pipeVars, taskVars
<1>5. Carried
  BY LessTraffic DEF pipeVars, taskVars
<1>6. OwnIds'
  BY <1>5, CarriedOwn, NextHolder
<1> QED
  BY <1>1, <1>2, <1>3, <1>4, <1>6 DEF CallInv

\* Discarding the daemon ends everything that goes on with it.
LEMMA FailsKeeps ==
  ASSUME CallInv, lockq # <<>>, inner, Fails, UNCHANGED max_attempts,
         next_id' \in {next_id, next_id + 1}, DaemonKept
  PROVE  CallInv'
<1>1. CASE Returns("failed") /\ UNCHANGED <<pipeVars, inner, taskVars>>
  BY <1>1, ReturnKeeps
<1>2. CASE /\ attempts' = attempts + 1 /\ awaited' = 0 /\ reply' = None
           /\ Discarded
           /\ UNCHANGED <<lockq, want, made, result, reached>>
  <2>1. /\ ~inner' /\ ~task' /\ submitted' = <<>> /\ pending' = {} /\ proc' = "down"
        /\ UNCHANGED <<stdin, out, nread>>
    BY <1>2 DEF Discarded, TaskGone
  <2>2. ClientTypes'
    BY <1>2, <2>1 DEF CallInv, ClientTypes, None
  <2>3. PipeTypes'
    BY <2>1, ChargeKept DEF CallInv, PipeTypes
  <2>4. Parted' /\ OwnIds' /\ Tried'
    BY <2>1, ChargeKept DEF Parted, NoFalseDeath, OwnIds, Tried
  <2>5. Waits'
    BY <1>2 DEF Waits, AnswerIsMine, None
  <2> QED
    BY <2>2, <2>3, <2>4, <2>5 DEF CallInv
<1> QED
  BY <1>1, <1>2 DEF Fails

\* The holder of the mutex keeps it while others queue for it.
LEMMA BeginKeeps ==
  ASSUME CallInv, NEW c \in Caller, Begin(c), DaemonKept
  PROVE  CallInv'
<1>1. /\ lockq' = Append(lockq, c) /\ c \notin ToSet(lockq)
      /\ made' = [made EXCEPT ![c] = @ + 1]
      /\ UNCHANGED <<pipeVars, max_attempts, want, attempts, awaited, reply, inner, taskVars,
                     next_id, result, reached>>
  BY DEF Begin
<1>2. lockq \in Seq(Caller) /\ made \in [Caller -> Nat]
  BY DEF CallInv, ClientTypes
<1>3. lockq' \in Seq(Caller) /\ made' \in [Caller -> Nat] /\ lockq' # <<>>
  <2>1. lockq' \in Seq(Caller)
    BY <1>1, <1>2, ToSetAppend
  <2>2. Len(lockq') = Len(lockq) + 1 /\ Len(lockq) \in Nat
    BY <1>1, <1>2, AppendProperties, LenProperties
  <2>3. Len(lockq') # 0
    BY <2>2
  <2> QED
    BY <1>1, <1>2, <2>1, <2>3, EmptySeq
<1>4. lockq # <<>> => Call' = Call
  <2> SUFFICES ASSUME lockq # <<>>
               PROVE  Call' = Call
    OBVIOUS
  <2>1. Head(lockq) \in ToSet(lockq) /\ Head(lockq) \in Caller
    BY <1>2, ToSetTail
  <2>2. Head(lockq') = Head(lockq)
    BY <1>1, <1>2, HeadTailProperties, AppendProperties, EmptySeq, LenProperties
  <2> QED
    BY <1>1, <1>2, <2>1, <2>2 DEF Call, Holder
<1>5. ClientTypes'
  BY <1>1, <1>3 DEF CallInv, ClientTypes, taskVars
<1>6. PipeTypes'
  BY <1>1, ChargeKept DEF CallInv, PipeTypes, pipeVars
<1>7. Parted' /\ Tried'
  BY <1>1, ChargeKept DEF CallInv, Parted, NoFalseDeath, Tried, pipeVars, taskVars
<1>8. Carried
  BY <1>1, LessTraffic DEF pipeVars, taskVars
<1>9. awaited # 0 => lockq # <<>>
  BY DEF CallInv, Waits
<1>10. OwnIds'
  BY <1>1, <1>4, <1>8, <1>9, CarriedOwn
<1>11. Waits'
  BY <1>1, <1>3, <1>4, <1>9 DEF CallInv, Waits, AnswerIsMine, None
<1> QED
  BY <1>5, <1>6, <1>7, <1>10, <1>11 DEF CallInv

\* The request gets an id that nothing under way carries.
LEMMA SubmitKeeps ==
  ASSUME CallInv, NEW kind \in Kind, Submit(kind), DaemonKept
  PROVE  CallInv'
<1> DEFINE request == [id |-> next_id, kind |-> kind, call |-> Call]
<1>1. /\ lockq # <<>> /\ awaited = 0 /\ inner /\ task
      /\ awaited' = next_id /\ next_id' = next_id + 1
      /\ submitted' = Append(submitted, request)
      /\ reached' = (reached \/ proc # "down")
      /\ UNCHANGED <<pipeVars, max_attempts, lockq, attempts, reply, inner, task, pending, made, result>>
  BY DEF Submit, FreshId
<1>2. lockq \in Seq(Caller) /\ made \in [Caller -> Nat] /\ next_id \in Nat \ {0}
      /\ submitted \in Seq(Request)
  BY DEF CallInv, ClientTypes
<1>3. Call' = Call
  BY <1>1 DEF Call, Holder
<1>4. request \in Request
  <2>1. Call \in Caller \X Nat
    BY <1>1, <1>2, ToSetTail DEF Call, Holder
  <2> QED
    BY <1>2, <2>1 DEF Request
<1>5. submitted' \in Seq(Request) /\ ToSet(submitted') = ToSet(submitted) \cup {request}
  BY <1>1, <1>2, <1>4, ToSetAppend
<1>6. request.id = next_id /\ request.call = Call
  OBVIOUS
<1> HIDE DEF request
<1>7. ClientTypes'
  BY <1>1, <1>2, <1>5 DEF CallInv, ClientTypes
<1>8. PipeTypes'
  BY <1>1, ChargeKept DEF CallInv, PipeTypes, pipeVars
<1>9. Parted' /\ Tried' /\ Waits'
  <2>1. Parted'
    BY <1>1, ChargeKept DEF CallInv, Parted, NoFalseDeath, pipeVars
  <2>2. Tried'
    BY <1>1 DEF CallInv, Tried
  <2>3. reply' = None
    BY <1>1 DEF CallInv, Waits
  <2>4. awaited' # 0
    BY <1>1, <1>2
  <2> QED
    BY <1>1, <2>1, <2>2, <2>3, <2>4 DEF Waits, AnswerIsMine, None
<1>10. Traffic' \subseteq Traffic \cup {request}
  BY <1>1, <1>5, ChargeKept DEF Traffic, pipeVars
<1>11. \A r \in Traffic : r.id \in 0 .. next_id - 1
  BY <1>1 DEF CallInv, OwnIds, Ours
<1>12. OwnIds'
  <2> SUFFICES ASSUME NEW m \in Traffic'
               PROVE  Ours(m)'
    BY DEF OwnIds
  <2>1. CASE m = request
    BY <1>1, <1>2, <1>3, <1>6, <2>1 DEF Ours
  <2>2. CASE m \in Traffic
    BY <1>1, <1>2, <1>11, <2>2 DEF Ours
  <2> QED
    BY <1>10, <2>1, <2>2
<1> QED
  BY <1>7, <1>8, <1>9, <1>12 DEF CallInv

\* Another process: nothing of its predecessor is left.
LEMMA RestartKeeps ==
  ASSUME CallInv, Restart, DaemonKept
  PROVE  CallInv'
<1>1. /\ lockq # <<>> /\ awaited = 0 /\ ~inner
      /\ inner' /\ task' /\ next_id' = 1 /\ reached'
      /\ proc' = "up" /\ stdin' = <<>> /\ out' = <<>> /\ nread' = 0
      /\ UNCHANGED <<max_attempts, lockq, want, attempts, awaited, reply, made, result, submitted,
                     pending>>
  BY DEF Restart, FreshPipes
<1>2. submitted = <<>> /\ InCharge = {}
  BY <1>1 DEF CallInv, Parted
<1>3. ClientTypes'
  BY <1>1 DEF CallInv, ClientTypes
<1>4. PipeTypes'
  BY <1>1, ChargeKept DEF CallInv, PipeTypes
<1>5. Traffic' = {}
  BY <1>1, <1>2, ChargeKept DEF Traffic, ToSet
<1>6. Waits' /\ Parted' /\ Tried' /\ OwnIds'
  BY <1>1, <1>5 DEF CallInv, Waits, AnswerIsMine, None, Parted, NoFalseDeath, Tried, OwnIds
<1> QED
  BY <1>3, <1>4, <1>6 DEF CallInv

\* A process that did not come up changes nothing but the count of attempts.
LEMMA RestartFailsKeeps ==
  ASSUME CallInv, RestartFails, DaemonKept
  PROVE  CallInv'
<1>1. /\ lockq # <<>> /\ awaited = 0 /\ ~inner
      /\ UNCHANGED <<pipeVars, max_attempts, inner, taskVars, next_id>>
  BY DEF RestartFails
<1>2. CASE Returns("unavailable")
  BY <1>1, <1>2, ReturnKeeps
<1>3. CASE /\ attempts' = attempts + 1
           /\ UNCHANGED <<lockq, want, awaited, reply, made, result, reached>>
  <2>1. ClientTypes'
    BY <1>1, <1>3 DEF CallInv, ClientTypes, taskVars
  <2>2. PipeTypes'
    BY <1>1, ChargeKept DEF CallInv, PipeTypes, pipeVars
  <2>3. Waits' /\ Parted' /\ Tried' /\ OwnIds'
    BY <1>1, <1>3, ChargeKept
       DEF CallInv, Waits, AnswerIsMine, None, Parted, NoFalseDeath, Tried, OwnIds, pipeVars, taskVars
  <2> QED
    BY <2>1, <2>2, <2>3 DEF CallInv
<1> QED
  BY <1>2, <1>3 DEF RestartFails

\* A call hears of its answer, of its daemon's death, or of nothing for too long.
LEMMA EndKeeps ==
  ASSUME CallInv, SubmitRefused \/ Answered \/ TimesOut, DaemonKept
  PROVE  CallInv'
<1>1. /\ lockq # <<>> /\ inner /\ UNCHANGED max_attempts
      /\ next_id' \in {next_id, next_id + 1}
  BY DEF CallInv, Waits, SubmitRefused, Answered, TimesOut, NoReply
<1>2. CASE Fails
  BY <1>1, <1>2, FailsKeeps
<1>3. CASE /\ awaited # 0 /\ reply # None /\ reply.status # "dead"
           /\ Returns(reply.status) /\ UNCHANGED <<pipeVars, inner, taskVars>>
  <2>1. reply.status \in {"ok", "error"}
    BY <1>3 DEF CallInv, ClientTypes
  <2> QED
    BY <1>1, <1>3, <2>1, ReturnKeeps
<1> QED
  BY <1>2, <1>3 DEF SubmitRefused, Answered, TimesOut

-----------------------------------------------------------------------------
(* di-core: the task that owns the pipes.                                  *)

\* What the task tells the waiting call, at most once, and only if it waits for it.
LEMMA TellsWaiting ==
  ASSUME CallInv, NEW ids \in SUBSET (Nat \ {0}), NEW status \in {"ok", "error", "dead"}, NEW call,
         Tell(ids, status, call),
         awaited \in ids /\ status # "dead" => call = Call,
         UNCHANGED <<awaited, lockq, made, inner>>
  PROVE  /\ Waits'
         /\ reply' = None \/ reply'.status \in {"ok", "error", "dead"}
BY DEF CallInv, ClientTypes, Waits, AnswerIsMine, Tell, None, Call, Holder

\* Once the task has ended, the process is gone.
LEMMA TaskEnds ==
  ASSUME CallInv, proc = "down", NEW ids \in SUBSET (Nat \ {0}), Dies(ids), DaemonKept,
         UNCHANGED <<pipeVars, max_attempts, lockq, want, attempts, awaited, made, result, reached,
                     inner, next_id>>
  PROVE  CallInv'
<1>1. ~task' /\ submitted' = <<>> /\ pending' = {} /\ Tell(ids, "dead", <<>>)
  BY DEF Dies, TaskGone
<1>2. Waits' /\ (reply' = None \/ reply'.status \in {"ok", "error", "dead"})
  BY <1>1, TellsWaiting
<1>3. ClientTypes'
  BY <1>1, <1>2 DEF CallInv, ClientTypes
<1>4. PipeTypes'
  BY ChargeKept DEF CallInv, PipeTypes, pipeVars
<1>5. Parted' /\ Tried'
  BY <1>1, ChargeKept DEF CallInv, Parted, NoFalseDeath, Tried, pipeVars
<1>6. ToSet(submitted') = {}
  BY <1>1 DEF ToSet
<1>7. Carried
  BY <1>6, LessTraffic DEF pipeVars
<1>8. OwnIds'
  BY <1>7, CarriedOwn DEF Call, Holder
<1> QED
  BY <1>2, <1>3, <1>4, <1>5, <1>8 DEF CallInv

\* A submission goes from the channel into the pipe, or finds the pipe broken.
LEMMA ForwardKeeps ==
  ASSUME CallInv, Forward, DaemonKept
  PROVE  CallInv'
<1>1. /\ task /\ submitted # <<>> /\ submitted \in Seq(Request) /\ stdin \in Seq(Request)
      /\ UNCHANGED <<proc, out, nread, max_attempts, calling, inner, next_id>>
  BY DEF Forward, CallInv, ClientTypes, PipeTypes
<1>2. CASE proc = "down"
  <2> DEFINE ids == pending \cup {q.id : q \in ToSet(submitted)}
  <2>1. Dies(ids) /\ UNCHANGED stdin
    BY <1>2 DEF Forward
  <2>2. ids \in SUBSET (Nat \ {0})
    <3>1. \A q \in ToSet(submitted) : q \in Request
      BY <1>1, ElementOfSeq, LenProperties DEF ToSet
    <3> QED
      BY <3>1 DEF CallInv, ClientTypes, Request
  <2> HIDE DEF ids
  <2> QED
    BY <1>1, <1>2, <2>1, <2>2, TaskEnds DEF calling, pipeVars
<1>3. CASE proc # "down"
  <2> DEFINE r == Head(submitted)
  <2>1. /\ stdin' = Append(stdin, r) /\ pending' = pending \cup {r.id}
        /\ submitted' = Tail(submitted) /\ UNCHANGED <<task, reply>>
    BY <1>3 DEF Forward
  <2>2. /\ r \in ToSet(submitted) /\ r \in Request
        /\ submitted' \in Seq(Request) /\ ToSet(submitted') \subseteq ToSet(submitted)
    BY <1>1, <2>1, ToSetTail
  <2> HIDE DEF r
  <2>3. stdin' \in Seq(Request) /\ ToSet(stdin') = ToSet(stdin) \cup {r}
    BY <1>1, <2>1, <2>2, ToSetAppend
  <2>4. ClientTypes'
    BY <1>1, <2>1, <2>2 DEF CallInv, ClientTypes, calling, Request
  <2>5. PipeTypes'
    BY <1>1, <2>3, ChargeKept DEF CallInv, PipeTypes
  <2>6. Waits' /\ Parted' /\ Tried'
    BY <1>1, <1>3, <2>1
       DEF CallInv, Waits, AnswerIsMine, None, Call, Holder, Parted, NoFalseDeath, Tried, calling
  <2>7. Traffic' \subseteq Traffic
    BY <1>1, <2>2, <2>3, ChargeKept DEF Traffic
  <2>8. OwnIds'
    BY <1>1, <2>7, CarriedOwn DEF Carried, calling, Call, Holder
  <2> QED
    BY <2>4, <2>5, <2>6, <2>8 DEF CallInv
<1> QED
  BY <1>2, <1>3

\* A request that is answered or given up leaves the table; the task goes on.
LEMMA PendingLess ==
  ASSUME CallInv, DaemonKept, pending' \subseteq pending, nread' \in Nat,
         UNCHANGED <<proc, stdin, out, max_attempts, lockq, want, attempts, awaited, made, result,
                     reached, inner, task, submitted, next_id>>,
         Waits', reply' = None \/ reply'.status \in {"ok", "error", "dead"}
  PROVE  CallInv'
<1>1. ClientTypes'
  BY DEF CallInv, ClientTypes
<1>2. PipeTypes'
  BY ChargeKept DEF CallInv, PipeTypes
<1>3. Parted' /\ Tried'
  BY ChargeKept DEF CallInv, Parted, NoFalseDeath, Tried
<1>4. Carried
  BY LessTraffic
<1>5. OwnIds'
  BY <1>4, CarriedOwn DEF Call, Holder
<1> QED
  BY <1>1, <1>2, <1>3, <1>5 DEF CallInv

\* A line that was awaited was made for the call that waits.
LEMMA ReadLineKeeps ==
  ASSUME CallInv, ReadLine, DaemonKept
  PROVE  CallInv'
<1> DEFINE m == Head(Unread)
<1>1. /\ task /\ Unread # <<>> /\ nread' = nread + 1
      /\ UNCHANGED <<proc, stdin, out, max_attempts, calling, inner, task, submitted, next_id>>
      /\ \/ /\ m.id \in pending /\ pending' = pending \ {m.id}
            /\ \E status \in {"ok", "error"} : Tell({m.id}, status, m.call)
         \/ UNCHANGED <<pending, reply>>
  BY DEF ReadLine
<1>2. m \in ToSet(out) /\ nread' \in Nat /\ pending \subseteq Nat \ {0}
  BY <1>1, NextLine DEF CallInv, ClientTypes, PipeTypes, Unread
<1>3. inner
  BY <1>1 DEF CallInv, Parted
<1>4. awaited # 0 /\ m.id = awaited => m.call = Call
  BY <1>2, <1>3 DEF CallInv, OwnIds, Ours, Traffic
<1> HIDE DEF m
<1>5. CASE UNCHANGED <<pending, reply>>
  <2>1. Waits' /\ (reply' = None \/ reply'.status \in {"ok", "error", "dead"})
    BY <1>1, <1>5 DEF CallInv, ClientTypes, Waits, AnswerIsMine, Call, Holder, calling
  <2> QED
    BY <1>1, <1>2, <1>5, <2>1, PendingLess DEF calling
<1>6. ASSUME m.id \in pending, pending' = pending \ {m.id},
             NEW status \in {"ok", "error"}, Tell({m.id}, status, m.call)
      PROVE  CallInv'
  <2>1. {m.id} \in SUBSET (Nat \ {0}) /\ (awaited \in {m.id} => m.call = Call)
    BY <1>2, <1>4, <1>6
  <2>2. Waits' /\ (reply' = None \/ reply'.status \in {"ok", "error", "dead"})
    BY <1>1, <1>6, <2>1, TellsWaiting DEF calling
  <2> QED
    BY <1>1, <1>2, <1>6, <2>2, PendingLess DEF calling
<1> QED
  BY <1>1, <1>5, <1>6

\* The end of stdout is the end of the process.
LEMMA EndOfFileKeeps ==
  ASSUME CallInv, EndOfFile, DaemonKept
  PROVE  CallInv'
BY TaskEnds DEF EndOfFile, calling, CallInv, ClientTypes

\* A deadline ends one request.
LEMMA ExpireKeeps ==
  ASSUME CallInv, NEW id \in pending, Expire(id), DaemonKept
  PROVE  CallInv'
<1>1. /\ pending' = pending \ {id} /\ Tell({id}, "dead", <<>>)
      /\ UNCHANGED <<pipeVars, max_attempts, calling, inner, task, submitted, next_id>>
  BY DEF Expire
<1>2. {id} \in SUBSET (Nat \ {0}) /\ nread' \in Nat
  BY <1>1 DEF CallInv, ClientTypes, PipeTypes, pipeVars
<1>3. Waits' /\ (reply' = None \/ reply'.status \in {"ok", "error", "dead"})
  BY <1>1, <1>2, TellsWaiting DEF calling
<1> QED
  BY <1>1, <1>2, <1>3, PendingLess DEF calling, pipeVars

-----------------------------------------------------------------------------
(* The theorems.                                                           *)

\* A daemon that has just come up, and nothing under way.
LEMMA CallInit == ToolInit => CallInv
<1> SUFFICES ASSUME ToolInit
             PROVE  CallInv
  OBVIOUS
<1>1. ClientTypes
  BY DEF ToolInit, ClientInit, ClientTypes
<1>2. PipeTypes
  BY DEF ToolInit, PipesInit, CommandInit, AnalyzerInit, NoChildren, PipeTypes
<1>3. Traffic = {} /\ InCharge = {}
  BY DEF ToolInit, ClientInit, PipesInit, CommandInit, AnalyzerInit, NoChildren, Traffic,
         InCharge, Active, ToSet
<1>4. Waits /\ Parted /\ OwnIds /\ Tried
  BY <1>3 DEF ToolInit, ClientInit, PipesInit, Waits, AnswerIsMine, None, Parted, NoFalseDeath,
              OwnIds, Tried
<1> QED
  BY <1>1, <1>2, <1>4 DEF CallInv

\* One lemma above per action.
LEMMA CallNext == CallInv /\ [ToolNext]_allVars => CallInv'
<1> SUFFICES ASSUME CallInv, [ToolNext]_allVars
             PROVE  CallInv'
  OBVIOUS
<1>1. CASE ClientStep(ClientNext)
  <2>1. ClientNext /\ DaemonKept
    BY <1>1 DEF ClientStep
  <2> QED
    BY <2>1, BeginKeeps, RestartKeeps, RestartFailsKeeps, SubmitKeeps, EndKeeps, ForwardKeeps,
       ReadLineKeeps, EndOfFileKeeps, ExpireKeeps DEF ClientNext
<1>2. CASE UNCHANGED allVars
  <2>1. UNCHANGED <<pipeVars, clientVars, child, serving>>
    BY <1>2 DEF allVars, daemonVars
  <2>2. ClientTypes' /\ PipeTypes' /\ Tried'
    BY <2>1 DEF pipeVars, clientVars, callVars, taskVars, CallInv, ClientTypes, PipeTypes, Tried
  <2>3. Waits'
    BY <2>1 DEF clientVars, callVars, CallInv, Waits, AnswerIsMine, Call, Holder
  <2>4. InCharge' = InCharge
    BY <2>1 DEF InCharge, Active
  <2>5. Parted'
    BY <2>1, <2>4 DEF pipeVars, clientVars, callVars, taskVars, CallInv, Parted, NoFalseDeath
  <2>6. Traffic' = Traffic
    BY <2>1, <2>4 DEF pipeVars, clientVars, taskVars, Traffic
  <2>7. OwnIds'
    BY <2>1, <2>6, CarriedOwn DEF Carried, clientVars, callVars, Call, Holder
  <2> QED
    BY <2>2, <2>3, <2>5, <2>7 DEF CallInv
<1> QED
  BY <1>1, <1>2, CommandKeeps, AnalyzerKeeps, FaultKeeps DEF ToolNext

\* Ids, answers, attempts and the life of the process fit together along every run.
THEOREM CallInvariance == ToolSpec => []CallInv
BY CallInit, CallNext, PTL DEF ToolSpec

\* Timeouts, late answers and restarts never mix up answers: ids are unique per daemon, and
\* the task hands an answer only to the call that waits for its id.
THEOREM AnswerInvariance == ToolSpec => []AnswerIsMine
BY CallInvariance, PTL DEF CallInv, Waits

\* The task ends only with its process or with its handle.
THEOREM DeathInvariance == ToolSpec => []NoFalseDeath
BY CallInvariance, PTL DEF CallInv, Parted

\* Only a call that fails leaves "failed" behind.
LEMMA FailedReturns ==
  ASSUME CallInv, [ToolNext]_allVars, GivesUp
  PROVE  Fails /\ inner /\ Returns("failed")
<1>1. /\ lockq # <<>> /\ lockq' = Tail(lockq) /\ lockq' # lockq
      /\ lockq \in Seq(Caller) /\ result'[Holder] = "failed"
  BY ToSetTail DEF GivesUp, CallInv, ClientTypes
<1>2. ASSUME NEW c \in Caller, Begin(c)
      PROVE  FALSE
  <2>1. lockq' = Append(lockq, c)
    BY <1>2 DEF Begin
  <2>2. Len(lockq') = Len(lockq) + 1 /\ Len(lockq') = Len(lockq) - 1 /\ Len(lockq) \in Nat
    BY <1>1, <2>1, AppendProperties, HeadTailProperties, LenProperties
  <2>3. \A n \in Nat : n + 1 # n - 1
    OBVIOUS
  <2> QED
    BY <2>2, <2>3
<1>3. ASSUME NEW status \in {"ok", "error", "unavailable"}, Returns(status)
      PROVE  FALSE
  BY <1>1, <1>3, NextHolder
<1>4. CASE SubmitRefused \/ Answered \/ TimesOut
  <2>1. inner
    BY <1>4 DEF CallInv, Waits, SubmitRefused, Answered, TimesOut, NoReply
  <2>2. ~ (reply # None /\ reply.status # "dead" /\ Returns(reply.status))
    BY <1>3 DEF CallInv, ClientTypes
  <2>3. Fails
    BY <1>4, <2>2 DEF SubmitRefused, Answered, TimesOut
  <2> QED
    BY <1>1, <2>1, <2>3 DEF Fails
<1>5. lockq' # lockq => ClientStep(ClientNext)
  BY DEF ToolNext, CommandStep, AnalyzerStep, DaemonStep, Crash, Hang, clientVars, callVars, allVars
<1>6. CASE RestartFails
  BY <1>1, <1>3, <1>6 DEF RestartFails
<1>7. ASSUME Restart \/ (\E kind \in Kind : Submit(kind)) \/ Forward \/ ReadLine \/ EndOfFile
               \/ \E id \in pending : Expire(id)
      PROVE  FALSE
  BY <1>1, <1>7 DEF Restart, Submit, Forward, ReadLine, EndOfFile, Expire, calling
<1> QED
  BY <1>1, <1>2, <1>4, <1>5, <1>6, <1>7 DEF ClientStep, ClientNext

\* It fails on its second attempt, which has a process of its own.
LEMMA FailedReached ==
  ASSUME CallInv, [ToolNext]_allVars, GivesUp, ~IsCommand
  PROVE  reached
<1>1. Fails /\ inner /\ lockq' # lockq
  BY FailedReturns, ToSetTail DEF GivesUp, CallInv, ClientTypes
<1>2. max_attempts = 2 /\ attempts \in Nat
  BY DEF CallInv, ClientTypes, IsCommand
<1>3. attempts + 1 >= max_attempts
  BY <1>1 DEF Fails
<1>4. attempts # 0
  BY <1>2, <1>3
<1> QED
  BY <1>1, <1>2, <1>4 DEF CallInv, Tried

\* A query that fails has been tried on a living analyzer, however its predecessor died.
THEOREM QueryReaches == ToolSpec => QueryReachesDaemon
<1>1. CallInv /\ [ToolNext]_allVars => [GivesUp /\ ~IsCommand => reached]_allVars
  BY FailedReached
<1> QED
  BY <1>1, CallInvariance, PTL DEF ToolSpec, QueryReachesDaemon

-----------------------------------------------------------------------------
(* What a call starts, and what is told of it.                             *)

\* The requests that no slot or thread has taken yet, in the order they will be taken.
Queue == stdin \o submitted
Asks(k) == inner /\ \E r \in ToSet(Queue) : r.call = k
Due(k) == IF Asks(k) THEN 1 ELSE 0

\* No id and no call is there twice.
Distinct(s) == \A i, j \in DOMAIN s : i # j => s[i].id # s[j].id /\ s[i].call # s[j].call
Apart == inner => Distinct(Queue)

\* The calls that have not got as far as a request: those still to be made, and those that
\* wait for the mutex.
Ahead(k) == \/ k[2] > made[k[1]]
            \/ k[2] = made[k[1]] /\ k[1] \in ToSet(lockq) /\ k[1] # Holder

\* What the attempts of the holder, so far, allow.
Allowed == attempts + (IF awaited = 0 THEN 0 ELSE 1)

\* What was started and what still waits to be, within what the attempts allow.
Budget ==
  /\ started \in [Calls -> Nat]
  /\ attempts < max_attempts
  /\ \A i, j \in DOMAIN lockq : i # j => lockq[i] # lockq[j]
  /\ \A c \in ToSet(lockq) : made[c] \in 1 .. MaxCalls
  /\ \A k \in Calls : started[k] + Due(k) <= max_attempts
  /\ \A k \in Calls : Ahead(k) => started[k] = 0 /\ ~Asks(k)
  /\ lockq # <<>> => started[Call] + Due(Call) <= Allowed
  /\ lockq # <<>> /\ awaited = 0 => ~Asks(Call)

\* Of a request that waits nothing has been said; of one that runs, that it does, and no more.
Told ==
  /\ OneStory
  /\ inner => \A r \in ToSet(Queue) :
                /\ \A m \in ToSet(out) : m.id # r.id
                /\ \A s \in Active : child[s].id # r.id
  /\ \A s, t \in Active : s # t => child[s].id # child[t].id
  /\ \A s \in Active :
       /\ \E m \in ToSet(out) : m.id = child[s].id /\ m.type = "ack"
       /\ \A m \in ToSet(out) : m.id = child[s].id =>
            m.type \in {"ack", "progress"} /\ m.call = child[s].call

RunsInv == CallInv /\ Apart /\ Budget /\ (IsCommand => Told)

-----------------------------------------------------------------------------
(* The queue.                                                              *)

\* What is in the queue.
LEMMA QueueHas ==
  ASSUME CallInv
  PROVE  /\ Queue \in Seq(Request) /\ stdin \in Seq(Request) /\ submitted \in Seq(Request)
         /\ ToSet(Queue) = ToSet(stdin) \cup ToSet(submitted)
<1>1. stdin \in Seq(Request) /\ submitted \in Seq(Request)
  BY DEF CallInv, PipeTypes, ClientTypes
<1>2. ToSet(Queue) = ToSet(stdin) \cup ToSet(submitted)
  <2>1. Range(Queue) = Range(stdin) \cup Range(submitted)
    BY <1>1, RangeConcatenation DEF Queue
  <2>2. Range(Queue) = ToSet(Queue) /\ Range(stdin) = ToSet(stdin) /\ Range(submitted) = ToSet(submitted)
    BY DEF Range, ToSet
  <2> QED
    BY <2>1, <2>2
<1> QED
  BY <1>1, <1>2, ConcatProperties DEF Queue

\* A request that goes from the channel into the pipe keeps its place.
LEMMA Forwarded ==
  ASSUME NEW S, NEW s \in Seq(S), NEW t \in Seq(S), t # <<>>
  PROVE  Append(s, Head(t)) \o Tail(t) = s \o t
<1> DEFINE a == Append(s, Head(t))
<1>1. /\ Head(t) \in S /\ Tail(t) \in Seq(S) /\ Len(Tail(t)) = Len(t) - 1
      /\ \A i \in 1 .. Len(Tail(t)) : Tail(t)[i] = t[i + 1]
      /\ Head(t) = t[1]
  BY HeadTailProperties
<1>2. /\ a \in Seq(S) /\ Len(a) = Len(s) + 1
      /\ \A i \in 1 .. Len(s) : a[i] = s[i]
      /\ a[Len(s) + 1] = t[1]
  BY <1>1, AppendProperties
<1>3. /\ a \o Tail(t) \in Seq(S) /\ Len(a \o Tail(t)) = Len(a) + Len(Tail(t))
      /\ \A i \in 1 .. Len(a) + Len(Tail(t)) : (a \o Tail(t))[i] =
           IF i <= Len(a) THEN a[i] ELSE Tail(t)[i - Len(a)]
  BY <1>1, <1>2, ConcatProperties
<1>4. /\ s \o t \in Seq(S) /\ Len(s \o t) = Len(s) + Len(t)
      /\ \A i \in 1 .. Len(s) + Len(t) : (s \o t)[i] = IF i <= Len(s) THEN s[i] ELSE t[i - Len(s)]
  BY ConcatProperties
<1>5. Len(s) \in Nat /\ Len(t) \in Nat /\ Len(t) # 0
  BY LenProperties, EmptySeq
<1> HIDE DEF a
<1>6. Len(a \o Tail(t)) = Len(s \o t)
  BY <1>1, <1>2, <1>3, <1>4, <1>5
<1>7. ASSUME NEW i \in 1 .. Len(s \o t)
      PROVE  (a \o Tail(t))[i] = (s \o t)[i]
  <2>1. CASE i <= Len(s) + 1
    BY <1>1, <1>2, <1>3, <1>4, <1>5, <2>1
  <2>2. CASE i > Len(s) + 1
    <3>1. i - Len(a) \in 1 .. Len(Tail(t)) /\ i - Len(a) + 1 = i - Len(s)
      BY <1>1, <1>2, <1>4, <1>5, <2>2
    <3> QED
      BY <1>1, <1>2, <1>3, <1>4, <1>5, <2>2, <3>1
  <2>3. i \in Int /\ Len(s) \in Int
    BY <1>4, <1>5
  <2>4. i <= Len(s) + 1 \/ i > Len(s) + 1
    BY <2>3
  <2> QED
    BY <2>1, <2>2, <2>4
<1> QED
  BY <1>3, <1>4, <1>6, <1>7, SeqEqual DEF a

\* Taking the head of the pipe takes the head of the queue.
LEMMA TakenFirst ==
  ASSUME NEW S, NEW s \in Seq(S), NEW t \in Seq(S), s # <<>>
  PROVE  Tail(s) \o t = Tail(s \o t) /\ Head(s \o t) = Head(s) /\ s \o t # <<>>
<1>1. /\ Tail(s) \in Seq(S) /\ Len(Tail(s)) = Len(s) - 1
      /\ \A i \in 1 .. Len(Tail(s)) : Tail(s)[i] = s[i + 1]
      /\ Head(s) = s[1]
  BY HeadTailProperties
<1>2. /\ Tail(s) \o t \in Seq(S) /\ Len(Tail(s) \o t) = Len(Tail(s)) + Len(t)
      /\ \A i \in 1 .. Len(Tail(s)) + Len(t) : (Tail(s) \o t)[i] =
           IF i <= Len(Tail(s)) THEN Tail(s)[i] ELSE t[i - Len(Tail(s))]
  BY <1>1, ConcatProperties
<1>3. /\ s \o t \in Seq(S) /\ Len(s \o t) = Len(s) + Len(t)
      /\ \A i \in 1 .. Len(s) + Len(t) : (s \o t)[i] = IF i <= Len(s) THEN s[i] ELSE t[i - Len(s)]
  BY ConcatProperties
<1>4. Len(s) \in Nat /\ Len(t) \in Nat /\ Len(s) # 0
  BY LenProperties, EmptySeq
<1> DEFINE u == s \o t
<1>5. u # <<>>
  BY <1>3, <1>4, EmptySeq
<1>6. /\ Tail(u) \in Seq(S) /\ Len(Tail(u)) = Len(u) - 1
      /\ \A i \in 1 .. Len(Tail(u)) : Tail(u)[i] = u[i + 1]
      /\ Head(u) = u[1]
  BY <1>3, <1>5, HeadTailProperties
<1>7. Head(u) = Head(s)
  BY <1>1, <1>3, <1>4, <1>6
<1>8. Len(Tail(u)) = Len(Tail(s) \o t)
  BY <1>1, <1>2, <1>3, <1>4, <1>6
<1>9. ASSUME NEW i \in 1 .. Len(Tail(u))
      PROVE  Tail(u)[i] = (Tail(s) \o t)[i]
  <2>1. Tail(u)[i] = IF i + 1 <= Len(s) THEN s[i + 1] ELSE t[i + 1 - Len(s)]
    BY <1>3, <1>4, <1>6
  <2>2. (Tail(s) \o t)[i] = IF i <= Len(s) - 1 THEN s[i + 1] ELSE t[i - (Len(s) - 1)]
    BY <1>1, <1>2, <1>3, <1>4, <1>6
  <2>3. i - (Len(s) - 1) = i + 1 - Len(s)
    BY <1>4
  <2> QED
    BY <1>4, <2>1, <2>2, <2>3
<1> HIDE DEF u
<1>10. Tail(u) = Tail(s) \o t
  BY <1>2, <1>6, <1>8, <1>9, SeqEqual
<1> QED
  BY <1>5, <1>7, <1>10 DEF u

\* What is behind the head of a queue differs from the head.
LEMMA DistinctTail ==
  ASSUME NEW s \in Seq(Request), s # <<>>, Distinct(s)
  PROVE  /\ Distinct(Tail(s))
         /\ \A r \in ToSet(Tail(s)) : r.id # Head(s).id /\ r.call # Head(s).call
<1>1. /\ Tail(s) \in Seq(Request) /\ Len(Tail(s)) = Len(s) - 1
      /\ \A i \in 1 .. Len(Tail(s)) : Tail(s)[i] = s[i + 1]
      /\ Head(s) = s[1]
  BY HeadTailProperties
<1>2. /\ Len(s) \in Nat /\ Len(s) # 0
      /\ DOMAIN s = 1 .. Len(s) /\ DOMAIN Tail(s) = 1 .. Len(Tail(s))
  BY <1>1, LenProperties, EmptySeq
<1>3. \A i \in DOMAIN Tail(s) : i + 1 \in DOMAIN s /\ Tail(s)[i] = s[i + 1] /\ i + 1 # 1
  BY <1>1, <1>2
<1>4. Distinct(Tail(s))
  <2> SUFFICES ASSUME NEW i \in DOMAIN Tail(s), NEW j \in DOMAIN Tail(s), i # j
               PROVE  Tail(s)[i].id # Tail(s)[j].id /\ Tail(s)[i].call # Tail(s)[j].call
    BY DEF Distinct
  <2>1. i + 1 # j + 1
    BY <1>2
  <2> QED
    BY <1>3, <2>1 DEF Distinct
<1>5. 1 \in DOMAIN s
  BY <1>2
<1>6. \A i \in DOMAIN Tail(s) : Tail(s)[i].id # Head(s).id /\ Tail(s)[i].call # Head(s).call
  BY <1>1, <1>3, <1>5 DEF Distinct
<1> QED
  BY <1>4, <1>6 DEF ToSet

\* A request with an id and a call of its own leaves the queue distinct.
LEMMA DistinctAppend ==
  ASSUME NEW s \in Seq(Request), NEW x \in Request, Distinct(s),
         \A r \in ToSet(s) : r.id # x.id /\ r.call # x.call
  PROVE  Distinct(Append(s, x))
<1>1. /\ Append(s, x) \in Seq(Request) /\ Len(Append(s, x)) = Len(s) + 1
      /\ \A i \in 1 .. Len(s) : Append(s, x)[i] = s[i]
      /\ Append(s, x)[Len(s) + 1] = x
  BY AppendProperties
<1>2. DOMAIN Append(s, x) = DOMAIN s \cup {Len(s) + 1} /\ DOMAIN s = 1 .. Len(s)
  BY <1>1, LenProperties
<1>3. \A i \in DOMAIN s : s[i].id # x.id /\ s[i].call # x.call
  BY DEF ToSet
<1> QED
  BY <1>1, <1>2, <1>3 DEF Distinct

-----------------------------------------------------------------------------
(* What di-core's steps start: nothing.                                    *)

\* The holder's call is one of the calls.
LEMMA CallIsOne ==
  ASSUME CallInv, Budget, lockq # <<>>
  PROVE  /\ Holder \in Caller /\ Holder \in ToSet(lockq) /\ Call \in Calls
         /\ started[Call] \in Nat /\ Allowed \in Nat
<1>1. Holder \in Caller /\ Holder \in ToSet(lockq)
  BY ToSetTail DEF CallInv, ClientTypes, Holder
<1>2. Call \in Calls
  BY <1>1 DEF Budget, Call, Calls
<1>3. Allowed \in Nat
  BY DEF Allowed, CallInv, ClientTypes
<1> QED
  BY <1>1, <1>2, <1>3 DEF Budget

\* A step that starts nothing, and asks for nothing more.
LEMMA BudgetLess ==
  ASSUME CallInv, Budget, UNCHANGED <<started, max_attempts, attempts, lockq, awaited, made>>,
         \A k : Asks(k)' => Asks(k)
  PROVE  Budget'
<1>1. \A k : Due(k)' \in {0, 1} /\ Due(k) \in {0, 1} /\ (Due(k)' = 1 => Due(k) = 1)
  BY DEF Due
<1>2. Call' = Call /\ Allowed' = Allowed
  BY DEF Call, Holder, Allowed
<1>3. \A k : Ahead(k)' => Ahead(k)
  BY DEF Ahead, Holder
<1>4. \A k \in Calls : started'[k] + Due(k)' <= max_attempts'
  <2> SUFFICES ASSUME NEW k \in Calls
               PROVE  started[k] + Due(k)' <= max_attempts
    OBVIOUS
  <2>1. Due(k)' \in {0, 1} /\ Due(k) \in {0, 1} /\ (Due(k)' = 1 => Due(k) = 1)
    BY <1>1
  <2>2. started[k] \in Nat /\ max_attempts \in Nat /\ started[k] + Due(k) <= max_attempts
    BY DEF Budget, CallInv, ClientTypes
  <2> QED
    BY <2>1, <2>2
<1>5. \A k \in Calls : Ahead(k)' => started'[k] = 0 /\ ~Asks(k)'
  BY <1>3 DEF Budget
<1>6. lockq' # <<>> => started'[Call'] + Due(Call)' <= Allowed'
  <2> SUFFICES ASSUME lockq # <<>>
               PROVE  started[Call] + Due(Call)' <= Allowed
    BY <1>2
  <2>1. started[Call] \in Nat /\ Allowed \in Nat /\ started[Call] + Due(Call) <= Allowed
    BY CallIsOne DEF Budget
  <2>2. Due(Call)' \in {0, 1} /\ Due(Call) \in {0, 1} /\ (Due(Call)' = 1 => Due(Call) = 1)
    BY <1>2 DEF Due
  <2> QED
    BY <2>1, <2>2
<1>7. lockq' # <<>> /\ awaited' = 0 => ~Asks(Call)'
  BY <1>2 DEF Budget, Asks
<1> QED
  BY <1>4, <1>5, <1>6, <1>7 DEF Budget


\* Nobody is in the queue for the mutex twice, and the holder is its head only.
LEMMA OnceTail ==
  ASSUME NEW S, NEW s \in Seq(S), s # <<>>, \A i, j \in DOMAIN s : i # j => s[i] # s[j]
  PROVE  /\ \A i, j \in DOMAIN Tail(s) : i # j => Tail(s)[i] # Tail(s)[j]
         /\ Head(s) \notin ToSet(Tail(s)) /\ ToSet(Tail(s)) \subseteq ToSet(s)
<1>1. /\ Tail(s) \in Seq(S) /\ Len(Tail(s)) = Len(s) - 1
      /\ \A i \in 1 .. Len(Tail(s)) : Tail(s)[i] = s[i + 1]
      /\ Head(s) = s[1]
  BY HeadTailProperties
<1>2. /\ Len(s) \in Nat /\ Len(s) # 0
      /\ DOMAIN s = 1 .. Len(s) /\ DOMAIN Tail(s) = 1 .. Len(Tail(s))
  BY <1>1, LenProperties, EmptySeq
<1>3. \A i \in DOMAIN Tail(s) : i + 1 \in DOMAIN s /\ Tail(s)[i] = s[i + 1] /\ i + 1 # 1
  BY <1>1, <1>2
<1>4. ASSUME NEW i \in DOMAIN Tail(s), NEW j \in DOMAIN Tail(s), i # j
      PROVE  Tail(s)[i] # Tail(s)[j]
  <2>1. i + 1 # j + 1
    BY <1>2, <1>4
  <2> QED
    BY <1>3, <2>1
<1>5. 1 \in DOMAIN s
  BY <1>2
<1>6. \A i \in DOMAIN Tail(s) : Tail(s)[i] # Head(s)
  BY <1>1, <1>3, <1>5
<1> QED
  BY <1>1, <1>4, <1>6, ToSetTail DEF ToSet

\* The next holder has started nothing yet.
LEMMA BudgetReturns ==
  ASSUME CallInv, Budget, lockq # <<>>, NEW status, Returns(status),
         UNCHANGED <<started, max_attempts>>, \A k : Asks(k)' => Asks(k)
  PROVE  Budget'
<1>1. /\ lockq' = Tail(lockq) /\ attempts' = 0 /\ awaited' = 0 /\ made' = made
      /\ lockq \in Seq(Caller)
  BY DEF Returns, CallInv, ClientTypes
<1>2. /\ \A i, j \in DOMAIN lockq' : i # j => lockq'[i] # lockq'[j]
      /\ Holder \notin ToSet(lockq') /\ ToSet(lockq') \subseteq ToSet(lockq)
  BY <1>1, OnceTail DEF Budget, Holder
<1>3. lockq' \in Seq(Caller)
  BY <1>1, ToSetTail
<1>4. \A k : Due(k)' \in {0, 1} /\ Due(k) \in {0, 1} /\ (Due(k)' = 1 => Due(k) = 1)
  BY DEF Due
<1>5. \A k : Ahead(k)' => Ahead(k)
  BY <1>1, <1>2 DEF Ahead
<1>6. ASSUME NEW k \in Calls
      PROVE  started'[k] + Due(k)' <= max_attempts'
  <2>1. Due(k)' \in {0, 1} /\ Due(k) \in {0, 1} /\ (Due(k)' = 1 => Due(k) = 1)
    BY <1>4
  <2>2. started[k] \in Nat /\ max_attempts \in Nat /\ started[k] + Due(k) <= max_attempts
    BY DEF Budget, CallInv, ClientTypes
  <2> QED
    BY <2>1, <2>2
<1>7. \A k \in Calls : Ahead(k)' => started'[k] = 0 /\ ~Asks(k)'
  BY <1>5 DEF Budget
<1>8. ASSUME lockq' # <<>>
      PROVE  started'[Call'] + Due(Call)' <= Allowed' /\ ~Asks(Call)'
  <2>1. Holder' \in Caller /\ Holder' \in ToSet(lockq')
    BY <1>3, <1>8, ToSetTail DEF Holder
  <2>2. Holder' \in ToSet(lockq) /\ Holder' # Holder
    BY <1>2, <2>1
  <2>3. PICK k : k = Call'
    OBVIOUS
  <2>4. k = <<Holder', made[Holder']>>
    BY <1>1, <2>3 DEF Call
  <2>5. k \in Calls /\ Ahead(k)
    BY <2>1, <2>2, <2>4 DEF Budget, Calls, Ahead
  <2>6. started[k] = 0 /\ ~Asks(k)
    BY <2>5 DEF Budget
  <2>7. ~Asks(Call)'
    BY <2>3, <2>6 DEF Asks
  <2>8. Due(Call)' = 0 /\ Allowed' = 0
    BY <1>1, <2>7 DEF Due, Allowed
  <2> QED
    BY <2>3, <2>6, <2>7, <2>8
<1>9. attempts' < max_attempts'
  BY <1>1 DEF CallInv, ClientTypes
<1> QED
  BY <1>1, <1>2, <1>6, <1>7, <1>8, <1>9 DEF Budget

\* A call that queues for the mutex, or gets it at once, has started nothing yet.
LEMMA BudgetBegin ==
  ASSUME CallInv, Budget, NEW c \in Caller, Begin(c), UNCHANGED started
  PROVE  Budget'
<1>1. /\ lockq' = Append(lockq, c) /\ c \notin ToSet(lockq)
      /\ made' = [made EXCEPT ![c] = @ + 1] /\ made[c] < MaxCalls
      /\ UNCHANGED <<pipeVars, max_attempts, want, attempts, awaited, reply, inner, taskVars>>
      /\ lockq \in Seq(Caller) /\ made \in [Caller -> Nat]
  BY DEF Begin, CallInv, ClientTypes
<1>2. /\ lockq' \in Seq(Caller) /\ ToSet(lockq') = ToSet(lockq) \cup {c}
      /\ Len(lockq') = Len(lockq) + 1 /\ Len(lockq) \in Nat
      /\ \A i \in 1 .. Len(lockq) : lockq'[i] = lockq[i]
      /\ lockq'[Len(lockq) + 1] = c
  BY <1>1, ToSetAppend, AppendProperties, LenProperties
<1>3. DOMAIN lockq' = DOMAIN lockq \cup {Len(lockq) + 1} /\ DOMAIN lockq = 1 .. Len(lockq)
  BY <1>1, <1>2, LenProperties
<1>4. \A i, j \in DOMAIN lockq' : i # j => lockq'[i] # lockq'[j]
  <2>1. \A i \in DOMAIN lockq : lockq[i] # c
    BY <1>1 DEF ToSet
  <2> QED
    BY <1>2, <1>3, <2>1 DEF Budget
<1>5. \A k : Asks(k)' <=> Asks(k)
  BY <1>1 DEF Asks, Queue, pipeVars, taskVars
<1>6. \A k : Due(k)' = Due(k)
  BY <1>5 DEF Due
<1>7. \A d \in ToSet(lockq') : made'[d] \in 1 .. MaxCalls
  BY <1>1, <1>2, ToSetTail, ClientAssumption DEF Budget
<1>8. lockq # <<>> => Holder' = Holder
  BY <1>1, <1>2, HeadTailProperties, EmptySeq, LenProperties DEF Holder
<1>9. lockq = <<>> => Holder' = c
  <2> SUFFICES ASSUME lockq = <<>>
               PROVE  Head(lockq') = c
    BY DEF Holder
  <2>1. Len(lockq) = 0
    BY EmptySeq
  <2> QED
    BY <1>2, <2>1, HeadTailProperties, EmptySeq
<1>10. ASSUME NEW k \in Calls, Ahead(k)'
       PROVE  Ahead(k)
  <2>1. k[1] \in Caller /\ k[2] \in Nat
    BY DEF Calls
  <2>2. made[c] \in Nat /\ made'[c] = made[c] + 1 /\ \A d \in Caller : d # c => made'[d] = made[d]
    BY <1>1
  <2>3. CASE k[1] = c
    BY <1>10, <2>1, <2>2, <2>3 DEF Ahead
  <2>4. CASE k[1] # c
    <3>1. made'[k[1]] = made[k[1]]
      BY <2>1, <2>2, <2>4
    <3>2. CASE lockq = <<>>
      BY <1>2, <1>9, <1>10, <2>4, <3>1, <3>2 DEF Ahead, ToSet
    <3>3. CASE lockq # <<>>
      BY <1>2, <1>8, <1>10, <2>4, <3>1, <3>3 DEF Ahead
    <3> QED
      BY <3>2, <3>3
  <2> QED
    BY <2>3, <2>4
<1>11. CASE lockq # <<>>
  <2>1. Call' = Call
    <3>1. made'[Holder] = made[Holder]
      BY <1>1, <1>11, CallIsOne
    <3> QED
      BY <1>8, <1>11, <3>1 DEF Call
  <2>2. Allowed' = Allowed /\ Due(Call)' = Due(Call) /\ (Asks(Call)' <=> Asks(Call))
    BY <1>1, <2>1 DEF Allowed, Due, Asks, Queue, pipeVars, taskVars
  <2> QED
    BY <1>1, <1>4, <1>5, <1>6, <1>7, <1>10, <1>11, <2>1, <2>2 DEF Budget
<1>12. CASE lockq = <<>>
  <2>1. awaited = 0
    BY <1>12 DEF CallInv, Waits
  <2>2. PICK k : k = <<c, made[c] + 1>>
    OBVIOUS
  <2>3. k \in Calls /\ Ahead(k)
    BY <1>1, <2>2, ClientAssumption DEF Calls, Ahead
  <2>4. started[k] = 0 /\ ~Asks(k)
    BY <2>3 DEF Budget
  <2>5. Call' = k
    BY <1>1, <1>9, <1>12, <2>2 DEF Call
  <2>6. ~Asks(Call)'
    BY <1>5, <2>4, <2>5 DEF Asks
  <2>7. Due(Call)' = 0 /\ Allowed' = attempts /\ attempts \in Nat
    BY <1>1, <2>1, <2>6 DEF Due, Allowed, CallInv, ClientTypes
  <2>8. started'[Call'] + Due(Call)' <= Allowed'
    BY <2>4, <2>5, <2>7
  <2> QED
    BY <1>1, <1>4, <1>5, <1>6, <1>7, <1>10, <2>6, <2>8 DEF Budget
<1> QED
  BY <1>11, <1>12

\* An attempt that is given up leaves nothing that could still start.
LEMMA BudgetRetries ==
  ASSUME CallInv, Budget, attempts + 1 < max_attempts, attempts' = attempts + 1, awaited' = 0,
         ~inner', UNCHANGED <<started, max_attempts, lockq, made>>
  PROVE  Budget'
<1>1. \A k : ~Asks(k)' /\ Due(k)' = 0
  BY DEF Asks, Due
<1>2. Call' = Call /\ \A k : Ahead(k)' <=> Ahead(k)
  BY DEF Call, Holder, Ahead
<1>3. attempts' < max_attempts'
  OBVIOUS
<1>4. \A k \in Calls : started'[k] + Due(k)' <= max_attempts'
  <2> SUFFICES ASSUME NEW k \in Calls
               PROVE  started[k] + 0 <= max_attempts
    BY <1>1
  <2>1. Due(k) \in {0, 1}
    BY DEF Due
  <2>2. started[k] \in Nat /\ max_attempts \in Nat /\ started[k] + Due(k) <= max_attempts
    BY DEF Budget, CallInv, ClientTypes
  <2> QED
    BY <2>1, <2>2
<1>5. lockq' # <<>> => started'[Call'] + Due(Call)' <= Allowed' /\ ~Asks(Call)'
  <2> SUFFICES ASSUME lockq # <<>>
               PROVE  started[Call] + Due(Call)' <= Allowed' /\ ~Asks(Call)'
    BY <1>2
  <2>1. started[Call] \in Nat /\ Allowed \in Nat /\ started[Call] + Due(Call) <= Allowed
    BY CallIsOne DEF Budget
  <2>2. Due(Call) \in {0, 1} /\ ~Asks(Call)' /\ Due(Call)' = 0
    BY DEF Due, Asks
  <2>3. attempts \in Nat /\ Allowed <= attempts + 1 /\ Allowed' = attempts + 1
    BY DEF Allowed, CallInv, ClientTypes
  <2> QED
    BY <2>1, <2>2, <2>3
<1> QED
  BY <1>1, <1>2, <1>3, <1>4, <1>5 DEF Budget

\* A request of the holder's call: the first of this attempt.
LEMMA BudgetSubmit ==
  ASSUME CallInv, Budget, NEW kind \in Kind, Submit(kind), UNCHANGED started
  PROVE  Budget'
<1> DEFINE request == [id |-> next_id, kind |-> kind, call |-> Call]
<1>1. /\ lockq # <<>> /\ awaited = 0 /\ inner
      /\ awaited' = next_id /\ next_id \in Nat \ {0}
      /\ submitted' = Append(submitted, request)
      /\ UNCHANGED <<pipeVars, max_attempts, lockq, attempts, inner, made>>
  BY DEF Submit, FreshId, CallInv, ClientTypes
<1>2. request \in Request /\ request.call = Call
  <2>1. Call \in Caller \X Nat
    BY <1>1, ToSetTail DEF Call, Holder, CallInv, ClientTypes
  <2> QED
    BY <1>1, <2>1 DEF Request
<1> HIDE DEF request
<1>3. Queue \in Seq(Request) /\ Queue' = Append(Queue, request)
  <2>1. submitted' = submitted \o <<request>> /\ <<request>> \in Seq(Request)
    BY <1>1, <1>2, QueueHas, AppendIsConcat
  <2>2. stdin \o (submitted \o <<request>>) = (stdin \o submitted) \o <<request>>
    BY <2>1, QueueHas, ConcatAssociative
  <2> QED
    BY <1>1, <1>2, <2>1, <2>2, QueueHas, AppendIsConcat DEF Queue, pipeVars
<1>4. ToSet(Queue') = ToSet(Queue) \cup {request}
  BY <1>2, <1>3, ToSetAppend
<1>5. \A k : Asks(k)' => Asks(k) \/ k = Call
  BY <1>1, <1>2, <1>4 DEF Asks
<1>6. Call' = Call /\ \A k : Ahead(k)' <=> Ahead(k)
  BY <1>1 DEF Call, Holder, Ahead
<1>7. ~Ahead(Call)
  <2>1. made[Holder] \in Nat
    BY <1>1, CallIsOne DEF CallInv, ClientTypes
  <2> QED
    BY <2>1 DEF Ahead, Call
<1>8. /\ started[Call] \in Nat /\ attempts \in Nat /\ max_attempts \in Nat
      /\ attempts < max_attempts /\ started[Call] <= attempts
  <2>1. ~Asks(Call) /\ started[Call] + Due(Call) <= Allowed
    BY <1>1 DEF Budget
  <2>2. Due(Call) = 0 /\ Allowed = attempts + 0
    BY <1>1, <2>1 DEF Due, Allowed
  <2>3. started[Call] \in Nat /\ attempts \in Nat /\ max_attempts \in Nat /\ attempts < max_attempts
    BY <1>1, CallIsOne DEF Budget, CallInv, ClientTypes
  <2> QED
    BY <2>1, <2>2, <2>3
<1>9. Due(Call)' \in {0, 1} /\ Allowed' = attempts + 1 /\ awaited' # 0
  BY <1>1 DEF Due, Allowed
<1>10. ASSUME NEW k \in Calls
       PROVE  started'[k] + Due(k)' <= max_attempts'
  <2>1. CASE k = Call
    <3>1. Due(k)' \in {0, 1}
      BY DEF Due
    <3> QED
      BY <1>1, <1>8, <2>1, <3>1
  <2>2. CASE k # Call
    <3>1. Due(k)' \in {0, 1} /\ Due(k) \in {0, 1} /\ (Due(k)' = 1 => Due(k) = 1)
      BY <1>5, <2>2 DEF Due
    <3>2. started[k] \in Nat /\ max_attempts \in Nat /\ started[k] + Due(k) <= max_attempts
      BY DEF Budget, CallInv, ClientTypes
    <3> QED
      BY <1>1, <3>1, <3>2
  <2> QED
    BY <2>1, <2>2
<1>11. \A k \in Calls : Ahead(k)' => started'[k] = 0 /\ ~Asks(k)'
  BY <1>5, <1>6, <1>7 DEF Budget
<1>12. started'[Call'] + Due(Call)' <= Allowed'
  BY <1>6, <1>8, <1>9
<1> QED
  BY <1>1, <1>8, <1>9, <1>10, <1>11, <1>12 DEF Budget

\* Giving up: for good, or this attempt.
LEMMA BudgetFails ==
  ASSUME CallInv, Budget, lockq # <<>>, Fails, UNCHANGED <<started, max_attempts>>
  PROVE  Budget'
<1>1. CASE Returns("failed") /\ UNCHANGED <<pipeVars, inner, taskVars>>
  <2>1. \A k : Asks(k)' => Asks(k)
    BY <1>1 DEF Asks, Queue, pipeVars, taskVars
  <2> QED
    BY <1>1, <2>1, BudgetReturns
<1>2. CASE /\ attempts + 1 < max_attempts /\ attempts' = attempts + 1 /\ awaited' = 0
           /\ Discarded /\ UNCHANGED <<lockq, made>>
  BY <1>2, BudgetRetries DEF Discarded
<1> QED
  BY <1>1, <1>2 DEF Fails

\* The queue after a step of the task: as it was, or empty.
LEMMA TaskQueue ==
  ASSUME CallInv, Forward \/ ReadLine \/ EndOfFile \/ (\E id \in pending : Expire(id))
  PROVE  /\ inner' = inner /\ out' = out
         /\ ToSet(Queue') \subseteq ToSet(Queue)
         /\ Queue' = Queue \/ Queue' = stdin
<1>1. CASE Forward
  <2>1. inner' = inner /\ out' = out /\ submitted # <<>>
    BY <1>1 DEF Forward
  <2>2. CASE stdin' = Append(stdin, Head(submitted)) /\ submitted' = Tail(submitted)
    BY <2>1, <2>2, QueueHas, Forwarded DEF Queue
  <2>3. CASE stdin' = stdin /\ submitted' = <<>>
    <3>1. Queue' = stdin
      BY <2>3, QueueHas, ConcatEmptySeq DEF Queue
    <3> QED
      BY <2>1, <3>1, QueueHas
  <2> QED
    BY <1>1, <2>1, <2>2, <2>3 DEF Forward, Dies, TaskGone
<1>2. CASE ReadLine \/ \E id \in pending : Expire(id)
  BY <1>2 DEF ReadLine, Expire, Queue, pipeVars
<1>3. CASE EndOfFile
  <2>1. inner' = inner /\ out' = out /\ stdin' = stdin /\ submitted' = <<>>
    BY <1>3 DEF EndOfFile, Dies, TaskGone, pipeVars
  <2>2. Queue' = stdin
    BY <2>1, QueueHas, ConcatEmptySeq DEF Queue
  <2> QED
    BY <2>1, <2>2, QueueHas
<1> QED
  BY <1>1, <1>2, <1>3

\* A step of di-core starts nothing itself.
LEMMA BudgetClient ==
  ASSUME CallInv, Budget, ClientNext, UNCHANGED started
  PROVE  Budget'
<1>1. ASSUME NEW c \in Caller, Begin(c) PROVE Budget'
  BY <1>1, BudgetBegin
<1>2. CASE Restart
  <2>1. Queue' = <<>>
    BY <1>2 DEF Restart, FreshPipes, Queue, CallInv, Parted
  <2>2. \A k : ~Asks(k)'
    BY <2>1 DEF Asks, ToSet
  <2> QED
    BY <1>2, <2>2, BudgetLess DEF Restart
<1>3. CASE RestartFails
  <2>1. lockq # <<>> /\ awaited = 0 /\ ~inner /\ UNCHANGED <<pipeVars, max_attempts, inner, taskVars>>
    BY <1>3 DEF RestartFails
  <2>2. CASE Returns("unavailable")
    <3>1. \A k : Asks(k)' => Asks(k)
      BY <2>1 DEF Asks, Queue, pipeVars, taskVars
    <3> QED
      BY <2>1, <2>2, <3>1, BudgetReturns
  <2>3. CASE /\ ~(attempts + 1 >= max_attempts) /\ attempts' = attempts + 1
             /\ UNCHANGED <<lockq, awaited, made>>
    <3>1. attempts + 1 < max_attempts
      BY <2>3 DEF CallInv, ClientTypes
    <3> QED
      BY <2>1, <2>3, <3>1, BudgetRetries
  <2> QED
    BY <1>3, <2>2, <2>3 DEF RestartFails
<1>4. ASSUME NEW kind \in Kind, Submit(kind) PROVE Budget'
  BY <1>4, BudgetSubmit
<1>5. CASE SubmitRefused \/ Answered \/ TimesOut
  <2>1. lockq # <<>> /\ UNCHANGED max_attempts
    BY <1>5 DEF CallInv, Waits, SubmitRefused, Answered, TimesOut, NoReply
  <2>2. CASE Fails
    BY <2>1, <2>2, BudgetFails
  <2>3. CASE Returns(reply.status) /\ UNCHANGED <<pipeVars, inner, taskVars>>
    <3>1. \A k : Asks(k)' => Asks(k)
      BY <2>3 DEF Asks, Queue, pipeVars, taskVars
    <3> QED
      BY <2>1, <2>3, <3>1, BudgetReturns
  <2> QED
    BY <1>5, <2>2, <2>3 DEF SubmitRefused, Answered, TimesOut
<1>6. CASE Forward \/ ReadLine \/ EndOfFile \/ (\E id \in pending : Expire(id))
  <2>1. \A k : Asks(k)' => Asks(k)
    BY <1>6, TaskQueue DEF Asks
  <2>2. UNCHANGED <<max_attempts, attempts, lockq, awaited, made>>
    BY <1>6 DEF Forward, ReadLine, EndOfFile, Expire, calling
  <2> QED
    BY <2>1, <2>2, BudgetLess
<1> QED
  BY <1>1, <1>2, <1>3, <1>4, <1>5, <1>6 DEF ClientNext

-----------------------------------------------------------------------------
(* What the daemons start.                                                 *)

\* How many of the requests that get a slot or a thread in a step were made for k.
Starting(k) == Cardinality({r \in InCharge' \ InCharge : r.call = k})

\* A step that starts what waited to be started.
LEMMA BudgetSpent ==
  ASSUME CallInv, Budget, UNCHANGED clientVars, started' \in [Calls -> Nat],
         \A k \in Calls : started'[k] + Due(k)' <= started[k] + Due(k),
         \A k : Asks(k)' => Asks(k)
  PROVE  Budget'
<1>1. UNCHANGED <<max_attempts, attempts, lockq, awaited, made>>
  BY DEF clientVars, callVars
<1>2. Call' = Call /\ Allowed' = Allowed /\ \A k : Ahead(k)' <=> Ahead(k)
  BY <1>1 DEF Call, Holder, Allowed, Ahead
<1>3. ASSUME NEW k \in Calls
      PROVE  /\ started'[k] + Due(k)' <= max_attempts'
             /\ Ahead(k)' => started'[k] = 0 /\ ~Asks(k)'
  <2>1. Due(k)' \in {0, 1} /\ Due(k) \in {0, 1} /\ (~Asks(k) => Due(k) = 0)
    BY DEF Due
  <2>2. /\ started[k] \in Nat /\ started'[k] \in Nat /\ max_attempts \in Nat
        /\ started[k] + Due(k) <= max_attempts
        /\ started'[k] + Due(k)' <= started[k] + Due(k)
    BY DEF Budget, CallInv, ClientTypes
  <2>3. started'[k] + Due(k)' <= max_attempts
    BY <2>1, <2>2
  <2>4. ASSUME Ahead(k)
        PROVE  started'[k] = 0 /\ ~Asks(k)'
    <3>1. started[k] = 0 /\ ~Asks(k) /\ ~Asks(k)'
      BY <2>4 DEF Budget
    <3> QED
      BY <2>1, <2>2, <3>1
  <2> QED
    BY <1>1, <1>2, <2>3, <2>4
<1>4. ASSUME lockq # <<>>
      PROVE  started'[Call'] + Due(Call)' <= Allowed'
  <2>1. Call \in Calls /\ Allowed \in Nat /\ started[Call] + Due(Call) <= Allowed
    BY <1>4, CallIsOne DEF Budget
  <2>2. PICK k \in Calls : k = Call
    BY <2>1
  <2>3. started'[k] + Due(k)' <= started[k] + Due(k) /\ started[k] \in Nat /\ started'[k] \in Nat
    BY DEF Budget
  <2>4. Due(Call)' = Due(k)' /\ Due(Call) = Due(k)
    BY <1>2, <2>2 DEF Due, Asks
  <2>5. Due(k)' \in {0, 1} /\ Due(k) \in {0, 1}
    BY DEF Due
  <2> QED
    BY <1>2, <2>1, <2>2, <2>3, <2>4, <2>5
<1>5. lockq # <<>> /\ awaited = 0 => ~Asks(Call)'
  BY <1>2 DEF Budget, Asks
<1> QED
  BY <1>1, <1>2, <1>3, <1>4, <1>5 DEF Budget

\* A step that takes no request starts none.
LEMMA BudgetIdle ==
  ASSUME CallInv, Budget, UNCHANGED clientVars, UNCHANGED stdin, InCharge' \subseteq InCharge,
         started' = [k \in Calls |-> started[k] + Starting(k)]
  PROVE  Budget'
<1>1. ASSUME NEW k \in Calls
      PROVE  Starting(k) = 0
  <2>1. {r \in InCharge' \ InCharge : r.call = k} = {}
    OBVIOUS
  <2> QED
    BY <2>1, FS_EmptySet DEF Starting
<1>2. \A k \in Calls : started[k] \in Nat
  BY DEF Budget
<1>3. started' = started
  BY <1>1, <1>2 DEF Budget
<1>4. \A k : Asks(k)' => Asks(k)
  BY DEF Asks, Queue, clientVars, taskVars
<1> QED
  BY <1>3, <1>4, BudgetLess DEF clientVars, callVars

\* The request that is taken was the only one of its call that waited.
LEMMA BudgetTakes ==
  ASSUME CallInv, Apart, Budget, UNCHANGED clientVars,
         NEW r, Takes(r), InCharge' \subseteq InCharge \cup {r},
         started' = [k \in Calls |-> started[k] + Starting(k)]
  PROVE  Budget'
<1>1. /\ inner /\ inner' /\ stdin # <<>> /\ r = Head(stdin) /\ stdin' = Tail(stdin)
      /\ submitted' = submitted
  BY DEF Takes, CallInv, Parted, clientVars, taskVars
<1>2. Queue' = Tail(Queue) /\ r = Head(Queue) /\ Queue # <<>> /\ Queue \in Seq(Request)
  BY <1>1, QueueHas, TakenFirst DEF Queue
<1>3. r \in ToSet(Queue) /\ ToSet(Queue') \subseteq ToSet(Queue)
  BY <1>2, ToSetTail
<1>4. \A q \in ToSet(Queue') : q.call # r.call
  BY <1>1, <1>2, DistinctTail DEF Apart
<1>5. \A k : Asks(k)' => Asks(k) /\ k # r.call
  BY <1>1, <1>3, <1>4 DEF Asks
<1>6. Asks(r.call)
  BY <1>1, <1>3 DEF Asks
<1>7. ASSUME NEW k \in Calls
      PROVE  Starting(k) \in Nat /\ Starting(k) <= 1 /\ (k # r.call => Starting(k) = 0)
  <2> DEFINE new == {q \in InCharge' \ InCharge : q.call = k}
  <2>1. new = {} \/ (new = {r} /\ k = r.call)
    OBVIOUS
  <2>2. Cardinality(new) = 0 \/ (Cardinality(new) = 1 /\ k = r.call)
    BY <2>1, FS_EmptySet, FS_Singleton
  <2> QED
    BY <2>2 DEF Starting
<1>8. started' \in [Calls -> Nat]
  <2>1. \A k \in Calls : started[k] + Starting(k) \in Nat
    BY <1>7 DEF Budget
  <2> QED
    BY <2>1
<1>9. ASSUME NEW k \in Calls
      PROVE  started'[k] + Due(k)' <= started[k] + Due(k)
  <2>1. /\ started'[k] = started[k] + Starting(k) /\ started[k] \in Nat
        /\ Starting(k) \in Nat /\ Starting(k) <= 1 /\ (k # r.call => Starting(k) = 0)
    BY <1>7 DEF Budget
  <2>2. CASE k = r.call
    <3>1. Due(k)' = 0 /\ Due(k) = 1
      BY <1>5, <1>6, <2>2 DEF Due
    <3> QED
      BY <2>1, <3>1
  <2>3. CASE k # r.call
    <3>1. Due(k)' \in {0, 1} /\ Due(k) \in {0, 1} /\ (Due(k)' = 1 => Due(k) = 1)
      BY <1>5 DEF Due
    <3> QED
      BY <2>1, <2>3, <3>1
  <2> QED
    BY <2>2, <2>3
<1> QED
  BY <1>5, <1>8, <1>9, BudgetSpent

\* A daemon starts a request when it takes it.
LEMMA BudgetDaemon ==
  ASSUME CallInv, Apart, Budget, CommandStep \/ AnalyzerStep
  PROVE  Budget'
<1>1. /\ UNCHANGED clientVars /\ started' = [k \in Calls |-> started[k] + Starting(k)]
  BY DEF CommandStep, AnalyzerStep, DaemonStep, Starting
<1>2. child \in [Slot -> Request \cup {Free}]
  BY DEF CallInv, PipeTypes
<1>3. ASSUME NEW r, Refuse(r) \/ Reject(r) \/ Run(r) \/ TurnAway(r) \/ StartWorker(r),
             serving' \subseteq serving \cup {r}, child' = child \/ Run(r)
      PROVE  Budget'
  <2>1. Takes(r)
    BY <1>3 DEF Refuse, Reject, Run, TurnAway, StartWorker
  <2>2. \A s \in Slot : child'[s] \in {child[s], r}
    BY <1>2, <1>3 DEF Run
  <2>3. InCharge' \subseteq InCharge \cup {r}
    BY <1>3, <2>2 DEF InCharge, Active
  <2> QED
    BY <1>1, <2>1, <2>3, BudgetTakes
<1>4. CASE CommandStep
  <2>1. CommandNext /\ serving' = serving
    BY <1>4 DEF CommandStep, DaemonStep
  <2>2. ASSUME NEW r, Refuse(r) \/ Reject(r) \/ Run(r) PROVE Budget'
    BY <1>3, <2>1, <2>2 DEF Refuse, Reject
  <2>3. ASSUME NEW s \in Slot, Progress(s) \/ Finish(s) PROVE Budget'
    <3>1. stdin' = stdin /\ \A t \in Slot : child'[t] \in {child[t], Free}
      BY <1>2, <2>3 DEF Progress, Finish, Finished
    <3>2. InCharge' \subseteq InCharge
      BY <2>1, <3>1 DEF InCharge, Active
    <3> QED
      BY <1>1, <3>1, <3>2, BudgetIdle
  <2> QED
    BY <2>1, <2>2, <2>3 DEF CommandNext, TakeCommand
<1>5. CASE AnalyzerStep
  <2>1. AnalyzerNext /\ child' = child
    BY <1>5 DEF AnalyzerStep, DaemonStep
  <2>2. ASSUME NEW r, TurnAway(r) \/ StartWorker(r) PROVE Budget'
    BY <1>3, <2>1, <2>2 DEF TurnAway, StartWorker
  <2>3. ASSUME NEW r \in serving, Work(r) PROVE Budget'
    <3>1. stdin' = stdin /\ InCharge' \subseteq InCharge
      BY <2>1, <2>3 DEF Work, InCharge, Active
    <3> QED
      BY <1>1, <3>1, BudgetIdle
  <2> QED
    BY <2>1, <2>2, <2>3 DEF AnalyzerNext, TakeQuery
<1> QED
  BY <1>4, <1>5

-----------------------------------------------------------------------------
(* What a command is told of.                                              *)

\* Nothing waits and nothing runs that a step did not find waiting or running.
LEMMA ToldKept ==
  ASSUME Told, inner' => inner, ToSet(Queue') \subseteq ToSet(Queue), UNCHANGED out,
         UNCHANGED max_attempts, child' = child \/ child' = NoChildren
  PROVE  Told'
<1>1. OneStory'
  BY DEF Told, OneStory, IsCommand
<1>2. Active' \subseteq Active /\ \A s \in Active' : child'[s] = child[s]
  BY DEF Active, NoChildren
<1> QED
  BY <1>1, <1>2 DEF Told

\* The story of a line's request goes on in turn.
StoryOf(s) ==
  \A i \in DOMAIN s :
    LET earlier == {j \in 1 .. i - 1 : s[j].id = s[i].id} IN
    /\ \A j \in earlier : <<s[j].type, s[i].type>> \in InTurn
    /\ s[i].type = "progress" => \E j \in earlier : s[j].type = "ack"

\* A line may follow a story when each earlier line of the same id may precede it.
LEMMA StoryAppend ==
  ASSUME NEW s \in Seq(Line), NEW m \in Line, StoryOf(s),
         \A n \in ToSet(s) : n.id = m.id => <<n.type, m.type>> \in InTurn,
         m.type = "progress" => \E n \in ToSet(s) : n.id = m.id /\ n.type = "ack"
  PROVE  StoryOf(Append(s, m))
<1> DEFINE u == Append(s, m)
<1>1. /\ u \in Seq(Line) /\ Len(u) = Len(s) + 1 /\ Len(s) \in Nat
      /\ \A i \in 1 .. Len(s) : u[i] = s[i]
      /\ u[Len(s) + 1] = m
  BY AppendProperties, LenProperties
<1>2. DOMAIN u = 1 .. Len(s) + 1 /\ DOMAIN s = 1 .. Len(s)
  BY <1>1, LenProperties
<1> HIDE DEF u
<1>3. ASSUME NEW i \in DOMAIN u
      PROVE  LET earlier == {j \in 1 .. i - 1 : u[j].id = u[i].id} IN
             /\ \A j \in earlier : <<u[j].type, u[i].type>> \in InTurn
             /\ u[i].type = "progress" => \E j \in earlier : u[j].type = "ack"
  <2>1. \A j \in 1 .. i - 1 : j \in 1 .. Len(s) /\ u[j] = s[j]
    BY <1>1, <1>2
  <2>2. CASE i \in 1 .. Len(s)
    <3>1. {j \in 1 .. i - 1 : u[j].id = u[i].id} = {j \in 1 .. i - 1 : s[j].id = s[i].id}
      BY <1>1, <2>1, <2>2
    <3>2. u[i] = s[i] /\ i \in DOMAIN s
      BY <1>1, <1>2, <2>2
    <3> QED
      BY <2>1, <3>1, <3>2 DEF StoryOf
  <2>3. CASE i = Len(s) + 1
    <3>1. u[i] = m /\ i - 1 = Len(s)
      BY <1>1, <2>3
    <3>2. \A j \in 1 .. Len(s) : s[j] \in ToSet(s)
      BY <1>2 DEF ToSet
    <3>3. \A n \in ToSet(s) : \E j \in 1 .. Len(s) : n = s[j]
      BY <1>2 DEF ToSet
    <3> QED
      BY <2>1, <3>1, <3>2, <3>3
  <2> QED
    BY <1>1, <1>2, <2>2, <2>3
<1> QED
  BY <1>3 DEF StoryOf, u

\* OneStory, said of any sequence of lines.
LEMMA StoryIsOne == IsCommand => (OneStory <=> StoryOf(out))
BY DEF OneStory, StoryOf

\* A line that is written.
LEMMA StoryWrites ==
  ASSUME CallInv, Told, IsCommand, UNCHANGED max_attempts, NEW m \in Line, Writes(<<m>>),
         \A n \in ToSet(out) : n.id = m.id => <<n.type, m.type>> \in InTurn,
         m.type = "progress" => \E n \in ToSet(out) : n.id = m.id /\ n.type = "ack"
  PROVE  OneStory' /\ ToSet(out') = ToSet(out) \cup {m}
<1>1. out \in Seq(Line)
  BY DEF CallInv, PipeTypes
<1>2. out' = Append(out, m) /\ ToSet(out') = ToSet(out) \cup {m}
  <2>1. out' = Append(out, m)
    BY <1>1, ToSetAppend DEF Writes
  <2> QED
    BY <1>1, <2>1, ToSetAppend
<1>3. StoryOf(out)
  BY StoryIsOne DEF Told
<1>4. StoryOf(out')
  BY <1>1, <1>2, <1>3, StoryAppend
<1> QED
  BY <1>2, <1>4 DEF OneStory, StoryOf

\* The first free slot is free.
LEMMA FreeSlot ==
  ASSUME CommandAssumption, Active # Slot
  PROVE  FirstFree \in Slot \ Active
<1>1. Slot \ Active \in SUBSET Nat /\ Slot \ Active # {}
  BY DEF Slot, Active
<1>2. \E s \in Slot \ Active : \A t \in Slot \ Active : ~(<<t, s>> \in OpToRel(<, Nat))
  BY <1>1, NatLessThanWellFounded, WFMin
<1>3. PICK s \in Slot \ Active : \A t \in Slot \ Active : ~(<<t, s>> \in OpToRel(<, Nat))
  BY <1>2
<1>4. ASSUME NEW t \in Slot \ Active
      PROVE  s <= t
  <2>1. ~(t < s)
    BY <1>1, <1>3 DEF OpToRel
  <2> QED
    BY <1>1, <2>1
<1> QED
  BY <1>4 DEF FirstFree

\* The request that the command daemon takes, of which nothing was said.
LEMMA TakesUntold ==
  ASSUME CallInv, Apart, Told, UNCHANGED clientVars, NEW r, Takes(r)
  PROVE  /\ inner /\ r \in Request /\ ToSet(Queue') \subseteq ToSet(Queue)
         /\ \A q \in ToSet(Queue') : q.id # r.id
         /\ \A m \in ToSet(out) : m.id # r.id
         /\ \A s \in Active : child[s].id # r.id
<1>1. /\ inner /\ stdin # <<>> /\ r = Head(stdin) /\ stdin' = Tail(stdin)
      /\ submitted' = submitted
  BY DEF Takes, CallInv, Parted, clientVars, taskVars
<1>2. Queue' = Tail(Queue) /\ r = Head(Queue) /\ Queue # <<>> /\ Queue \in Seq(Request)
  BY <1>1, QueueHas, TakenFirst DEF Queue
<1>3. r \in ToSet(Queue) /\ r \in Request /\ ToSet(Queue') \subseteq ToSet(Queue)
  BY <1>2, ToSetTail
<1>4. \A q \in ToSet(Queue') : q.id # r.id
  BY <1>1, <1>2, DistinctTail DEF Apart
<1> QED
  BY <1>1, <1>3, <1>4 DEF Told

\* The steps of the command daemon.
LEMMA ToldCommand ==
  ASSUME CallInv, Apart, Told, CommandStep
  PROVE  Told'
<1>1. /\ IsCommand /\ CommandNext /\ UNCHANGED clientVars /\ UNCHANGED <<max_attempts, inner>>
      /\ UNCHANGED submitted
  BY DEF CommandStep, DaemonStep, clientVars, taskVars
<1>2. child \in [Slot -> Request \cup {Free}] /\ out \in Seq(Line)
  BY DEF CallInv, PipeTypes
<1>3. ASSUME NEW r, Refuse(r) \/ Reject(r)
      PROVE  Told'
  <2>1. Takes(r) /\ child' = child
    BY <1>3 DEF Refuse, Reject
  <2>2. PICK type \in {"error", "result"} : Writes(<<Says(type, r)>>)
    BY <1>3 DEF Refuse, Reject
  <2>3. /\ r \in Request /\ ToSet(Queue') \subseteq ToSet(Queue)
        /\ \A q \in ToSet(Queue') : q.id # r.id
        /\ \A m \in ToSet(out) : m.id # r.id
        /\ \A s \in Active : child[s].id # r.id
    BY <1>1, <2>1, TakesUntold
  <2> DEFINE m == Says(type, r)
  <2>4. m \in Line /\ m.id = r.id /\ m.type \in {"error", "result"}
    BY <2>3, SaysLine DEF Says
  <2> HIDE DEF m
  <2>5. OneStory' /\ ToSet(out') = ToSet(out) \cup {m}
    BY <1>1, <2>2, <2>3, <2>4, StoryWrites DEF m
  <2>6. Active' = Active
    BY <2>1 DEF Active
  <2> QED
    BY <1>1, <2>1, <2>3, <2>4, <2>5, <2>6 DEF Told
<1>4. ASSUME NEW r, Run(r)
      PROVE  Told'
  <2>1. /\ Takes(r) /\ Active # Slot /\ Writes(<<Says("ack", r)>>)
        /\ child' = [child EXCEPT ![FirstFree] = r]
    BY <1>4 DEF Run
  <2>2. FirstFree \in Slot \ Active
    BY <2>1, FreeSlot, CommandAssumption
  <2>3. /\ r \in Request /\ ToSet(Queue') \subseteq ToSet(Queue)
        /\ \A q \in ToSet(Queue') : q.id # r.id
        /\ \A m \in ToSet(out) : m.id # r.id
        /\ \A s \in Active : child[s].id # r.id
    BY <1>1, <2>1, TakesUntold
  <2> DEFINE m == Says("ack", r)
  <2>4. m \in Line /\ m.id = r.id /\ m.type = "ack" /\ m.call = r.call
    BY <2>3, SaysLine DEF Says
  <2>5. r # Free
    BY <2>3 DEF Request, Free
  <2> HIDE DEF m
  <2>6. OneStory' /\ ToSet(out') = ToSet(out) \cup {m}
    BY <1>1, <2>1, <2>3, <2>4, StoryWrites DEF m
  <2>7. /\ child'[FirstFree] = r /\ \A s \in Active : child'[s] = child[s]
        /\ Active' = Active \cup {FirstFree}
    BY <1>2, <2>1, <2>2, <2>5 DEF Active
  <2>8. inner' => \A q \in ToSet(Queue') :
                    /\ \A n \in ToSet(out') : n.id # q.id
                    /\ \A s \in Active' : child'[s].id # q.id
    BY <1>1, <2>3, <2>4, <2>6, <2>7 DEF Told
  <2>9. \A s, t \in Active' : s # t => child'[s].id # child'[t].id
    BY <2>3, <2>7 DEF Told
  <2>10. \A s \in Active' :
           /\ \E n \in ToSet(out') : n.id = child'[s].id /\ n.type = "ack"
           /\ \A n \in ToSet(out') : n.id = child'[s].id =>
                n.type \in {"ack", "progress"} /\ n.call = child'[s].call
    BY <2>3, <2>4, <2>6, <2>7 DEF Told
  <2> QED
    BY <2>6, <2>8, <2>9, <2>10 DEF Told
<1>5. ASSUME NEW s \in Slot, Progress(s)
      PROVE  Told'
  <2>1. /\ s \in Active /\ Says("progress", child[s]) \notin ToSet(out) /\ child' = child
        /\ Writes(<<Says("progress", child[s])>>) /\ stdin' = stdin
    BY <1>5 DEF Progress
  <2> DEFINE m == Says("progress", child[s])
  <2>2. /\ child[s] \in Request /\ m \in Line
        /\ m.id = child[s].id /\ m.type = "progress" /\ m.call = child[s].call
    BY <1>2, <2>1, SaysLine DEF Active, Says
  <2>3. ASSUME NEW n \in ToSet(out), n.id = m.id
        PROVE  n.type = "ack"
    <3>1. n.type \in {"ack", "progress"} /\ n.call = m.call
      BY <2>1, <2>2, <2>3 DEF Told
    <3>2. n \in Line
      BY <1>2, ElementOfSeq, LenProperties DEF ToSet
    <3>3. n.type = "progress" => n = m
      BY <2>2, <2>3, <3>1, <3>2 DEF Line
    <3> QED
      BY <2>1, <3>1, <3>3
  <2> HIDE DEF m
  <2>4. \E n \in ToSet(out) : n.id = m.id /\ n.type = "ack"
    BY <2>1, <2>2 DEF Told
  <2>5. OneStory' /\ ToSet(out') = ToSet(out) \cup {m}
    <3>1. \A n \in ToSet(out) : n.id = m.id => <<n.type, m.type>> \in InTurn
      BY <2>2, <2>3 DEF InTurn
    <3> QED
      BY <1>1, <2>1, <2>2, <2>4, <3>1, StoryWrites DEF m
  <2>6. Active' = Active /\ Queue' = Queue
    BY <1>1, <2>1 DEF Active, Queue
  <2>7. inner => \A q \in ToSet(Queue) : q.id # m.id
    BY <2>1, <2>2 DEF Told
  <2>8. \A t \in Active : m.id = child[t].id => t = s
    <3>1. \A t \in Active : t # s => child[t].id # child[s].id
      BY <2>1 DEF Told
    <3> QED
      BY <2>2, <3>1
  <2>9. inner' => \A q \in ToSet(Queue') :
                    /\ \A n \in ToSet(out') : n.id # q.id
                    /\ \A t \in Active' : child'[t].id # q.id
    BY <1>1, <2>1, <2>5, <2>6, <2>7 DEF Told
  <2>10. \A t \in Active' :
           /\ \E n \in ToSet(out') : n.id = child'[t].id /\ n.type = "ack"
           /\ \A n \in ToSet(out') : n.id = child'[t].id =>
                n.type \in {"ack", "progress"} /\ n.call = child'[t].call
    BY <2>1, <2>2, <2>5, <2>6, <2>8 DEF Told
  <2> QED
    BY <2>1, <2>5, <2>6, <2>9, <2>10 DEF Told
<1>6. ASSUME NEW s \in Slot, Finish(s)
      PROVE  Told'
  <2>1. /\ s \in Active /\ Writes(<<Says("result", child[s])>>) /\ stdin' = stdin
        /\ child' = [child EXCEPT ![s] = Free]
    BY <1>6 DEF Finish, Finished
  <2> DEFINE m == Says("result", child[s])
  <2>2. /\ child[s] \in Request /\ m \in Line /\ m.id = child[s].id /\ m.type = "result"
    BY <1>2, <2>1, SaysLine DEF Active, Says
  <2> HIDE DEF m
  <2>3. OneStory' /\ ToSet(out') = ToSet(out) \cup {m}
    <3>1. \A n \in ToSet(out) : n.id = m.id => <<n.type, m.type>> \in InTurn
      BY <2>1, <2>2 DEF InTurn, Told
    <3> QED
      BY <1>1, <2>1, <2>2, <3>1, StoryWrites DEF m
  <2>4. Active' = Active \ {s} /\ (\A t \in Active' : child'[t] = child[t]) /\ Queue' = Queue
    BY <1>1, <1>2, <2>1 DEF Active, Queue
  <2>5. \A t \in Active' : child[t].id # m.id
    BY <2>1, <2>2, <2>4 DEF Told
  <2>6. inner' => \A q \in ToSet(Queue') :
                    /\ \A n \in ToSet(out') : n.id # q.id
                    /\ \A t \in Active' : child'[t].id # q.id
    BY <1>1, <2>1, <2>2, <2>3, <2>4 DEF Told
  <2>7. \A t \in Active' :
          /\ \E n \in ToSet(out') : n.id = child'[t].id /\ n.type = "ack"
          /\ \A n \in ToSet(out') : n.id = child'[t].id =>
               n.type \in {"ack", "progress"} /\ n.call = child'[t].call
    BY <2>3, <2>4, <2>5 DEF Told
  <2>8. \A t, u \in Active' : t # u => child'[t].id # child'[u].id
    BY <2>4 DEF Told
  <2> QED
    BY <2>3, <2>6, <2>7, <2>8 DEF Told
<1> QED
  BY <1>1, <1>3, <1>4, <1>5, <1>6 DEF CommandNext, TakeCommand

-----------------------------------------------------------------------------
(* All of it together.                                                     *)

\* An id that nothing under way carries, and a call that has none: the queue stays distinct,
\* and nothing was said of the new request.
LEMMA SubmitFresh ==
  ASSUME RunsInv, NEW kind \in Kind, Submit(kind), DaemonKept
  PROVE  Apart' /\ (IsCommand => Told')
<1> DEFINE request == [id |-> next_id, kind |-> kind, call |-> Call]
<1>1. /\ lockq # <<>> /\ awaited = 0 /\ inner /\ task /\ inner' = inner
      /\ next_id \in Nat \ {0}
      /\ submitted' = Append(submitted, request)
      /\ UNCHANGED <<pipeVars, max_attempts>>
  BY DEF Submit, FreshId, RunsInv, CallInv, ClientTypes
<1>2. request \in Request /\ request.call = Call /\ request.id = next_id
  <2>1. Call \in Caller \X Nat
    BY <1>1, ToSetTail DEF Call, Holder, RunsInv, CallInv, ClientTypes
  <2> QED
    BY <1>1, <2>1 DEF Request
<1> HIDE DEF request
<1>3. Queue \in Seq(Request) /\ Queue' = Append(Queue, request)
  <2>1. submitted' = submitted \o <<request>> /\ <<request>> \in Seq(Request)
    BY <1>1, <1>2, QueueHas, AppendIsConcat DEF RunsInv
  <2>2. stdin \o (submitted \o <<request>>) = (stdin \o submitted) \o <<request>>
    BY <2>1, QueueHas, ConcatAssociative DEF RunsInv
  <2> QED
    BY <1>1, <1>2, <2>1, <2>2, QueueHas, AppendIsConcat DEF Queue, pipeVars, RunsInv
<1>4. ToSet(Queue') = ToSet(Queue) \cup {request}
  BY <1>2, <1>3, ToSetAppend
<1>5. \A m \in Traffic : m.id # next_id
  <2> SUFFICES ASSUME NEW m \in Traffic
               PROVE  m.id # next_id
    OBVIOUS
  <2>1. m.id \in 0 .. next_id - 1
    BY <1>1 DEF RunsInv, CallInv, OwnIds, Ours
  <2> QED
    BY <1>1, <2>1
<1>6. \A r \in ToSet(Queue) : r.id # request.id
  BY <1>2, <1>5, QueueHas DEF RunsInv, Traffic
<1>7. \A r \in ToSet(Queue) : r.call # request.call
  BY <1>1, <1>2 DEF RunsInv, Budget, Asks
<1>8. Apart'
  BY <1>1, <1>2, <1>3, <1>6, <1>7, DistinctAppend DEF RunsInv, Apart
<1>9. ASSUME IsCommand
      PROVE  Told'
  <2>1. \A m \in ToSet(out) : m.id # request.id
    BY <1>2, <1>5 DEF Traffic
  <2>2. \A s \in Active : child[s].id # request.id
    BY <1>2, <1>5 DEF Traffic, InCharge
  <2>3. out' = out /\ (child' = child \/ child' = NoChildren)
    BY <1>1 DEF pipeVars, DaemonKept
  <2>4. Active' \subseteq Active /\ \A s \in Active' : child'[s] = child[s]
    BY <2>3 DEF Active, NoChildren
  <2>5. OneStory'
    BY <1>1, <1>9, <2>3 DEF RunsInv, Told, OneStory, IsCommand
  <2>6. inner' => \A r \in ToSet(Queue') :
                    /\ \A m \in ToSet(out') : m.id # r.id
                    /\ \A s \in Active' : child'[s].id # r.id
    BY <1>1, <1>4, <1>9, <2>1, <2>2, <2>3, <2>4 DEF RunsInv, Told
  <2>7. /\ \A s, t \in Active' : s # t => child'[s].id # child'[t].id
        /\ \A s \in Active' :
             /\ \E m \in ToSet(out') : m.id = child'[s].id /\ m.type = "ack"
             /\ \A m \in ToSet(out') : m.id = child'[s].id =>
                  m.type \in {"ack", "progress"} /\ m.call = child'[s].call
    BY <1>9, <2>3, <2>4 DEF RunsInv, Told
  <2> QED
    BY <2>5, <2>6, <2>7 DEF Told
<1> QED
  BY <1>8, <1>9

\* Where the pipes stay or the daemon goes, nothing new waits.
LEMMA QuietClient ==
  ASSUME RunsInv, DaemonKept, UNCHANGED out, UNCHANGED max_attempts,
         inner' => inner /\ (Queue' = Queue \/ Queue' = stdin)
  PROVE  Apart' /\ (IsCommand => Told')
<1>1. Queue \in Seq(Request) /\ ToSet(stdin) \subseteq ToSet(Queue)
  BY QueueHas DEF RunsInv
<1>2. Distinct(Queue) => Distinct(stdin)
  <2>1. stdin \in Seq(Request) /\ submitted \in Seq(Request)
    BY QueueHas DEF RunsInv
  <2>2. DOMAIN stdin \subseteq DOMAIN Queue /\ \A i \in DOMAIN stdin : Queue[i] = stdin[i]
    <3>1. /\ DOMAIN stdin = 1 .. Len(stdin) /\ Len(stdin) \in Nat /\ Len(submitted) \in Nat
          /\ DOMAIN Queue = 1 .. Len(Queue) /\ Len(Queue) = Len(stdin) + Len(submitted)
          /\ \A i \in 1 .. Len(stdin) + Len(submitted) :
               Queue[i] = IF i <= Len(stdin) THEN stdin[i] ELSE submitted[i - Len(stdin)]
      BY <1>1, <2>1, LenProperties, ConcatProperties DEF Queue
    <3> QED
      BY <3>1
  <2> QED
    BY <2>2 DEF Distinct
<1>3. Apart'
  BY <1>2 DEF RunsInv, Apart
<1>4. child' = child \/ child' = NoChildren
  BY DEF DaemonKept
<1>5. ASSUME IsCommand, inner'
      PROVE  Told'
  BY <1>1, <1>4, <1>5, ToldKept DEF RunsInv
<1>6. ASSUME IsCommand, ~inner'
      PROVE  Told'
  <2>1. Active' \subseteq Active /\ \A s \in Active' : child'[s] = child[s]
    BY <1>4 DEF Active, NoChildren
  <2>2. OneStory'
    BY <1>6 DEF RunsInv, Told, OneStory, IsCommand
  <2> QED
    BY <1>6, <2>1, <2>2 DEF RunsInv, Told
<1> QED
  BY <1>3, <1>5, <1>6

\* The steps of di-core.
LEMMA RunsClient ==
  ASSUME RunsInv, ClientStep(ClientNext)
  PROVE  Apart' /\ Budget' /\ (IsCommand' => Told')
<1>1. ClientNext /\ DaemonKept /\ UNCHANGED started
  BY DEF ClientStep
<1>2. CallInv /\ Apart /\ Budget /\ max_attempts' = max_attempts
  BY <1>1 DEF RunsInv, ClientNext, Begin, Restart, RestartFails, Submit, SubmitRefused, Answered,
              TimesOut, Forward, ReadLine, EndOfFile, Expire
<1>3. Budget'
  BY <1>1, <1>2, BudgetClient
<1>4. IsCommand' <=> IsCommand
  BY <1>2 DEF IsCommand
<1>5. CASE Restart
  <2>1. /\ ~inner /\ Queue' = <<>> /\ out' = <<>> /\ child' = child
    BY <1>1, <1>2, <1>5 DEF Restart, FreshPipes, DaemonKept, Queue, CallInv, Parted
  <2>2. Active' = {}
    BY <1>2, <2>1 DEF CallInv, Parted, InCharge, Active
  <2>3. Apart'
    BY <2>1 DEF Apart, Distinct
  <2>4. Told'
    BY <2>1, <2>2 DEF Told, OneStory, ToSet
  <2> QED
    BY <1>3, <2>3, <2>4
<1>6. ASSUME NEW kind \in Kind, Submit(kind) PROVE Apart' /\ (IsCommand => Told')
  BY <1>1, <1>6, SubmitFresh
<1>7. CASE Forward \/ ReadLine \/ EndOfFile \/ (\E id \in pending : Expire(id))
  <2>1. inner' = inner /\ out' = out /\ (Queue' = Queue \/ Queue' = stdin)
    BY <1>2, <1>7, TaskQueue
  <2>2. Apart' /\ (IsCommand => Told')
    BY <1>1, <1>2, <2>1, QuietClient
  <2> QED
    BY <1>3, <1>4, <2>2
<1>8. CASE \/ \E c \in Caller : Begin(c)
           \/ RestartFails \/ SubmitRefused \/ Answered \/ TimesOut
  <2>1. \/ UNCHANGED <<pipeVars, inner, taskVars>>
        \/ Discarded
    BY <1>8 DEF Begin, RestartFails, SubmitRefused, Answered, TimesOut, Fails
  <2>2. out' = out /\ (inner' => inner /\ Queue' = Queue)
    BY <2>1 DEF Discarded, Queue, pipeVars, taskVars
  <2>3. Apart' /\ (IsCommand => Told')
    BY <1>1, <1>2, <2>2, QuietClient
  <2> QED
    BY <1>3, <1>4, <2>3
<1> QED
  BY <1>1, <1>3, <1>4, <1>5, <1>6, <1>7, <1>8 DEF ClientNext

\* A request that is taken leaves the queue; nothing else a daemon does touches it.
LEMMA ApartDaemon ==
  ASSUME CallInv, Apart, CommandStep \/ AnalyzerStep
  PROVE  Apart'
<1>1. UNCHANGED clientVars /\ UNCHANGED <<inner, submitted>>
  BY DEF CommandStep, AnalyzerStep, DaemonStep, clientVars, taskVars
<1>2. ASSUME NEW r, Takes(r) PROVE Apart'
  <2>1. /\ inner /\ stdin # <<>> /\ r = Head(stdin) /\ stdin' = Tail(stdin)
    BY <1>2 DEF Takes, CallInv, Parted
  <2>2. Queue' = Tail(Queue) /\ Queue # <<>> /\ Queue \in Seq(Request)
    BY <1>1, <2>1, QueueHas, TakenFirst DEF Queue
  <2> QED
    BY <2>1, <2>2, DistinctTail DEF Apart
<1>3. CASE stdin' = stdin
  BY <1>1, <1>3 DEF Apart, Queue
<1>4. (\E r : Takes(r)) \/ stdin' = stdin
  BY DEF CommandStep, AnalyzerStep, DaemonStep, CommandNext, TakeCommand, AnalyzerNext, TakeQuery,
         Refuse, Reject, Run, TurnAway, StartWorker, Progress, Finish, Work
<1> QED
  BY <1>2, <1>3, <1>4

\* A fault leaves less to run and says nothing.
LEMMA RunsFault ==
  ASSUME RunsInv, Crash \/ Hang
  PROVE  Apart' /\ Budget' /\ (IsCommand' => Told')
<1>1. /\ UNCHANGED clientVars /\ UNCHANGED <<out, started>>
      /\ UNCHANGED <<inner, submitted, max_attempts, attempts, lockq, awaited, made>>
      /\ child' = child \/ child' = NoChildren
      /\ stdin' = stdin \/ stdin' = <<>>
  BY DEF Crash, Hang, DaemonKept, clientVars, callVars, taskVars, daemonVars
<1>2. /\ stdin \in Seq(Request) /\ submitted \in Seq(Request)
      /\ ToSet(Queue) = ToSet(stdin) \cup ToSet(submitted)
  BY QueueHas DEF RunsInv
<1>3. Queue' = Queue \/ Queue' = submitted
  BY <1>1, <1>2, ConcatEmptySeq DEF Queue
<1>4. ToSet(Queue') \subseteq ToSet(Queue)
  BY <1>2, <1>3
<1>5. Distinct(Queue) => Distinct(submitted)
  <2>1. /\ DOMAIN submitted = 1 .. Len(submitted) /\ Len(stdin) \in Nat /\ Len(submitted) \in Nat
        /\ DOMAIN Queue = 1 .. Len(stdin) + Len(submitted)
        /\ \A i \in 1 .. Len(stdin) + Len(submitted) :
             Queue[i] = IF i <= Len(stdin) THEN stdin[i] ELSE submitted[i - Len(stdin)]
    BY <1>2, LenProperties, ConcatProperties DEF Queue
  <2>2. \A i \in DOMAIN submitted : Len(stdin) + i \in DOMAIN Queue /\ Queue[Len(stdin) + i] = submitted[i]
    <3> SUFFICES ASSUME NEW i \in DOMAIN submitted
                 PROVE  Len(stdin) + i \in DOMAIN Queue /\ Queue[Len(stdin) + i] = submitted[i]
      OBVIOUS
    <3>1. /\ Len(stdin) + i \in 1 .. Len(stdin) + Len(submitted) /\ ~(Len(stdin) + i <= Len(stdin))
          /\ Len(stdin) + i - Len(stdin) = i
      BY <2>1
    <3> QED
      BY <2>1, <3>1
  <2>3. \A i, j \in DOMAIN submitted : i # j => Len(stdin) + i # Len(stdin) + j
    BY <2>1
  <2> SUFFICES ASSUME Distinct(Queue), NEW i \in DOMAIN submitted, NEW j \in DOMAIN submitted, i # j
               PROVE  submitted[i].id # submitted[j].id /\ submitted[i].call # submitted[j].call
    BY DEF Distinct
  <2> QED
    BY <2>2, <2>3 DEF Distinct
<1>6. Apart'
  BY <1>1, <1>3, <1>5 DEF RunsInv, Apart
<1>7. \A k : Asks(k)' => Asks(k)
  BY <1>1, <1>4 DEF Asks
<1>8. Budget'
  BY <1>1, <1>7, BudgetLess DEF RunsInv
<1>9. IsCommand' => Told'
  BY <1>1, <1>4, ToldKept DEF RunsInv, IsCommand
<1> QED
  BY <1>6, <1>8, <1>9

\* No step of di-core, of a daemon or of chance starts more than the attempts allow, or says
\* of a command what was not due.
LEMMA RunsNext == RunsInv /\ [ToolNext]_allVars => RunsInv'
<1> SUFFICES ASSUME RunsInv, [ToolNext]_allVars
             PROVE  RunsInv'
  OBVIOUS
<1>1. CallInv'
  BY CallNext DEF RunsInv
<1>2. CASE ClientStep(ClientNext)
  BY <1>1, <1>2, RunsClient DEF RunsInv
<1>3. CASE CommandStep \/ AnalyzerStep
  <2>1. Apart' /\ Budget'
    BY <1>3, ApartDaemon, BudgetDaemon DEF RunsInv
  <2>2. max_attempts' = max_attempts
    BY <1>3 DEF CommandStep, AnalyzerStep, DaemonStep, clientVars
  <2>3. IsCommand' => Told'
    BY <1>3, <2>2, ToldCommand DEF RunsInv, IsCommand, AnalyzerStep
  <2> QED
    BY <1>1, <2>1, <2>3 DEF RunsInv
<1>4. CASE Crash \/ Hang
  BY <1>1, <1>4, RunsFault DEF RunsInv
<1>5. CASE UNCHANGED allVars
  <2>1. /\ UNCHANGED <<inner, submitted, stdin, out, started, max_attempts, attempts, lockq, awaited, made, child>>
    BY <1>5 DEF allVars, pipeVars, clientVars, callVars, taskVars, daemonVars
  <2>2. Queue' = Queue
    BY <2>1 DEF Queue
  <2>3. Apart'
    BY <2>1, <2>2 DEF RunsInv, Apart
  <2>4. \A k : Asks(k)' => Asks(k)
    BY <2>1, <2>2 DEF Asks
  <2>5. Budget'
    BY <2>1, <2>4, BudgetLess DEF RunsInv
  <2>6. IsCommand' => Told'
    BY <2>1, <2>2, ToldKept DEF RunsInv, IsCommand
  <2> QED
    BY <1>1, <2>3, <2>5, <2>6 DEF RunsInv
<1> QED
  BY <1>2, <1>3, <1>4, <1>5 DEF ToolNext

\* Nothing waits, runs or was said.
LEMMA RunsInit == ToolInit => RunsInv
<1> SUFFICES ASSUME ToolInit
             PROVE  RunsInv
  OBVIOUS
<1>1. /\ lockq = <<>> /\ submitted = <<>> /\ stdin = <<>> /\ out = <<>> /\ attempts = 0
      /\ max_attempts \in {1, 2} /\ child = NoChildren /\ started = [k \in Calls |-> 0]
  BY DEF ToolInit, ClientInit, PipesInit, CommandInit
<1>2. Queue = <<>> /\ ToSet(Queue) = {} /\ ToSet(lockq) = {} /\ Active = {}
  <2>1. Queue = <<>>
    BY <1>1 DEF Queue
  <2> QED
    BY <1>1, <2>1 DEF ToSet, Active, NoChildren
<1>3. Apart
  BY <1>2 DEF Apart, Distinct
<1>4. \A k : ~Asks(k) /\ Due(k) = 0
  BY <1>2 DEF Asks, Due
<1>5. Budget
  BY <1>1, <1>2, <1>4 DEF Budget
<1>6. Told
  BY <1>1, <1>2 DEF Told, OneStory
<1> QED
  BY <1>3, <1>5, <1>6, CallInit DEF RunsInv

\* Queue, slots, threads and lines fit the attempts of the calls along every run.
THEOREM RunsInvariance == ToolSpec => []RunsInv
BY RunsInit, RunsNext, PTL DEF ToolSpec

\* A command runs at most once and a query at most twice, whatever crashes, hangs or is given
\* up: a request that is given up can still be started, but then a later attempt is not.
THEOREM AttemptInvariance == ToolSpec => []RunsPerAttempt
<1>1. RunsInv => RunsPerAttempt
  <2> SUFFICES ASSUME RunsInv
               PROVE  RunsPerAttempt
    OBVIOUS
  <2>1. CallInv /\ Budget
    BY DEF RunsInv
  <2>2. ASSUME NEW k \in Calls
        PROVE  started[k] <= max_attempts
    <3>1. started[k] \in Nat /\ max_attempts \in Nat /\ started[k] + Due(k) <= max_attempts
      BY <2>1 DEF Budget, CallInv, ClientTypes
    <3>2. Due(k) \in {0, 1}
      BY DEF Due
    <3> QED
      BY <3>1, <3>2
  <2>3. ASSUME lockq # <<>>
        PROVE  started[Call] <= Allowed
    <3>1. started[Call] \in Nat /\ Allowed \in Nat /\ started[Call] + Due(Call) <= Allowed
      BY <2>1, <2>3, CallIsOne DEF Budget
    <3>2. Due(Call) \in {0, 1}
      BY DEF Due
    <3> QED
      BY <3>1, <3>2
  <2> QED
    BY <2>2, <2>3 DEF RunsPerAttempt, Allowed
<1> QED
  BY <1>1, RunsInvariance, PTL

\* Of each request the command daemon tells one story, however slots are reused and ids of
\* abandoned requests return.
THEOREM StoryInvariance == ToolSpec => []OneStory
<1>1. RunsInv => OneStory
  BY DEF RunsInv, Told, OneStory
<1> QED
  BY <1>1, RunsInvariance, PTL

-----------------------------------------------------------------------------
(* The runner of WebAssembly programs.                                     *)

\* Between the first redirection and the end of the guest, the guard exists.
Redirected == {"redirect", "prepare", "load", "run"}
AtRest == {"answer", "idle", "exited"}

RunnerTypeOK ==
  /\ mode \in {"json", "cli"}
  /\ step \in {"dup", "await"} \cup Redirected \cup AtRest
  /\ fd \in [0 .. 2 -> {"own", "null", "pipe"}]
  /\ guarded \in BOOLEAN
  /\ guest \in {"none", "runs", "ended"}
  /\ reader \in [Stream -> {"none", "reads", "ended"}]
  /\ pipe \in [Stream -> Nat] /\ taken \in [Stream -> Nat]
  /\ printed \in [Stream -> Nat] /\ due \in [Stream -> Nat]

\* What json keeps, and cli copies, of n bytes.
Kept(n) == IF mode = "json" /\ n > MaxOutput THEN MaxOutput ELSE n

\* What a guest is lent is its own again once the guard is gone, and the write ends of the
\* pipes are held until the request is at rest.
Lent ==
  /\ step \in Redirected => guarded
  /\ step \notin Redirected => fd = Own /\ ~guarded /\ cwd = "own"
  /\ step \in AtRest \cup {"await"} => dups = {} /\ writers = {}
  /\ step \in {"dup"} \cup Redirected => writers = Stream

\* Where the runner is while its guest runs, and after it.
GuestPlace ==
  /\ guest = "runs" => step = "run"
  /\ guest = "ended" => step \in {"run", "await"} \cup AtRest
  /\ step \in {"run", "await"} => guest # "none"

\* What was printed is in the pipe, in the captured text, or beyond its limit; a reader stops
\* only at the end of what the guest wrote.
AllRead ==
  /\ \A p \in Stream : pipe[p] <= printed[p] /\ taken[p] = Kept(printed[p] - pipe[p])
  /\ \A p \in Stream : reader[p] = "ended" => guest # "runs" /\ pipe[p] = 0
  /\ \A p \in Stream : step \in {"load", "run"} => reader[p] = "reads"
  /\ \A p \in Stream : step \in AtRest /\ guest = "ended" => reader[p] = "ended"

RunnerInv == RunnerTypeOK /\ Lent /\ GuestPlace /\ AllRead

\* Before a request nothing is lent and no guest runs.
LEMMA RunnerInvInit == RunnerInit => RunnerInv
<1> SUFFICES ASSUME RunnerInit PROVE RunnerInv
  OBVIOUS
<1> USE DEF RunnerInit, Own, Zero, Stream, Redirected, AtRest
<1>1. RunnerTypeOK
  BY DEF RunnerTypeOK
<1>2. Lent /\ GuestPlace
  BY DEF Lent, GuestPlace
<1>3. AllRead
  BY RunnerAssumption DEF AllRead, Kept
<1> QED
  BY <1>1, <1>2, <1>3 DEF RunnerInv

\* A step that fails gives back what was lent, by the guard or because nothing was taken yet.
LEMMA UnwindsRestores ==
  ASSUME RunnerInv, Unwinds, step \in {"dup", "redirect", "prepare", "load"}
  PROVE  /\ step' = "answer" /\ guarded' = FALSE /\ fd' = Own /\ cwd' = "own"
         /\ dups' = {} /\ writers' = {} /\ guest = "none"
BY DEF RunnerInv, RunnerTypeOK, Lent, GuestPlace, Unwinds, Redirected, AtRest

\* No step of the runner, of the guest or of a reader breaks the invariant.
LEMMA RunnerInvStep == RunnerInv /\ [RunnerNext]_runnerVars => RunnerInv'
<1> SUFFICES ASSUME RunnerInv, [RunnerNext]_runnerVars PROVE RunnerInv'
  OBVIOUS
<1> USE DEF RunnerInv, RunnerTypeOK, Lent, GuestPlace, AllRead, Kept, Own, Zero, Stream,
            Redirected, AtRest
<1>1. CASE UNCHANGED runnerVars
  BY <1>1 DEF runnerVars
<1>2. CASE TakeRequest
  BY <1>2, RunnerAssumption DEF TakeRequest
<1>3. CASE Duplicate
  BY <1>3, RunnerAssumption DEF Duplicate, Unwinds, unread
<1>4. CASE Redirect
  <2>1. CASE Unwinds
    BY <1>4, <2>1, UnwindsRestores DEF Redirect, unread
  <2>2. CASE ~Unwinds
    BY <1>4, <2>2 DEF Redirect, unread
  <2> QED
    BY <2>1, <2>2
<1>5. CASE Prepare
  <2>1. CASE Unwinds
    BY <1>5, <2>1, UnwindsRestores DEF Prepare
  <2>2. CASE ~Unwinds
    BY <1>5, <2>2 DEF Prepare
  <2> QED
    BY <2>1, <2>2
<1>6. CASE LoadModule
  <2>1. CASE Unwinds
    BY <1>6, <2>1, UnwindsRestores DEF LoadModule
  <2>2. CASE ~Unwinds
    <3>1. due' \in [Stream -> Nat]
      <4>1. due' \in [Stream -> 0 .. MaxPrints]
        BY <1>6, <2>2 DEF LoadModule
      <4>2. 0 .. MaxPrints \subseteq Nat
        BY RunnerAssumption
      <4> QED
        BY <4>1, <4>2
    <3> QED
      BY <1>6, <2>2, <3>1 DEF LoadModule
  <2> QED
    BY <2>1, <2>2
<1>7. ASSUME NEW p \in Stream, Prints(p) PROVE RunnerInv'
  BY <1>7, RunnerAssumption DEF Prints
<1>8. CASE GuestEnds
  BY <1>8, RunnerAssumption DEF GuestEnds
<1>9. CASE LetGo
  BY <1>9, RunnerAssumption DEF LetGo
<1>10. ASSUME NEW p \in Stream, Reads(p) PROVE RunnerInv'
  BY <1>10, RunnerAssumption DEF Reads
<1>11. CASE AwaitReaders
  BY <1>11, RunnerAssumption DEF AwaitReaders, unread
<1>12. CASE Answer
  BY <1>12, RunnerAssumption DEF Answer, unread
<1> QED
  BY <1>1, <1>2, <1>3, <1>4, <1>5, <1>6, <1>7, <1>8, <1>9, <1>10, <1>11, <1>12 DEF RunnerNext, Runner, GuestSteps, ReaderSteps

\* What the runner has lent it takes back, whichever of its steps failed, and the answer of
\* a guest that ended has all that was printed, up to the limit.
THEOREM RestoresInvariance == RunnerSpec => []RunnerRestores
<1>1. RunnerInv => RunnerRestores
  BY DEF RunnerInv, RunnerTypeOK, Lent, AllRead, Kept, AtRest, Redirected, RunnerRestores
<1> QED
  BY <1>1, RunnerInvInit, RunnerInvStep, PTL DEF RunnerSpec
=============================================================================
