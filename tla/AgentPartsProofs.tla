--------------------------- MODULE AgentPartsProofs -------------------------
(***************************************************************************)
(* Theorems about parts of an agent: the tool calls of its replies         *)
(* (ToolRuns), for any files, questions and calls and any number of        *)
(* replies, and its hooks (Hooks), for any repositories and overlays and   *)
(* any language of handlers.                                               *)
(***************************************************************************)
EXTENDS ToolRuns, Hooks, FiniteSetTheorems, SequenceTheorems, TLAPS

USE CallsAssumption

-----------------------------------------------------------------------------
(* The inductive invariants.                                               *)

RunsTypeOK ==
  /\ todo \subseteq Calls
  /\ run \in [call : Calls \cup {NoCall}, tries : 0 .. 2, codes : SUBSET Code, slow : BOOLEAN]
  /\ tried \in [Keys \X Code -> Nat]
  /\ fails \in [Tool -> 0 .. 3]
  /\ circuit \in [Tool -> {"closed", "open", "half"}]

\* The router remembers the retries of the call that is running for as long as it has
\* not forgotten anything, so that a kind of error is not retried twice.
Remembered ==
  /\ Free => run.tries = 0 /\ run.codes = {}
  /\ ~Free /\ ~run.slow =>
       \A code \in run.codes : tried[<<Key(run.call), code>>] >= 1
  /\ ~run.slow => Cardinality(run.codes) = run.tries

\* A breaker that has counted three failures lets calls through only when it has rested.
Resting ==
  \A t \in Tool : fails[t] >= 3 => t \in rested \/ (circuit[t] = "open" /\ t \in recent)

RunsInv == RunsTypeOK /\ Remembered /\ Resting

\* The call that is running is one of Calls, and its key one of Keys.
LEMMA RunningKey ==
  ASSUME RunsTypeOK, ~Free
  PROVE  /\ run.call \in Calls
         /\ \A code \in Code : <<Key(run.call), code>> \in Keys \X Code
BY DEF RunsTypeOK, Free, Keys

\* A session starts with nothing to run and everything forgotten.
LEMMA RunsInit == RepliesInit => RunsInv
<1> SUFFICES ASSUME RepliesInit
             PROVE  RunsInv
  OBVIOUS
<1>1. RunsTypeOK
  <2>1. 0 \in 0 .. 2 /\ 0 \in 0 .. 3 /\ 0 \in Nat
    OBVIOUS
  <2> QED
    BY <2>1 DEF RepliesInit, RunsTypeOK
<1>2. Remembered
  BY FS_EmptySet DEF RepliesInit, Remembered, Free
<1>3. Resting
  BY DEF RepliesInit, Resting
<1> QED
  BY <1>1, <1>2, <1>3 DEF RunsInv

\* Types.
LEMMA RunsTypeStep ==
  ASSUME RunsTypeOK, RepliesNext
  PROVE  RunsTypeOK'
<1> USE DEF RunsTypeOK
<1>1. ASSUME NEW calls \in SUBSET Calls, NEW cut \in BOOLEAN, Reply(calls, cut)
      PROVE  RunsTypeOK'
  BY <1>1 DEF Reply, breaker
<1>2. ASSUME NEW t \in Tool, circuit' = Asking(t)
      PROVE  circuit' \in [Tool -> {"closed", "open", "half"}]
  BY <1>2 DEF Asking
<1>3. ASSUME NEW c \in todo, Paused(c)
      PROVE  RunsTypeOK'
  BY <1>3 DEF Paused, breaker
<1>4. ASSUME NEW c \in todo, Refuse(c)
      PROVE  RunsTypeOK'
  <2>1. c.tool \in Tool
    BY DEF Call
  <2>2. circuit' \in [Tool -> {"closed", "open", "half"}]
    BY <1>2, <1>4, <2>1 DEF Refuse
  <2> QED
    BY <1>4, <2>2 DEF Refuse
<1>5. ASSUME NEW c \in todo, Served(c)
      PROVE  RunsTypeOK'
  <2>1. circuit' \in [Tool -> {"closed", "open", "half"}]
    BY <1>5 DEF Served
  <2>2. fails' \in [Tool -> 0 .. 3]
    <3>1. 0 \in 0 .. 3
      OBVIOUS
    <3> QED
      BY <1>5, <3>1 DEF Served
  <2> QED
    BY <1>5, <2>1, <2>2 DEF Served
<1>6. ASSUME NEW c \in todo, Start(c)
      PROVE  RunsTypeOK'
  <2>1. c.tool \in Tool
    BY DEF Call
  <2>2. circuit' \in [Tool -> {"closed", "open", "half"}]
    BY <1>2, <1>6, <2>1 DEF Start
  <2>3. run' \in [call : Calls \cup {NoCall}, tries : 0 .. 2, codes : SUBSET Code, slow : BOOLEAN]
    BY <1>6 DEF Start
  <2> QED
    BY <1>6, <2>2, <2>3 DEF Start
<1>7. Ended \in [call : Calls \cup {NoCall}, tries : 0 .. 2, codes : SUBSET Code, slow : BOOLEAN]
  BY DEF Ended
<1>8. ASSUME NEW exit \in {"ok", "bad"}, Works(exit)
      PROVE  RunsTypeOK'
  <2>1. circuit' \in [Tool -> {"closed", "open", "half"}]
    BY <1>8 DEF Works
  <2>2. fails' \in [Tool -> 0 .. 3]
    <3>1. 0 \in 0 .. 3
      OBVIOUS
    <3> QED
      BY <1>8, <3>1 DEF Works
  <2> QED
    BY <1>7, <1>8, <2>1, <2>2 DEF Works
<1>9. ASSUME NEW code \in Code, Again(code)
      PROVE  RunsTypeOK'
  <2>1. run.tries + 1 \in 0 .. 2
    BY <1>9 DEF Again, Retries
  <2>2. run' \in [call : Calls \cup {NoCall}, tries : 0 .. 2, codes : SUBSET Code, slow : BOOLEAN]
    BY <1>9, <2>1 DEF Again
  <2>3. tried' \in [Keys \X Code -> Nat]
    BY <1>9, RunningKey DEF Again
  <2> QED
    BY <1>9, <2>2, <2>3 DEF Again, breaker
<1>10. ASSUME NEW code \in Code, GivesUp(code)
       PROVE  RunsTypeOK'
  <2>1. tried' \in [Keys \X Code -> Nat]
    BY <1>10, RunningKey DEF GivesUp
  <2>2. fails' \in [Tool -> 0 .. 3]
    <3>1. fails' = [fails EXCEPT ![run.call.tool] = IF @ < 3 THEN @ + 1 ELSE @]
      BY <1>10 DEF GivesUp, RecordFailure
    <3>2. \A n \in 0 .. 3 : (IF n < 3 THEN n + 1 ELSE n) \in 0 .. 3
      OBVIOUS
    <3> QED
      BY <3>1, <3>2
  <2>3. circuit' \in [Tool -> {"closed", "open", "half"}]
    BY <1>10 DEF GivesUp, RecordFailure
  <2> QED
    BY <1>7, <1>10, <2>1, <2>2, <2>3 DEF GivesUp
<1>11. ASSUME NEW long \in BOOLEAN, Pause(long)
       PROVE  RunsTypeOK'
  <2>1. run' \in [call : Calls \cup {NoCall}, tries : 0 .. 2, codes : SUBSET Code, slow : BOOLEAN]
    BY <1>11 DEF Pause, Free
  <2>2. tried' \in [Keys \X Code -> Nat]
    BY <1>11 DEF Pause
  <2> QED
    BY <1>11, <2>1, <2>2 DEF Pause
<1>12. CASE Compact
  <2>1. tried' \in [Keys \X Code -> Nat]
    BY <1>12 DEF Compact
  <2> QED
    BY <1>12, <2>1 DEF Compact, breaker
<1> QED
  BY <1>1, <1>3, <1>4, <1>5, <1>6, <1>8, <1>9, <1>10, <1>11, <1>12 DEF RepliesNext

-----------------------------------------------------------------------------
(* Retries.                                                                *)

\* A kind of error that was retried already is remembered, and with the retry counted in
\* the call itself that is one too many: the retry is for a kind that is new.
LEMMA AgainRemembers ==
  ASSUME RunsTypeOK, Remembered, NEW code \in Code, Again(code)
  PROVE  Remembered'
<1> DEFINE c == run.call
<1>1. /\ ~Free /\ run.tries \in 0 .. 1
      /\ tried[<<Key(c), code>>] + run.tries < 2
      /\ run' = [run EXCEPT !.tries = @ + 1, !.codes = @ \cup {code}]
      /\ tried' = [tried EXCEPT ![<<Key(c), code>>] = @ + 1]
  <2>1. /\ ~Free /\ run.tries < 2 /\ ~Guarded(Key(c), code)
        /\ run' = [run EXCEPT !.tries = @ + 1, !.codes = @ \cup {code}]
        /\ tried' = [tried EXCEPT ![<<Key(c), code>>] = @ + 1]
    BY DEF Again, Retries
  <2>2. run.tries \in 0 .. 2
    BY DEF RunsTypeOK
  <2>3. tried[<<Key(c), code>>] \in Nat
    BY <2>1, RunningKey DEF RunsTypeOK
  <2>4. ~(tried[<<Key(c), code>>] + run.tries >= 2)
    BY <2>1 DEF Guarded
  <2> HIDE DEF c
  <2> QED
    BY <2>1, <2>2, <2>3, <2>4
<1>2. /\ run'.call = run.call /\ run'.tries = run.tries + 1
      /\ run'.codes = run.codes \cup {code} /\ run'.slow = run.slow
  BY <1>1 DEF RunsTypeOK
<1>3. ~Free'
  BY <1>1, <1>2 DEF Free
<1>4. ASSUME NEW d \in Code
      PROVE  /\ tried'[<<Key(c), d>>] \in Nat
             /\ tried'[<<Key(c), d>>] >= tried[<<Key(c), d>>]
             /\ d = code => tried'[<<Key(c), d>>] >= 1
  <2>1. <<Key(c), d>> \in Keys \X Code
    BY <1>1, RunningKey
  <2>2. tried[<<Key(c), d>>] \in Nat
    BY <2>1 DEF RunsTypeOK
  <2>3. tried'[<<Key(c), d>>] = IF d = code THEN tried[<<Key(c), d>>] + 1 ELSE tried[<<Key(c), d>>]
    BY <1>1, <2>1 DEF RunsTypeOK
  <2> QED
    BY <2>2, <2>3
<1>5. run.codes \subseteq Code
  BY DEF RunsTypeOK
<1>6. ~run'.slow => \A d \in run'.codes : tried'[<<Key(run'.call), d>>] >= 1
  <2> SUFFICES ASSUME ~run.slow, NEW d \in run.codes \cup {code}
               PROVE  tried'[<<Key(c), d>>] >= 1
    BY <1>2
  <2>1. CASE d = code
    BY <1>4, <2>1
  <2>2. CASE d \in run.codes
    <3>1. tried[<<Key(c), d>>] >= 1 /\ d \in Code
      BY <1>1, <1>5, <2>2 DEF Remembered
    <3>2. tried[<<Key(c), d>>] \in Nat
      BY <1>1, <3>1, RunningKey DEF RunsTypeOK
    <3> QED
      BY <1>4, <3>1, <3>2
  <2> QED
    BY <2>1, <2>2
<1>7. ~run'.slow => Cardinality(run'.codes) = run'.tries
  <2> SUFFICES ASSUME ~run.slow
               PROVE  Cardinality(run.codes \cup {code}) = run.tries + 1
    BY <1>2
  <2>1. Cardinality(run.codes) = run.tries /\ IsFiniteSet(run.codes)
    <3>1. IsFiniteSet(Code)
      <4>1. IsFiniteSet({} \cup {"DaemonTimeout"})
        BY FS_EmptySet, FS_AddElement
      <4>2. IsFiniteSet(({} \cup {"DaemonTimeout"}) \cup {"DaemonUnavailable"})
        BY <4>1, FS_AddElement
      <4>3. IsFiniteSet((({} \cup {"DaemonTimeout"}) \cup {"DaemonUnavailable"}) \cup {"InvalidInput"})
        BY <4>2, FS_AddElement
      <4>4. Code = (({} \cup {"DaemonTimeout"}) \cup {"DaemonUnavailable"}) \cup {"InvalidInput"}
        BY DEF Code
      <4> QED
        BY <4>3, <4>4
    <3> QED
      BY <1>5, <3>1, FS_Subset DEF Remembered
  <2>2. code \notin run.codes
    <3> SUFFICES ASSUME code \in run.codes
                 PROVE  FALSE
      OBVIOUS
    <3>1. tried[<<Key(c), code>>] >= 1
      BY <1>1 DEF Remembered
    <3>2. tried[<<Key(c), code>>] \in Nat
      BY <1>1, RunningKey DEF RunsTypeOK
    <3>3. run.tries = 0
      BY <1>1, <3>1, <3>2
    <3>4. run.codes = {}
      BY <2>1, <3>3, FS_EmptySet
    <3> QED
      BY <3>4
  <2> QED
    BY <2>1, <2>2, FS_AddElement
<1> QED
  BY <1>3, <1>6, <1>7 DEF Remembered

\* No step forgets a retry of the call that is running, unless it takes over a minute.
LEMMA RememberedStep ==
  ASSUME RunsTypeOK, Remembered, RepliesNext
  PROVE  Remembered'
<1>1. ASSUME UNCHANGED <<run, tried>>
      PROVE  Remembered'
  BY <1>1 DEF Remembered, Free
<1>2. ASSUME NEW calls \in SUBSET Calls, NEW cut \in BOOLEAN, Reply(calls, cut)
      PROVE  Remembered'
  BY <1>1, <1>2 DEF Reply
<1>3. ASSUME NEW c \in todo, Paused(c) \/ Refuse(c) \/ Served(c)
      PROVE  Remembered'
  <2>1. UNCHANGED <<run, tried>>
    BY <1>3 DEF Paused, Refuse, Served
  <2> QED
    BY <1>1, <2>1
<1>4. ASSUME NEW c \in todo, Start(c)
      PROVE  Remembered'
  <2>1. run'.codes = {} /\ run'.tries = 0 /\ Cardinality({}) = 0
    BY <1>4, FS_EmptySet DEF Start
  <2> QED
    BY <2>1 DEF Remembered
<1>5. ASSUME run' = Ended
      PROVE  Remembered'
  <2>1. run'.codes = {} /\ run'.tries = 0 /\ Cardinality({}) = 0
    BY <1>5, FS_EmptySet DEF Ended
  <2> QED
    BY <2>1 DEF Remembered
<1>6. ASSUME NEW exit \in {"ok", "bad"}, Works(exit)
      PROVE  Remembered'
  BY <1>5, <1>6 DEF Works
<1>7. ASSUME NEW code \in Code, GivesUp(code)
      PROVE  Remembered'
  BY <1>5, <1>7 DEF GivesUp
<1>8. ASSUME NEW long \in BOOLEAN, Pause(long)
      PROVE  Remembered'
  <2>1. /\ run'.call = run.call /\ run'.tries = run.tries /\ run'.codes = run.codes
        /\ run'.slow = (run.slow \/ (long /\ ~Free))
    BY <1>8 DEF Pause, RunsTypeOK
  <2>2. Free' <=> Free
    BY <2>1 DEF Free
  <2>3. ~Free /\ ~run'.slow => tried' = tried
    BY <1>8, <2>1 DEF Pause
  <2>4. ~run'.slow => ~run.slow
    BY <2>1
  <2> QED
    BY <2>1, <2>2, <2>3, <2>4 DEF Remembered
<1>9. CASE Compact
  <2>1. run' = run /\ Free /\ Free'
    BY <1>9 DEF Compact, Free
  <2> QED
    BY <2>1 DEF Remembered
<1> QED
  BY <1>2, <1>3, <1>4, <1>6, <1>7, <1>8, <1>9, AgainRemembers DEF RepliesNext

-----------------------------------------------------------------------------
(* The breaker.                                                            *)

\* A breaker with three failures is open until its tool has rested.
LEMMA RestingStep ==
  ASSUME RunsTypeOK, Resting, RepliesNext
  PROVE  Resting'
<1>1. ASSUME NEW t \in Tool, circuit' = Asking(t), UNCHANGED <<fails, recent, rested>>
      PROVE  Resting'
  <2>1. ASSUME NEW u \in Tool, fails[u] >= 3, u \notin rested
        PROVE  circuit'[u] = "open" /\ u \in recent
    <3>1. circuit[u] = "open" /\ u \in recent
      BY <2>1 DEF Resting
    <3>2. u = t => ~Allowed(t)
      BY <3>1 DEF Allowed
    <3> QED
      BY <1>1, <3>1, <3>2 DEF Asking, RunsTypeOK
  <2> QED
    BY <1>1, <2>1 DEF Resting
<1>2. ASSUME UNCHANGED <<fails, circuit, recent, rested>>
      PROVE  Resting'
  BY <1>2 DEF Resting
<1>3. ASSUME NEW t \in Tool, fails' = [fails EXCEPT ![t] = 0],
             circuit' = [circuit EXCEPT ![t] = "closed"], UNCHANGED <<recent, rested>>
      PROVE  Resting'
  <2>1. ASSUME NEW u \in Tool, fails'[u] >= 3
        PROVE  u # t /\ fails'[u] = fails[u] /\ circuit'[u] = circuit[u]
    <3>1. fails'[t] = 0
      BY <1>3 DEF RunsTypeOK
    <3>2. u # t
      BY <2>1, <3>1
    <3> QED
      BY <1>3, <3>2 DEF RunsTypeOK
  <2> QED
    BY <1>3, <2>1 DEF Resting
<1>4. ASSUME NEW t \in Tool, RecordFailure(t), rested' = rested \ {t}
      PROVE  Resting'
  <2>1. ASSUME NEW u \in Tool, fails'[u] >= 3
        PROVE  u \in rested' \/ (circuit'[u] = "open" /\ u \in recent')
    <3>1. CASE u = t
      BY <1>4, <2>1, <3>1 DEF RecordFailure, RunsTypeOK
    <3>2. CASE u # t
      <4>1. fails'[u] = fails[u] /\ circuit'[u] = circuit[u] /\ recent \subseteq recent'
        BY <1>4, <3>2 DEF RecordFailure, RunsTypeOK
      <4> QED
        BY <1>4, <2>1, <3>2, <4>1 DEF Resting
    <3> QED
      BY <3>1, <3>2
  <2> QED
    BY <2>1 DEF Resting
<1>5. ASSUME NEW c \in todo
      PROVE  c.tool \in Tool
  BY DEF RunsTypeOK, Call
<1>6. ASSUME NEW c \in todo, Refuse(c) \/ Start(c)
      PROVE  Resting'
  <2>1. circuit' = Asking(c.tool) /\ UNCHANGED <<fails, recent, rested>>
    BY <1>6 DEF Refuse, Start
  <2> QED
    BY <1>1, <1>5, <2>1
<1>7. ASSUME NEW c \in todo, Served(c)
      PROVE  Resting'
  BY <1>3, <1>5, <1>7 DEF Served
<1>8. ASSUME NEW c \in todo, Paused(c)
      PROVE  Resting'
  BY <1>2, <1>8 DEF Paused, breaker
<1>9. ASSUME NEW calls \in SUBSET Calls, NEW cut \in BOOLEAN, Reply(calls, cut)
      PROVE  Resting'
  BY <1>2, <1>9 DEF Reply, breaker
<1>10. ASSUME ~Free
       PROVE  run.call.tool \in Tool
  BY <1>10, RunningKey DEF Call
<1>11. ASSUME NEW exit \in {"ok", "bad"}, Works(exit)
       PROVE  Resting'
  BY <1>3, <1>10, <1>11 DEF Works
<1>12. ASSUME NEW code \in Code, Again(code)
       PROVE  Resting'
  BY <1>2, <1>12 DEF Again, breaker
<1>13. ASSUME NEW code \in Code, GivesUp(code)
       PROVE  Resting'
  BY <1>4, <1>10, <1>13 DEF GivesUp
<1>14. ASSUME NEW long \in BOOLEAN, Pause(long)
       PROVE  Resting'
  BY <1>14 DEF Pause, Resting
<1>15. CASE Compact
  BY <1>2, <1>15 DEF Compact, breaker
<1> QED
  BY <1>6, <1>7, <1>8, <1>9, <1>11, <1>12, <1>13, <1>14, <1>15 DEF RepliesNext

-----------------------------------------------------------------------------
(* The theorems.                                                           *)

\* The parts hold together along every run of replies, calls, attempts and pauses.
LEMMA RunsInvariance == RepliesSpec => []RunsInv
<1>1. RunsInv /\ [RepliesNext]_repliesVars => RunsInv'
  <2> SUFFICES ASSUME RunsInv, [RepliesNext]_repliesVars
               PROVE  RunsInv'
    OBVIOUS
  <2>1. CASE RepliesNext
    BY <2>1, RunsTypeStep, RememberedStep, RestingStep DEF RunsInv
  <2>2. CASE UNCHANGED repliesVars
    <3> USE <2>2 DEF repliesVars, breaker, notes
    <3>1. RunsTypeOK'
      BY DEF RunsInv, RunsTypeOK
    <3>2. Remembered'
      BY DEF RunsInv, Remembered, Free
    <3>3. Resting'
      BY DEF RunsInv, Resting
    <3> QED
      BY <3>1, <3>2, <3>3 DEF RunsInv
  <2> QED
    BY <2>1, <2>2
<1> QED
  BY RunsInit, <1>1, PTL DEF RepliesSpec

\* Three attempts at most, and no second retry for a kind of error: for any calls, any
\* number of replies and any failures.
THEOREM RetriesInvariance == RepliesSpec => []OneRetryPerCode
<1>1. RunsInv => OneRetryPerCode
  BY DEF RunsInv, RunsTypeOK, Remembered, OneRetryPerCode
<1> QED
  BY RunsInvariance, <1>1, PTL

\* A tool that failed three times in a row is not run again before it has rested.
THEOREM BreakerInvariance == RepliesSpec => BreakerPauses
<1> DEFINE A == Free /\ ~Free' => LET t == run'.call.tool IN fails[t] < 3 \/ t \in rested
<1>1. RunsInv /\ [RepliesNext]_repliesVars => [A]_repliesVars
  <2> SUFFICES ASSUME RunsInv, RepliesNext, Free, ~Free'
               PROVE  LET t == run'.call.tool IN fails[t] < 3 \/ t \in rested
    OBVIOUS
  <2>1. \E c \in todo : Start(c)
    <3>1. ASSUME NEW c \in todo, Paused(c) \/ Refuse(c) \/ Served(c)
          PROVE  run' = run
      BY <3>1 DEF Paused, Refuse, Served
    <3>2. ASSUME \/ \E calls \in SUBSET Calls, cut \in BOOLEAN : Reply(calls, cut)
                 \/ Compact
          PROVE  run' = run
      BY <3>2 DEF Reply, Compact
    <3>3. ASSUME \/ \E exit \in {"ok", "bad"} : Works(exit)
                 \/ \E code \in Code : Again(code) \/ GivesUp(code)
          PROVE  ~Free
      BY <3>3 DEF Works, Again, GivesUp
    <3>4. ASSUME NEW long \in BOOLEAN, Pause(long)
          PROVE  run'.call = run.call
      BY <3>4 DEF Pause, RunsInv, RunsTypeOK
    <3>5. run'.call # run.call
      BY DEF Free
    <3> QED
      BY <3>1, <3>2, <3>3, <3>4, <3>5 DEF RepliesNext
  <2>2. PICK c \in todo : Start(c)
    BY <2>1
  <2>3. run'.call = c /\ c.tool \in Tool
    BY <2>2 DEF Start, RunsInv, RunsTypeOK, Call
  <2>4. circuit[c.tool] = "open" => c.tool \notin recent
    BY <2>2 DEF Start, Allowed
  <2>5. fails[c.tool] \in 0 .. 3
    BY <2>3 DEF RunsInv, RunsTypeOK
  <2> QED
    BY <2>3, <2>4, <2>5 DEF RunsInv, Resting
<1>2. [][A]_repliesVars <=> BreakerPauses
  BY DEF BreakerPauses
<1> QED
  BY RunsInvariance, <1>1, <1>2, PTL DEF RepliesSpec

-----------------------------------------------------------------------------
(* Hooks: the reviews that rules ask for.                                  *)

\* What a list of reviews holds: the event that asked for each.
Demand == Event \X Action

\* The handlers in force are known ones, and lists are lists.
HooksTypeOK ==
  /\ disk \in Disks /\ overlay \in disk.overlays
  /\ \A e \in DOMAIN active.on : active.on[e] \in DOMAIN Program
  /\ queue \in Seq(Demand) /\ granted \subseteq Event

\* Reviews wait in the queue only while they are being run, so that a task that
\* starts, or a check that begins, finds none.
NoneWaits == pc # "reviews" => queue = <<>>

\* What waits for a check is due, each once, and the keys that are remembered are
\* those of the reviews that are due.
Pending(m, dues) ==
  /\ m.triggers \in Seq(Demand) /\ Len(m.triggers) <= TriggerLimit
  /\ dues \subseteq Event
  /\ Events(m.triggers) \subseteq dues /\ Once(m.triggers)
  /\ \A e \in Event : <<e, "review">> \in m.seen <=> e \in dues
  /\ Events(m.triggers) = dues \/ Len(m.triggers) = TriggerLimit

\* What a check took and did not yet run is granted, each once.
Granted == Events(queue) \subseteq granted /\ Once(queue)

HooksInv == HooksTypeOK /\ NoneWaits /\ Pending(merged, due) /\ Granted

\* A list with one more demand, of an event that has none in it.
LEMMA OneMore ==
  ASSUME NEW s \in Seq(Demand), Once(s), NEW x \in Demand, x[1] \notin Events(s)
  PROVE  /\ Append(s, x) \in Seq(Demand) /\ Len(Append(s, x)) = Len(s) + 1
         /\ Once(Append(s, x)) /\ Events(Append(s, x)) = Events(s) \cup {x[1]}
<1> DEFINE t == Append(s, x)
<1>1. /\ t \in Seq(Demand) /\ Len(t) = Len(s) + 1 /\ Len(s) \in Nat
      /\ \A i \in 1 .. Len(s) : t[i] = s[i]
      /\ t[Len(s) + 1] = x
  BY AppendProperties, LenProperties
<1>2. DOMAIN s = 1 .. Len(s) /\ DOMAIN t = 1 .. Len(s) + 1
  BY <1>1, LenProperties
<1> HIDE DEF t
<1>3. \A i \in DOMAIN t : i \in DOMAIN s \/ i = Len(s) + 1
  BY <1>1, <1>2
<1>4. Len(s) + 1 \in DOMAIN t /\ Len(s) + 1 \notin DOMAIN s /\ DOMAIN s \subseteq DOMAIN t
  BY <1>1, <1>2
<1>5. \A i \in DOMAIN s : t[i] = s[i] /\ t[i][1] # x[1]
  BY <1>1, <1>2 DEF Events
<1>6. Once(t)
  BY <1>1, <1>3, <1>5 DEF Once
<1>7. Events(t) = Events(s) \cup {x[1]}
  BY <1>1, <1>3, <1>4, <1>5 DEF Events
<1> QED
  BY <1>1, <1>6, <1>7 DEF t

\* A list that was full before the demand came is as it was.
LEMMA CutBack ==
  ASSUME NEW s \in Seq(Demand), NEW x \in Demand
  PROVE  SubSeq(Append(s, x), 1, Len(s)) = s
<1> DEFINE t == Append(s, x)
           u == SubSeq(t, 1, Len(s))
<1>1. /\ t \in Seq(Demand) /\ Len(t) = Len(s) + 1 /\ Len(s) \in Nat
      /\ \A i \in 1 .. Len(s) : t[i] = s[i]
  BY AppendProperties, LenProperties
<1> HIDE DEF t
<1>2. u \in Seq(Demand) /\ Len(u) = Len(s) /\ \A i \in 1 .. Len(s) : u[i] = t[i]
  BY <1>1
<1> HIDE DEF u
<1>3. u = s
  BY <1>1, <1>2, SeqEqual
<1> QED
  BY <1>3 DEF u, t

\* An event leaves what is pending in order.
LEMMA MergeOf ==
  ASSUME NEW m, NEW dues, Pending(m, dues), NEW event \in Event, NEW acts \in Seq(Action)
  PROVE  Pending(Capped(Merge(m, event, acts)), dues \cup (IF Asks(acts) THEN {event} ELSE {}))
<1> DEFINE more == Merge(m, event, acts)
           s == m.triggers
           x == <<event, "review">>
           then == dues \cup (IF Asks(acts) THEN {event} ELSE {})
           next == Capped(more)
<1>1. x \in Demand /\ x[1] = event
  BY DEF Demand, Action
<1>2. s \in Seq(Demand) /\ Len(s) \in Nat /\ TriggerLimit \in Nat /\ Len(s) <= TriggerLimit
  BY LenProperties, HooksAssumption DEF Pending
<1>3. /\ next.triggers = Upto(more.triggers, TriggerLimit)
      /\ next.seen = more.seen
  BY DEF Capped, Merge
<1>4. more.triggers = IF Asks(acts) /\ x \notin m.seen THEN Append(s, x) ELSE s
  BY DEF Merge, Asks
<1>5. \A e \in Event : <<e, "review">> \in more.seen <=> e \in then
  <2>1. \A e : <<e, "review">> \in more.seen
                  <=> <<e, "review">> \in m.seen \/ (e = event /\ Asks(acts) /\ x \notin m.seen)
    <3>1. more.seen = m.seen \cup {<<event, a>> : a \in
             {y \in {"check", "review"} : (\E i \in DOMAIN acts : acts[i] = y) /\ <<event, y>> \notin m.seen}}
      BY DEF Merge
    <3> HIDE DEF more
    <3>2. \A e, a : <<e, "review">> = <<event, a>> <=> e = event /\ a = "review"
      OBVIOUS
    <3> QED
      BY <3>1, <3>2 DEF Asks
  <2> HIDE DEF more
  <2> QED
    BY <2>1 DEF Pending
<1>6. then \subseteq Event
  BY DEF Pending
<1>7. /\ next.triggers = Upto(IF Asks(acts) /\ x \notin m.seen THEN Append(s, x) ELSE s, TriggerLimit)
      /\ \A e \in Event : <<e, "review">> \in next.seen <=> e \in then
      /\ then = dues \cup (IF Asks(acts) THEN {event} ELSE {})
  BY <1>3, <1>4, <1>5
<1> HIDE DEF next, more, then
<1>8. ASSUME ~(Asks(acts) /\ x \notin m.seen)
      PROVE  Pending(next, then)
  <2>1. next.triggers = s
    BY <1>2, <1>7, <1>8 DEF Upto
  <2>2. then = dues
    BY <1>7, <1>8 DEF Pending
  <2> QED
    BY <1>7, <2>1, <2>2 DEF Pending
<1>9. ASSUME Asks(acts) /\ x \notin m.seen
      PROVE  Pending(next, then)
  <2>1. event \notin dues /\ event \notin Events(s) /\ then = dues \cup {event}
    BY <1>7, <1>9 DEF Pending
  <2>2. next.triggers = Upto(Append(s, x), TriggerLimit)
    BY <1>7, <1>9
  <2> DEFINE t == Append(s, x)
  <2>3. /\ t \in Seq(Demand) /\ Len(t) = Len(s) + 1
        /\ Once(t) /\ Events(t) = Events(s) \cup {event}
    BY <1>1, <1>2, <2>1, OneMore DEF Pending
  <2>4. SubSeq(t, 1, Len(s)) = s
    BY <1>1, <1>2, CutBack
  <2> HIDE DEF t
  <2>5. CASE Len(s) = TriggerLimit
    <3>1. next.triggers = s
      <4>1. Len(t) > TriggerLimit
        BY <1>2, <2>3, <2>5
      <4>2. next.triggers = SubSeq(t, 1, TriggerLimit)
        BY <2>2, <4>1 DEF Upto, t
      <4> QED
        BY <2>4, <2>5, <4>2
    <3> QED
      BY <1>6, <1>7, <2>1, <2>5, <3>1 DEF Pending
  <2>6. CASE Len(s) # TriggerLimit
    <3>1. next.triggers = t /\ Len(s) + 1 <= TriggerLimit
      <4>1. Len(s) + 1 <= TriggerLimit /\ ~(Len(t) > TriggerLimit)
        BY <1>2, <2>3, <2>6
      <4> QED
        BY <2>2, <4>1 DEF Upto, t
    <3>2. Events(s) = dues
      BY <2>6 DEF Pending
    <3> QED
      BY <1>6, <1>7, <2>1, <2>3, <3>1, <3>2 DEF Pending
  <2> QED
    BY <2>5, <2>6
<1>10. Pending(next, then)
  BY <1>8, <1>9
<1> QED
  BY <1>10 DEF next, more, then

\* What a handler in force leads to is a list of actions.
LEMMA ActsOfEvent ==
  ASSUME HooksTypeOK, NEW event, NEW ctx \in Context
  PROVE  ActsFor(event, ctx) \in Seq(Action)
<1>1. CASE event \in DOMAIN active.on
  <2>1. Program[active.on[event]].does \in [Context -> Seq(Action)]
    BY <1>1, HooksAssumption DEF HooksTypeOK
  <2> QED BY <1>1, <2>1 DEF ActsFor
<1>2. CASE event \notin DOMAIN active.on
  BY <1>2 DEF ActsFor
<1> QED BY <1>1, <1>2

\* The module that files make up has handlers of theirs.
LEMMA LoadedOf ==
  ASSUME NEW d \in Disks, NEW over \in d.overlays, NEW kept,
         \A e \in DOMAIN kept.on : kept.on[e] \in DOMAIN Program
  PROVE  \A e \in DOMAIN LoadedOr(d, over, kept).on :
           LoadedOr(d, over, kept).on[e] \in DOMAIN Program
<1> DEFINE files == Sources(d, over)
           F == {files[i] : i \in DOMAIN files}
<1>1. \A f \in F : Written(f)
  <2>1. Written(d.repo) /\ (over # NoFile => Written(over))
    BY HooksAssumption
  <2>2. CASE over = NoFile
    <3>1. F = {d.repo}
      BY <2>2 DEF Sources
    <3> QED BY <2>1, <3>1
  <2>3. CASE over # NoFile
    <3>1. F = {d.repo, over}
      BY <2>3 DEF Sources
    <3> QED BY <2>1, <2>3, <3>1
  <2> QED BY <2>2, <2>3
<1>2. CASE Compiles(files)
  <2>1. LoadedOr(d, over, kept) = Module(files)
    BY <1>2 DEF LoadedOr
  <2>2. DOMAIN Module(files).on = UNION {Handles(f) : f \in F}
    BY DEF Module
  <2>3. ASSUME NEW e \in UNION {Handles(f) : f \in F}
        PROVE  Module(files).on[e] \in DOMAIN Program
    <3> DEFINE of == CHOOSE f \in F : e \in Handles(f)
    <3>1. of \in F /\ e \in Handles(of)
      BY <2>3
    <3>2. Module(files).on[e] = of.on[e]
      BY <2>3 DEF Module
    <3> HIDE DEF of, F
    <3> QED BY <1>1, <3>1, <3>2 DEF Written
  <2> HIDE DEF files, F
  <2> QED BY <2>1, <2>2, <2>3
<1>3. CASE ~Compiles(files)
  BY <1>3 DEF LoadedOr
<1> QED BY <1>2, <1>3

\* With nothing asked for, nothing waits.
LEMMA NothingPending == Pending(Clear, {})
<1>1. Clear.triggers = <<>> /\ Clear.seen = {}
  BY DEF Clear
<1>2. <<>> \in Seq(Demand) /\ Len(<<>>) = 0 /\ DOMAIN <<>> = {}
  OBVIOUS
<1> QED
  BY <1>1, <1>2, HooksAssumption DEF Pending, Events, Once

\* Before the first task nothing is asked for, waiting or run.
LEMMA HooksStart == HooksInit => HooksInv
<1> SUFFICES ASSUME HooksInit PROVE HooksInv
  OBVIOUS
<1>1. \A e \in DOMAIN Empty.on : Empty.on[e] \in DOMAIN Program
  BY DEF Empty
<1>2. \A e \in DOMAIN active.on : active.on[e] \in DOMAIN Program
  BY <1>1, LoadedOf DEF HooksInit, First
<1>3. queue = <<>> /\ granted = {} /\ due = {} /\ merged = Clear
  BY DEF HooksInit
<1>4. Granted
  BY <1>3 DEF Granted, Events, Once
<1>5. Pending(merged, due)
  BY <1>3, NothingPending
<1> QED BY <1>2, <1>3, <1>4, <1>5 DEF HooksInit, HooksInv, HooksTypeOK, NoneWaits

\* An event with what was left of the reviews: what it adds is due.
LEMMA EventAsks ==
  ASSUME HooksTypeOK, NEW event \in Event, NEW ctx \in Context, NEW m, NEW before,
         Pending(m, before), OnEvent(event, ctx, m, before)
  PROVE  Pending(merged', due')
<1> DEFINE acts == ActsFor(event, ctx)
<1>1. acts \in Seq(Action)
  BY ActsOfEvent
<1>2. /\ merged' = Capped(Merge(m, event, acts))
      /\ due' = before \cup (IF Asks(acts) THEN {event} ELSE {})
  BY DEF OnEvent
<1> HIDE DEF acts
<1> QED BY <1>1, <1>2, MergeOf

LEMMA QuietContext ==
  ASSUME NEW o \in {"none", "critic", "native_sqs"} PROVE Quiet(o) \in Context
BY DEF Quiet, Context

\* An event outside of the reviews, with none waiting.
LEMMA EventKeeps ==
  ASSUME HooksInv, NEW event \in Event, NEW ctx \in Context, Fire(event, ctx, merged),
         UNCHANGED <<disk, overlay, active, queue, granted>>, NoneWaits'
  PROVE  HooksInv'
<1>1. Pending(merged', due')
  BY EventAsks DEF Fire, HooksInv
<1> QED BY <1>1 DEF HooksInv, HooksTypeOK, Granted

\* A check takes the reviews that were asked for: they wait in the queue instead.
LEMMA TakingKeeps ==
  ASSUME HooksInv, pc' = "reviews", Take, UNCHANGED <<disk, overlay, active>>
  PROVE  HooksInv'
<1>1. /\ queue' = merged.triggers /\ merged' = Drained(merged)
      /\ granted' = due /\ due' = {}
  BY DEF Take
<1>2. merged'.triggers = <<>> /\ \A e : <<e, "review">> \notin merged'.seen
  BY <1>1 DEF Drained
<1>3. Pending(merged', due')
  <2>1. <<>> \in Seq(Demand) /\ Len(<<>>) = 0 /\ DOMAIN <<>> = {}
    OBVIOUS
  <2> QED
    BY <1>1, <1>2, <2>1, HooksAssumption DEF Pending, Events, Once
<1>4. Granted'
  BY <1>1 DEF HooksInv, Pending, Granted
<1>5. HooksTypeOK'
  BY <1>1 DEF HooksInv, HooksTypeOK, Pending
<1> QED BY <1>3, <1>4, <1>5 DEF HooksInv, NoneWaits

\* Nothing that the reviews depend on changes.
LEMMA SameReviews ==
  ASSUME HooksInv, NoneWaits', UNCHANGED <<disk, overlay, active, merged, queue, due, granted>>
  PROVE  HooksInv'
BY DEF HooksInv, HooksTypeOK, Granted

\* A queue without its first review has none of its event.
LEMMA RestOfQueue ==
  ASSUME NEW s \in Seq(Demand), s # <<>>, Once(s), NEW g, Events(s) \subseteq g
  PROVE  /\ Tail(s) \in Seq(Demand) /\ Once(Tail(s))
         /\ Events(Tail(s)) \subseteq g \ {Head(s)[1]}
<1> DEFINE t == Tail(s)
<1>1. /\ t \in Seq(Demand) /\ Len(t) = Len(s) - 1 /\ Len(s) \in Nat /\ Len(s) # 0
      /\ \A i \in 1 .. Len(t) : t[i] = s[i + 1]
      /\ Head(s) = s[1]
  BY HeadTailProperties, EmptySeq, LenProperties
<1>2. DOMAIN s = 1 .. Len(s) /\ DOMAIN t = 1 .. Len(t)
  BY <1>1, LenProperties
<1> HIDE DEF t
<1>3. \A i \in DOMAIN t : i \in Nat /\ i + 1 \in DOMAIN s /\ i + 1 # 1 /\ t[i] = s[i + 1] /\ 1 \in DOMAIN s
  BY <1>1, <1>2
<1>4. Once(t)
  <2> SUFFICES ASSUME NEW i \in DOMAIN t, NEW j \in DOMAIN t, t[i][1] = t[j][1]
               PROVE  i = j
    BY DEF Once
  <2>1. i + 1 = j + 1
    BY <1>3 DEF Once
  <2> QED
    BY <1>3, <2>1
<1>5. ASSUME NEW i \in DOMAIN t
      PROVE  t[i][1] \in g /\ t[i][1] # s[1][1]
  BY <1>3 DEF Events, Once
<1>6. Events(t) \subseteq g \ {s[1][1]}
  BY <1>5 DEF Events
<1> QED
  BY <1>1, <1>4, <1>6 DEF t

LEMMA HooksStep == HooksInv /\ [HooksNext]_hooksVars => HooksInv'
<1> SUFFICES ASSUME HooksInv, [HooksNext]_hooksVars PROVE HooksInv'
  OBVIOUS
<1>0. {"session_start", "user_prompt", "post_tool_use", "observer_result",
       "task_complete", "pre_finish"} \subseteq Event
  BY DEF Event
<1>1. CASE StartTask
  <2>1. /\ OnEvent("session_start", Quiet("none"), Clear, {}) /\ granted' = {}
        /\ UNCHANGED <<disk, overlay, active, back, queue>> /\ queue = <<>> /\ pc' # "reviews"
    BY <1>1 DEF StartTask, HooksInv, NoneWaits
  <2>2. Pending(merged', due')
    BY <1>0, <2>1, EventAsks, NothingPending, QuietContext DEF HooksInv
  <2>3. Granted'
    BY <2>1 DEF Granted, Events, Once
  <2> QED BY <2>1, <2>2, <2>3 DEF HooksInv, HooksTypeOK, NoneWaits
<1>2. CASE BeginTurn
  BY <1>2, TakingKeeps DEF BeginTurn
<1>3. CASE CheckTriggers
  BY <1>3, TakingKeeps DEF CheckTriggers
<1>4. CASE Unobserved
  BY <1>4, SameReviews DEF Unobserved, HooksInv, NoneWaits, ghosts
<1>5. CASE Reviewed
  BY <1>5, SameReviews DEF Reviewed, HooksInv, NoneWaits, ghosts
<1>6. CASE Signal
  <2>1. pc' # "reviews" /\ UNCHANGED <<disk, overlay, active, back, queue, granted>> /\ queue = <<>>
    BY <1>6 DEF Signal, HooksInv, NoneWaits
  <2>2. CASE Fire("observer_result", Quiet("native_sqs"), merged)
    BY <1>0, <2>1, <2>2, EventKeeps, QuietContext DEF NoneWaits
  <2>3. CASE UNCHANGED <<merged, fires, fired, due>>
    BY <2>1, <2>3, SameReviews DEF NoneWaits
  <2> QED BY <1>6, <2>2, <2>3 DEF Signal
<1>7. CASE Prompt
  <2>1. pc' # "reviews" /\ UNCHANGED <<disk, overlay, active, back, queue, granted>> /\ queue = <<>>
        /\ Fire("user_prompt", Quiet("none"), merged)
    BY <1>7 DEF Prompt, HooksInv, NoneWaits
  <2> QED BY <1>0, <2>1, EventKeeps, QuietContext DEF NoneWaits
<1>8. CASE Complete
  <2>1. pc' # "reviews" /\ UNCHANGED <<disk, overlay, active, back, queue, granted>> /\ queue = <<>>
        /\ Fire("task_complete", Quiet("none"), merged)
    BY <1>8 DEF Complete, HooksInv, NoneWaits
  <2> QED BY <1>0, <2>1, EventKeeps, QuietContext DEF NoneWaits
<1>9. CASE Finish
  <2>1. pc' # "reviews" /\ UNCHANGED <<disk, overlay, active, back, queue, granted>> /\ queue = <<>>
        /\ Fire("pre_finish", Quiet("none"), merged)
    BY <1>9 DEF Finish, HooksInv, NoneWaits
  <2> QED BY <1>0, <2>1, EventKeeps, QuietContext DEF NoneWaits
<1>10. ASSUME NEW files \in Changes, ToolCall(files) PROVE HooksInv'
  <2> DEFINE ctx == [files |-> files, observer |-> "none"]
  <2>1. ctx \in Context
    BY DEF Context
  <2>2. pc' # "reviews" /\ UNCHANGED <<disk, overlay, active, back, queue, granted>> /\ queue = <<>>
        /\ Fire("post_tool_use", ctx, merged)
    BY <1>10 DEF ToolCall, HooksInv, NoneWaits
  <2> HIDE DEF ctx
  <2> QED BY <1>0, <2>1, <2>2, EventKeeps DEF NoneWaits
<1>11. ASSUME NEW ran \in BOOLEAN, Review(ran) PROVE HooksInv'
  <2>1. /\ pc = "reviews" /\ queue # <<>> /\ queue' = Tail(queue)
        /\ granted' = granted \ {Head(queue)[1]}
        /\ UNCHANGED <<disk, overlay, active, pc, back>>
    BY <1>11 DEF Review
  <2>2. /\ queue' \in Seq(Demand) /\ Once(queue') /\ Events(queue') \subseteq granted'
    BY <2>1, RestOfQueue DEF HooksInv, HooksTypeOK, Granted
  <2>3. NoneWaits' /\ Granted'
    BY <2>1, <2>2 DEF NoneWaits, Granted
  <2>4. Pending(merged', due')
    <3>1. CASE ran
      <4>1. Fire("observer_result", Quiet("critic"), merged)
        BY <1>11, <3>1 DEF Review
      <4> QED BY <1>0, <4>1, EventAsks, QuietContext DEF Fire, HooksInv
    <3>2. CASE ~ran
      <4>1. UNCHANGED <<merged, fires, fired, due>>
        BY <1>11, <3>2 DEF Review
      <4> QED BY <4>1 DEF HooksInv
    <3> QED BY <3>1, <3>2
  <2> QED BY <2>1, <2>2, <2>3, <2>4 DEF HooksInv, HooksTypeOK
<1>12. CASE EndTurn
  BY <1>12, SameReviews DEF EndTurn, HooksInv, NoneWaits, ghosts
<1>13. CASE Leave
  <2>1. /\ pc' # "reviews" /\ queue = <<>>
        /\ UNCHANGED <<disk, overlay, active, queue, granted>>
        /\ \/ merged' = merged /\ due' = due
           \/ merged' = Clear /\ due' = {}
    BY <1>13 DEF Leave, HooksInv, NoneWaits
  <2>2. Pending(merged', due')
    BY <2>1, NothingPending DEF HooksInv
  <2> QED BY <2>1, <2>2 DEF HooksInv, HooksTypeOK, NoneWaits, Granted
<1>14. CASE Reload
  <2>1. active' = LoadedOr(disk, overlay, active)
        /\ UNCHANGED <<disk, overlay, merged, pc, back, queue, fires, fired, due, granted>>
    BY <1>14 DEF Reload, Loaded, ghosts
  <2>2. \A e \in DOMAIN active'.on : active'.on[e] \in DOMAIN Program
    BY <2>1, LoadedOf DEF HooksInv, HooksTypeOK
  <2> QED BY <2>1, <2>2 DEF HooksInv, HooksTypeOK, NoneWaits, Granted
<1>15. ASSUME NEW f \in disk.overlays, SaveOverlay(f) PROVE HooksInv'
  BY <1>15 DEF SaveOverlay, HooksInv, HooksTypeOK, NoneWaits, Granted, ghosts
<1>16. CASE UNCHANGED hooksVars
  BY <1>16, SameReviews DEF hooksVars, HooksInv, NoneWaits, ghosts
<1> QED
  BY <1>1, <1>2, <1>3, <1>4, <1>5, <1>6, <1>7, <1>8, <1>9, <1>10, <1>11, <1>12, <1>13,
     <1>14, <1>15, <1>16 DEF HooksNext

\* Each review that is run answers a demand of its own, made at its event since the
\* check before, and no demand is lost before its check while the cap is not reached:
\* however often rules repeat them, whatever the results of reviews make rules ask
\* for, and wherever a reload of the hooks falls.
THEOREM ReviewsInvariance == HooksSpec => []ReviewsAskedFor
<1>1. HooksInv => ReviewsAskedFor
  BY DEF HooksInv, Pending, Granted, ReviewsAskedFor
<1> QED BY <1>1, HooksStart, HooksStep, PTL DEF HooksSpec
=============================================================================
