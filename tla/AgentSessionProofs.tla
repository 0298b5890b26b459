------------------------- MODULE AgentSessionProofs -------------------------
(***************************************************************************)
(* Theorems about AgentSession, for every set of replies, with and without *)
(* frontend timeouts, and for any bounds.                                  *)
(***************************************************************************)
EXTENDS AgentSession, SequenceTheorems, FiniteSetTheorems, WellFoundedInduction, TLAPS

-----------------------------------------------------------------------------
(* Plan mode.                                                              *)

\* While an agent waits for an approval, the call it asked about is one that its mode
\* allows: the gate has let it through, and no message that comes in changes the mode.
Waiting == pc \in {"approve", "approving"}
GateHolds == Waiting /\ mode = "plan" => Head(calls).kind \in PlanModeTools

\* A step that keeps the wait and what it is about, and one that is in no wait afterwards.
LEMMA Kept ==
  ASSUME GateHolds, UNCHANGED <<mode, calls>>, Waiting' => Waiting
  PROVE  GateHolds'
BY DEF GateHolds

\* A step after which nothing waits has nothing to keep.
LEMMA Left ==
  ASSUME ~Waiting'
  PROVE  GateHolds'
BY DEF GateHolds

\* Execution leaves the wait, and executes the call it is given.
LEMMA RunLeaves ==
  ASSUME NEW c, NEW lines, Run(c, lines)
  PROVE  ~Waiting' /\ ran' \subseteq ran \cup {c}
BY DEF Run, Continue, Waiting

\* A new agent waits for no approval.
LEMMA GateHoldsInit == SessionInit => GateHolds
BY DEF SessionInit, TurnInit, GateHolds, Waiting

\* One case per action; only AskApproval begins a wait, and only for what the mode allows.
LEMMA GateHoldsNext == GateHolds /\ [SessionNext]_sessionVars => GateHolds'
<1> SUFFICES ASSUME GateHolds, [SessionNext]_sessionVars
             PROVE  GateHolds'
  OBVIOUS
<1>1. CASE RaiseAbort \/ Route \/ FrontendStep \/ UserStep \/ UNCHANGED sessionVars
  <2>1. UNCHANGED <<pc, mode, calls>>
    BY <1>1 DEF RaiseAbort, Route, FrontendStep, UserStep, sessionVars, turnVars
  <2> QED
    BY <2>1, Kept DEF Waiting
<1>2. CASE AgentStep
  <2>1. CASE Drain \/ Interrupted \/ StartTurn \/ EndTurn \/ NoReply \/ GivesUp \/ Gate
    BY <2>1, Left DEF Drain, Interrupted, StartTurn, EndTurn, NoReply, GivesUp, Gate, Finish, Waiting
  <2>2. CASE Reinject \/ StillPresented
    BY <2>2, Kept DEF Reinject, StillPresented, turnVars, Waiting
  <2>3. CASE \E kinds \in Replies : ReplyArrives(kinds)
    BY <2>3, Left DEF ReplyArrives, Waiting
  <2>4. ASSUME NEW c \in ToSet(calls), Blocked(c)
        PROVE  GateHolds'
    BY <2>4, Left DEF Blocked, Continue, Waiting
  <2>5. ASSUME NEW c \in ToSet(calls), RunAtOnce(c)
        PROVE  GateHolds'
    BY <2>5, RunLeaves, Left DEF RunAtOnce
  <2>6. ASSUME NEW c \in ToSet(calls), AskApproval(c)
        PROVE  GateHolds'
    BY <2>6 DEF AskApproval, Allowed, Current, GateHolds
  <2>7. CASE LoopHead
    BY <2>7, Kept, Left DEF LoopHead, Continue, Waiting
  <2>8. CASE Approved
    BY <2>8, RunLeaves, Left DEF Approved
  <2>9. CASE Denied \/ Answered \/ QuestionGoesOn \/ FollowUp \/ Refused
    BY <2>9, Left DEF Denied, Answered, QuestionGoesOn, FollowUp, Refused, Continue, Waiting
  <2>10. CASE ApprovalGoesOn
    BY <2>10, Kept DEF ApprovalGoesOn, Waiting
  <2> QED
    BY <1>2, <2>1, <2>2, <2>3, <2>4, <2>5, <2>6, <2>7, <2>8, <2>9, <2>10 DEF AgentStep, AgentNext, Wait
<1> QED
  BY <1>1, <1>2 DEF SessionNext

\* Nothing that happens during an approval wait makes the call it is about one that plan
\* mode would have blocked.
THEOREM GateInvariance == SessionSpec => []GateHolds
BY GateHoldsInit, GateHoldsNext, PTL DEF SessionSpec

\* What a step executes, the mode allows: the mode is looked at before the approval wait,
\* whatever comes in during it, and the call runs after it.
LEMMA RunsAllowed ==
  ASSUME GateHolds, [SessionNext]_sessionVars
  PROVE  \A c \in ran' \ ran : mode = "plan" => c.kind \in PlanModeTools
<1>1. CASE \E c \in ToSet(calls) : RunAtOnce(c)
  BY <1>1, RunLeaves DEF RunAtOnce, Allowed
<1>2. CASE Approved
  BY <1>2, RunLeaves DEF Approved, GateHolds, Waiting
<1>3. CASE UNCHANGED ran
  BY <1>3
<1>4. (\E c \in ToSet(calls) : RunAtOnce(c)) \/ Approved \/ UNCHANGED ran
  <2>1. CASE RaiseAbort \/ Route \/ FrontendStep \/ UserStep \/ UNCHANGED sessionVars
    BY <2>1 DEF RaiseAbort, Route, FrontendStep, UserStep, sessionVars, turnVars
  <2>2. CASE AgentStep
    BY <2>2 DEF AgentStep, AgentNext, Wait, Drain, Reinject, Interrupted, StartTurn, ReplyArrives,
       NoReply, GivesUp, Blocked, AskApproval, EndTurn, LoopHead, Denied, ApprovalGoesOn, Answered,
       QuestionGoesOn, FollowUp, Refused, StillPresented, Gate, turnVars
  <2> QED
    BY <2>1, <2>2 DEF SessionNext
<1> QED
  BY <1>1, <1>2, <1>3, <1>4

\* In plan mode nothing is changed: run_turn's mode gate and the approval wait behind it.
THEOREM PlanMode == SessionSpec => PlanChangesNothing
<1>1. GateHolds /\ [SessionNext]_sessionVars =>
        [\A c \in ran' \ ran : mode = "plan" => c.kind \in PlanModeTools]_sessionVars
  BY RunsAllowed
<1> QED
  BY <1>1, GateInvariance, PTL DEF SessionSpec, PlanChangesNothing

-----------------------------------------------------------------------------
(* Induction, over sets.                                                   *)

\* A set of numbers that is not empty has a least one.
LEMMA LeastNatural ==
  ASSUME NEW S \in SUBSET Nat, S # {}
  PROVE  \E n \in S : \A m \in S : n <= m
<1>1. \E n \in S : \A m \in S : ~(<<m, n>> \in OpToRel(<, Nat))
  BY NatLessThanWellFounded, WFMin
<1>2. PICK n \in S : \A m \in S : ~(<<m, n>> \in OpToRel(<, Nat))
  BY <1>1
<1>3. ASSUME NEW m \in S
      PROVE  n <= m
  <2>1. ~(m < n)
    BY <1>2 DEF OpToRel
  <2> QED
    BY <2>1
<1> QED
  BY <1>3

\* A set that holds the empty sequence and is closed under Append holds every sequence.
LEMMA SeqInduction ==
  ASSUME NEW S, NEW G, <<>> \in G, \A q \in Seq(S), m \in S : q \in G => Append(q, m) \in G
  PROVE  Seq(S) \subseteq G
<1> DEFINE Bad == {n \in Nat : \E q \in Seq(S) : Len(q) = n /\ q \notin G}
<1>1. SUFFICES ASSUME Bad # {} PROVE FALSE
  <2>1. ASSUME Bad = {}, NEW q \in Seq(S) PROVE q \in G
    <3>1. Len(q) \in Nat
      BY LenProperties
    <3> QED
      BY <2>1, <3>1
  <2> QED
    BY <2>1
<1>2. PICK n \in Bad : \A m \in Bad : n <= m
  <2>1. Bad \in SUBSET Nat
    OBVIOUS
  <2> HIDE DEF Bad
  <2> QED
    BY <1>1, <2>1, LeastNatural
<1>3. n \in Nat
  OBVIOUS
<1>4. PICK q \in Seq(S) : Len(q) = n /\ q \notin G
  OBVIOUS
<1>5. PICK r \in Seq(S), m \in S : q = Append(r, m)
  BY <1>4, SequenceEmptyOrAppend
<1>6. r \notin G
  BY <1>4, <1>5
<1>7. Len(r) \in Nat /\ Len(r) + 1 = n
  BY <1>4, <1>5, LenProperties, AppendProperties
<1>8. Len(r) \in Bad
  BY <1>6, <1>7
<1> HIDE DEF Bad
<1> QED
  BY <1>2, <1>3, <1>7, <1>8

-----------------------------------------------------------------------------
(* OfTypes.                                                                *)

UpToStep(f, q, types, n) ==
  IF n = 0 THEN <<>>
  ELSE IF q[n].type \in types THEN Append(f[n - 1], q[n]) ELSE f[n - 1]

IsUpTo(f, q, types, n) == f = [k \in 0 .. n |-> UpToStep(f, q, types, k)]

\* The function that OfTypes' recursion describes exists, up to any length.
LEMMA UpToExists ==
  ASSUME NEW q, NEW types, NEW n \in Nat
  PROVE  \E f : IsUpTo(f, q, types, n)
<1> DEFINE Bad == {k \in Nat : ~\E f : IsUpTo(f, q, types, k)}
<1>1. SUFFICES ASSUME Bad # {} PROVE FALSE
  OBVIOUS
<1>2. PICK k \in Bad : \A m \in Bad : k <= m
  <2>1. Bad \in SUBSET Nat
    OBVIOUS
  <2> HIDE DEF Bad
  <2> QED
    BY <1>1, <2>1, LeastNatural
<1>3. k \in Nat /\ ~\E f : IsUpTo(f, q, types, k)
  OBVIOUS
<1>4. CASE k = 0
  <2> DEFINE f == [j \in 0 .. 0 |-> <<>>]
  <2>1. IsUpTo(f, q, types, 0)
    BY DEF IsUpTo, UpToStep
  <2> QED
    BY <1>3, <1>4, <2>1
<1>5. CASE k > 0
  <2>1. k - 1 \in Nat /\ k - 1 \notin Bad
    BY <1>2, <1>3, <1>5
  <2>2. PICK f : IsUpTo(f, q, types, k - 1)
    BY <2>1
  <2> DEFINE g == [j \in 0 .. k |-> IF j < k THEN f[j] ELSE UpToStep(f, q, types, k)]
  <2>3. ASSUME NEW j \in 0 .. k PROVE g[j] = UpToStep(g, q, types, j)
    <3>1. UpToStep(g, q, types, j) = UpToStep(f, q, types, j)
      <4>1. j # 0 => j - 1 \in 0 .. k /\ j - 1 < k
        BY <1>3
      <4>2. j # 0 => g[j - 1] = f[j - 1]
        BY <4>1
      <4> HIDE DEF g
      <4> QED
        BY <4>2 DEF UpToStep
    <3>2. CASE j < k
      <4>1. j \in 0 .. k - 1
        BY <1>3, <3>2
      <4>2. f[j] = UpToStep(f, q, types, j)
        BY <2>2, <4>1 DEF IsUpTo
      <4> QED
        BY <3>1, <3>2, <4>2
    <3>3. CASE j = k
      BY <3>1, <3>3, <1>3
    <3> QED
      BY <3>2, <3>3, <1>3
  <2>4. g = [j \in 0 .. k |-> UpToStep(g, q, types, j)]
    <3>1. g = [j \in 0 .. k |-> g[j]]
      OBVIOUS
    <3> HIDE DEF g
    <3> QED
      BY <2>3, <3>1
  <2>5. IsUpTo(g, q, types, k)
    BY <2>4 DEF IsUpTo
  <2> QED
    BY <1>3, <2>5
<1> QED
  BY <1>3, <1>4, <1>5

\* Two such functions agree where the sequences they go through agree.
LEMMA UpToUnique ==
  ASSUME NEW f, NEW g, NEW q, NEW r, NEW types, NEW n \in Nat, NEW m \in Nat, n <= m,
         IsUpTo(f, q, types, n), IsUpTo(g, r, types, m), \A k \in 1 .. n : q[k] = r[k]
  PROVE  f[n] = g[n]
<1> DEFINE Bad == {k \in 0 .. n : f[k] # g[k]}
<1>1. SUFFICES ASSUME Bad # {} PROVE FALSE
  <2>1. n \in 0 .. n
    OBVIOUS
  <2> QED
    BY <2>1
<1>2. PICK k \in Bad : \A j \in Bad : k <= j
  <2>1. Bad \in SUBSET Nat
    OBVIOUS
  <2> HIDE DEF Bad
  <2> QED
    BY <1>1, <2>1, LeastNatural
<1>3. k \in 0 .. n /\ k \in 0 .. m /\ f[k] # g[k]
  OBVIOUS
<1>4. f[k] = UpToStep(f, q, types, k) /\ g[k] = UpToStep(g, r, types, k)
  BY <1>3 DEF IsUpTo
<1>5. k # 0 => f[k - 1] = g[k - 1] /\ q[k] = r[k]
  <2> SUFFICES ASSUME k # 0 PROVE f[k - 1] = g[k - 1] /\ q[k] = r[k]
    OBVIOUS
  <2>1. k - 1 \in 0 .. n /\ k \in 1 .. n /\ ~(k <= k - 1)
    BY <1>3
  <2>2. k - 1 \notin Bad
    BY <1>2, <2>1
  <2> QED
    BY <2>1, <2>2
<1> HIDE DEF Bad
<1> QED
  BY <1>3, <1>4, <1>5 DEF UpToStep

\* OfTypes is the last value of such a function.
LEMMA OfTypesUpTo ==
  ASSUME NEW q, NEW types, Len(q) \in Nat
  PROVE  \E f : IsUpTo(f, q, types, Len(q)) /\ OfTypes(q, types) = f[Len(q)]
<1> DEFINE f == CHOOSE f : IsUpTo(f, q, types, Len(q))
<1>1. OfTypes(q, types) = f[Len(q)]
  BY DEF OfTypes, IsUpTo, UpToStep
<1>2. IsUpTo(f, q, types, Len(q))
  BY UpToExists
<1> QED
  BY <1>1, <1>2

\* Nothing of nothing.
LEMMA OfTypesEmpty == ASSUME NEW types PROVE OfTypes(<<>>, types) = <<>>
<1>1. Len(<<>>) = 0
  OBVIOUS
<1>2. PICK f : IsUpTo(f, <<>>, types, 0) /\ OfTypes(<<>>, types) = f[0]
  BY <1>1, OfTypesUpTo
<1> QED
  BY <1>2 DEF IsUpTo, UpToStep

\* One more message, and whether it is one of them.
LEMMA OfTypesAppend ==
  ASSUME NEW S, NEW q \in Seq(S), NEW m \in S, NEW types
  PROVE  OfTypes(Append(q, m), types) =
           IF m.type \in types THEN Append(OfTypes(q, types), m) ELSE OfTypes(q, types)
<1> DEFINE r == Append(q, m)
           n == Len(q)
<1>1. n \in Nat /\ Len(r) = n + 1 /\ (\A k \in 1 .. n : q[k] = r[k]) /\ r[n + 1] = m
  BY LenProperties, AppendProperties
<1> HIDE DEF r, n
<1>2. n = Len(q) /\ Len(r) \in Nat /\ n <= n + 1 /\ n + 1 \in 0 .. n + 1
  BY <1>1 DEF n
<1>3. PICK f : IsUpTo(f, q, types, n) /\ OfTypes(q, types) = f[n]
  BY <1>1, <1>2, OfTypesUpTo
<1>4. PICK g : IsUpTo(g, r, types, n + 1) /\ OfTypes(r, types) = g[n + 1]
  BY <1>1, <1>2, OfTypesUpTo
<1>5. f[n] = g[n]
  <2>1. n + 1 \in Nat
    BY <1>1
  <2> QED
    BY <1>1, <1>2, <1>3, <1>4, <2>1, UpToUnique, ZenonT(40)
<1>6. g[n + 1] = UpToStep(g, r, types, n + 1)
  BY <1>2, <1>4 DEF IsUpTo
<1>7. n + 1 # 0 /\ (n + 1) - 1 = n
  BY <1>1
<1>8. g[n + 1] = IF m.type \in types THEN Append(g[n], m) ELSE g[n]
  BY <1>1, <1>6, <1>7 DEF UpToStep
<1>9. OfTypes(r, types) = IF m.type \in types THEN Append(OfTypes(q, types), m) ELSE OfTypes(q, types)
  BY <1>3, <1>4, <1>5, <1>8
<1> QED
  BY <1>9 DEF r

\* They are messages of the sequence, and of the types.
LEMMA OfTypesSeq ==
  ASSUME NEW S, NEW types
  PROVE  \A q \in Seq(S) : OfTypes(q, types) \in Seq({m \in S : m.type \in types})
<1> DEFINE T == {m \in S : m.type \in types}
           G == {q \in Seq(S) : OfTypes(q, types) \in Seq(T)}
<1>1. <<>> \in G
  BY OfTypesEmpty, EmptySeq
<1>2. ASSUME NEW q \in Seq(S), NEW m \in S, q \in G
      PROVE  Append(q, m) \in G
  <2>1. OfTypes(q, types) \in Seq(T)
    BY <1>2
  <2>2. CASE m.type \in types
    <3>1. m \in T
      BY <2>2
    <3>2. OfTypes(Append(q, m), types) = Append(OfTypes(q, types), m) /\ Append(q, m) \in Seq(S)
      BY <2>2, OfTypesAppend, AppendProperties
    <3>3. Append(OfTypes(q, types), m) \in Seq(T)
      <4> HIDE DEF T
      <4> QED
        BY <2>1, <3>1, AppendProperties
    <3> HIDE DEF T
    <3> QED
      BY <3>2, <3>3
  <2>3. CASE m.type \notin types
    BY <2>1, <2>3, OfTypesAppend, AppendProperties
  <2> QED
    BY <2>2, <2>3
<1> HIDE DEF G
<1>3. Seq(S) \subseteq G
  BY <1>1, <1>2, SeqInduction
<1> QED
  BY <1>3 DEF G

\* The same, with the two parts of it apart.
LEMMA OfTypesIn ==
  ASSUME NEW S, NEW types, NEW q \in Seq(S)
  PROVE  /\ OfTypes(q, types) \in Seq(S)
         /\ \A i \in DOMAIN OfTypes(q, types) : OfTypes(q, types)[i].type \in types
<1> DEFINE T == {m \in S : m.type \in types}
           r == OfTypes(q, types)
<1>1. r \in Seq(T)
  BY OfTypesSeq
<1>2. T \subseteq S /\ \A m \in T : m.type \in types
  OBVIOUS
<1> HIDE DEF T, r
<1>3. r \in Seq(S) /\ \A i \in DOMAIN r : r[i] \in T
  BY <1>1, <1>2, SeqMonotonic, LenProperties
<1> QED
  BY <1>2, <1>3 DEF r

\* Appending to the second of two sequences.
AppendsBehind(p, r, m) == Append(p \o r, m) = p \o Append(r, m)

\* It is appended to the two of them together.
LEMMA AppendConcat ==
  ASSUME NEW S, NEW p \in Seq(S), NEW r \in Seq(S), NEW m \in S
  PROVE  AppendsBehind(p, r, m)
<1>1. <<m>> \in Seq(S) /\ p \o r \in Seq(S)
  BY ConcatProperties
<1>2. Append(r, m) = r \o <<m>> /\ Append(p \o r, m) = (p \o r) \o <<m>>
  BY <1>1, AppendIsConcat
<1> QED
  BY <1>1, <1>2, ConcatAssociative DEF AppendsBehind

\* Those of two sequences after each other.
LEMMA OfTypesConcat ==
  ASSUME NEW S, NEW types, NEW p \in Seq(S), NEW q \in Seq(S)
  PROVE  OfTypes(p \o q, types) = OfTypes(p, types) \o OfTypes(q, types)
<1> DEFINE G == {r \in Seq(S) : OfTypes(p \o r, types) = OfTypes(p, types) \o OfTypes(r, types)}
<1>1. <<>> \in G
  BY OfTypesEmpty, OfTypesIn, EmptySeq, ConcatEmptySeq
<1>2. ASSUME NEW r \in Seq(S), NEW m \in S, r \in G
      PROVE  Append(r, m) \in G
  <2>1. OfTypes(p \o r, types) = OfTypes(p, types) \o OfTypes(r, types)
    BY <1>2
  <2>2. p \o Append(r, m) = Append(p \o r, m) /\ p \o r \in Seq(S) /\ Append(r, m) \in Seq(S)
    <3>1. AppendsBehind(p, r, m)
      BY AppendConcat
    <3> QED
      BY <3>1, ConcatProperties, AppendProperties DEF AppendsBehind
  <2>3. OfTypes(p, types) \in Seq(S) /\ OfTypes(r, types) \in Seq(S)
    BY OfTypesIn
  <2>4. CASE m.type \in types
    <3>1. OfTypes(Append(p \o r, m), types) = Append(OfTypes(p, types) \o OfTypes(r, types), m)
      BY <2>1, <2>2, <2>4, OfTypesAppend
    <3>2. OfTypes(Append(r, m), types) = Append(OfTypes(r, types), m)
      BY <2>4, OfTypesAppend
    <3>3. Append(OfTypes(p, types) \o OfTypes(r, types), m) = OfTypes(p, types) \o Append(OfTypes(r, types), m)
      <4>1. AppendsBehind(OfTypes(p, types), OfTypes(r, types), m)
        BY <2>3, AppendConcat
      <4> QED
        BY <4>1 DEF AppendsBehind
    <3> QED
      BY <2>2, <3>1, <3>2, <3>3
  <2>5. CASE m.type \notin types
    <3>1. OfTypes(Append(p \o r, m), types) = OfTypes(p \o r, types)
      BY <2>2, <2>5, OfTypesAppend, ZenonT(40)
    <3>2. OfTypes(Append(r, m), types) = OfTypes(r, types)
      BY <2>5, OfTypesAppend
    <3> QED
      BY <2>1, <2>2, <3>1, <3>2
  <2> QED
    BY <2>4, <2>5
<1> HIDE DEF G
<1>3. Seq(S) \subseteq G
  BY <1>1, <1>2, SeqInduction
<1>4. q \in G
  BY <1>3
<1> QED
  BY <1>4 DEF G

\* Those of a single message.
LEMMA OfTypesOne ==
  ASSUME NEW S, NEW types, NEW m \in S
  PROVE  OfTypes(<<m>>, types) = IF m.type \in types THEN <<m>> ELSE <<>>
<1>1. <<>> \in Seq(S) /\ Append(<<>>, m) = <<m>>
  BY EmptySeq
<1>2. OfTypes(Append(<<>>, m), types) = IF m.type \in types THEN Append(OfTypes(<<>>, types), m) ELSE OfTypes(<<>>, types)
  BY <1>1, OfTypesAppend, ZenonT(40)
<1> QED
  BY <1>1, <1>2, OfTypesEmpty

\* The first message, and the others.
LEMMA OfTypesHead ==
  ASSUME NEW S, NEW types, NEW q \in Seq(S), q # <<>>
  PROVE  OfTypes(q, types) = OfTypes(<<Head(q)>>, types) \o OfTypes(Tail(q), types)
<1>1. Head(q) \in S /\ Tail(q) \in Seq(S) /\ <<Head(q)>> \in Seq(S) /\ <<Head(q)>> \o Tail(q) = q
  <2>1. Head(q) \in S /\ Tail(q) \in Seq(S) /\ <<Head(q)>> \in Seq(S)
    BY HeadTailProperties
  <2> DEFINE r == <<Head(q)>> \o Tail(q)
  <2>2. /\ Len(r) = Len(q) /\ r \in Seq(S) /\ Len(q) \in Nat /\ Len(q) > 0
        /\ \A i \in 1 .. Len(q) : r[i] = q[i]
    BY <2>1, ConcatProperties, HeadTailProperties, LenProperties
  <2> HIDE DEF r
  <2>3. r = q
    BY <2>2, SeqEqual
  <2> QED
    BY <2>1, <2>3 DEF r
<1> QED
  BY <1>1, OfTypesConcat

\* Taking them twice is taking them once; none of some types, none taken.
LEMMA OfTypesTwice ==
  ASSUME NEW S, NEW types, NEW q \in Seq(S), \A i \in DOMAIN q : q[i].type \in types
  PROVE  OfTypes(q, types) = q
<1> DEFINE G == {r \in Seq(S) : (\A i \in DOMAIN r : r[i].type \in types) => OfTypes(r, types) = r}
<1>1. <<>> \in G
  BY OfTypesEmpty, EmptySeq
<1>2. ASSUME NEW r \in Seq(S), NEW m \in S, r \in G
      PROVE  Append(r, m) \in G
  <2> DEFINE a == Append(r, m)
  <2>1. /\ a \in Seq(S) /\ DOMAIN a = 1 .. Len(r) + 1 /\ Len(r) \in Nat /\ DOMAIN r = 1 .. Len(r)
        /\ a[Len(r) + 1] = m /\ \A i \in 1 .. Len(r) : a[i] = r[i]
    BY AppendProperties, LenProperties
  <2> SUFFICES ASSUME \A i \in DOMAIN a : a[i].type \in types PROVE OfTypes(a, types) = a
    BY <2>1
  <2>2. m.type \in types /\ \A i \in DOMAIN r : r[i].type \in types
    <3> HIDE DEF a
    <3>1. Len(r) + 1 \in DOMAIN a
      BY <2>1
    <3> QED
      BY <2>1, <3>1
  <2>3. OfTypes(r, types) = r
    BY <1>2, <2>2
  <2> QED
    BY <2>2, <2>3, OfTypesAppend
<1> HIDE DEF G
<1>3. q \in G
  BY <1>1, <1>2, SeqInduction
<1> QED
  BY <1>3 DEF G

\* A sequence without any of the types.
LEMMA OfTypesNone ==
  ASSUME NEW S, NEW types, NEW q \in Seq(S), \A i \in DOMAIN q : q[i].type \notin types
  PROVE  OfTypes(q, types) = <<>>
<1> DEFINE r == OfTypes(q, types)
           G == {s \in Seq(S) : (\A i \in DOMAIN s : s[i].type \notin types) => OfTypes(s, types) = <<>>}
<1>1. <<>> \in G
  BY OfTypesEmpty, EmptySeq
<1>2. ASSUME NEW s \in Seq(S), NEW m \in S, s \in G
      PROVE  Append(s, m) \in G
  <2> DEFINE a == Append(s, m)
  <2>1. /\ a \in Seq(S) /\ DOMAIN a = 1 .. Len(s) + 1 /\ Len(s) \in Nat /\ DOMAIN s = 1 .. Len(s)
        /\ a[Len(s) + 1] = m /\ \A i \in 1 .. Len(s) : a[i] = s[i]
    BY AppendProperties, LenProperties
  <2> SUFFICES ASSUME \A i \in DOMAIN a : a[i].type \notin types PROVE OfTypes(a, types) = <<>>
    BY <2>1
  <2>2. m.type \notin types /\ \A i \in DOMAIN s : s[i].type \notin types
    <3> HIDE DEF a
    <3>1. Len(s) + 1 \in DOMAIN a
      BY <2>1
    <3> QED
      BY <2>1, <3>1
  <2>3. OfTypes(s, types) = <<>>
    BY <1>2, <2>2
  <2> QED
    BY <2>2, <2>3, OfTypesAppend
<1> HIDE DEF G
<1>3. q \in G
  BY <1>1, <1>2, SeqInduction
<1> QED
  BY <1>3 DEF G
-----------------------------------------------------------------------------
(* Counting approvals.                                                     *)

One(m) == IF IsYes(m) THEN 1 ELSE 0

\* Approvals are counted in natural numbers.
LEMMA YesesNat == ASSUME NEW S, NEW q \in Seq(S) PROVE Yeses(q) \in Nat
<1>1. IsFiniteSet(1 .. Len(q)) /\ DOMAIN q = 1 .. Len(q)
  BY LenProperties, FS_Interval
<1>2. {i \in DOMAIN q : IsYes(q[i])} \subseteq 1 .. Len(q)
  BY <1>1
<1> QED
  BY <1>1, <1>2, FS_Subset, FS_CardinalityType DEF Yeses

\* There is none in an empty queue.
LEMMA YesesEmpty == Yeses(<<>>) = 0
<1>1. {i \in DOMAIN <<>> : IsYes(<<>>[i])} = {}
  OBVIOUS
<1> QED
  BY <1>1, FS_EmptySet DEF Yeses

\* One more message may be one more approval.
LEMMA YesesAppend ==
  ASSUME NEW S, NEW q \in Seq(S), NEW m \in S
  PROVE  Yeses(Append(q, m)) = Yeses(q) + One(m)
<1> DEFINE r == Append(q, m)
           n == Len(q)
           A == {i \in 1 .. n : IsYes(q[i])}
           B == {i \in 1 .. n + 1 : IsYes(r[i])}
<1>1. /\ n \in Nat /\ DOMAIN q = 1 .. n /\ DOMAIN r = 1 .. n + 1
      /\ (\A i \in 1 .. n : r[i] = q[i]) /\ r[n + 1] = m
  BY LenProperties, AppendProperties
<1>2. IsFiniteSet(1 .. n)
  BY <1>1, FS_Interval
<1>3. IsFiniteSet(A) /\ n + 1 \notin A
  <2>1. A \subseteq 1 .. n /\ n + 1 \notin 1 .. n
    BY <1>1
  <2> QED
    BY <1>2, <2>1, FS_Subset
<1>4. Yeses(q) = Cardinality(A) /\ Yeses(r) = Cardinality(B)
  BY <1>1 DEF Yeses
<1>5. B = IF IsYes(m) THEN A \cup {n + 1} ELSE A
  <2> HIDE DEF r, n
  <2> QED
    BY <1>1
<1> HIDE DEF A, B, r, n
<1>6. CASE IsYes(m)
  BY <1>3, <1>4, <1>5, <1>6, FS_AddElement DEF One, r
<1>7. CASE ~IsYes(m)
  <2>1. Cardinality(A) \in Nat
    BY <1>3, FS_CardinalityType
  <2> QED
    BY <1>4, <1>5, <1>7, <2>1 DEF One, r
<1> QED
  BY <1>6, <1>7

\* The first message may be one, the others have theirs.
LEMMA YesesHead ==
  ASSUME NEW S, NEW q \in Seq(S), q # <<>>
  PROVE  Yeses(q) = One(Head(q)) + Yeses(Tail(q))
<1> DEFINE G == {r \in Seq(S) : r # <<>> => Yeses(r) = One(Head(r)) + Yeses(Tail(r))}
<1>1. <<>> \in G
  BY EmptySeq
<1>2. ASSUME NEW r \in Seq(S), NEW m \in S, r \in G
      PROVE  Append(r, m) \in G
  <2>1. /\ Append(r, m) \in Seq(S) /\ Yeses(Append(r, m)) = Yeses(r) + One(m)
        /\ Head(Append(r, m)) = IF r = <<>> THEN m ELSE Head(r)
        /\ Tail(Append(r, m)) = IF r = <<>> THEN <<>> ELSE Append(Tail(r), m)
    BY AppendProperties, YesesAppend, HeadTailAppend
  <2>2. One(m) \in Nat /\ One(Head(r)) \in Nat
    BY DEF One
  <2>3. CASE r = <<>>
    BY <2>1, <2>2, <2>3, YesesEmpty
  <2>4. CASE r # <<>>
    <3>1. Tail(r) \in Seq(S) /\ Yeses(r) = One(Head(r)) + Yeses(Tail(r))
      BY <1>2, <2>4, HeadTailProperties
    <3>2. Yeses(Append(Tail(r), m)) = Yeses(Tail(r)) + One(m) /\ Yeses(Tail(r)) \in Nat
      BY <3>1, YesesAppend, YesesNat
    <3>3. Head(Append(r, m)) = Head(r) /\ Tail(Append(r, m)) = Append(Tail(r), m)
      BY <2>1, <2>4
    <3>4. Yeses(Append(r, m)) = One(Head(Append(r, m))) + Yeses(Tail(Append(r, m)))
      <4>1. Yeses(Append(r, m)) = (One(Head(r)) + Yeses(Tail(r))) + One(m)
        BY <2>1, <3>1
      <4>2. One(Head(Append(r, m))) + Yeses(Tail(Append(r, m))) = One(Head(r)) + (Yeses(Tail(r)) + One(m))
        BY <3>2, <3>3
      <4>3. ASSUME NEW a \in Nat, NEW b \in Nat, NEW c \in Nat PROVE (a + b) + c = a + (b + c)
        OBVIOUS
      <4> QED
        BY <2>2, <3>2, <4>1, <4>2, <4>3
    <3> QED
      BY <2>1, <3>4
  <2> QED
    BY <2>3, <2>4
<1> HIDE DEF G
<1>3. q \in G
  BY <1>1, <1>2, SeqInduction
<1> QED
  BY <1>3 DEF G

\* Keeping the answers keeps the approvals.
LEMMA YesesKept ==
  ASSUME NEW S, NEW q \in Seq(S)
  PROVE  Yeses(OfTypes(q, Answers)) = Yeses(q)
<1> DEFINE G == {r \in Seq(S) : Yeses(OfTypes(r, Answers)) = Yeses(r)}
<1>1. <<>> \in G
  BY OfTypesEmpty, EmptySeq
<1>2. ASSUME NEW r \in Seq(S), NEW m \in S, r \in G
      PROVE  Append(r, m) \in G
  <2>1. Append(r, m) \in Seq(S) /\ Yeses(Append(r, m)) = Yeses(r) + One(m) /\ Yeses(r) \in Nat
    BY AppendProperties, YesesAppend, YesesNat
  <2>2. CASE m.type \in Answers
    <3>1. OfTypes(Append(r, m), Answers) = Append(OfTypes(r, Answers), m) /\ OfTypes(r, Answers) \in Seq(S)
      BY <2>2, OfTypesAppend, OfTypesIn
    <3>2. Yeses(Append(OfTypes(r, Answers), m)) = Yeses(OfTypes(r, Answers)) + One(m)
      BY <3>1, YesesAppend
    <3> QED
      BY <1>2, <2>1, <3>1, <3>2
  <2>3. CASE m.type \notin Answers
    <3>1. OfTypes(Append(r, m), Answers) = OfTypes(r, Answers)
      BY <2>3, OfTypesAppend
    <3>2. One(m) = 0
      BY <2>3 DEF One, IsYes, Answers
    <3> QED
      BY <1>2, <2>1, <3>1, <3>2
  <2> QED
    BY <2>2, <2>3
<1> HIDE DEF G
<1>3. q \in G
  BY <1>1, <1>2, SeqInduction
<1> QED
  BY <1>3 DEF G

-----------------------------------------------------------------------------
(* The kinds of things the variables hold, and the shape of an agent step. *)

\* What the frontend sends, what the trajectory keeps, and what di-core prints.
Said == [type : Texts, text : Nat]
Message ==
  Said \cup [type : {"FollowupAnswer"}, text : Nat]
       \cup [type : {"ApprovalResponse"}, approved : BOOLEAN]
       \cup [type : {"SetMode"}, mode : {"plan", "act"}] \cup [type : {"Interrupt"}]
CallEntry == [type : {"call", "result"}, call : Call]
Entry == Message \cup CallEntry
AboutCalls == {"ToolCallStarted", "FrontendTimeout", "TaskPresented", "FollowupQuestion"}
Other ==
  [type : AboutCalls, call : Call \cup {NoCall}] \cup [type : {"TaskFinished"}, success : BOOLEAN]
ApprovalLine == [type : {"ApprovalNeeded"}, call : Call]
Line == Other \cup ApprovalLine

NeedsCall == {"approve", "approving", "ask", "asking"}
Late == NeedsCall \cup {"gate", "finished"}
CallsOK == calls \in Seq(Call) /\ counter \in Nat /\ (pc \in NeedsCall => calls # <<>>)
Reply == {m \in Message : m.type \in Answers}
QueuesOK ==
  /\ stdin \in Seq(Message) /\ inbox \in Seq(Message)
  /\ reinject \in Seq(Message) /\ reinject \in Seq(Reply)
EntriesOK == trajectory \in Seq(Entry)
LinesOK == events \in Seq(Line) /\ (prompt \in Line \/ prompt = NoPrompt)
SaidOK == said \in Seq(Message) /\ sent \in Nat
SetsOK == IsFiniteSet(ran) /\ ran \subseteq Call /\ IsFiniteSet(approved) /\ approved \subseteq Call
TypesOK == CallsOK /\ QueuesOK /\ EntriesOK /\ LinesOK /\ SaidOK /\ SetsOK

\* What is a message, what is an entry, and which of them say something.
LEMMA MessageFacts ==
  /\ Message \subseteq Entry
  /\ \A m \in Said : m \in Message /\ m.type \in Texts
  /\ \A s \in CallEntry : s \in Entry /\ s.type \notin Texts
  /\ \A c \in Call : Result(c) \in CallEntry /\ Issued(c) \in CallEntry
BY DEF Message, Said, Entry, CallEntry, Texts, Result, Issued

\* Entries that say nothing.
Quiet == trajectory' \in Seq(Entry) /\ OfTypes(trajectory', Texts) = OfTypes(trajectory, Texts)

\* Calls and results that are recorded say nothing.
LEMMA QuietSteps ==
  ASSUME EntriesOK, NEW steps \in Seq(CallEntry), Record(steps)
  PROVE  Quiet
<1>1. steps \in Seq(Entry)
  BY MessageFacts, SeqMonotonic
<1>2. \A i \in DOMAIN steps : steps[i].type \notin Texts
  <2>1. \A i \in DOMAIN steps : steps[i] \in CallEntry
    BY LenProperties
  <2> QED
    BY <2>1, MessageFacts
<1>3. OfTypes(steps, Texts) = <<>>
  BY <1>1, <1>2, OfTypesNone
<1>4. trajectory \o steps \in Seq(Entry)
  BY <1>1, ConcatProperties DEF EntriesOK
<1>5. OfTypes(trajectory \o steps, Texts) = OfTypes(trajectory, Texts) \o OfTypes(steps, Texts)
  BY <1>1, OfTypesConcat DEF EntriesOK
<1>6. OfTypes(trajectory, Texts) \in Seq(Entry)
  BY OfTypesIn DEF EntriesOK
<1> QED
  BY <1>3, <1>4, <1>5, <1>6, ConcatEmptySeq DEF Quiet, Record

\* A result alone.
LEMMA QuietResult ==
  ASSUME EntriesOK, NEW c \in Call, Record(<<Result(c)>>)
  PROVE  Quiet
<1>1. <<Result(c)>> \in Seq(CallEntry)
  BY MessageFacts
<1> QED
  BY <1>1, QuietSteps

\* Nothing recorded says nothing.
LEMMA QuietUnchanged == ASSUME EntriesOK, UNCHANGED trajectory PROVE Quiet
BY DEF EntriesOK, Quiet

\* The calls of a turn, one by one.
LEMMA HeadIsCall == ASSUME CallsOK, calls # <<>> PROVE Head(calls) \in Call /\ Tail(calls) \in Seq(Call)
BY HeadTailProperties DEF CallsOK

\* The call the loop is at is the first of the turn.
LEMMA CurrentIsCall == ASSUME CallsOK, NEW c, Current(c) PROVE c = Head(calls) /\ c \in Call /\ calls # <<>>
BY HeadIsCall DEF Current

\* What a step may execute.
RunsAtMost(c) == ran' = ran \/ ran' = ran \cup {c}

\* Execution records at most a result, and runs at most the call it is given.
LEMMA RunShape ==
  ASSUME EntriesOK, NEW c \in Call, NEW lines, Run(c, lines)
  PROVE  Quiet /\ RunsAtMost(c)
<1>1. Record(<<Result(c)>>) \/ UNCHANGED trajectory
  BY DEF Run, Continue
<1>2. RunsAtMost(c)
  BY DEF Run, RunsAtMost
<1> QED
  BY <1>1, <1>2, QuietResult, QuietUnchanged

Aside ==
  /\ UNCHANGED <<inbox, reinject>>
  /\ Quiet
  /\ \E c \in Call : ran' = ran \/ (ran' = ran \cup {c} /\ ~NeedsApproval(c))
Takes ==
  /\ inbox # <<>> /\ inbox' = Tail(inbox) /\ UNCHANGED reinject
  /\ \/ Head(inbox).type \in Texts /\ Record(<<Head(inbox)>>) /\ UNCHANGED ran
     \/ /\ Head(inbox).type \notin Texts /\ Quiet
        /\ \E c \in Call : ran' = ran \/ (ran' = ran \cup {c} /\ IsYes(Head(inbox)))

\* There are calls.
LEMMA SomeCall == \E c \in Call : TRUE
<1>1. [id |-> 1, kind |-> "read"] \in Call
  BY DEF Call, Kinds
<1> QED
  BY <1>1

\* A step apart from the queues that runs nothing.
LEMMA AsideWhen ==
  ASSUME UNCHANGED <<inbox, reinject, ran>>, Quiet
  PROVE  Aside
BY SomeCall DEF Aside

\* A step that takes a message which says nothing.
LEMMA TakesWhen ==
  ASSUME inbox # <<>>, inbox' = Tail(inbox), Head(inbox).type \notin Texts, UNCHANGED <<reinject, ran>>, Quiet
  PROVE  Takes
BY SomeCall DEF Takes

\* A wait that records what it hears, at a text ...
LEMMA TakesText ==
  ASSUME QueuesOK, inbox # <<>>, inbox' = Tail(inbox), Head(inbox).type \in Texts, UNCHANGED <<reinject, ran>>,
         Record(Heard)
  PROVE  Takes
<1>1. Head(inbox) \in Message
  BY HeadTailProperties DEF QueuesOK
<1>2. Heard = <<Head(inbox)>>
  BY <1>1, OfTypesOne DEF Heard
<1> QED
  BY <1>2 DEF Takes

\* ... and at any other message.
LEMMA TakesOther ==
  ASSUME QueuesOK, EntriesOK, inbox # <<>>, inbox' = Tail(inbox), Head(inbox).type \notin Texts,
         UNCHANGED <<reinject, ran>>, Record(Heard)
  PROVE  Takes
<1>1. Head(inbox) \in Message
  BY HeadTailProperties DEF QueuesOK
<1>2. Heard = <<>>
  BY <1>1, OfTypesOne DEF Heard
<1>3. Heard \in Seq(CallEntry)
  BY <1>2
<1> QED
  BY <1>3, QuietSteps, TakesWhen

\* A reply is numbered and recorded as calls.
LEMMA ReplyIsCalls ==
  ASSUME CallsOK, NEW kinds \in Replies, ReplyArrives(kinds)
  PROVE  /\ calls' \in Seq(Call)
         /\ \E steps \in Seq(CallEntry) : Record(steps)
<1> DEFINE n == Len(kinds)
           call(i) == [id |-> counter + i, kind |-> kinds[i]]
<1>1. kinds \in Seq(Kinds)
  BY RepliesAssumption
<1>2. n \in Nat /\ DOMAIN kinds = 1 .. n /\ \A i \in 1 .. n : kinds[i] \in Kinds
  BY <1>1, LenProperties
<1>3. ASSUME NEW i \in 1 .. n PROVE call(i) \in Call /\ Issued(call(i)) \in CallEntry
  <2>1. counter + i \in Nat \ {0}
    BY <1>2 DEF CallsOK
  <2>2. call(i) \in Call
    BY <2>1, <1>2 DEF Call
  <2> HIDE DEF call
  <2> QED
    BY <2>2, MessageFacts
<1>4. calls' = [i \in 1 .. n |-> call(i)]
  BY <1>2 DEF ReplyArrives
<1>5. Record([i \in 1 .. n |-> Issued(call(i))])
  BY <1>2 DEF ReplyArrives
<1> HIDE DEF call, n
<1>6. [i \in 1 .. n |-> call(i)] \in Seq(Call)
  BY <1>2, <1>3, SeqDef
<1>7. [i \in 1 .. n |-> Issued(call(i))] \in Seq(CallEntry)
  <2>1. [i \in 1 .. n |-> Issued(call(i))] \in [1 .. n -> CallEntry]
    BY <1>3
  <2> QED
    BY <1>2, <2>1, SeqDef
<1> QED
  BY <1>4, <1>5, <1>6, <1>7

\* The agent's queue holds messages.
LEMMA HeadIsMessage ==
  ASSUME QueuesOK, inbox # <<>>
  PROVE  Head(inbox) \in Message /\ Tail(inbox) \in Seq(Message)
BY HeadTailProperties DEF QueuesOK

\* Every step of an agent leaves the queues, drains its queue, puts a reply back or takes one message.
LEMMA AgentShape ==
  ASSUME TypesOK, AgentStep
  PROVE  Aside \/ Drain \/ Reinject \/ Takes
<1> USE DEF TypesOK
<1>1. CASE Interrupted \/ StartTurn \/ NoReply \/ GivesUp \/ EndTurn \/ Gate
  BY <1>1, AsideWhen, QuietUnchanged DEF Interrupted, StartTurn, NoReply, GivesUp, EndTurn, Gate
<1>2. CASE \E kinds \in Replies : ReplyArrives(kinds)
  <2>1. PICK kinds \in Replies : ReplyArrives(kinds)
    BY <1>2
  <2>2. Quiet
    BY <2>1, ReplyIsCalls, QuietSteps
  <2> QED
    BY <2>1, <2>2, AsideWhen DEF ReplyArrives
<1>3. ASSUME NEW c \in ToSet(calls), Blocked(c)
      PROVE  Aside
  <2>1. c \in Call
    BY <1>3, CurrentIsCall DEF Blocked
  <2> QED
    BY <1>3, <2>1, QuietResult, AsideWhen DEF Blocked, Continue
<1>4. ASSUME NEW c \in ToSet(calls), RunAtOnce(c)
      PROVE  Aside
  <2>1. c \in Call
    BY <1>4, CurrentIsCall DEF RunAtOnce, Allowed
  <2>2. Quiet /\ RunsAtMost(c)
    BY <1>4, <2>1, RunShape DEF RunAtOnce
  <2>3. ~NeedsApproval(c) /\ UNCHANGED <<reinject, inbox>>
    BY <1>4 DEF RunAtOnce
  <2> QED
    BY <2>1, <2>2, <2>3 DEF Aside, RunsAtMost
<1>5. ASSUME NEW c \in ToSet(calls), AskApproval(c)
      PROVE  Aside
  BY <1>5, QuietUnchanged, AsideWhen DEF AskApproval
<1>6. CASE LoopHead
  <2>1. Head(calls) \in Call
    BY <1>6, HeadIsCall DEF LoopHead, CallsOK, NeedsCall
  <2>2. Quiet
    <3>1. Record(<<Result(Head(calls))>>) \/ UNCHANGED trajectory
      BY <1>6 DEF LoopHead, Continue
    <3> QED
      BY <2>1, <3>1, QuietResult, QuietUnchanged
  <2> QED
    BY <1>6, <2>2, AsideWhen DEF LoopHead
<1>7. CASE Approved
  <2>1. Head(calls) \in Call
    BY <1>7, HeadIsCall DEF Approved, CallsOK, NeedsCall
  <2>2. Quiet /\ RunsAtMost(Head(calls))
    BY <1>7, <2>1, RunShape DEF Approved
  <2>3. inbox # <<>> /\ inbox' = Tail(inbox) /\ UNCHANGED reinject /\ IsYes(Head(inbox))
    BY <1>7 DEF Approved
  <2>4. Head(inbox).type \notin Texts
    BY <2>3 DEF IsYes, Texts
  <2> QED
    BY <2>1, <2>2, <2>3, <2>4 DEF Takes, RunsAtMost
<1>8. CASE Denied \/ Answered
  <2>1. Head(calls) \in Call
    BY <1>8, HeadIsCall DEF Denied, Answered, CallsOK, NeedsCall
  <2>2. Quiet
    BY <1>8, <2>1, QuietResult DEF Denied, Answered, Continue
  <2>3. UNCHANGED <<reinject, ran>>
    BY <1>8 DEF Denied, Answered
  <2>4. UNCHANGED inbox \/ (inbox # <<>> /\ inbox' = Tail(inbox) /\ Head(inbox).type \notin Texts)
    BY <1>8 DEF Denied, Answered, NoAnswer, Receives, Texts
  <2> QED
    BY <2>2, <2>3, <2>4, AsideWhen, TakesWhen
<1>9. CASE ApprovalGoesOn \/ QuestionGoesOn \/ FollowUp
  <2>1. inbox # <<>> /\ inbox' = Tail(inbox) /\ UNCHANGED <<reinject, ran>> /\ Record(Heard)
    BY <1>9 DEF ApprovalGoesOn, QuestionGoesOn, FollowUp, Receives
  <2> QED
    BY <2>1, TakesText, TakesOther
<1>10. CASE Refused \/ StillPresented
  <2>1. inbox # <<>> /\ inbox' = Tail(inbox) /\ UNCHANGED <<reinject, ran, trajectory>>
    BY <1>10 DEF Refused, StillPresented, Receives, turnVars
  <2>2. Head(inbox).type \notin Texts
    BY <1>10 DEF Refused, StillPresented, Receives, Texts, IsYes
  <2> QED
    BY <2>1, <2>2, QuietUnchanged, TakesWhen
<1> HIDE DEF TypesOK
<1> QED
  BY <1>1, <1>2, <1>3, <1>4, <1>5, <1>6, <1>7, <1>8, <1>9, <1>10 DEF AgentStep, AgentNext, Wait

\* Lines printed that ask for no approval.
Prints == \E lines \in Seq(Other) : events' = events \o lines

\* Lines that ask for no approval.
LEMMA OtherFacts ==
  /\ TaskFinished(FALSE) \in Other /\ TaskFinished(TRUE) \in Other
  /\ \A c \in Call \cup {NoCall} : \A t \in AboutCalls : Event(t, c) \in Other
BY DEF Other, TaskFinished, Event

\* No line, ...
LEMMA PrintsNothing == ASSUME LinesOK, UNCHANGED events PROVE Prints
<1>1. <<>> \in Seq(Other) /\ events \o <<>> = events
  BY EmptySeq, ConcatEmptySeq DEF LinesOK
<1> QED
  BY <1>1 DEF Prints

\* ... one, ...
LEMMA PrintsOne == ASSUME NEW e \in Other, Emit(<<e>>) PROVE Prints
<1>1. <<e>> \in Seq(Other)
  OBVIOUS
<1> QED
  BY <1>1 DEF Prints, Emit

\* ... two, ...
LEMMA PrintsTwo == ASSUME NEW e \in Other, NEW f \in Other, Emit(<<e, f>>) PROVE Prints
<1>1. <<e, f>> \in Seq(Other)
  OBVIOUS
<1> QED
  BY <1>1 DEF Prints, Emit

\* ... some and one behind them, ...
LEMMA PrintsBehind ==
  ASSUME NEW lines \in Seq(Other), NEW e \in Other, Emit(lines \o <<e>>)
  PROVE  Prints
<1>1. lines \o <<e>> \in Seq(Other)
  BY ConcatProperties
<1> QED
  BY <1>1 DEF Prints, Emit

\* ... or some.
LEMMA PrintsThese == ASSUME NEW lines \in Seq(Other), Emit(lines) PROVE Prints
BY DEF Prints, Emit

\* Execution asks for no approval.
LEMMA RunPrints ==
  ASSUME NEW c \in Call, NEW lines \in Seq(Other), Run(c, lines)
  PROVE  Prints
<1>1. /\ Event("FollowupQuestion", c) \in Other /\ Event("TaskPresented", c) \in Other
      /\ TaskFinished(TRUE) \in Other
  BY OtherFacts DEF AboutCalls
<1>2. \/ Emit(lines) \/ Emit(lines \o <<Event("FollowupQuestion", c)>>)
      \/ Emit(lines \o <<Event("TaskPresented", c)>>) \/ Emit(lines \o <<TaskFinished(TRUE)>>)
  BY DEF Run
<1> QED
  BY <1>1, <1>2, PrintsThese, PrintsBehind

\* The calls are gone through in order, or dropped.
Onward ==
  /\ UNCHANGED counter
  /\ \/ calls' = calls /\ (pc \in Late => pc' \in Late)
     \/ calls' = <<>>
     \/ calls # <<>> /\ calls' = Tail(calls)

RunOnward(c) ==
  /\ (calls' = calls /\ pc' \in Late) \/ calls' = Tail(calls)
  /\ pc' \in NeedsCall => calls' = calls

\* Execution goes on to the next call or keeps this one while it waits or ends.
LEMMA RunCalls == ASSUME NEW c, NEW lines, Run(c, lines) PROVE RunOnward(c)
BY DEF Run, RunOnward, Continue, NeedsCall, Late

\* A step in which no approval is asked for, and its calls.
Goes == Onward /\ Prints /\ (pc' \in NeedsCall => calls' # <<>>)

\* Every step of an agent goes on, receives a reply, or asks for the approval of the first call.
LEMMA CallsShape ==
  ASSUME TypesOK, AgentStep
  PROVE  Goes \/ (\E kinds \in Replies : ReplyArrives(kinds)) \/ (\E c \in Call : c = Head(calls) /\ AskApproval(c))
<1>1. CASE Drain \/ Reinject \/ StartTurn \/ NoReply
  <2>1. UNCHANGED <<counter, calls, events>>
    BY <1>1 DEF Drain, Reinject, StartTurn, NoReply
  <2>2. pc' \notin NeedsCall /\ pc \notin Late
    BY <1>1 DEF Drain, Reinject, Drained, StartTurn, NoReply, NeedsCall, Late
  <2> QED
    BY <2>1, <2>2, PrintsNothing DEF TypesOK, Goes, Onward
<1>2. CASE Interrupted \/ GivesUp \/ EndTurn \/ Gate
  <2>1. UNCHANGED counter /\ ((calls' = calls /\ (pc \in Late => pc' \in Late)) \/ calls' = <<>>) /\ pc' \notin NeedsCall
    BY <1>2 DEF Interrupted, Drained, GivesUp, EndTurn, Gate, Finish, NeedsCall, Late
  <2>2. \/ UNCHANGED events \/ Emit(<<TaskFinished(FALSE)>>)
        \/ Emit(<<TaskFinished(FALSE), TaskFinished(FALSE)>>) \/ Emit(<<>>)
        \/ Emit(<<Event("FollowupQuestion", NoCall), TaskFinished(FALSE)>>)
    BY <1>2 DEF Interrupted, GivesUp, EndTurn, Gate, Finish
  <2>3. Event("FollowupQuestion", NoCall) \in Other /\ TaskFinished(FALSE) \in Other
    BY OtherFacts DEF AboutCalls
  <2>4. <<>> \in Seq(Other)
    BY EmptySeq
  <2>5. Prints
    BY <2>2, <2>3, <2>4, PrintsNothing, PrintsOne, PrintsTwo, PrintsThese DEF TypesOK
  <2> QED
    BY <2>1, <2>5 DEF Goes, Onward
<1>3. ASSUME NEW c \in ToSet(calls), Blocked(c)
      PROVE  Goes
  <2>1. calls # <<>> /\ calls' = Tail(calls) /\ UNCHANGED <<counter, events>> /\ pc' \notin NeedsCall
    BY <1>3 DEF Blocked, Allowed, Current, Continue, NeedsCall
  <2> QED
    BY <2>1, PrintsNothing DEF TypesOK, Goes, Onward
<1>4. ASSUME NEW c \in ToSet(calls), RunAtOnce(c)
      PROVE  Goes
  <2>1. c \in Call /\ calls # <<>>
    BY <1>4, CurrentIsCall DEF RunAtOnce, Allowed, TypesOK
  <2>2. Event("ToolCallStarted", c) \in Other
    BY <2>1, OtherFacts DEF AboutCalls
  <2>3. <<Event("ToolCallStarted", c)>> \in Seq(Other)
    BY <2>2
  <2>4. Prints
    BY <1>4, <2>1, <2>3, RunPrints DEF RunAtOnce
  <2>5. RunOnward(c) /\ UNCHANGED counter
    BY <1>4, RunCalls DEF RunAtOnce
  <2> QED
    BY <2>1, <2>4, <2>5 DEF Goes, Onward, RunOnward
<1>5. ASSUME NEW c \in ToSet(calls), AskApproval(c)
      PROVE  \E d \in Call : d = Head(calls) /\ AskApproval(d)
  BY <1>5, CurrentIsCall DEF AskApproval, Allowed, TypesOK
<1>6. CASE LoopHead
  <2>1. calls # <<>>
    BY <1>6 DEF LoopHead, TypesOK, CallsOK, NeedsCall
  <2>2. UNCHANGED <<events, counter>> /\ ((calls' = calls /\ pc' \in Late) \/ (calls' = Tail(calls) /\ pc' \notin NeedsCall))
    BY <1>6 DEF LoopHead, Continue, NeedsCall, Late
  <2> QED
    BY <2>1, <2>2, PrintsNothing DEF TypesOK, Goes, Onward
<1>7. CASE Approved
  <2>1. calls # <<>> /\ Head(calls) \in Call
    BY <1>7, HeadIsCall DEF Approved, CallsOK, NeedsCall, TypesOK
  <2>2. <<>> \in Seq(Other)
    BY EmptySeq
  <2>3. Prints
    BY <1>7, <2>1, <2>2, RunPrints DEF Approved
  <2>4. RunOnward(Head(calls)) /\ UNCHANGED counter
    BY <1>7, RunCalls DEF Approved
  <2> QED
    BY <2>1, <2>3, <2>4 DEF Goes, Onward, RunOnward
<1>8. CASE Denied \/ Answered
  <2>1. calls # <<>> /\ Head(calls) \in Call
    BY <1>8, HeadIsCall DEF Denied, Answered, CallsOK, NeedsCall, TypesOK
  <2>2. UNCHANGED events \/ Emit(<<Event("FrontendTimeout", Head(calls))>>)
    BY <1>8 DEF Denied, Answered
  <2>3. Event("FrontendTimeout", Head(calls)) \in Other
    BY <2>1, OtherFacts DEF AboutCalls
  <2>4. UNCHANGED counter /\ calls' = Tail(calls) /\ pc' \notin NeedsCall
    BY <1>8 DEF Denied, Answered, Continue, NeedsCall
  <2> QED
    BY <2>1, <2>2, <2>3, <2>4, PrintsNothing, PrintsOne DEF TypesOK, Goes, Onward
<1>9. CASE ApprovalGoesOn \/ QuestionGoesOn
  <2>1. calls # <<>>
    BY <1>9 DEF ApprovalGoesOn, QuestionGoesOn, TypesOK, CallsOK, NeedsCall
  <2>2. UNCHANGED <<events, counter, calls>> /\ pc' \in Late
    BY <1>9 DEF ApprovalGoesOn, QuestionGoesOn, Late, NeedsCall
  <2> QED
    BY <2>1, <2>2, PrintsNothing DEF TypesOK, Goes, Onward
<1>10. CASE FollowUp \/ Refused \/ StillPresented
  <2>1. UNCHANGED <<events, counter>> /\ (calls' = calls \/ calls' = <<>>) /\ pc' \notin NeedsCall /\ pc \notin Late
    BY <1>10 DEF FollowUp, Refused, StillPresented, NeedsCall, Late, turnVars
  <2> QED
    BY <2>1, PrintsNothing DEF TypesOK, Goes, Onward
<1> QED
  BY <1>1, <1>2, <1>3, <1>4, <1>5, <1>6, <1>7, <1>8, <1>9, <1>10 DEF AgentStep, AgentNext, Wait

\* They hold at the start.
LEMMA TypesInit == SessionInit => TypesOK
<1> SUFFICES ASSUME SessionInit PROVE TypesOK
  OBVIOUS
<1>1. /\ <<>> \in Seq(Call) /\ <<>> \in Seq(Message) /\ <<>> \in Seq(Entry) /\ <<>> \in Seq(Line)
      /\ <<>> \in Seq(Reply)
      /\ IsFiniteSet({})
  BY EmptySeq, FS_EmptySet
<1>2. CallsOK
  BY <1>1 DEF SessionInit, TurnInit, CallsOK, NeedsCall
<1>3. QueuesOK /\ EntriesOK /\ LinesOK
  BY <1>1 DEF SessionInit, TurnInit, FrontendInit, QueuesOK, EntriesOK, LinesOK
<1>4. SaidOK /\ SetsOK
  BY <1>1 DEF SessionInit, TurnInit, FrontendInit, SaidOK, SetsOK
<1> QED
  BY <1>2, <1>3, <1>4 DEF TypesOK

\* Which lines there are.
LEMMA LineFacts ==
  /\ Other \subseteq Line
  /\ TaskFinished(FALSE) \in Line
  /\ \A c \in Call : Event("ToolCallStarted", c) \in Line /\ Event("ApprovalNeeded", c) \in Line
BY DEF Other, Line, ApprovalLine, AboutCalls, Event, TaskFinished

\* Printing prints lines.
LEMMA PrintsLines == ASSUME LinesOK, Prints PROVE events' \in Seq(Line)
<1>1. PICK lines \in Seq(Other) : events' = events \o lines
  BY DEF Prints
<1>2. lines \in Seq(Line)
  BY LineFacts, SeqMonotonic
<1> QED
  BY <1>1, <1>2, ConcatProperties DEF LinesOK

\* A step of the agent keeps messages in its queues and entries in the trajectory.
LEMMA AgentQueues == ASSUME TypesOK, AgentStep PROVE QueuesOK' /\ EntriesOK'
<1> USE DEF QueuesOK, EntriesOK
<1>1. stdin' = stdin
  BY DEF AgentStep
<1>2. CASE Aside
  BY <1>1, <1>2 DEF Aside, Quiet, TypesOK
<1>3. CASE Drain
  <2>1. <<>> \in Seq(Message)
    BY EmptySeq
  <2>2. OfTypes(inbox, Texts) \in Seq(Message) /\ OfTypes(inbox, Answers) \in Seq(Message)
    BY OfTypesIn DEF TypesOK
  <2>3. OfTypes(inbox, Texts) \in Seq(Entry)
    BY <2>2, MessageFacts, SeqMonotonic
  <2>4. trajectory' \in Seq(Entry)
    BY <1>3, <2>3, ConcatProperties DEF Drain, Record, TypesOK
  <2>5. OfTypes(inbox, Answers) \in Seq(Reply)
    BY OfTypesSeq DEF TypesOK, Reply
  <2> QED
    BY <1>1, <1>3, <2>1, <2>2, <2>4, <2>5 DEF Drain, TypesOK
<1>4. CASE Reinject
  <2>1. Head(reinject) \in Message /\ Tail(reinject) \in Seq(Message)
    BY <1>4, HeadTailProperties DEF Reinject, TypesOK
  <2>3. Tail(reinject) \in Seq(Reply)
    BY <1>4, HeadTailProperties DEF Reinject, TypesOK
  <2>2. Append(inbox, Head(reinject)) \in Seq(Message)
    BY <2>1, AppendProperties DEF TypesOK
  <2> QED
    BY <1>1, <1>4, <2>1, <2>2, <2>3 DEF Reinject, TypesOK
<1>5. CASE Takes
  <2>1. Head(inbox) \in Message /\ Tail(inbox) \in Seq(Message)
    BY <1>5, HeadIsMessage DEF Takes, TypesOK
  <2>2. <<Head(inbox)>> \in Seq(Entry)
    BY <2>1, MessageFacts
  <2>3. trajectory' \in Seq(Entry)
    BY <1>5, <2>2, ConcatProperties DEF Takes, Record, Quiet, TypesOK
  <2> QED
    BY <1>1, <1>5, <2>1, <2>3 DEF Takes, TypesOK
<1> QED
  BY <1>2, <1>3, <1>4, <1>5, AgentShape

\* It runs calls, finitely many.
LEMMA AgentSets == ASSUME TypesOK, AgentStep PROVE SetsOK'
<1>1. \E c \in Call : ran' = ran \/ ran' = ran \cup {c}
  <2>1. CASE Aside
    BY <2>1 DEF Aside
  <2>2. CASE Drain \/ Reinject
    BY <2>2, SomeCall DEF Drain, Reinject
  <2>3. CASE Takes
    BY <2>3, SomeCall DEF Takes
  <2> QED
    BY <2>1, <2>2, <2>3, AgentShape
<1>2. PICK c \in Call : ran' = ran \/ ran' = ran \cup {c}
  BY <1>1
<1>3. approved' = approved
  BY DEF AgentStep, frontendVars
<1>4. IsFiniteSet(ran \cup {c})
  BY FS_AddElement DEF TypesOK, SetsOK
<1> QED
  BY <1>2, <1>3, <1>4 DEF TypesOK, SetsOK

\* Its calls are calls, and a wait is about one.
LEMMA AgentCalls == ASSUME TypesOK, AgentStep PROVE CallsOK' /\ LinesOK'
<1>1. prompt' = prompt
  BY DEF AgentStep, frontendVars
<1>2. CASE Goes
  <2>1. events' \in Seq(Line)
    BY <1>2, PrintsLines DEF Goes, TypesOK
  <2>2. calls' \in Seq(Call)
    <3>1. <<>> \in Seq(Call)
      BY EmptySeq
    <3> QED
      BY <1>2, <3>1, HeadIsCall DEF Goes, Onward, TypesOK, CallsOK
  <2> QED
    BY <1>1, <1>2, <2>1, <2>2 DEF Goes, Onward, TypesOK, CallsOK, LinesOK
<1>3. ASSUME NEW kinds \in Replies, ReplyArrives(kinds)
      PROVE  CallsOK' /\ LinesOK'
  <2>1. calls' \in Seq(Call)
    BY <1>3, ReplyIsCalls DEF TypesOK
  <2>2. counter' \in Nat
    <3>1. Len(kinds) \in Nat
      BY RepliesAssumption, LenProperties
    <3> QED
      BY <1>3, <3>1 DEF ReplyArrives, TypesOK, CallsOK
  <2>3. pc' \notin NeedsCall /\ events' = events
    BY <1>3 DEF ReplyArrives, NeedsCall
  <2> QED
    BY <1>1, <2>1, <2>2, <2>3 DEF TypesOK, CallsOK, LinesOK
<1>4. ASSUME NEW c \in Call, c = Head(calls), AskApproval(c)
      PROVE  CallsOK' /\ LinesOK'
  <2>1. Event("ToolCallStarted", c) \in Line /\ Event("ApprovalNeeded", c) \in Line
    BY LineFacts
  <2>2. <<Event("ToolCallStarted", c), Event("ApprovalNeeded", c)>> \in Seq(Line)
    BY <2>1
  <2>3. events' \in Seq(Line)
    BY <1>4, <2>2, ConcatProperties DEF AskApproval, Emit, TypesOK, LinesOK
  <2>4. UNCHANGED <<calls, counter>> /\ calls # <<>>
    BY <1>4 DEF AskApproval, Allowed, Current
  <2> QED
    BY <1>1, <2>3, <2>4 DEF TypesOK, CallsOK, LinesOK
<1> QED
  BY <1>2, <1>3, <1>4, CallsShape

\* What the user may send are messages.
LEMMA Sendable ==
  ASSUME SaidOK
  PROVE  /\ \A yes \in BOOLEAN : ApprovalResponse(yes) \in Message
         /\ sent + 1 \in Nat
         /\ FollowupAnswer(sent + 1) \in Message
         /\ UserResponse(sent + 1) \in Message /\ UserResponse(sent + 1).type \in Texts
         /\ \A m \in {"plan", "act"} : SetMode(m) \in Message
         /\ Interrupt \in Message
<1>1. sent + 1 \in Nat
  BY DEF SaidOK
<1>2. /\ \A yes \in BOOLEAN : ApprovalResponse(yes) \in Message
      /\ \A m \in {"plan", "act"} : SetMode(m) \in Message
      /\ Interrupt \in Message
  BY DEF Message, ApprovalResponse, SetMode, Interrupt
<1>3. /\ FollowupAnswer(sent + 1) \in Message
      /\ UserResponse(sent + 1) \in Message /\ UserResponse(sent + 1).type \in Texts
  BY <1>1 DEF Message, Said, FollowupAnswer, UserResponse, Texts
<1> QED
  BY <1>1, <1>2, <1>3

\* What the user sends: nothing, an answer to an approval, a text or something else.
SendsMessage == \E m \in Message : Send(m)

\* Sending one keeps messages in the main loop's queue.
LEMMA SendsMore == ASSUME QueuesOK, SendsMessage \/ UNCHANGED stdin PROVE stdin' \in Seq(Message)
<1>1. CASE SendsMessage
  <2>1. PICK m \in Message : stdin' = Append(stdin, m)
    BY <1>1 DEF SendsMessage, Send
  <2>2. Append(stdin, m) \in Seq(Message)
    BY AppendProperties DEF QueuesOK
  <2> QED
    BY <2>1, <2>2
<1> QED
  BY <1>1 DEF QueuesOK

\* The user sends messages and approves calls.
LEMMA UserTypes == ASSUME TypesOK, UserStep PROVE TypesOK'
<1>1. UNCHANGED <<inbox, turnVars>>
  BY DEF UserStep
<1>2. UNCHANGED <<inbox, pc, reinject, calls, counter, trajectory, ran>>
  BY <1>1 DEF turnVars
<1>3. events' = events
  BY DEF UserStep, UserNext, Decide, Submit, SwitchMode, Stop, CloseTab
<1>4. prompt' = prompt \/ prompt' = NoPrompt
  BY DEF UserStep, UserNext, Decide, Submit, SwitchMode, Stop, CloseTab, Clear
<1>5. SendsMessage \/ UNCHANGED stdin
  BY Sendable DEF UserStep, UserNext, Decide, Submit, SwitchMode, Stop, CloseTab, SendsMessage, CanSend, TypesOK
<1>6. SaidOK'
  <2>1. sent' = sent \/ sent' = sent + 1
    BY DEF UserStep, UserNext, Decide, Submit, SwitchMode, Stop, CloseTab, CanSend
  <2>2. said' = said \/ said' = Append(said, UserResponse(sent + 1))
    BY DEF UserStep, UserNext, Decide, Submit, SwitchMode, Stop, CloseTab, CanSend
  <2>3. UserResponse(sent + 1) \in Message /\ sent + 1 \in Nat
    BY Sendable DEF TypesOK
  <2> QED
    BY <2>1, <2>2, <2>3, AppendProperties, SMTT(40) DEF TypesOK, SaidOK
<1>7. approved' = approved \/ (approved' = approved \cup {prompt.call} /\ prompt.type = "ApprovalNeeded")
  BY DEF UserStep, UserNext, Decide, Submit, SwitchMode, Stop, CloseTab
<1>8. prompt.type = "ApprovalNeeded" => prompt.call \in Call
  BY DEF TypesOK, LinesOK, Line, Other, ApprovalLine, AboutCalls, NoPrompt, Event
<1>9. SetsOK'
  BY <1>2, <1>7, <1>8, FS_AddElement DEF TypesOK, SetsOK
<1>10. CallsOK' /\ EntriesOK'
  BY <1>2 DEF TypesOK, CallsOK, EntriesOK
<1>11. QueuesOK'
  BY <1>2, <1>5, SendsMore DEF TypesOK, QueuesOK
<1>12. LinesOK'
  BY <1>3, <1>4 DEF TypesOK, LinesOK
<1> QED
  BY <1>6, <1>9, <1>10, <1>11, <1>12 DEF TypesOK

\* The frontend handles lines and shows one of them.
LEMMA FrontendTypes == ASSUME TypesOK, FrontendStep PROVE TypesOK'
<1>1. UNCHANGED <<inbox, turnVars, sent, said, approved, stdin>>
  BY DEF FrontendStep, HandleEvent
<1>2. UNCHANGED <<inbox, pc, reinject, calls, counter, trajectory, ran, sent, said, approved, stdin>>
  BY <1>1 DEF turnVars
<1>3. events # <<>> /\ events' = Tail(events)
  BY DEF FrontendStep, HandleEvent
<1>4. Head(events) \in Line /\ Tail(events) \in Seq(Line)
  BY <1>3, HeadTailProperties DEF TypesOK, LinesOK
<1>5. prompt' = prompt \/ prompt' = NoPrompt \/ prompt' = Head(events)
  BY DEF FrontendStep, HandleEvent, Shows, ShowsActivity, Withdraws, ShowsEnd
<1>6. LinesOK'
  BY <1>3, <1>4, <1>5 DEF TypesOK, LinesOK
<1>7. CallsOK' /\ EntriesOK' /\ QueuesOK' /\ SaidOK' /\ SetsOK'
  BY <1>2 DEF TypesOK, CallsOK, EntriesOK, QueuesOK, SaidOK, SetsOK
<1> QED
  BY <1>6, <1>7 DEF TypesOK

\* The main loop passes messages on.
LEMMA RouteTypes == ASSUME TypesOK, Route PROVE TypesOK'
<1>1. UNCHANGED <<pc, reinject, calls, counter, trajectory, ran, sent, said, approved, prompt>>
  BY DEF Route, turnVars, frontendVars
<1>2. stdin # <<>> /\ stdin' = Tail(stdin)
  BY DEF Route
<1>3. Head(stdin) \in Message /\ Tail(stdin) \in Seq(Message)
  BY <1>2, HeadTailProperties DEF TypesOK, QueuesOK
<1>4. inbox' = inbox \/ inbox' = Append(inbox, Head(stdin))
  BY DEF Route
<1>5. QueuesOK'
  <2>1. Append(inbox, Head(stdin)) \in Seq(Message)
    BY <1>3, AppendProperties DEF TypesOK, QueuesOK
  <2> QED
    BY <1>1, <1>2, <1>3, <1>4, <2>1 DEF TypesOK, QueuesOK
<1>6. events' = events \/ Emit(<<TaskFinished(FALSE)>>) \/ Emit(<<>>)
  BY DEF Route
<1>7. Prints
  <2>1. <<>> \in Seq(Other)
    BY EmptySeq
  <2> QED
    BY <1>6, <2>1, OtherFacts, PrintsOne, PrintsThese, PrintsNothing DEF TypesOK
<1>8. LinesOK'
  BY <1>1, <1>7, PrintsLines DEF TypesOK, LinesOK
<1>9. CallsOK' /\ EntriesOK' /\ SaidOK' /\ SetsOK'
  BY <1>1 DEF TypesOK, CallsOK, EntriesOK, SaidOK, SetsOK
<1> QED
  BY <1>5, <1>8, <1>9 DEF TypesOK

\* Every step keeps the kinds of things apart.
LEMMA TypesNext == TypesOK /\ [SessionNext]_sessionVars => TypesOK'
<1> SUFFICES ASSUME TypesOK, [SessionNext]_sessionVars PROVE TypesOK'
  OBVIOUS
<1>1. CASE RaiseAbort \/ UNCHANGED sessionVars
  <2>1. UNCHANGED <<stdin, inbox, events, pc, reinject, calls, counter, trajectory, ran, prompt, sent, said, approved>>
    BY <1>1 DEF RaiseAbort, sessionVars, channelVars, turnVars, frontendVars
  <2>2. CallsOK' /\ EntriesOK' /\ SaidOK' /\ SetsOK' /\ LinesOK' /\ QueuesOK'
    BY <2>1 DEF TypesOK, CallsOK, EntriesOK, SaidOK, SetsOK, LinesOK, QueuesOK
  <2> QED
    BY <2>2 DEF TypesOK
<1>2. CASE AgentStep
  <2>1. SaidOK'
    BY <1>2 DEF AgentStep, frontendVars, TypesOK, SaidOK
  <2> QED
    BY <1>2, <2>1, AgentQueues, AgentSets, AgentCalls DEF TypesOK
<1> QED
  BY <1>1, <1>2, RouteTypes, FrontendTypes, UserTypes DEF SessionNext

\* The queues hold messages, the trajectory entries, the pipe lines; a wait for the user is about a call of this turn, and what was run or approved are finitely many calls.
THEOREM TypesInvariance == SessionSpec => []TypesOK
BY TypesInit, TypesNext, PTL DEF SessionSpec

-----------------------------------------------------------------------------
(* What was said is recorded, or waits in one of the two queues.           *)

\* Heard: what was said is recorded, or waits in the agent's queue or in the main loop's.
Recorded == OfTypes(trajectory, Texts)
Due == OfTypes(inbox, Texts)
Coming == OfTypes(stdin, Texts)
AllHeard == (Recorded \o Due) \o Coming = said
Begins == \E rest \in Seq(Entry) : said = Recorded \o rest
Hearing == Begins /\ (~Finished => AllHeard)

\* What was said, where it may be.
LEMMA WordsTypes ==
  ASSUME TypesOK
  PROVE  /\ Recorded \in Seq(Entry) /\ Due \in Seq(Entry) /\ Coming \in Seq(Entry)
         /\ Due \in Seq(Message) /\ Coming \in Seq(Message)
         /\ inbox \in Seq(Entry) /\ stdin \in Seq(Entry) /\ trajectory \in Seq(Entry)
<1>1. Due \in Seq(Message) /\ Coming \in Seq(Message) /\ Recorded \in Seq(Entry)
  BY OfTypesIn DEF TypesOK, QueuesOK, EntriesOK, Recorded, Due, Coming
<1> QED
  BY <1>1, MessageFacts, SeqMonotonic DEF TypesOK, QueuesOK, EntriesOK

Associates(a, b, c) == (a \o b) \o c = a \o (b \o c)

\* Of three sequences it does not matter which two are put together first.
LEMMA Associating ==
  ASSUME NEW S, NEW a \in Seq(S), NEW b \in Seq(S), NEW c \in Seq(S)
  PROVE  Associates(a, b, c)
BY ConcatAssociative DEF Associates

\* If all is recorded or waiting, what is recorded is a beginning of what was said.
LEMMA AllHeardBegins == ASSUME TypesOK, AllHeard PROVE Begins
<1>1. Recorded \in Seq(Entry) /\ Due \in Seq(Entry) /\ Coming \in Seq(Entry)
  BY WordsTypes
<1>2. Associates(Recorded, Due, Coming)
  BY <1>1, Associating
<1>3. Due \o Coming \in Seq(Entry)
  BY <1>1, ConcatProperties
<1>4. said = Recorded \o (Due \o Coming)
  BY <1>2 DEF AllHeard, Associates
<1> QED
  BY <1>3, <1>4 DEF Begins

\* At the start nothing was said.
LEMMA HearingInit == SessionInit => Hearing
<1> SUFFICES ASSUME SessionInit PROVE Hearing
  OBVIOUS
<1>1. TypesOK
  BY TypesInit
<1>2. trajectory = <<>> /\ inbox = <<>> /\ stdin = <<>> /\ said = <<>>
  BY DEF SessionInit, TurnInit, FrontendInit
<1>3. Recorded = <<>> /\ Due = <<>> /\ Coming = <<>>
  BY <1>2, OfTypesEmpty DEF Recorded, Due, Coming
<1>4. <<>> \in Seq(Entry) /\ <<>> \o <<>> = <<>>
  BY EmptySeq, ConcatEmptySeq
<1>5. AllHeard
  BY <1>2, <1>3, <1>4 DEF AllHeard
<1> QED
  BY <1>1, <1>5, AllHeardBegins DEF Hearing

\* A step of the agent moves words from its queue into the trajectory, or leaves them.
LEMMA AgentHears == ASSUME TypesOK, TypesOK', AllHeard, AgentStep PROVE AllHeard'
<1>1. stdin' = stdin /\ said' = said
  BY DEF AgentStep, frontendVars
<1>2. Coming' = Coming
  BY <1>1 DEF Coming
<1>3. Recorded \in Seq(Entry) /\ Due \in Seq(Entry) /\ Coming \in Seq(Entry)
  BY WordsTypes
<1>4. CASE Aside
  <2>1. Recorded' = Recorded /\ Due' = Due
    BY <1>4 DEF Aside, Quiet, Recorded, Due
  <2> QED
    BY <1>1, <1>2, <2>1 DEF AllHeard
<1>5. CASE Drain
  <2>1. Due' = <<>>
    BY <1>5, OfTypesEmpty DEF Drain, Due
  <2>2. OfTypes(Due, Texts) = Due
    <3>1. \A i \in DOMAIN Due : Due[i].type \in Texts
      BY OfTypesIn DEF TypesOK, QueuesOK, Due
    <3> QED
      BY <1>3, <3>1, OfTypesTwice
  <2>3. Recorded' = Recorded \o Due
    <3>1. trajectory' = trajectory \o Due
      BY <1>5 DEF Drain, Record, Due
    <3>2. OfTypes(trajectory \o Due, Texts) = OfTypes(trajectory, Texts) \o OfTypes(Due, Texts)
      BY <1>3, OfTypesConcat DEF TypesOK, EntriesOK
    <3> QED
      BY <2>2, <3>1, <3>2 DEF Recorded
  <2>4. Recorded' \o Due' = Recorded \o Due
    BY <1>3, <2>1, <2>3, ConcatProperties, ConcatEmptySeq
  <2> QED
    BY <1>1, <1>2, <2>4 DEF AllHeard
<1>6. CASE Reinject
  <2>1. Head(reinject) \in Message /\ Head(reinject).type \notin Texts
    <3>1. Head(reinject) \in Reply
      BY <1>6, HeadTailProperties DEF Reinject, TypesOK, QueuesOK
    <3> QED
      BY <3>1 DEF Reply, Answers, Texts
  <2>2. OfTypes(Append(inbox, Head(reinject)), Texts) = OfTypes(inbox, Texts)
    BY <2>1, OfTypesAppend DEF TypesOK, QueuesOK
  <2>3. Due' = Due /\ Recorded' = Recorded
    BY <1>6, <2>2 DEF Reinject, Due, Recorded
  <2> QED
    BY <1>1, <1>2, <2>3 DEF AllHeard
<1>7. CASE Takes
  <2> DEFINE h == OfTypes(<<Head(inbox)>>, Texts)
  <2>1. inbox # <<>> /\ inbox' = Tail(inbox) /\ Head(inbox) \in Message
    BY <1>7, HeadIsMessage DEF Takes, TypesOK
  <2>2. Due = h \o Due'
    BY <2>1, OfTypesHead DEF Due, TypesOK, QueuesOK
  <2>3. h = IF Head(inbox).type \in Texts THEN <<Head(inbox)>> ELSE <<>>
    BY <2>1, OfTypesOne
  <2>4. h \in Seq(Entry)
    <3>1. <<Head(inbox)>> \in Seq(Entry) /\ <<>> \in Seq(Entry)
      BY <2>1, MessageFacts, EmptySeq
    <3> HIDE DEF h
    <3> QED
      BY <2>3, <3>1
  <2>5. Recorded' = Recorded \o h
    <3>1. CASE Head(inbox).type \in Texts
      <4>1. trajectory' = trajectory \o h /\ h = <<Head(inbox)>>
        BY <1>7, <2>3, <3>1 DEF Takes, Record
      <4>2. OfTypes(h, Texts) = h
        BY <4>1
      <4>3. OfTypes(trajectory \o h, Texts) = OfTypes(trajectory, Texts) \o OfTypes(h, Texts)
        <5> HIDE DEF h
        <5> QED
          BY <2>4, OfTypesConcat DEF TypesOK, EntriesOK
      <4> HIDE DEF h
      <4> QED
        BY <4>1, <4>2, <4>3 DEF Recorded
    <3>2. CASE Head(inbox).type \notin Texts
      <4>1. Recorded' = Recorded
        BY <1>7, <3>2 DEF Takes, Quiet, Recorded
      <4>2. h = <<>>
        BY <2>3, <3>2
      <4> HIDE DEF h
      <4> QED
        BY <1>3, <4>1, <4>2, ConcatEmptySeq
    <3> QED
      BY <3>1, <3>2
  <2>6. Due' \in Seq(Entry)
    <3>1. Tail(inbox) \in Seq(Message)
      BY <2>1, HeadTailProperties DEF TypesOK, QueuesOK
    <3>2. OfTypes(Tail(inbox), Texts) \in Seq(Message)
      BY <3>1, OfTypesIn
    <3> QED
      BY <2>1, <3>2, MessageFacts, SeqMonotonic DEF Due
  <2> HIDE DEF h
  <2>7. Recorded' \o Due' = Recorded \o Due
    BY <1>3, <2>2, <2>4, <2>5, <2>6, ConcatAssociative, SMTT(40)
  <2> QED
    BY <1>1, <1>2, <2>7 DEF AllHeard
<1> QED
  BY <1>4, <1>5, <1>6, <1>7, AgentShape

\* The main loop moves them into the agent's queue.
LEMMA RouteHears == ASSUME TypesOK, AllHeard, ~Finished, Route PROVE AllHeard'
<1> DEFINE h == OfTypes(<<Head(stdin)>>, Texts)
<1>1. stdin # <<>> /\ stdin' = Tail(stdin) /\ inbox' = Append(inbox, Head(stdin)) /\ UNCHANGED <<said, trajectory>>
  BY DEF Route, Finished, turnVars, frontendVars
<1>2. Recorded \in Seq(Entry) /\ Due \in Seq(Entry) /\ Coming \in Seq(Entry)
  BY WordsTypes
<1>3. Head(stdin) \in Message /\ Tail(stdin) \in Seq(Message)
  BY <1>1, HeadTailProperties DEF TypesOK, QueuesOK
<1>4. Coming = h \o Coming'
  BY <1>1, OfTypesHead DEF Coming, TypesOK, QueuesOK
<1>5. h \in Seq(Entry) /\ Coming' \in Seq(Entry)
  <2>1. <<Head(stdin)>> \in Seq(Message)
    BY <1>3
  <2>2. h \in Seq(Message) /\ OfTypes(Tail(stdin), Texts) \in Seq(Message)
    BY <1>3, <2>1, OfTypesIn
  <2> QED
    BY <1>1, <2>2, MessageFacts, SeqMonotonic DEF Coming
<1>6. Due' = Due \o h
  <2>1. inbox' = inbox \o <<Head(stdin)>> /\ <<Head(stdin)>> \in Seq(Message)
    BY <1>1, <1>3, AppendIsConcat DEF TypesOK, QueuesOK
  <2>2. OfTypes(inbox \o <<Head(stdin)>>, Texts) = OfTypes(inbox, Texts) \o OfTypes(<<Head(stdin)>>, Texts)
    BY <2>1, OfTypesConcat DEF TypesOK, QueuesOK
  <2> QED
    BY <2>1, <2>2 DEF Due
<1>7. Recorded' = Recorded
  BY <1>1 DEF Recorded
<1> HIDE DEF h
<1>8. (Recorded \o (Due \o h)) \o Coming' = (Recorded \o Due) \o (h \o Coming')
  <2>1. Associates(Recorded, Due, h)
    BY <1>2, <1>5, Associating
  <2>2. Recorded \o Due \in Seq(Entry)
    BY <1>2, ConcatProperties
  <2>3. Associates(Recorded \o Due, h, Coming')
    BY <1>5, <2>2, Associating
  <2> QED
    BY <2>1, <2>3 DEF Associates
<1> QED
  BY <1>1, <1>4, <1>6, <1>7, <1>8 DEF AllHeard

\* What the user sends, and what of it is said.
Speaks ==
  \E m \in Message :
    /\ Send(m)
    /\ \/ m.type \in Texts /\ said' = Append(said, m)
       \/ m.type \notin Texts /\ UNCHANGED said

\* The user sends a text, or something else, or nothing.
LEMMA UserSpeaks == ASSUME TypesOK, UserStep PROVE Speaks \/ UNCHANGED <<stdin, said>>
<1>1. CASE \E yes \in BOOLEAN : Decide(yes)
  <2>1. PICK yes \in BOOLEAN : Decide(yes)
    BY <1>1
  <2>2. ApprovalResponse(yes) \in Message /\ ApprovalResponse(yes).type \notin Texts
    BY Sendable DEF TypesOK, ApprovalResponse, Texts
  <2> QED
    BY <2>1, <2>2 DEF Decide, Speaks
<1>2. CASE Submit
  <2>1. FollowupAnswer(sent + 1) \in Message /\ UserResponse(sent + 1) \in Message
    BY Sendable DEF TypesOK
  <2>2. FollowupAnswer(sent + 1).type \notin Texts /\ UserResponse(sent + 1).type \in Texts
    BY DEF FollowupAnswer, UserResponse, Texts
  <2>3. \/ Send(FollowupAnswer(sent + 1)) /\ UNCHANGED said
        \/ Send(UserResponse(sent + 1)) /\ said' = Append(said, UserResponse(sent + 1))
    BY <1>2 DEF Submit, CanSend
  <2> QED
    BY <2>1, <2>2, <2>3 DEF Speaks
<1>3. CASE \E mode_ \in {"plan", "act"} : SwitchMode(mode_)
  <2>1. PICK k \in {"plan", "act"} : SwitchMode(k)
    BY <1>3
  <2>2. SetMode(k) \in Message /\ SetMode(k).type \notin Texts
    BY Sendable DEF TypesOK, SetMode, Texts
  <2> QED
    BY <2>1, <2>2 DEF SwitchMode, Speaks
<1>4. CASE Stop \/ CloseTab
  <2>1. Interrupt \in Message /\ Interrupt.type \notin Texts
    BY Sendable DEF TypesOK, Interrupt, Texts
  <2>2. (Send(Interrupt) \/ UNCHANGED stdin) /\ UNCHANGED said
    BY <1>4 DEF Stop, CloseTab
  <2> QED
    BY <2>1, <2>2 DEF Speaks
<1> QED
  BY <1>1, <1>2, <1>3, <1>4 DEF UserStep, UserNext

\* A text that is sent is one that was said.
LEMMA UserHears == ASSUME TypesOK, Hearing, UserStep PROVE Hearing'
<1>1. UNCHANGED <<inbox, trajectory, pc>>
  BY DEF UserStep, turnVars
<1>2. Recorded' = Recorded /\ Due' = Due /\ Finished' = Finished
  BY <1>1 DEF Recorded, Due, Finished
<1>3. Recorded \in Seq(Entry) /\ Due \in Seq(Entry) /\ Coming \in Seq(Entry)
  BY WordsTypes
<1>4. CASE UNCHANGED <<stdin, said>>
  BY <1>2, <1>4 DEF Hearing, Begins, AllHeard, Coming
<1>5. ASSUME NEW m \in Message, Send(m), m.type \notin Texts, UNCHANGED said
      PROVE  Hearing'
  <2>1. OfTypes(Append(stdin, m), Texts) = OfTypes(stdin, Texts)
    BY <1>5, OfTypesAppend DEF TypesOK, QueuesOK
  <2>2. Coming' = Coming
    BY <1>5, <2>1 DEF Coming, Send
  <2> QED
    BY <1>2, <1>5, <2>2 DEF Hearing, Begins, AllHeard
<1>6. ASSUME NEW m \in Message, Send(m), m.type \in Texts, said' = Append(said, m)
      PROVE  Hearing'
  <2>1. OfTypes(Append(stdin, m), Texts) = Append(OfTypes(stdin, Texts), m)
    BY <1>6, OfTypesAppend DEF TypesOK, QueuesOK
  <2>2. Coming' = Append(Coming, m)
    BY <1>6, <2>1 DEF Coming, Send
  <2>3. m \in Entry
    BY MessageFacts
  <2>4. Begins'
    <3>1. PICK rest \in Seq(Entry) : said = Recorded \o rest
      BY DEF Hearing, Begins
    <3>2. AppendsBehind(Recorded, rest, m)
      BY <1>3, <2>3, AppendConcat
    <3>3. said' = Recorded \o Append(rest, m) /\ Append(rest, m) \in Seq(Entry)
      BY <1>6, <2>3, <3>1, <3>2, AppendProperties DEF AppendsBehind
    <3> QED
      BY <1>2, <3>3 DEF Begins
  <2>5. AllHeard => AllHeard'
    <3> SUFFICES ASSUME AllHeard PROVE AllHeard'
      OBVIOUS
    <3>1. Recorded \o Due \in Seq(Entry)
      BY <1>3, ConcatProperties
    <3>2. AppendsBehind(Recorded \o Due, Coming, m)
      BY <1>3, <2>3, <3>1, AppendConcat
    <3>3. Append((Recorded \o Due) \o Coming, m) = (Recorded \o Due) \o Append(Coming, m)
      BY <3>2 DEF AppendsBehind
    <3> QED
      BY <1>2, <1>6, <2>2, <3>3 DEF AllHeard
  <2> QED
    BY <1>2, <2>4, <2>5 DEF Hearing
<1> QED
  BY <1>4, <1>5, <1>6, UserSpeaks DEF Speaks

\* Every step keeps the words in order; after the end they may only be lost behind those recorded.
LEMMA HearingNext == TypesOK /\ TypesOK' /\ Hearing /\ [SessionNext]_sessionVars => Hearing'
<1> SUFFICES ASSUME TypesOK, TypesOK', Hearing, [SessionNext]_sessionVars PROVE Hearing'
  OBVIOUS
<1>1. CASE RaiseAbort \/ FrontendStep \/ UNCHANGED sessionVars
  <2>1. UNCHANGED <<stdin, inbox, trajectory, pc, said>>
    BY <1>1 DEF RaiseAbort, FrontendStep, HandleEvent, sessionVars, channelVars, turnVars, frontendVars
  <2> QED
    BY <2>1 DEF Hearing, Begins, AllHeard, Recorded, Due, Coming, Finished
<1>2. CASE AgentStep
  <2>1. ~Finished
    BY <1>2 DEF AgentStep, AgentNext, Finished, Drain, Reinject, Interrupted, Drained, StartTurn, ReplyArrives,
       NoReply, GivesUp, Blocked, RunAtOnce, AskApproval, Allowed, Current, EndTurn, Wait, LoopHead, Approved,
       Denied, ApprovalGoesOn, Answered, QuestionGoesOn, FollowUp, Refused, StillPresented, Gate
  <2>2. AllHeard'
    BY <1>2, <2>1, AgentHears DEF Hearing
  <2>3. Begins'
    <3>1. TypesOK' /\ AllHeard' => Begins'
      BY AllHeardBegins, PTL
    <3> QED
      BY <2>2, <3>1
  <2> QED
    BY <2>2, <2>3 DEF Hearing
<1>3. CASE Route
  <2>1. UNCHANGED <<trajectory, pc, said>>
    BY <1>3 DEF Route, turnVars, frontendVars
  <2>2. Begins' /\ Finished' = Finished
    BY <2>1 DEF Hearing, Begins, Recorded, Finished
  <2>3. ~Finished => AllHeard'
    BY <1>3, RouteHears DEF Hearing
  <2> QED
    BY <2>2, <2>3 DEF Hearing
<1>4. CASE UserStep
  BY <1>4, UserHears
<1> QED
  BY <1>1, <1>2, <1>3, <1>4 DEF SessionNext

\* A sequence is a prefix of itself with something behind it.
LEMMA PrefixConcat ==
  ASSUME NEW S, NEW p \in Seq(S), NEW q \in Seq(S)
  PROVE  IsPrefix(p, p \o q)
<1>1. Len(p \o q) = Len(p) + Len(q) /\ Len(p) \in Nat /\ Len(q) \in Nat
  BY ConcatProperties, LenProperties
<1>2. CASE Len(p) = 0
  BY <1>1, <1>2, SubSeqEmpty DEF IsPrefix
<1>3. CASE Len(p) > 0
  <2>1. 1 \in 1 .. Len(p) /\ Len(p) \in 1 .. Len(p)
    BY <1>1, <1>3
  <2>2. SubSeq(p \o q, 1, Len(p)) = SubSeq(p, 1, Len(p))
    BY <2>1, SubSeqOfConcat1
  <2> QED
    BY <1>1, <2>2 DEF IsPrefix
<1> QED
  BY <1>1, <1>2, <1>3

\* What is kept is what the property says.
LEMMA HearingImplies == ASSUME TypesOK, Hearing PROVE HeardInOrder
<1>1. /\ trajectory \in Seq(Entry) /\ inbox \in Seq(Entry) /\ stdin \in Seq(Entry)
      /\ Recorded \in Seq(Entry)
  BY WordsTypes
<1>2. CASE Finished
  <2>1. PICK rest \in Seq(Entry) : said = Recorded \o rest
    BY DEF Hearing, Begins
  <2>2. IsPrefix(Recorded, said)
    BY <1>1, <2>1, PrefixConcat
  <2> QED
    BY <1>2, <2>2 DEF HeardInOrder, Recorded
<1>3. CASE ~Finished
  <2>1. trajectory \o inbox \in Seq(Entry)
    BY <1>1, ConcatProperties
  <2>2. OfTypes(trajectory \o inbox, Texts) = Recorded \o Due
    BY <1>1, OfTypesConcat DEF Recorded, Due
  <2>3. OfTypes((trajectory \o inbox) \o stdin, Texts) = OfTypes(trajectory \o inbox, Texts) \o OfTypes(stdin, Texts)
    BY <1>1, <2>1, OfTypesConcat
  <2>4. OfTypes((trajectory \o inbox) \o stdin, Texts) = said
    BY <1>3, <2>2, <2>3 DEF Hearing, AllHeard, Coming
  <2> QED
    BY <1>3, <2>4 DEF HeardInOrder
<1> QED
  BY <1>2, <1>3

\* What the user says reaches the trajectory once and in order: Drain, the waits that record what they hear (ApprovalGoesOn, QuestionGoesOn, FollowUp) and the main loop's Route lose and repeat nothing until the task ends.
THEOREM HeardInvariance == SessionSpec => []HeardInOrder
<1>1. SessionSpec => []TypesOK
  BY TypesInit, TypesNext, PTL DEF SessionSpec
<1>2. TypesOK /\ Hearing => HeardInOrder
  BY HearingImplies
<1> QED
  BY <1>1, <1>2, HearingInit, HearingNext, PTL DEF SessionSpec

-----------------------------------------------------------------------------
(* Approvals are asked for in the order of the calls, once for each.       *)

\* The calls of the turn, and those an approval was asked for.
IsAsked(e) == e.type = "ApprovalNeeded"
AskedBy(c) ==
  \/ c \in approved
  \/ IsAsked(prompt) /\ c = prompt.call
  \/ \E k \in DOMAIN events : IsAsked(events[k]) /\ c = events[k].call
Ascending == \A i, j \in DOMAIN calls : i < j => calls[i].id < calls[j].id
Counted == \A i \in DOMAIN calls : calls[i].id <= counter
AskedCounted == \A c \in Call : AskedBy(c) => c.id <= counter
AskedBefore ==
  \A c \in Call : AskedBy(c) =>
    \A i \in DOMAIN calls : c.id < calls[i].id \/ (i = 1 /\ pc \in Late)
CallsInTurn == Ascending /\ Counted /\ AskedCounted /\ AskedBefore

\* An approval line is about a call.
LEMMA LineIs == ASSUME NEW e \in Line, IsAsked(e) PROVE e.call \in Call
BY DEF Line, Other, ApprovalLine, AboutCalls, IsAsked

\* The other lines ask for none.
LEMMA OtherIs == ASSUME NEW e \in Other PROVE ~IsAsked(e)
BY DEF Other, AboutCalls, IsAsked

\* The same for the prompt and for the lines in the pipe.
LEMMA PromptIs ==
  ASSUME LinesOK
  PROVE  /\ IsAsked(prompt) => prompt.call \in Call
         /\ \A k \in DOMAIN events : events[k] \in Line /\ (IsAsked(events[k]) => events[k].call \in Call)
         /\ DOMAIN events = 1 .. Len(events) /\ Len(events) \in Nat
<1>1. ~IsAsked(NoPrompt)
  BY DEF IsAsked, NoPrompt, Event
<1>2. DOMAIN events = 1 .. Len(events) /\ Len(events) \in Nat /\ \A k \in DOMAIN events : events[k] \in Line
  BY LenProperties DEF LinesOK
<1> QED
  BY <1>1, <1>2, LineIs DEF LinesOK

\* A step that asks for no approval.
NoMoreAsked == \A c \in Call : AskedBy(c)' => AskedBy(c)

\* The lines behind those there were.
LEMMA PrintsLater ==
  ASSUME LinesOK, Prints
  PROVE  /\ DOMAIN events \subseteq DOMAIN events'
         /\ \A k \in DOMAIN events' :
              \/ k \in DOMAIN events /\ events'[k] = events[k]
              \/ k \notin DOMAIN events /\ ~IsAsked(events'[k])
<1>1. PICK lines \in Seq(Other) : events' = events \o lines
  BY DEF Prints
<1>2. lines \in Seq(Line) /\ Len(lines) \in Nat /\ DOMAIN lines = 1 .. Len(lines) /\ \A k \in DOMAIN lines : ~IsAsked(lines[k])
  <2>1. \A k \in DOMAIN lines : lines[k] \in Other
    BY LenProperties
  <2> QED
    BY <2>1, OtherIs, LineFacts, SeqMonotonic, LenProperties
<1>3. events \in Seq(Line) /\ Len(events) \in Nat /\ DOMAIN events = 1 .. Len(events)
  BY LenProperties DEF LinesOK
<1>4. /\ DOMAIN events' = 1 .. Len(events) + Len(lines)
      /\ \A k \in 1 .. Len(events) + Len(lines) :
           events'[k] = IF k <= Len(events) THEN events[k] ELSE lines[k - Len(events)]
  <2>1. events' \in Seq(Line) /\ Len(events') = Len(events) + Len(lines)
    BY <1>1, <1>2, <1>3, ConcatProperties
  <2> QED
    BY <1>1, <1>2, <1>3, <2>1, ConcatProperties, LenProperties
<1>5. DOMAIN events \subseteq DOMAIN events'
  BY <1>2, <1>3, <1>4
<1>6. ASSUME NEW k \in DOMAIN events'
      PROVE  \/ k \in DOMAIN events /\ events'[k] = events[k]
             \/ k \notin DOMAIN events /\ ~IsAsked(events'[k])
  <2>1. CASE k <= Len(events)
    BY <1>3, <1>4, <2>1
  <2>2. CASE k > Len(events)
    <3>1. k - Len(events) \in DOMAIN lines /\ events'[k] = lines[k - Len(events)] /\ k \notin DOMAIN events
      BY <1>2, <1>3, <1>4, <2>2
    <3> QED
      BY <1>2, <3>1
  <2> QED
    BY <1>3, <1>4, <2>1, <2>2
<1> QED
  BY <1>5, <1>6

\* Printing other lines asks for nothing more.
LEMMA PrintsAsks ==
  ASSUME LinesOK, Prints, UNCHANGED <<prompt, approved>>
  PROVE  NoMoreAsked
<1> SUFFICES ASSUME NEW c \in Call, AskedBy(c)' PROVE AskedBy(c)
  BY DEF NoMoreAsked
<1>1. ASSUME NEW k \in DOMAIN events', IsAsked(events'[k]), c = events'[k].call
      PROVE  AskedBy(c)
  BY <1>1, PrintsLater DEF AskedBy
<1> QED
  BY <1>1 DEF AskedBy, IsAsked

\* The new call is asked about, after all others.
LEMMA AskAsks ==
  ASSUME LinesOK, NEW d \in Call, AskApproval(d), UNCHANGED <<prompt, approved>>
  PROVE  /\ DOMAIN events' = 1 .. Len(events) + 2 /\ Len(events) \in Nat /\ DOMAIN events = 1 .. Len(events)
         /\ \A k \in DOMAIN events : events'[k] = events[k]
         /\ ~IsAsked(events'[Len(events) + 1])
         /\ IsAsked(events'[Len(events) + 2]) /\ events'[Len(events) + 2].call = d
<1> DEFINE lines == <<Event("ToolCallStarted", d), Event("ApprovalNeeded", d)>>
<1>1. events' = events \o lines
  BY DEF AskApproval, Emit
<1>2. lines \in Seq(Line) /\ Len(lines) = 2 /\ lines[1] = Event("ToolCallStarted", d) /\ lines[2] = Event("ApprovalNeeded", d)
  BY LineFacts
<1> HIDE DEF lines
<1>3. events \in Seq(Line) /\ Len(events) \in Nat /\ DOMAIN events = 1 .. Len(events)
  BY LenProperties DEF LinesOK
<1>4. /\ DOMAIN events' = 1 .. Len(events) + 2
      /\ \A k \in 1 .. Len(events) + 2 :
           events'[k] = IF k <= Len(events) THEN events[k] ELSE lines[k - Len(events)]
  <2>1. events' \in Seq(Line) /\ Len(events') = Len(events) + 2
    <3>1. lines \in Seq(Line)
      BY <1>2
    <3>2. events \o lines \in Seq(Line) /\ Len(events \o lines) = Len(events) + Len(lines)
      BY <1>3, <3>1, ConcatProperties
    <3> QED
      BY <1>1, <1>2, <3>2
  <2> QED
    BY <1>1, <1>2, <1>3, <2>1, ConcatProperties, LenProperties
<1>5. events'[Len(events) + 1] = lines[1] /\ events'[Len(events) + 2] = lines[2]
  <2>1. Len(events) + 1 \in 1 .. Len(events) + 2 /\ ~(Len(events) + 1 <= Len(events)) /\ (Len(events) + 1) - Len(events) = 1
    BY <1>3
  <2>2. Len(events) + 2 \in 1 .. Len(events) + 2 /\ ~(Len(events) + 2 <= Len(events)) /\ (Len(events) + 2) - Len(events) = 2
    BY <1>3
  <2>3. events'[Len(events) + 1] = lines[(Len(events) + 1) - Len(events)]
    BY <1>4, <2>1
  <2>4. events'[Len(events) + 2] = lines[(Len(events) + 2) - Len(events)]
    BY <1>4, <2>2
  <2> QED
    BY <2>1, <2>2, <2>3, <2>4
<1>6. \A k \in DOMAIN events : events'[k] = events[k]
  BY <1>3, <1>4
<1>7. ~IsAsked(lines[1]) /\ IsAsked(lines[2]) /\ lines[2].call = d
  BY <1>2 DEF IsAsked, Event
<1> QED
  BY <1>3, <1>4, <1>5, <1>6, <1>7

\* The lines left when the first is handled.
LEMMA TailEvents ==
  ASSUME LinesOK, events # <<>>, events' = Tail(events)
  PROVE  /\ Head(events) = events[1] /\ 1 \in DOMAIN events
         /\ \A k \in DOMAIN events' : k + 1 \in DOMAIN events /\ events'[k] = events[k + 1] /\ k \in Nat /\ k > 0
<1>1. events \in Seq(Line) /\ Len(events) \in Nat \ {0} /\ DOMAIN events = 1 .. Len(events)
  BY LenProperties, EmptySeq DEF LinesOK
<1>2. Tail(events) \in Seq(Line) /\ Len(Tail(events)) = Len(events) - 1 /\ \A i \in 1 .. Len(Tail(events)) : Tail(events)[i] = events[i + 1]
  BY <1>1, HeadTailProperties
<1>3. DOMAIN events' = 1 .. Len(events) - 1
  BY <1>2, LenProperties
<1>4. Head(events) = events[1]
  OBVIOUS
<1> QED
  BY <1>1, <1>2, <1>3, <1>4

\* Handling a line asks for nothing more.
LEMMA FrontendAsks == ASSUME LinesOK, FrontendStep PROVE NoMoreAsked
<1>1. events # <<>> /\ events' = Tail(events) /\ approved' = approved
  BY DEF FrontendStep, HandleEvent
<1>2. prompt' = prompt \/ prompt' = NoPrompt \/ prompt' = Head(events)
  BY DEF FrontendStep, HandleEvent, Shows, ShowsActivity, Withdraws, ShowsEnd
<1>3. ~IsAsked(NoPrompt)
  BY DEF IsAsked, NoPrompt, Event
<1> SUFFICES ASSUME NEW c \in Call, AskedBy(c)' PROVE AskedBy(c)
  BY DEF NoMoreAsked
<1>4. ASSUME NEW k \in DOMAIN events', IsAsked(events'[k]), c = events'[k].call
      PROVE  AskedBy(c)
  BY <1>1, <1>4, TailEvents DEF AskedBy
<1>5. ASSUME IsAsked(prompt'), c = prompt'.call
      PROVE  AskedBy(c)
  BY <1>1, <1>2, <1>3, <1>5, TailEvents DEF AskedBy
<1> QED
  BY <1>1, <1>4, <1>5 DEF AskedBy, IsAsked

\* The user answers the prompt or leaves it; a yes is to the prompt's call.
LEMMA UserPrompts ==
  ASSUME UserStep
  PROVE  /\ prompt' = prompt \/ prompt' = NoPrompt
         /\ \/ approved' = approved
            \/ approved' = approved \cup {prompt.call} /\ IsAsked(prompt) /\ prompt' = NoPrompt
         /\ events' = events
BY DEF UserStep, UserNext, Decide, Submit, SwitchMode, Stop, CloseTab, Clear, IsAsked

\* Nor does the user's answer.
LEMMA UserAsks == ASSUME UserStep PROVE NoMoreAsked
<1>1. ~IsAsked(NoPrompt)
  BY DEF IsAsked, NoPrompt, Event
<1> SUFFICES ASSUME NEW c \in Call, AskedBy(c)' PROVE AskedBy(c)
  BY DEF NoMoreAsked
<1>2. ASSUME IsAsked(prompt'), c = prompt'.call
      PROVE  AskedBy(c)
  BY <1>1, <1>2, UserPrompts DEF AskedBy
<1>3. ASSUME c \in approved'
      PROVE  AskedBy(c)
  BY <1>3, UserPrompts DEF AskedBy
<1> QED
  BY <1>2, <1>3, UserPrompts DEF AskedBy, IsAsked

\* Nothing more asked, and the calls as they were.
LEMMA CallsStay ==
  ASSUME CallsInTurn, NoMoreAsked, UNCHANGED <<calls, counter, pc>>
  PROVE  CallsInTurn'
<1>1. Ascending' /\ Counted'
  BY DEF CallsInTurn, Ascending, Counted
<1>2. AskedCounted' /\ AskedBefore'
  BY DEF CallsInTurn, AskedCounted, AskedBefore, NoMoreAsked
<1> QED
  BY <1>1, <1>2 DEF CallsInTurn

\* The calls left when the first is over.
LEMMA TailCalls ==
  ASSUME CallsOK, calls # <<>>, calls' = Tail(calls)
  PROVE  \A k \in DOMAIN calls' : k + 1 \in DOMAIN calls /\ calls'[k] = calls[k + 1] /\ k \in Nat /\ k > 0
<1>1. calls \in Seq(Call) /\ Len(calls) \in Nat \ {0} /\ DOMAIN calls = 1 .. Len(calls)
  BY LenProperties, EmptySeq DEF CallsOK
<1>2. Tail(calls) \in Seq(Call) /\ Len(Tail(calls)) = Len(calls) - 1 /\ \A i \in 1 .. Len(Tail(calls)) : Tail(calls)[i] = calls[i + 1]
  BY <1>1, HeadTailProperties
<1>3. DOMAIN calls' = 1 .. Len(calls) - 1
  BY <1>2, LenProperties
<1> QED
  BY <1>1, <1>2, <1>3

\* Going on to the next call leaves only calls that were not asked about.
LEMMA CallsGo ==
  ASSUME CallsOK, CallsInTurn, NoMoreAsked, Onward
  PROVE  CallsInTurn'
<1>1. counter' = counter
  BY DEF Onward
<1>2. AskedCounted'
  BY <1>1 DEF CallsInTurn, AskedCounted, NoMoreAsked
<1>3. CASE calls' = calls /\ (pc \in Late => pc' \in Late)
  <2>1. Ascending' /\ Counted'
    BY <1>1, <1>3 DEF CallsInTurn, Ascending, Counted
  <2>2. AskedBefore'
    BY <1>3 DEF CallsInTurn, AskedBefore, NoMoreAsked
  <2> QED
    BY <1>2, <2>1, <2>2 DEF CallsInTurn
<1>4. CASE calls' = <<>>
  <2>1. DOMAIN calls' = {}
    BY <1>4
  <2> QED
    BY <1>2, <2>1 DEF CallsInTurn, Ascending, Counted, AskedBefore
<1>5. CASE calls # <<>> /\ calls' = Tail(calls)
  <2>1. \A k \in DOMAIN calls' : k + 1 \in DOMAIN calls /\ calls'[k] = calls[k + 1] /\ k \in Nat /\ k > 0
    BY <1>5, TailCalls
  <2>2. Counted'
    BY <1>1, <2>1 DEF CallsInTurn, Counted
  <2>3. Ascending'
    <3> SUFFICES ASSUME NEW i \in DOMAIN calls', NEW j \in DOMAIN calls', i < j
                 PROVE  calls'[i].id < calls'[j].id
      BY DEF Ascending
    <3>1. i + 1 \in DOMAIN calls /\ j + 1 \in DOMAIN calls /\ i + 1 < j + 1
      BY <2>1
    <3> QED
      BY <2>1, <3>1 DEF CallsInTurn, Ascending
  <2>4. AskedBefore'
    <3> SUFFICES ASSUME NEW c \in Call, AskedBy(c)', NEW i \in DOMAIN calls'
                 PROVE  c.id < calls'[i].id
      BY DEF AskedBefore
    <3>1. AskedBy(c) /\ i + 1 \in DOMAIN calls /\ i + 1 # 1
      BY <2>1 DEF NoMoreAsked
    <3>2. c.id < calls[i + 1].id
      BY <3>1 DEF CallsInTurn, AskedBefore
    <3> QED
      BY <2>1, <3>2
  <2> QED
    BY <1>2, <2>2, <2>3, <2>4 DEF CallsInTurn
<1> QED
  BY <1>3, <1>4, <1>5 DEF Onward

\* The calls of a new reply have numbers behind all that were asked about.
LEMMA CallsReply ==
  ASSUME TypesOK, CallsInTurn, NoMoreAsked, NEW kinds \in Replies, ReplyArrives(kinds)
  PROVE  CallsInTurn'
<1>1. Len(kinds) \in Nat /\ DOMAIN kinds = 1 .. Len(kinds)
  BY RepliesAssumption, LenProperties
<1>2. counter \in Nat /\ counter' = counter + Len(kinds)
  BY DEF ReplyArrives, TypesOK, CallsOK
<1>3. DOMAIN calls' = 1 .. Len(kinds) /\ \A i \in DOMAIN calls' : calls'[i].id = counter + i
  BY <1>1 DEF ReplyArrives
<1>4. Ascending' /\ Counted'
  BY <1>1, <1>2, <1>3 DEF Ascending, Counted
<1>5. ASSUME NEW c \in Call, AskedBy(c)'
      PROVE  c.id <= counter /\ c.id \in Nat
  BY <1>5 DEF NoMoreAsked, CallsInTurn, AskedCounted, Call
<1>6. AskedCounted'
  BY <1>1, <1>2, <1>5 DEF AskedCounted
<1>7. AskedBefore'
  <2> SUFFICES ASSUME NEW c \in Call, AskedBy(c)', NEW i \in DOMAIN calls'
               PROVE  c.id < calls'[i].id
    BY DEF AskedBefore
  <2>1. c.id <= counter /\ c.id \in Nat
    BY <1>5
  <2>2. i \in Nat /\ i > 0
    BY <1>1, <1>3
  <2> QED
    BY <1>2, <1>3, <2>1, <2>2
<1> QED
  BY <1>4, <1>6, <1>7 DEF CallsInTurn

\* The first call is asked about after all others.
LEMMA CallsAsk ==
  ASSUME TypesOK, CallsInTurn, NEW d \in Call, d = Head(calls), AskApproval(d), UNCHANGED <<prompt, approved>>
  PROVE  /\ CallsInTurn'
         /\ \A c \in Call : AskedBy(c) => c.id < d.id
<1>1. UNCHANGED <<calls, counter>> /\ pc' \in Late /\ pc \notin Late /\ calls # <<>>
  BY DEF AskApproval, Allowed, Current, Late, NeedsCall
<1>2. DOMAIN calls = 1 .. Len(calls) /\ Len(calls) \in Nat \ {0} /\ d = calls[1] /\ 1 \in DOMAIN calls
  BY <1>1, LenProperties, EmptySeq DEF TypesOK, CallsOK
<1>3. \A c \in Call : AskedBy(c)' => AskedBy(c) \/ c = d
  <2> SUFFICES ASSUME NEW c \in Call, AskedBy(c)' PROVE AskedBy(c) \/ c = d
    OBVIOUS
  <2>1. ASSUME NEW k \in DOMAIN events', IsAsked(events'[k]), c = events'[k].call
        PROVE  AskedBy(c) \/ c = d
    <3>1. k \in DOMAIN events \/ k = Len(events) + 1 \/ k = Len(events) + 2
      BY <2>1, AskAsks DEF TypesOK
    <3> QED
      BY <2>1, <3>1, AskAsks DEF AskedBy, TypesOK
  <2> QED
    BY <2>1 DEF AskedBy, IsAsked
<1>4. Ascending' /\ Counted'
  BY <1>1 DEF CallsInTurn, Ascending, Counted
<1>5. d.id <= counter
  BY <1>2 DEF CallsInTurn, Counted
<1>6. AskedCounted'
  BY <1>1, <1>3, <1>5 DEF CallsInTurn, AskedCounted
<1>7. \A c \in Call : AskedBy(c) => \A i \in DOMAIN calls : c.id < calls[i].id
  BY <1>1 DEF CallsInTurn, AskedBefore
<1>8. AskedBefore'
  <2> SUFFICES ASSUME NEW c \in Call, AskedBy(c)', NEW i \in DOMAIN calls', i # 1
               PROVE  c.id < calls'[i].id
    BY <1>1 DEF AskedBefore
  <2>1. i \in DOMAIN calls /\ 1 < i
    BY <1>1, <1>2
  <2>2. d.id < calls[i].id
    BY <1>2, <2>1 DEF CallsInTurn, Ascending
  <2> QED
    BY <1>1, <1>3, <1>7, <2>1, <2>2
<1> QED
  BY <1>2, <1>4, <1>6, <1>7, <1>8 DEF CallsInTurn

\* At the start there is no call.
LEMMA CallsInit == SessionInit => CallsInTurn
<1> SUFFICES ASSUME SessionInit PROVE CallsInTurn
  OBVIOUS
<1>1. calls = <<>> /\ events = <<>> /\ approved = {} /\ ~IsAsked(prompt)
  BY DEF SessionInit, TurnInit, FrontendInit, IsAsked, NoPrompt, Event
<1>2. DOMAIN calls = {} /\ DOMAIN events = {}
  BY <1>1
<1> QED
  BY <1>1, <1>2 DEF CallsInTurn, Ascending, Counted, AskedCounted, AskedBefore, AskedBy

\* Every step keeps the calls behind those asked about.
LEMMA CallsNext == TypesOK /\ CallsInTurn /\ [SessionNext]_sessionVars => CallsInTurn'
<1> SUFFICES ASSUME TypesOK, CallsInTurn, [SessionNext]_sessionVars PROVE CallsInTurn'
  OBVIOUS
<1>1. CASE RaiseAbort \/ UNCHANGED sessionVars
  <2>1. UNCHANGED <<calls, counter, pc, events, prompt, approved>>
    BY <1>1 DEF RaiseAbort, sessionVars, channelVars, turnVars, frontendVars
  <2>2. NoMoreAsked
    BY <2>1 DEF NoMoreAsked, AskedBy
  <2> QED
    BY <2>1, <2>2, CallsStay
<1>2. CASE Route
  <2>1. UNCHANGED <<calls, counter, pc, prompt, approved>>
    BY <1>2 DEF Route, turnVars, frontendVars
  <2>2. events' = events \/ Emit(<<TaskFinished(FALSE)>>) \/ Emit(<<>>)
    BY <1>2 DEF Route
  <2>3. <<>> \in Seq(Other)
    BY EmptySeq
  <2>4. Prints
    BY <2>2, <2>3, OtherFacts, PrintsOne, PrintsThese, PrintsNothing DEF TypesOK
  <2>5. NoMoreAsked
    BY <2>1, <2>4, PrintsAsks DEF TypesOK
  <2> QED
    BY <2>1, <2>5, CallsStay
<1>3. CASE AgentStep
  <2>1. UNCHANGED <<prompt, approved>>
    BY <1>3 DEF AgentStep, frontendVars
  <2>2. CASE Goes
    BY <2>1, <2>2, PrintsAsks, CallsGo DEF Goes, TypesOK
  <2>3. ASSUME NEW kinds \in Replies, ReplyArrives(kinds)
        PROVE  CallsInTurn'
    <3>1. events' = events
      BY <2>3 DEF ReplyArrives
    <3>2. NoMoreAsked
      BY <2>1, <3>1 DEF NoMoreAsked, AskedBy
    <3> QED
      BY <2>3, <3>2, CallsReply
  <2>4. ASSUME NEW d \in Call, d = Head(calls), AskApproval(d)
        PROVE  CallsInTurn'
    BY <2>1, <2>4, CallsAsk
  <2> QED
    BY <1>3, <2>2, <2>3, <2>4, CallsShape
<1>4. CASE FrontendStep
  <2>1. UNCHANGED <<calls, counter, pc>>
    BY <1>4 DEF FrontendStep, turnVars
  <2> QED
    BY <1>4, <2>1, FrontendAsks, CallsStay DEF TypesOK
<1>5. CASE UserStep
  <2>1. UNCHANGED <<calls, counter, pc>>
    BY <1>5 DEF UserStep, turnVars
  <2> QED
    BY <1>5, <2>1, UserAsks, CallsStay
<1> QED
  BY <1>1, <1>2, <1>3, <1>4, <1>5 DEF SessionNext

-----------------------------------------------------------------------------
(* Prompts come in the order of their calls.                               *)

EventsInTurn ==
  \A i, j \in DOMAIN events : IsAsked(events[i]) /\ IsAsked(events[j]) /\ i < j =>
    events[i].call.id < events[j].call.id
PromptFirst ==
  IsAsked(prompt) => \A i \in DOMAIN events : IsAsked(events[i]) => prompt.call.id < events[i].call.id
DecidedBefore ==
  \A c \in approved :
    /\ IsAsked(prompt) => c.id < prompt.call.id
    /\ \A i \in DOMAIN events : IsAsked(events[i]) => c.id < events[i].call.id
PromptsInTurn == EventsInTurn /\ PromptFirst /\ DecidedBefore

\* At the start there is no prompt.
LEMMA PromptsInit == SessionInit => PromptsInTurn
<1> SUFFICES ASSUME SessionInit PROVE PromptsInTurn
  OBVIOUS
<1>1. events = <<>> /\ approved = {} /\ ~IsAsked(prompt)
  BY DEF SessionInit, TurnInit, FrontendInit, IsAsked, NoPrompt, Event
<1>2. DOMAIN events = {}
  BY <1>1
<1> QED
  BY <1>1, <1>2 DEF PromptsInTurn, EventsInTurn, PromptFirst, DecidedBefore

\* Lines that ask for nothing leave the order of those that do.
LEMMA PromptsStay ==
  ASSUME LinesOK, PromptsInTurn, UNCHANGED <<prompt, approved>>, Prints
  PROVE  PromptsInTurn'
<1>1. /\ DOMAIN events \subseteq DOMAIN events'
      /\ \A k \in DOMAIN events' :
           \/ k \in DOMAIN events /\ events'[k] = events[k]
           \/ k \notin DOMAIN events /\ ~IsAsked(events'[k])
  BY PrintsLater
<1>2. EventsInTurn'
  BY <1>1 DEF PromptsInTurn, EventsInTurn, IsAsked
<1>3. PromptFirst' /\ DecidedBefore'
  BY <1>1 DEF PromptsInTurn, PromptFirst, DecidedBefore, IsAsked
<1> QED
  BY <1>2, <1>3 DEF PromptsInTurn

\* A new prompt comes behind all.
LEMMA PromptsAsk ==
  ASSUME TypesOK, CallsInTurn, PromptsInTurn, UNCHANGED <<prompt, approved>>,
         NEW d \in Call, d = Head(calls), AskApproval(d)
  PROVE  PromptsInTurn'
<1>1. \A c \in Call : AskedBy(c) => c.id < d.id
  BY CallsAsk
<1>2. /\ DOMAIN events' = 1 .. Len(events) + 2 /\ Len(events) \in Nat /\ DOMAIN events = 1 .. Len(events)
      /\ \A k \in DOMAIN events : events'[k] = events[k]
      /\ ~IsAsked(events'[Len(events) + 1])
      /\ IsAsked(events'[Len(events) + 2]) /\ events'[Len(events) + 2].call = d
  BY AskAsks DEF TypesOK
<1>3. \A k \in DOMAIN events' : IsAsked(events'[k]) =>
        \/ k \in DOMAIN events /\ events'[k] = events[k]
        \/ k = Len(events) + 2 /\ events'[k].call = d
  <2> SUFFICES ASSUME NEW k \in DOMAIN events', IsAsked(events'[k])
               PROVE  \/ k \in DOMAIN events /\ events'[k] = events[k]
                      \/ k = Len(events) + 2 /\ events'[k].call = d
    OBVIOUS
  <2>1. k \in DOMAIN events \/ k = Len(events) + 1 \/ k = Len(events) + 2
    BY <1>2
  <2> QED
    BY <1>2, <2>1
<1>4. \A k \in DOMAIN events : IsAsked(events[k]) => events[k].call.id < d.id
  BY <1>1, PromptIs DEF AskedBy, TypesOK
<1>5. IsAsked(prompt) => prompt.call.id < d.id
  BY <1>1, PromptIs DEF AskedBy, TypesOK
<1>6. \A c \in approved : c.id < d.id
  BY <1>1 DEF AskedBy, TypesOK, SetsOK
<1>7. EventsInTurn'
  <2> SUFFICES ASSUME NEW i \in DOMAIN events', NEW j \in DOMAIN events',
                      IsAsked(events'[i]), IsAsked(events'[j]), i < j
               PROVE  events'[i].call.id < events'[j].call.id
    BY DEF EventsInTurn, IsAsked
  <2>1. i \in DOMAIN events /\ events'[i] = events[i]
    BY <1>2, <1>3
  <2>2. CASE j \in DOMAIN events /\ events'[j] = events[j]
    BY <2>1, <2>2 DEF PromptsInTurn, EventsInTurn
  <2>3. CASE events'[j].call = d
    BY <1>4, <2>1, <2>3
  <2> QED
    BY <1>3, <2>2, <2>3
<1>8. PromptFirst'
  <2> SUFFICES ASSUME IsAsked(prompt), NEW i \in DOMAIN events', IsAsked(events'[i])
               PROVE  prompt.call.id < events'[i].call.id
    BY DEF PromptFirst, IsAsked
  <2> QED
    BY <1>3, <1>5 DEF PromptsInTurn, PromptFirst
<1>9. DecidedBefore'
  <2>1. ASSUME NEW c \in approved, NEW i \in DOMAIN events', IsAsked(events'[i])
        PROVE  c.id < events'[i].call.id
    BY <1>3, <1>6, <2>1 DEF PromptsInTurn, DecidedBefore
  <2> QED
    BY <2>1 DEF PromptsInTurn, DecidedBefore, IsAsked
<1> QED
  BY <1>7, <1>8, <1>9 DEF PromptsInTurn

\* The one handled becomes the one shown.
LEMMA PromptsShown == ASSUME LinesOK, PromptsInTurn, FrontendStep PROVE PromptsInTurn'
<1>1. events # <<>> /\ events' = Tail(events) /\ approved' = approved
  BY DEF FrontendStep, HandleEvent
<1>2. prompt' = prompt \/ prompt' = NoPrompt \/ prompt' = Head(events)
  BY DEF FrontendStep, HandleEvent, Shows, ShowsActivity, Withdraws, ShowsEnd
<1>3. ~IsAsked(NoPrompt)
  BY DEF IsAsked, NoPrompt, Event
<1>4. /\ Head(events) = events[1] /\ 1 \in DOMAIN events
      /\ \A k \in DOMAIN events' : k + 1 \in DOMAIN events /\ events'[k] = events[k + 1] /\ k \in Nat /\ k > 0
  BY <1>1, TailEvents
<1>5. EventsInTurn'
  <2> SUFFICES ASSUME NEW i \in DOMAIN events', NEW j \in DOMAIN events',
                      IsAsked(events'[i]), IsAsked(events'[j]), i < j
               PROVE  events'[i].call.id < events'[j].call.id
    BY DEF EventsInTurn, IsAsked
  <2>1. i + 1 \in DOMAIN events /\ j + 1 \in DOMAIN events /\ i + 1 < j + 1
    BY <1>4
  <2> QED
    BY <1>4, <2>1 DEF PromptsInTurn, EventsInTurn
<1>6. PromptFirst'
  <2> SUFFICES ASSUME IsAsked(prompt'), NEW i \in DOMAIN events', IsAsked(events'[i])
               PROVE  prompt'.call.id < events'[i].call.id
    BY DEF PromptFirst, IsAsked
  <2>1. i + 1 \in DOMAIN events /\ 1 < i + 1
    BY <1>4
  <2>2. CASE prompt' = prompt
    BY <1>4, <2>1, <2>2 DEF PromptsInTurn, PromptFirst
  <2>3. CASE prompt' = Head(events)
    BY <1>4, <2>1, <2>3 DEF PromptsInTurn, EventsInTurn
  <2> QED
    BY <1>2, <1>3, <2>2, <2>3
<1>7. DecidedBefore'
  <2> SUFFICES ASSUME NEW c \in approved
               PROVE  /\ IsAsked(prompt') => c.id < prompt'.call.id
                      /\ \A i \in DOMAIN events' : IsAsked(events'[i]) => c.id < events'[i].call.id
    BY <1>1 DEF DecidedBefore, IsAsked
  <2> QED
    BY <1>2, <1>3, <1>4 DEF PromptsInTurn, DecidedBefore
<1> QED
  BY <1>5, <1>6, <1>7 DEF PromptsInTurn

\* The one approved is before those that come.
LEMMA PromptsAnswered == ASSUME PromptsInTurn, UserStep PROVE PromptsInTurn'
<1>1. ~IsAsked(NoPrompt)
  BY DEF IsAsked, NoPrompt, Event
<1>2. events' = events
  BY UserPrompts
<1>3. EventsInTurn' /\ PromptFirst'
  BY <1>1, <1>2, UserPrompts DEF PromptsInTurn, EventsInTurn, PromptFirst, IsAsked
<1>4. DecidedBefore'
  <2>1. CASE approved' = approved
    BY <1>1, <1>2, <2>1, UserPrompts DEF PromptsInTurn, DecidedBefore, IsAsked
  <2>2. CASE approved' = approved \cup {prompt.call} /\ IsAsked(prompt) /\ prompt' = NoPrompt
    BY <1>1, <1>2, <2>2 DEF PromptsInTurn, DecidedBefore, PromptFirst, IsAsked
  <2> QED
    BY <2>1, <2>2, UserPrompts
<1> QED
  BY <1>3, <1>4 DEF PromptsInTurn

\* Every step keeps the prompts in the order of their calls.
LEMMA PromptsNext == TypesOK /\ CallsInTurn /\ PromptsInTurn /\ [SessionNext]_sessionVars => PromptsInTurn'
<1> SUFFICES ASSUME TypesOK, CallsInTurn, PromptsInTurn, [SessionNext]_sessionVars PROVE PromptsInTurn'
  OBVIOUS
<1>1. CASE RaiseAbort \/ UNCHANGED sessionVars
  <2>1. UNCHANGED <<events, prompt, approved>>
    BY <1>1 DEF RaiseAbort, sessionVars, channelVars, turnVars, frontendVars
  <2> QED
    BY <2>1 DEF PromptsInTurn, EventsInTurn, PromptFirst, DecidedBefore, IsAsked
<1>2. CASE Route
  <2>1. UNCHANGED <<prompt, approved>>
    BY <1>2 DEF Route, frontendVars
  <2>2. events' = events \/ Emit(<<TaskFinished(FALSE)>>) \/ Emit(<<>>)
    BY <1>2 DEF Route
  <2>3. <<>> \in Seq(Other)
    BY EmptySeq
  <2>4. Prints
    BY <2>2, <2>3, OtherFacts, PrintsOne, PrintsThese, PrintsNothing DEF TypesOK
  <2> QED
    BY <2>1, <2>4, PromptsStay DEF TypesOK
<1>3. CASE AgentStep
  <2>1. UNCHANGED <<prompt, approved>>
    BY <1>3 DEF AgentStep, frontendVars
  <2>2. CASE Goes
    BY <2>1, <2>2, PromptsStay DEF Goes, TypesOK
  <2>3. ASSUME NEW kinds \in Replies, ReplyArrives(kinds)
        PROVE  PromptsInTurn'
    <3>1. Prints
      BY <2>3, PrintsNothing DEF ReplyArrives, TypesOK
    <3> QED
      BY <2>1, <3>1, PromptsStay DEF TypesOK
  <2>4. ASSUME NEW d \in Call, d = Head(calls), AskApproval(d)
        PROVE  PromptsInTurn'
    BY <2>1, <2>4, PromptsAsk
  <2> QED
    BY <1>3, <2>2, <2>3, <2>4, CallsShape
<1>4. CASE FrontendStep
  BY <1>4, PromptsShown DEF TypesOK
<1>5. CASE UserStep
  BY <1>5, PromptsAnswered
<1> QED
  BY <1>1, <1>2, <1>3, <1>4, <1>5 DEF SessionNext

-----------------------------------------------------------------------------
(* Approvals given, under way and spent.                                   *)

Spent == {c \in ran : NeedsApproval(c)}
Budget == Cardinality(Spent) + YesesUnderWay <= Cardinality(approved)

\* The numbers of the budget.
LEMMA BudgetTypes ==
  ASSUME TypesOK
  PROVE  /\ Yeses(stdin) \in Nat /\ Yeses(inbox) \in Nat /\ Yeses(reinject) \in Nat
         /\ IsFiniteSet(Spent) /\ Cardinality(Spent) \in Nat
         /\ IsFiniteSet(approved) /\ Cardinality(approved) \in Nat
<1>1. Yeses(stdin) \in Nat /\ Yeses(inbox) \in Nat /\ Yeses(reinject) \in Nat
  BY YesesNat DEF TypesOK, QueuesOK
<1>2. Spent \subseteq ran /\ IsFiniteSet(ran) /\ IsFiniteSet(approved)
  BY DEF Spent, TypesOK, SetsOK
<1>3. IsFiniteSet(Spent)
  BY <1>2, FS_Subset
<1> QED
  BY <1>1, <1>2, <1>3, FS_CardinalityType

\* At the start there is no approval.
LEMMA BudgetInit == SessionInit => Budget
<1> SUFFICES ASSUME SessionInit PROVE Budget
  OBVIOUS
<1>1. stdin = <<>> /\ inbox = <<>> /\ reinject = <<>> /\ ran = {} /\ approved = {}
  BY DEF SessionInit, TurnInit, FrontendInit
<1>2. Yeses(stdin) = 0 /\ Yeses(inbox) = 0 /\ Yeses(reinject) = 0
  BY <1>1, YesesEmpty
<1>3. Spent = {} /\ Cardinality({}) = 0
  BY <1>1, FS_EmptySet DEF Spent
<1> QED
  BY <1>1, <1>2, <1>3 DEF Budget, YesesUnderWay

\* What was run with an approval, when one more call has run.
LEMMA SpendsOne ==
  ASSUME TypesOK, NEW c, ran' = ran \/ ran' = ran \cup {c}
  PROVE  /\ Cardinality(Spent') \in Nat
         /\ Cardinality(Spent') <= Cardinality(Spent) + 1
         /\ ran' = ran \/ ~NeedsApproval(c) => Cardinality(Spent') = Cardinality(Spent)
<1>1. IsFiniteSet(Spent) /\ Cardinality(Spent) \in Nat
  BY BudgetTypes
<1>2. CASE ran' = ran \/ ~NeedsApproval(c)
  <2>1. Spent' = Spent
    BY <1>2 DEF Spent, NeedsApproval
  <2> QED
    BY <1>1, <2>1
<1>3. CASE ran' = ran \cup {c} /\ NeedsApproval(c)
  <2>1. Spent' = Spent \cup {c}
    BY <1>3 DEF Spent, NeedsApproval
  <2>2. c \in Spent => Spent' = Spent
    BY <2>1
  <2>3. c \notin Spent => Cardinality(Spent') = Cardinality(Spent) + 1
    BY <1>1, <2>1, FS_AddElement
  <2>4. Cardinality(Spent') = Cardinality(Spent) \/ Cardinality(Spent') = Cardinality(Spent) + 1
    BY <2>2, <2>3
  <2>5. CASE ran' = ran
    BY <1>1, <2>5 DEF Spent
  <2> QED
    BY <1>1, <1>3, <2>4, <2>5
<1> QED
  BY <1>2, <1>3

\* Spending one of those under way.
LEMMA SpendsUnderWay ==
  ASSUME NEW spent \in Nat, NEW more \in Nat, NEW one \in Nat, NEW waits \in Nat, NEW left \in Nat,
         NEW comes \in Nat, NEW back \in Nat, NEW given \in Nat,
         spent + (comes + waits + back) <= given, waits = one + left, more <= spent + one
  PROVE  more + (comes + left + back) <= given
OBVIOUS

\* A step of the agent moves approvals, or spends the one it takes on one call.
LEMMA AgentBudget == ASSUME TypesOK, Budget, AgentStep PROVE Budget'
<1>1. stdin' = stdin /\ approved' = approved
  BY DEF AgentStep, frontendVars
<1>2. /\ Yeses(stdin) \in Nat /\ Yeses(inbox) \in Nat /\ Yeses(reinject) \in Nat
      /\ Cardinality(Spent) \in Nat /\ Cardinality(approved) \in Nat
  BY BudgetTypes
<1>3. CASE Aside
  <2>1. Cardinality(Spent') = Cardinality(Spent)
    BY <1>3, SpendsOne DEF Aside
  <2> QED
    BY <1>1, <1>3, <2>1 DEF Aside, Budget, YesesUnderWay
<1>4. CASE Drain
  <2>1. inbox' = <<>> /\ reinject' = OfTypes(inbox, Answers) /\ ran' = ran
    BY <1>4 DEF Drain
  <2>2. Yeses(inbox') = 0 /\ Yeses(reinject') = Yeses(inbox) /\ Spent' = Spent
    BY <2>1, YesesEmpty, YesesKept DEF Spent, TypesOK, QueuesOK
  <2> QED
    BY <1>1, <1>2, <2>2 DEF Budget, YesesUnderWay
<1>5. CASE Reinject
  <2>1. reinject # <<>> /\ inbox' = Append(inbox, Head(reinject)) /\ reinject' = Tail(reinject) /\ ran' = ran
    BY <1>5 DEF Reinject
  <2>2. Head(reinject) \in Message /\ Tail(reinject) \in Seq(Message)
    BY <2>1, HeadTailProperties DEF TypesOK, QueuesOK
  <2>3. Yeses(inbox') = Yeses(inbox) + One(Head(reinject)) /\ Spent' = Spent
    BY <2>1, <2>2, YesesAppend DEF Spent, TypesOK, QueuesOK
  <2>4. Yeses(reinject) = One(Head(reinject)) + Yeses(reinject')
    BY <2>1, YesesHead DEF TypesOK, QueuesOK
  <2>5. One(Head(reinject)) \in Nat /\ Yeses(reinject') \in Nat
    BY <2>1, <2>2, YesesNat DEF One
  <2> QED
    BY <1>1, <1>2, <2>3, <2>4, <2>5 DEF Budget, YesesUnderWay
<1>6. CASE Takes
  <2>1. inbox # <<>> /\ inbox' = Tail(inbox) /\ reinject' = reinject
    BY <1>6 DEF Takes
  <2>2. Head(inbox) \in Message /\ Tail(inbox) \in Seq(Message)
    BY <2>1, HeadIsMessage DEF TypesOK
  <2>3. Yeses(inbox) = One(Head(inbox)) + Yeses(inbox')
    BY <2>1, YesesHead DEF TypesOK, QueuesOK
  <2>4. One(Head(inbox)) \in Nat /\ Yeses(inbox') \in Nat
    BY <2>1, <2>2, YesesNat DEF One
  <2>5. \E c \in Call : ran' = ran \/ (ran' = ran \cup {c} /\ IsYes(Head(inbox)))
    BY <1>6, SomeCall DEF Takes
  <2>6. PICK c \in Call : ran' = ran \/ (ran' = ran \cup {c} /\ IsYes(Head(inbox)))
    BY <2>5
  <2>7. Cardinality(Spent') \in Nat /\ Cardinality(Spent') <= Cardinality(Spent) + One(Head(inbox))
    <3>1. CASE ran' = ran
      BY <1>2, <2>4, <3>1, SpendsOne
    <3>2. CASE ran' = ran \cup {c} /\ IsYes(Head(inbox))
      BY <3>2, SpendsOne DEF One
    <3> QED
      BY <2>6, <3>1, <3>2
  <2>8. Cardinality(Spent) + (Yeses(stdin) + Yeses(inbox) + Yeses(reinject)) <= Cardinality(approved)
    BY DEF Budget, YesesUnderWay
  <2>9. Cardinality(Spent') + (Yeses(stdin) + Yeses(inbox') + Yeses(reinject)) <= Cardinality(approved)
    BY <1>2, <2>3, <2>4, <2>7, <2>8, SpendsUnderWay
  <2> QED
    BY <1>1, <2>1, <2>9 DEF Budget, YesesUnderWay
<1> QED
  BY <1>3, <1>4, <1>5, <1>6, AgentShape

\* The main loop passes them on, or drops them.
LEMMA RouteBudget == ASSUME TypesOK, Budget, Route PROVE Budget'
<1>1. stdin # <<>> /\ stdin' = Tail(stdin) /\ UNCHANGED <<reinject, ran, approved>>
  BY DEF Route, turnVars, frontendVars
<1>2. inbox' = inbox \/ inbox' = Append(inbox, Head(stdin))
  BY DEF Route
<1>3. Head(stdin) \in Message /\ Tail(stdin) \in Seq(Message)
  BY <1>1, HeadTailProperties DEF TypesOK, QueuesOK
<1>4. Yeses(stdin) = One(Head(stdin)) + Yeses(stdin')
  BY <1>1, YesesHead DEF TypesOK, QueuesOK
<1>5. One(Head(stdin)) \in Nat /\ Yeses(stdin') \in Nat
  BY <1>1, <1>3, YesesNat DEF One
<1>6. Yeses(inbox') = Yeses(inbox) \/ Yeses(inbox') = Yeses(inbox) + One(Head(stdin))
  BY <1>2, <1>3, YesesAppend DEF TypesOK, QueuesOK
<1>7. /\ Yeses(inbox) \in Nat /\ Yeses(reinject) \in Nat
      /\ Cardinality(Spent) \in Nat /\ Cardinality(approved) \in Nat
  BY BudgetTypes
<1>8. Spent' = Spent /\ reinject' = reinject /\ approved' = approved
  BY <1>1 DEF Spent
<1> QED
  BY <1>4, <1>5, <1>6, <1>7, <1>8 DEF Budget, YesesUnderWay

\* A yes of the user is one approval more, for a call not approved before: its prompt is behind those decided.
LEMMA UserBudget == ASSUME TypesOK, PromptsInTurn, Budget, UserStep PROVE Budget'
<1>1. UNCHANGED <<inbox, reinject, ran>>
  BY DEF UserStep, turnVars
<1>2. Spent' = Spent
  BY <1>1 DEF Spent
<1>3. /\ Yeses(stdin) \in Nat /\ Yeses(inbox) \in Nat /\ Yeses(reinject) \in Nat
      /\ Cardinality(Spent) \in Nat /\ Cardinality(approved) \in Nat /\ IsFiniteSet(approved)
  BY BudgetTypes
<1>4. ASSUME UNCHANGED approved, Yeses(stdin') = Yeses(stdin)
      PROVE  Budget'
  BY <1>1, <1>2, <1>4 DEF Budget, YesesUnderWay
<1>5. ASSUME UNCHANGED approved, NEW m \in Message, Send(m), ~IsYes(m)
      PROVE  Budget'
  <2>1. Yeses(Append(stdin, m)) = Yeses(stdin) + One(m) /\ One(m) = 0
    BY <1>5, YesesAppend DEF TypesOK, QueuesOK, One
  <2> QED
    BY <1>3, <1>4, <1>5, <2>1 DEF Send
<1>6. ASSUME Decide(TRUE)
      PROVE  Budget'
  <2>1. ApprovalResponse(TRUE) \in Message /\ One(ApprovalResponse(TRUE)) = 1
    BY Sendable DEF TypesOK, One, IsYes, ApprovalResponse
  <2>2. Yeses(stdin') = Yeses(stdin) + 1
    BY <1>6, <2>1, YesesAppend DEF Decide, Send, TypesOK, QueuesOK
  <2>3. IsAsked(prompt) /\ approved' = approved \cup {prompt.call}
    BY <1>6 DEF Decide, IsAsked
  <2>4. prompt.call \in Call
    BY <2>3, PromptIs DEF TypesOK
  <2>5. prompt.call \notin approved
    <3>1. prompt.call.id \in Nat /\ ~(prompt.call.id < prompt.call.id)
      BY <2>4 DEF Call
    <3> QED
      BY <2>3, <3>1 DEF PromptsInTurn, DecidedBefore
  <2>6. Cardinality(approved') = Cardinality(approved) + 1
    BY <1>3, <2>3, <2>5, FS_AddElement
  <2> QED
    BY <1>1, <1>2, <1>3, <2>2, <2>6 DEF Budget, YesesUnderWay
<1>7. CASE Decide(FALSE)
  <2>1. ApprovalResponse(FALSE) \in Message /\ ~IsYes(ApprovalResponse(FALSE))
    BY Sendable DEF TypesOK, IsYes, ApprovalResponse
  <2> QED
    BY <1>5, <1>7, <2>1 DEF Decide
<1>8. CASE Submit
  <2>1. FollowupAnswer(sent + 1) \in Message /\ UserResponse(sent + 1) \in Message
    BY Sendable DEF TypesOK
  <2>2. ~IsYes(FollowupAnswer(sent + 1)) /\ ~IsYes(UserResponse(sent + 1))
    BY DEF FollowupAnswer, UserResponse, IsYes
  <2>3. (Send(FollowupAnswer(sent + 1)) \/ Send(UserResponse(sent + 1))) /\ UNCHANGED approved
    BY <1>8 DEF Submit, CanSend
  <2> QED
    BY <1>5, <2>1, <2>2, <2>3
<1>9. CASE \E k \in {"plan", "act"} : SwitchMode(k)
  <2>1. PICK k \in {"plan", "act"} : SwitchMode(k)
    BY <1>9
  <2>2. SetMode(k) \in Message /\ ~IsYes(SetMode(k))
    BY Sendable DEF TypesOK, SetMode, IsYes
  <2> QED
    BY <1>5, <2>1, <2>2 DEF SwitchMode
<1>10. CASE Stop \/ CloseTab
  <2>1. Interrupt \in Message /\ ~IsYes(Interrupt)
    BY Sendable DEF TypesOK, Interrupt, IsYes
  <2>2. (Send(Interrupt) \/ UNCHANGED stdin) /\ UNCHANGED approved
    BY <1>10 DEF Stop, CloseTab
  <2> QED
    BY <1>4, <1>5, <2>1, <2>2
<1> QED
  BY <1>6, <1>7, <1>8, <1>9, <1>10 DEF UserStep, UserNext

\* Every step keeps what is spent and under way within what was given.
LEMMA BudgetNext == TypesOK /\ PromptsInTurn /\ Budget /\ [SessionNext]_sessionVars => Budget'
<1> SUFFICES ASSUME TypesOK, PromptsInTurn, Budget, [SessionNext]_sessionVars PROVE Budget'
  OBVIOUS
<1>1. CASE RaiseAbort \/ FrontendStep \/ UNCHANGED sessionVars
  <2>1. UNCHANGED <<stdin, inbox, reinject, ran, approved>>
    BY <1>1 DEF RaiseAbort, FrontendStep, HandleEvent, sessionVars, channelVars, turnVars, frontendVars
  <2> QED
    BY <2>1 DEF Budget, YesesUnderWay, Yeses, Spent
<1> QED
  BY <1>1, AgentBudget, RouteBudget, UserBudget DEF SessionNext

\* It is what the property says.
LEMMA BudgetImplies == Budget => OneYesPerRun
BY DEF Budget, Spent, OneYesPerRun

\* Every approval is spent on one call at most, whatever wait takes it, and none comes from nowhere: also when drain_user_responses puts an approval nobody waited for back into the channel.
THEOREM YesInvariance == SessionSpec => []OneYesPerRun
<1>1. SessionSpec => []TypesOK
  BY TypesInit, TypesNext, PTL DEF SessionSpec
<1>2. SessionSpec => []CallsInTurn
  BY <1>1, CallsInit, CallsNext, PTL DEF SessionSpec
<1>3. SessionSpec => []PromptsInTurn
  BY <1>1, <1>2, PromptsInit, PromptsNext, PTL DEF SessionSpec
<1>4. SessionSpec => []Budget
  BY <1>1, <1>3, BudgetInit, BudgetNext, PTL DEF SessionSpec
<1> QED
  BY <1>4, BudgetImplies, PTL

-----------------------------------------------------------------------------
(* What the screen shows.                                                  *)

LastShown == IF events = <<>> THEN prompt ELSE events[Len(events)]
ApprovalEnds == {"ApprovalResponse", "SetMode", "Interrupt"}
QuestionEnds == {"FollowupAnswer", "ApprovalResponse", "SetMode", "Interrupt"}
ApprovalAsked == LastShown = Event("ApprovalNeeded", Head(calls)) \/ Ends(ApprovalEnds)
QuestionAsked == LastShown = Event("FollowupQuestion", Head(calls)) \/ Ends(QuestionEnds)
Asking == pc \in {"ask", "asking"}
WaitsAreSeen ==
  /\ status # "Closed" /\ Waiting => ApprovalAsked
  /\ status # "Closed" /\ Asking => QuestionAsked

IsQuestion(e) == e.type \in {"ApprovalNeeded", "FollowupQuestion"}
EndIsComing ==
  \E j \in DOMAIN events :
    events[j].type = "TaskFinished" /\ \A k \in DOMAIN events : k > j => ~IsQuestion(events[k])
NothingAsked == prompt = NoPrompt /\ \A k \in DOMAIN events : ~IsQuestion(events[k])
EndsSeen == pc \in {"gate", "finished"} => EndIsComing \/ NothingAsked
EndsClear == status \in Final \cup {"Closed"} => prompt = NoPrompt
Screen == EndsClear /\ EndsSeen /\ WaitsAreSeen

\* A message more in a queue.
LEMMA SaysAppend ==
  ASSUME NEW S, NEW q \in Seq(S), NEW m \in S, NEW t
  PROVE  Says(q, t) \/ m.type = t => Says(Append(q, m), t)
<1> DEFINE r == Append(q, m)
<1>1. /\ DOMAIN q = 1 .. Len(q) /\ Len(q) \in Nat /\ DOMAIN r = 1 .. Len(q) + 1
      /\ r[Len(q) + 1] = m /\ \A i \in 1 .. Len(q) : r[i] = q[i]
  BY LenProperties, AppendProperties
<1> HIDE DEF r
<1>2. \A i \in DOMAIN q : i \in DOMAIN r /\ r[i] = q[i]
  BY <1>1
<1>3. Len(q) + 1 \in DOMAIN r
  BY <1>1
<1>4. Says(q, t) => Says(r, t)
  BY <1>2 DEF Says, ToSet
<1>5. m.type = t => Says(r, t)
  BY <1>1, <1>3 DEF Says, ToSet
<1> QED
  BY <1>4, <1>5 DEF r

\* A message less.
LEMMA SaysTail ==
  ASSUME NEW S, NEW q \in Seq(S), q # <<>>, NEW t, Says(q, t)
  PROVE  Head(q).type = t \/ Says(Tail(q), t)
<1>1. DOMAIN q = 1 .. Len(q) /\ Len(q) \in Nat \ {0} /\ Head(q) = q[1]
  BY LenProperties, EmptySeq
<1>2. DOMAIN Tail(q) = 1 .. Len(q) - 1 /\ \A i \in 1 .. Len(q) - 1 : Tail(q)[i] = q[i + 1]
  <2>1. Tail(q) \in Seq(S) /\ Len(Tail(q)) = Len(q) - 1 /\ \A i \in 1 .. Len(Tail(q)) : Tail(q)[i] = q[i + 1]
    BY HeadTailProperties
  <2> QED
    BY <2>1, LenProperties
<1>3. PICK i \in DOMAIN q : q[i].type = t
  BY DEF Says, ToSet
<1>4. CASE i = 1
  BY <1>1, <1>3, <1>4
<1>5. CASE i # 1
  <2> DEFINE r == Tail(q)
  <2>1. i - 1 \in DOMAIN r /\ r[i - 1] = q[i]
    <3>1. i - 1 \in 1 .. Len(q) - 1 /\ (i - 1) + 1 = i
      BY <1>1, <1>3, <1>5
    <3>2. r[i - 1] = q[(i - 1) + 1]
      BY <1>2, <3>1
    <3> QED
      BY <1>2, <3>1, <3>2
  <2> HIDE DEF r
  <2>2. Says(r, t)
    BY <1>3, <2>1 DEF Says, ToSet
  <2> QED
    BY <2>2 DEF r
<1> QED
  BY <1>4, <1>5

\* What can end a wait stays when the user sends more, or is what he sends.
LEMMA EndsSent ==
  ASSUME QueuesOK, NEW types, UNCHANGED inbox,
         NEW m \in Message, stdin' = Append(stdin, m), Ends(types) \/ m.type \in types
  PROVE  Ends(types)'
<1>1. ASSUME NEW t \in types, Says(stdin, t) \/ m.type = t
      PROVE  Says(Append(stdin, m), t)
  BY <1>1, SaysAppend DEF QueuesOK
<1> QED
  BY <1>1 DEF Ends

\* It stays when the main loop passes it on.
LEMMA EndsRouted ==
  ASSUME QueuesOK, NEW types, stdin # <<>>, stdin' = Tail(stdin), inbox' = Append(inbox, Head(stdin)), Ends(types)
  PROVE  Ends(types)'
<1>1. Head(stdin) \in Message
  BY HeadTailProperties DEF QueuesOK
<1>2. PICK t \in types : Says(stdin, t) \/ Says(inbox, t)
  BY DEF Ends
<1>3. Says(inbox, t) \/ Head(stdin).type = t => Says(inbox', t)
  BY <1>1, SaysAppend DEF QueuesOK
<1>4. Says(stdin, t) => Head(stdin).type = t \/ Says(stdin', t)
  BY SaysTail DEF QueuesOK
<1> QED
  BY <1>2, <1>3, <1>4 DEF Ends

\* It stays when the agent takes another message.
LEMMA EndsTaken ==
  ASSUME QueuesOK, NEW types, UNCHANGED stdin, inbox # <<>>, inbox' = Tail(inbox),
         Head(inbox).type \notin types, Ends(types)
  PROVE  Ends(types)'
<1>1. PICK t \in types : Says(stdin, t) \/ Says(inbox, t)
  BY DEF Ends
<1>2. Says(inbox, t) => Says(inbox', t)
  BY SaysTail DEF QueuesOK
<1> QED
  BY <1>1, <1>2 DEF Ends

\* At the start nothing waits and nothing is shown.
LEMMA ScreenInit == SessionInit => Screen
BY DEF SessionInit, TurnInit, FrontendInit, Screen, EndsClear, EndsSeen, WaitsAreSeen, Waiting, Asking, Final

-----------------------------------------------------------------------------
\* Lines that end with the news of the end.
LEMMA EndPrinted ==
  ASSUME NEW q \in Seq(Line), NEW b \in BOOLEAN, events' = q \o <<TaskFinished(b)>>
  PROVE  EndIsComing'
<1>1. TaskFinished(b) \in Line /\ TaskFinished(b).type = "TaskFinished"
  BY DEF TaskFinished, Line, Other
<1>2. <<TaskFinished(b)>> \in Seq(Line) /\ Len(<<TaskFinished(b)>>) = 1 /\ <<TaskFinished(b)>>[1] = TaskFinished(b)
  BY <1>1
<1> DEFINE e == <<TaskFinished(b)>>
<1>3. e \in Seq(Line) /\ Len(e) = 1 /\ e[1].type = "TaskFinished"
  BY <1>1, <1>2
<1> HIDE DEF e
<1>4. q \o e \in Seq(Line) /\ Len(q \o e) = Len(q) + 1 /\ Len(q) \in Nat
  <2>1. q \o e \in Seq(Line) /\ Len(q \o e) = Len(q) + Len(e)
    BY <1>3, ConcatProperties
  <2> QED
    BY <1>3, <2>1, LenProperties
<1>5. (q \o e)[Len(q) + 1] = e[1]
  <2>1. Len(q) + 1 \in 1 .. Len(q) + Len(e) /\ ~(Len(q) + 1 <= Len(q)) /\ (Len(q) + 1) - Len(q) = 1
    BY <1>3, <1>4
  <2>2. (q \o e)[Len(q) + 1] = e[(Len(q) + 1) - Len(q)]
    BY <1>3, <2>1, ConcatProperties
  <2> QED
    BY <2>1, <2>2
<1>6. DOMAIN (q \o e) = 1 .. Len(q) + 1
  BY <1>4, LenProperties
<1>7. events' = q \o e
  BY DEF e
<1>8. Len(q) + 1 \in DOMAIN events' /\ events'[Len(q) + 1].type = "TaskFinished" /\ \A k \in DOMAIN events' : ~(k > Len(q) + 1)
  BY <1>3, <1>4, <1>5, <1>6, <1>7
<1> QED
  BY <1>8 DEF EndIsComing, IsQuestion

\* The line asked last is the one shown last.
LEMMA LastPrinted ==
  ASSUME NEW q \in Seq(Line), NEW e \in Line, events' = q \o <<e>>
  PROVE  LastShown' = e
<1>1. <<e>> \in Seq(Line)
  OBVIOUS
<1>2. events' = Append(q, e)
  BY AppendIsConcat
<1>3. events' # <<>> /\ Len(events') = Len(q) + 1 /\ events'[Len(q) + 1] = e
  BY <1>2, AppendProperties
<1> QED
  BY <1>3 DEF LastShown

\* Two lines printed together are printed one after the other.
TwoLines(q, e, f) == q \o <<e, f>> = (q \o <<e>>) \o <<f>>

\* They are.
LEMMA LinesApart ==
  ASSUME NEW S, NEW q \in Seq(S), NEW e \in S, NEW f \in S
  PROVE  TwoLines(q, e, f) /\ q \o <<e>> \in Seq(S)
<1>1. <<e>> \in Seq(S) /\ <<f>> \in Seq(S)
  OBVIOUS
<1>2. <<e, f>> = <<e>> \o <<f>>
  <2>1. <<e, f>> = Append(<<e>>, f)
    OBVIOUS
  <2> QED
    BY <1>1, <2>1, AppendIsConcat
<1>3. Associates(q, <<e>>, <<f>>)
  BY <1>1, Associating
<1>4. TwoLines(q, e, f)
  BY <1>2, <1>3 DEF Associates, TwoLines
<1> QED
  BY <1>1, <1>4, ConcatProperties

\* An end is printed last.
LEMMA FinishEnds ==
  ASSUME LinesOK, \/ Finish(<<TaskFinished(FALSE)>>)
                  \/ Finish(<<TaskFinished(FALSE), TaskFinished(FALSE)>>)
                  \/ Finish(<<Event("FollowupQuestion", NoCall), TaskFinished(FALSE)>>)
  PROVE  EndIsComing'
<1>1. CASE Finish(<<TaskFinished(FALSE)>>)
  BY <1>1, EndPrinted DEF Finish, Emit, LinesOK
<1>2. ASSUME NEW e \in Line, Finish(<<e, TaskFinished(FALSE)>>)
      PROVE  EndIsComing'
  <2>1. TaskFinished(FALSE) \in Line /\ events \in Seq(Line)
    BY LineFacts DEF LinesOK
  <2>2. TwoLines(events, e, TaskFinished(FALSE)) /\ events \o <<e>> \in Seq(Line)
    BY <2>1, LinesApart
  <2>3. events' = (events \o <<e>>) \o <<TaskFinished(FALSE)>>
    BY <1>2, <2>2 DEF Finish, Emit, TwoLines
  <2> QED
    BY <2>2, <2>3, EndPrinted
<1>3. TaskFinished(FALSE) \in Line /\ Event("FollowupQuestion", NoCall) \in Line
  BY LineFacts, OtherFacts DEF AboutCalls
<1> QED
  BY <1>1, <1>2, <1>3

\* A step into a place where nothing is asked and nothing has ended.
LEMMA Elsewhere ==
  ASSUME Screen, UNCHANGED <<status, prompt>>, pc' \notin Late
  PROVE  Screen'
BY DEF Screen, EndsClear, EndsSeen, WaitsAreSeen, Waiting, Asking, Late, NeedsCall

\* A step that ends the task, with the news of it behind everything else.
LEMMA Ended ==
  ASSUME Screen, UNCHANGED <<status, prompt>>, pc' \in {"gate", "finished"}, EndIsComing'
  PROVE  Screen'
BY DEF Screen, EndsClear, EndsSeen, WaitsAreSeen, Waiting, Asking

\* A step into a wait whose question was printed last.
LEMMA AsksOne ==
  ASSUME Screen, UNCHANGED <<status, prompt>>,
         \/ pc' \in {"approve", "approving"} /\ ApprovalAsked'
         \/ pc' \in {"ask", "asking"} /\ QuestionAsked'
  PROVE  Screen'
BY DEF Screen, EndsClear, EndsSeen, WaitsAreSeen, Waiting, Asking

\* What is asked stays asked while nothing is handled or taken.
LEMMA AskedStays ==
  ASSUME UNCHANGED <<events, prompt, calls, stdin, inbox>>
  PROVE  (ApprovalAsked => ApprovalAsked') /\ (QuestionAsked => QuestionAsked')
BY DEF ApprovalAsked, QuestionAsked, LastShown, Ends, Says

\* Execution asks its question last, or prints the end last, or goes on.
LEMMA RunScreen ==
  ASSUME TypesOK, Screen, UNCHANGED <<status, prompt>>, calls # <<>>,
         NEW lines \in Seq(Other), Run(Head(calls), lines)
  PROVE  Screen'
<1>1. lines \in Seq(Line) /\ events \in Seq(Line) /\ Head(calls) \in Call
  BY LineFacts, SeqMonotonic, HeadIsCall DEF TypesOK, LinesOK
<1>2. ASSUME NEW e \in Line, Emit(lines \o <<e>>)
      PROVE  events' = (events \o lines) \o <<e>> /\ events \o lines \in Seq(Line)
  <2>1. <<e>> \in Seq(Line)
    OBVIOUS
  <2>2. Associates(events, lines, <<e>>)
    BY <1>1, <2>1, Associating
  <2> QED
    BY <1>1, <1>2, <2>2, ConcatProperties DEF Emit, Associates
<1>3. CASE pc' \notin Late
  BY <1>3, Elsewhere
<1>4. CASE pc' = "ask" /\ calls' = calls /\ Emit(lines \o <<Event("FollowupQuestion", Head(calls))>>)
  <2>1. Event("FollowupQuestion", Head(calls)) \in Line
    BY <1>1, OtherFacts, LineFacts DEF AboutCalls
  <2>2. LastShown' = Event("FollowupQuestion", Head(calls))
    BY <1>2, <1>4, <2>1, LastPrinted
  <2>3. QuestionAsked'
    BY <1>4, <2>2 DEF QuestionAsked
  <2> QED
    BY <1>4, <2>3, AsksOne
<1>5. CASE pc' = "gate" /\ Emit(lines \o <<TaskFinished(TRUE)>>)
  <2>1. TaskFinished(TRUE) \in Line
    BY OtherFacts, LineFacts
  <2>2. EndIsComing'
    BY <1>2, <1>5, <2>1, EndPrinted
  <2> QED
    BY <1>5, <2>2, Ended
<1>6. \/ pc' \notin Late
      \/ pc' = "ask" /\ calls' = calls /\ Emit(lines \o <<Event("FollowupQuestion", Head(calls))>>)
      \/ pc' = "gate" /\ Emit(lines \o <<TaskFinished(TRUE)>>)
  BY DEF Run, Continue, Late, NeedsCall
<1> QED
  BY <1>3, <1>4, <1>5, <1>6

\* A step of the agent waits only for what it has asked, or what is already on its way.
LEMMA AgentScreen == ASSUME TypesOK, Screen, AgentStep PROVE Screen'
<1>0. UNCHANGED <<status, prompt, stdin>>
  BY DEF AgentStep, frontendVars
<1>1. CASE Drain \/ Reinject \/ StartTurn \/ NoReply \/ FollowUp \/ Refused \/ StillPresented
  <2>1. pc' \notin Late
    BY <1>1 DEF Drain, Reinject, StartTurn, NoReply, FollowUp, Refused, StillPresented, Late, NeedsCall, turnVars
  <2> QED
    BY <1>0, <2>1, Elsewhere
<1>2. CASE \E kinds \in Replies : ReplyArrives(kinds)
  <2>1. pc' \notin Late
    BY <1>2 DEF ReplyArrives, Late, NeedsCall
  <2> QED
    BY <1>0, <2>1, Elsewhere
<1>3. CASE Denied \/ Answered \/ \E c \in ToSet(calls) : Blocked(c)
  <2>1. pc' \notin Late
    BY <1>3 DEF Denied, Answered, Blocked, Continue, Late, NeedsCall
  <2> QED
    BY <1>0, <2>1, Elsewhere
<1>4. CASE Interrupted \/ GivesUp
  <2>1. EndIsComing' /\ pc' = "finished"
    BY <1>4, FinishEnds DEF Interrupted, GivesUp, Finish, TypesOK
  <2> QED
    BY <1>0, <2>1, Ended
<1>5. CASE EndTurn
  <2>1. CASE pc' = "drain"
    <3>1. pc' \notin Late
      BY <2>1 DEF Late, NeedsCall
    <3> QED
      BY <1>0, <3>1, Elsewhere
  <2>2. CASE Finish(<<TaskFinished(FALSE)>>)
    <3>1. EndIsComing' /\ pc' = "finished"
      BY <2>2, FinishEnds DEF Finish, TypesOK
    <3> QED
      BY <1>0, <3>1, Ended
  <2> QED
    BY <1>5, <2>1, <2>2 DEF EndTurn
<1>6. CASE Gate
  <2>1. CASE Finish(<<>>)
    <3>1. pc' = "finished" /\ pc = "gate" /\ events' = events
      BY <1>6, <2>1, ConcatEmptySeq DEF Gate, Finish, Emit, TypesOK, LinesOK
    <3> QED
      BY <1>0, <3>1 DEF Screen, EndsClear, EndsSeen, WaitsAreSeen, Waiting, Asking, EndIsComing, NothingAsked
  <2>2. CASE Finish(<<Event("FollowupQuestion", NoCall), TaskFinished(FALSE)>>)
    <3>1. EndIsComing' /\ pc' = "finished"
      BY <2>2, FinishEnds DEF Finish, TypesOK
    <3> QED
      BY <1>0, <3>1, Ended
  <2> QED
    BY <1>6, <2>1, <2>2 DEF Gate
<1>7. ASSUME NEW c \in ToSet(calls), RunAtOnce(c)
      PROVE  Screen'
  <2>1. c = Head(calls) /\ c \in Call /\ calls # <<>>
    BY <1>7, CurrentIsCall DEF RunAtOnce, Allowed, TypesOK
  <2>2. Event("ToolCallStarted", c) \in Other
    BY <2>1, OtherFacts DEF AboutCalls
  <2>3. <<Event("ToolCallStarted", c)>> \in Seq(Other)
    BY <2>2
  <2>4. Run(c, <<Event("ToolCallStarted", c)>>)
    BY <1>7 DEF RunAtOnce
  <2>5. Run(Head(calls), <<Event("ToolCallStarted", c)>>)
    BY <2>1, <2>4
  <2> QED
    BY <1>0, <2>1, <2>3, <2>5, RunScreen
<1>8. CASE Approved
  <2>1. calls # <<>> /\ Run(Head(calls), <<>>)
    BY <1>8 DEF Approved, CallsOK, NeedsCall, TypesOK
  <2>2. <<>> \in Seq(Other)
    BY EmptySeq
  <2> QED
    BY <1>0, <2>1, <2>2, RunScreen
<1>9. ASSUME NEW c \in ToSet(calls), AskApproval(c)
      PROVE  Screen'
  <2>1. c = Head(calls) /\ c \in Call
    BY <1>9, CurrentIsCall DEF AskApproval, Allowed, TypesOK
  <2>2. Event("ToolCallStarted", c) \in Line /\ Event("ApprovalNeeded", c) \in Line /\ events \in Seq(Line)
    BY <2>1, LineFacts DEF TypesOK, LinesOK
  <2>3. TwoLines(events, Event("ToolCallStarted", c), Event("ApprovalNeeded", c))
        /\ events \o <<Event("ToolCallStarted", c)>> \in Seq(Line)
    BY <2>2, LinesApart
  <2>4. events' = (events \o <<Event("ToolCallStarted", c)>>) \o <<Event("ApprovalNeeded", c)>>
    BY <1>9, <2>3 DEF AskApproval, Emit, TwoLines
  <2>5. LastShown' = Event("ApprovalNeeded", c)
    BY <2>2, <2>3, <2>4, LastPrinted
  <2>6. calls' = calls /\ pc' = "approve"
    BY <1>9 DEF AskApproval
  <2>7. ApprovalAsked'
    BY <2>1, <2>5, <2>6 DEF ApprovalAsked
  <2> QED
    BY <1>0, <2>6, <2>7, AsksOne
<1>10. CASE LoopHead
  <2>1. CASE abort
    <3>1. pc' \notin Late
      BY <1>10, <2>1 DEF LoopHead, Continue, Late, NeedsCall
    <3> QED
      BY <1>0, <3>1, Elsewhere
  <2>2. CASE ~abort
    <3>1. UNCHANGED <<events, calls, inbox>> /\ pc \in {"approve", "ask"} /\ pc' = IF pc = "approve" THEN "approving" ELSE "asking"
      BY <1>10, <2>2 DEF LoopHead
    <3>2. (ApprovalAsked => ApprovalAsked') /\ (QuestionAsked => QuestionAsked')
      BY <1>0, <3>1, AskedStays
    <3> QED
      BY <1>0, <3>1, <3>2 DEF Screen, EndsClear, EndsSeen, WaitsAreSeen, Waiting, Asking
  <2> QED
    BY <2>1, <2>2
<1>11. CASE ApprovalGoesOn
  <2>1. /\ UNCHANGED <<events, calls>> /\ pc = "approving" /\ pc' = "approve"
        /\ inbox # <<>> /\ inbox' = Tail(inbox) /\ Head(inbox).type \notin ApprovalEnds
    BY <1>11 DEF ApprovalGoesOn, Receives, ApprovalEnds
  <2>2. Ends(ApprovalEnds) => Ends(ApprovalEnds)'
    BY <1>0, <2>1, EndsTaken DEF TypesOK
  <2>3. LastShown' = LastShown /\ Head(calls') = Head(calls)
    BY <1>0, <2>1 DEF LastShown
  <2>4. ApprovalAsked => ApprovalAsked'
    BY <2>2, <2>3 DEF ApprovalAsked
  <2> QED
    BY <1>0, <2>1, <2>4 DEF Screen, EndsClear, EndsSeen, WaitsAreSeen, Waiting, Asking
<1>12. CASE QuestionGoesOn
  <2>1. /\ UNCHANGED <<events, calls>> /\ pc = "asking" /\ pc' = "ask"
        /\ inbox # <<>> /\ inbox' = Tail(inbox) /\ Head(inbox).type \notin QuestionEnds
    BY <1>12 DEF QuestionGoesOn, Receives, QuestionEnds
  <2>2. Ends(QuestionEnds) => Ends(QuestionEnds)'
    BY <1>0, <2>1, EndsTaken DEF TypesOK
  <2>3. LastShown' = LastShown /\ Head(calls') = Head(calls)
    BY <1>0, <2>1 DEF LastShown
  <2>4. QuestionAsked => QuestionAsked'
    BY <2>2, <2>3 DEF QuestionAsked
  <2> QED
    BY <1>0, <2>1, <2>4 DEF Screen, EndsClear, EndsSeen, WaitsAreSeen, Waiting, Asking
<1> QED
  BY <1>1, <1>2, <1>3, <1>4, <1>5, <1>6, <1>7, <1>8, <1>9, <1>10, <1>11, <1>12 DEF AgentStep, AgentNext, Wait

\* The main loop passes on what ends a wait; news for an ended agent are no question.
LEMMA RouteScreen == ASSUME TypesOK, Screen, Route PROVE Screen'
<1>1. UNCHANGED <<status, prompt, pc, calls>> /\ stdin # <<>> /\ stdin' = Tail(stdin)
  BY DEF Route, turnVars, frontendVars
<1>2. CASE pc = "finished"
  <2>1. events' = events \o <<TaskFinished(FALSE)>> \/ events' = events
    BY <1>2, ConcatEmptySeq DEF Route, Emit, TypesOK, LinesOK
  <2>2. CASE events' = events \o <<TaskFinished(FALSE)>>
    <3>1. EndIsComing'
      BY <2>2, EndPrinted DEF TypesOK, LinesOK
    <3> QED
      BY <1>1, <1>2, <3>1, Ended
  <2>3. CASE events' = events
    BY <1>1, <1>2, <2>3 DEF Screen, EndsClear, EndsSeen, WaitsAreSeen, Waiting, Asking, EndIsComing, NothingAsked
  <2> QED
    BY <2>1, <2>2, <2>3
<1>3. CASE pc # "finished"
  <2>1. events' = events /\ inbox' = Append(inbox, Head(stdin))
    BY <1>3 DEF Route
  <2>2. (Ends(ApprovalEnds) => Ends(ApprovalEnds)') /\ (Ends(QuestionEnds) => Ends(QuestionEnds)')
    BY <1>1, <2>1, EndsRouted DEF TypesOK
  <2>3. LastShown' = LastShown /\ Head(calls') = Head(calls)
    BY <1>1, <2>1 DEF LastShown
  <2>4. (ApprovalAsked => ApprovalAsked') /\ (QuestionAsked => QuestionAsked')
    BY <2>2, <2>3 DEF ApprovalAsked, QuestionAsked
  <2> QED
    BY <1>1, <2>1, <2>4 DEF Screen, EndsClear, EndsSeen, WaitsAreSeen, Waiting, Asking, EndIsComing, NothingAsked
<1> QED
  BY <1>2, <1>3

-----------------------------------------------------------------------------
\* What handling a line may be.
LEMMA Handles ==
  ASSUME FrontendStep, status # "Closed"
  PROVE  \/ Shows(Head(events)) \/ ShowsActivity(Head(events))
         \/ Withdraws(Head(events)) \/ ShowsEnd(Head(events))
BY DEF FrontendStep, HandleEvent

\* An agent that has ended, as far as the frontend knows, has no prompt.
LEMMA ClearStays == ASSUME EndsClear, FrontendStep PROVE EndsClear'
<1>1. CASE status = "Closed"
  <2>1. UNCHANGED <<status, prompt>>
    BY <1>1 DEF FrontendStep, HandleEvent
  <2> QED
    BY <2>1 DEF EndsClear
<1>2. CASE status # "Closed"
  <2>1. CASE Shows(Head(events)) \/ ShowsActivity(Head(events))
    BY <2>1 DEF Shows, ShowsActivity, EndsClear, Final
  <2>2. CASE Withdraws(Head(events)) \/ ShowsEnd(Head(events))
    BY <2>2 DEF Withdraws, ShowsEnd, EndsClear
  <2> QED
    BY <1>2, <2>1, <2>2, Handles
<1> QED
  BY <1>1, <1>2

\* Without its first line a queue ends as before, or is empty.
EndsAlike(q, t) == t # <<>> /\ t[Len(t)] = q[Len(q)]

\* Its last line is the one that was last.
LEMMA TailEnds ==
  ASSUME NEW S, NEW q \in Seq(S), q # <<>>
  PROVE  EndsAlike(q, Tail(q)) \/ (Tail(q) = <<>> /\ Head(q) = q[Len(q)])
<1> DEFINE n == Len(q)
           t == Tail(q)
<1>1. n \in Nat /\ n # 0 /\ Head(q) = q[1]
  BY LenProperties, EmptySeq
<1>2. t \in Seq(S) /\ Len(t) = n - 1 /\ \A i \in 1 .. Len(t) : t[i] = q[i + 1]
  BY HeadTailProperties
<1>3. Len(t) = 0 => t = <<>>
  BY <1>2, EmptySeq
<1>4. t = <<>> => Len(t) = 0
  <2> HIDE DEF t
  <2> QED
    OBVIOUS
<1> HIDE DEF n, t
<1>5. CASE n = 1
  BY <1>1, <1>2, <1>3, <1>5 DEF n, t
<1>6. CASE n # 1
  <2>1. Len(t) \in 1 .. Len(t) /\ Len(t) + 1 = n /\ t # <<>>
    BY <1>1, <1>2, <1>4, <1>6
  <2>2. t[Len(t)] = q[n]
    BY <1>2, <2>1
  <2> QED
    BY <2>1, <2>2 DEF EndsAlike, n, t
<1> QED
  BY <1>5, <1>6

\* The last line stays the last, until it is the one shown.
LEMMA ShownLast ==
  ASSUME LinesOK, FrontendStep
  PROVE  \/ LastShown' = LastShown
         \/ status # "Closed" /\ LastShown = Head(events) /\ ~IsQuestion(Head(events))
         \/ status = "Closed"
<1>1. events # <<>> /\ events' = Tail(events)
  BY DEF FrontendStep, HandleEvent
<1>2. EndsAlike(events, Tail(events)) \/ (Tail(events) = <<>> /\ Head(events) = events[Len(events)])
  BY <1>1, TailEnds DEF LinesOK
<1>3. CASE EndsAlike(events, Tail(events))
  BY <1>1, <1>3 DEF LastShown, EndsAlike
<1>4. CASE Tail(events) = <<>> /\ Head(events) = events[Len(events)]
  <2>1. LastShown = Head(events) /\ LastShown' = prompt'
    BY <1>1, <1>4 DEF LastShown
  <2>2. IsQuestion(Head(events)) /\ status # "Closed" => prompt' = Head(events)
    BY Handles DEF IsQuestion, Shows, ShowsActivity, Withdraws, ShowsEnd
  <2> QED
    BY <2>1, <2>2
<1> QED
  BY <1>2, <1>3, <1>4

\* A closed tab stays closed.
LEMMA ClosedStays == ASSUME FrontendStep \/ UserStep, status = "Closed" PROVE status' = "Closed"
BY DEF FrontendStep, HandleEvent, UserStep, UserNext, Decide, Submit, SwitchMode, Stop, CloseTab, Clear, NotWaiting

\* A question that is handled is shown; one behind it is still to come.
LEMMA FrontendWaits == ASSUME TypesOK, WaitsAreSeen, FrontendStep PROVE WaitsAreSeen'
<1>1. UNCHANGED <<stdin, inbox, pc, calls>>
  BY DEF FrontendStep, HandleEvent, turnVars
<1>2. CASE status = "Closed"
  BY <1>2, ClosedStays DEF WaitsAreSeen
<1>3. CASE status # "Closed"
  <2>1. /\ Ends(ApprovalEnds)' = Ends(ApprovalEnds) /\ Ends(QuestionEnds)' = Ends(QuestionEnds)
        /\ Head(calls') = Head(calls)
    BY <1>1 DEF Ends, Says
  <2>2. LastShown' = LastShown \/ (LastShown = Head(events) /\ ~IsQuestion(Head(events)))
    BY <1>3, ShownLast DEF TypesOK
  <2>3. \A c : IsQuestion(Event("ApprovalNeeded", c)) /\ IsQuestion(Event("FollowupQuestion", c))
    BY DEF IsQuestion, Event
  <2>4. (ApprovalAsked => ApprovalAsked') /\ (QuestionAsked => QuestionAsked')
    BY <2>1, <2>2, <2>3 DEF ApprovalAsked, QuestionAsked
  <2> QED
    BY <1>1, <1>3, <2>4 DEF WaitsAreSeen, Waiting, Asking
<1> QED
  BY <1>2, <1>3

\* The end, when handled, takes the prompt away.
LEMMA FrontendEnds == ASSUME TypesOK, EndsClear, EndsSeen, FrontendStep PROVE EndsSeen'
<1>1. pc' = pc
  BY DEF FrontendStep, turnVars
<1> SUFFICES ASSUME pc \in {"gate", "finished"} PROVE EndIsComing' \/ NothingAsked'
  BY <1>1 DEF EndsSeen
<1>2. events # <<>> /\ events' = Tail(events)
  BY DEF FrontendStep, HandleEvent
<1>3. /\ Head(events) = events[1] /\ 1 \in DOMAIN events
      /\ \A k \in DOMAIN events' : k + 1 \in DOMAIN events /\ events'[k] = events[k + 1] /\ k \in Nat /\ k > 0
  BY <1>2, TailEvents DEF TypesOK
<1>4. DOMAIN events = 1 .. Len(events) /\ Len(events) \in Nat /\ DOMAIN events' = 1 .. Len(events) - 1
  <2>1. Tail(events) \in Seq(Line) /\ Len(Tail(events)) = Len(events) - 1
    BY <1>2, HeadTailProperties DEF TypesOK, LinesOK
  <2> QED
    BY <1>2, <2>1, LenProperties DEF TypesOK, LinesOK
<1>5. ASSUME NEW j \in DOMAIN events, events[j].type = "TaskFinished",
             \A k \in DOMAIN events : k > j => ~IsQuestion(events[k])
      PROVE  EndIsComing' \/ NothingAsked'
  <2>1. CASE j = 1
    <3>1. prompt' = NoPrompt
      <4>1. CASE status = "Closed"
        BY <4>1 DEF FrontendStep, HandleEvent, EndsClear
      <4>2. CASE status # "Closed"
        <5>1. ShowsEnd(Head(events))
          BY <1>3, <1>5, <2>1, <4>2, Handles DEF Shows, ShowsActivity, Withdraws
        <5> QED
          BY <5>1 DEF ShowsEnd, EndsClear
      <4> QED
        BY <4>1, <4>2
    <3>2. \A k \in DOMAIN events' : ~IsQuestion(events'[k])
      <4> SUFFICES ASSUME NEW k \in DOMAIN events' PROVE ~IsQuestion(events'[k])
        OBVIOUS
      <4>1. k + 1 \in DOMAIN events /\ k + 1 > 1 /\ events'[k] = events[k + 1]
        BY <1>3
      <4> QED
        BY <1>5, <2>1, <4>1
    <3> QED
      BY <3>1, <3>2 DEF NothingAsked, IsQuestion
  <2>2. CASE j # 1
    <3>1. j - 1 \in DOMAIN events' /\ (j - 1) + 1 = j
      BY <1>4, <2>2
    <3>2. events'[j - 1] = events[j]
      <4>1. events'[j - 1] = events[(j - 1) + 1]
        BY <1>3, <3>1
      <4> QED
        BY <3>1, <4>1
    <3>3. ASSUME NEW k \in DOMAIN events', k > j - 1
          PROVE  ~IsQuestion(events'[k])
      <4>1. k + 1 \in DOMAIN events /\ k + 1 > j /\ events'[k] = events[k + 1]
        BY <1>3, <1>4, <3>3
      <4> QED
        BY <1>5, <4>1
    <3> QED
      BY <1>5, <3>1, <3>2, <3>3 DEF EndIsComing, IsQuestion
  <2> QED
    BY <2>1, <2>2
<1>6. CASE NothingAsked
  <2>1. ~IsQuestion(Head(events))
    BY <1>3, <1>6 DEF NothingAsked
  <2>2. prompt' = NoPrompt
    BY <1>6, <2>1, Handles DEF NothingAsked, FrontendStep, HandleEvent, IsQuestion, Shows, ShowsActivity, Withdraws, ShowsEnd
  <2> QED
    BY <1>3, <1>6, <2>2 DEF NothingAsked, IsQuestion
<1> QED
  BY <1>5, <1>6 DEF EndsSeen, EndIsComing

-----------------------------------------------------------------------------
\* The user sends one message or none.
LEMMA UserSends ==
  ASSUME TypesOK, UserStep
  PROVE  \/ UNCHANGED stdin
         \/ \E m \in Message : stdin' = Append(stdin, m)
<1>1. SendsMessage \/ UNCHANGED stdin
  BY Sendable DEF UserStep, UserNext, Decide, Submit, SwitchMode, Stop, CloseTab, SendsMessage, CanSend, TypesOK
<1> QED
  BY <1>1 DEF SendsMessage, Send

\* What can end a wait stays whatever the user does.
LEMMA UserEndsStay == ASSUME TypesOK, UserStep, NEW types, Ends(types) PROVE Ends(types)'
<1>1. inbox' = inbox
  BY DEF UserStep
<1>2. CASE UNCHANGED stdin
  BY <1>1, <1>2 DEF Ends, Says
<1>3. ASSUME NEW m \in Message, stdin' = Append(stdin, m)
      PROVE  Ends(types)'
  BY <1>1, <1>3, EndsSent DEF TypesOK
<1> QED
  BY <1>2, <1>3, UserSends

\* The prompt goes only with an answer to it, or with the tab.
LEMMA PromptAnswered ==
  ASSUME TypesOK, UserStep
  PROVE  \/ prompt' = prompt
         \/ status' = "Closed"
         \/ prompt.type = "ApprovalNeeded" /\ Ends(ApprovalEnds)' /\ Ends(QuestionEnds)'
         \/ prompt.type = "FollowupQuestion" /\ Ends(QuestionEnds)'
<1>1. inbox' = inbox
  BY DEF UserStep
<1>2. ASSUME NEW yes \in BOOLEAN, Decide(yes)
      PROVE  prompt.type = "ApprovalNeeded" /\ Ends(ApprovalEnds)' /\ Ends(QuestionEnds)'
  <2>1. ApprovalResponse(yes) \in Message /\ stdin' = Append(stdin, ApprovalResponse(yes))
    BY <1>2, Sendable DEF Decide, Send, TypesOK
  <2>2. ApprovalResponse(yes).type \in ApprovalEnds /\ ApprovalResponse(yes).type \in QuestionEnds
    BY DEF ApprovalResponse, ApprovalEnds, QuestionEnds
  <2> QED
    BY <1>1, <1>2, <2>1, <2>2, EndsSent DEF Decide, TypesOK
<1>3. CASE Submit
  <2>1. CASE prompt.type = "FollowupQuestion" /\ Send(FollowupAnswer(sent'))
    <3>1. FollowupAnswer(sent + 1) \in Message /\ stdin' = Append(stdin, FollowupAnswer(sent + 1))
      BY <1>3, <2>1, Sendable DEF Submit, CanSend, Send, TypesOK
    <3>2. FollowupAnswer(sent + 1).type \in QuestionEnds
      BY DEF FollowupAnswer, QuestionEnds
    <3> QED
      BY <1>1, <2>1, <3>1, <3>2, EndsSent DEF TypesOK
  <2>2. CASE prompt' = prompt
    BY <2>2
  <2> QED
    BY <1>3, <2>1, <2>2 DEF Submit
<1>4. CASE (\E k \in {"plan", "act"} : SwitchMode(k)) \/ Stop \/ CloseTab
  BY <1>4 DEF SwitchMode, Stop, CloseTab
<1> QED
  BY <1>2, <1>3, <1>4 DEF UserStep, UserNext

\* The user takes the prompt of a wait away only with what ends the wait.
LEMMA UserScreen == ASSUME TypesOK, Screen, UserStep PROVE Screen'
<1>1. UNCHANGED <<events, pc, calls>>
  BY UserPrompts DEF UserStep, turnVars
<1>2. EndsClear'
  BY DEF UserStep, UserNext, Decide, Submit, SwitchMode, Stop, CloseTab, Clear, Screen, EndsClear, CanSend
<1>3. EndsSeen'
  <2>1. prompt' = prompt \/ prompt' = NoPrompt
    BY UserPrompts
  <2> QED
    BY <1>1, <2>1 DEF Screen, EndsSeen, EndIsComing, NothingAsked, IsQuestion
<1>4. CASE status' = "Closed"
  BY <1>2, <1>3, <1>4 DEF Screen, WaitsAreSeen
<1>5. CASE status' # "Closed"
  <2>1. status # "Closed"
    BY <1>5, ClosedStays
  <2>2. events # <<>> => LastShown' = LastShown
    BY <1>1 DEF LastShown
  <2>3. events = <<>> => LastShown' = prompt' /\ LastShown = prompt
    BY <1>1 DEF LastShown
  <2>4. ApprovalAsked => ApprovalAsked'
    <3>1. CASE Ends(ApprovalEnds)
      BY <3>1, UserEndsStay DEF ApprovalAsked
    <3>2. CASE LastShown = Event("ApprovalNeeded", Head(calls))
      <4>1. LastShown.type = "ApprovalNeeded"
        BY <3>2 DEF Event
      <4> QED
        BY <1>1, <1>5, <2>2, <2>3, <3>2, <4>1, PromptAnswered DEF ApprovalAsked
    <3> QED
      BY <3>1, <3>2 DEF ApprovalAsked
  <2>5. QuestionAsked => QuestionAsked'
    <3>1. CASE Ends(QuestionEnds)
      BY <3>1, UserEndsStay DEF QuestionAsked
    <3>2. CASE LastShown = Event("FollowupQuestion", Head(calls))
      <4>1. LastShown.type = "FollowupQuestion"
        BY <3>2 DEF Event
      <4> QED
        BY <1>1, <1>5, <2>2, <2>3, <3>2, <4>1, PromptAnswered DEF QuestionAsked
    <3> QED
      BY <3>1, <3>2 DEF QuestionAsked
  <2>6. WaitsAreSeen'
    BY <1>1, <2>1, <2>4, <2>5 DEF Screen, WaitsAreSeen, Waiting, Asking
  <2> QED
    BY <1>2, <1>3, <2>6 DEF Screen
<1> QED
  BY <1>4, <1>5

\* Every step keeps the screen true.
LEMMA ScreenNext == TypesOK /\ Screen /\ [SessionNext]_sessionVars => Screen'
<1> SUFFICES ASSUME TypesOK, Screen, [SessionNext]_sessionVars PROVE Screen'
  OBVIOUS
<1>1. CASE RaiseAbort \/ UNCHANGED sessionVars
  <2>1. UNCHANGED <<stdin, inbox, events, pc, calls, status, prompt>>
    BY <1>1 DEF RaiseAbort, sessionVars, channelVars, turnVars, frontendVars
  <2>2. EndsClear' /\ EndsSeen'
    BY <2>1 DEF Screen, EndsClear, EndsSeen, EndIsComing, NothingAsked
  <2>3. WaitsAreSeen'
    BY <2>1, AskedStays DEF Screen, WaitsAreSeen, Waiting, Asking
  <2> QED
    BY <2>2, <2>3 DEF Screen
<1>2. CASE FrontendStep
  BY <1>2, ClearStays, FrontendWaits, FrontendEnds DEF Screen
<1> QED
  BY <1>1, <1>2, AgentScreen, RouteScreen, UserScreen DEF SessionNext

\* What was shown last is in the pipe or on the screen.
LEMMA LastIsShown == ASSUME LinesOK PROVE LastShown \in ToSet(events) \cup {prompt}
<1>1. CASE events = <<>>
  BY <1>1 DEF LastShown
<1>2. CASE events # <<>>
  <2>1. Len(events) \in DOMAIN events
    <3>1. DOMAIN events = 1 .. Len(events) /\ Len(events) \in Nat \ {0}
      BY <1>2, LenProperties, EmptySeq DEF LinesOK
    <3> QED
      BY <3>1
  <2> QED
    BY <1>2, <2>1 DEF LastShown, ToSet
<1> QED
  BY <1>1, <1>2

\* It is what the property says.
LEMMA ScreenImplies == ASSUME TypesOK, Screen PROVE PromptsHonest
<1>1. LastShown \in ToSet(events) \cup {prompt}
  BY LastIsShown DEF TypesOK
<1>2. status # "Closed" /\ pc = "approving" => ApprovalAsked
  BY DEF Screen, WaitsAreSeen, Waiting
<1>3. status # "Closed" /\ pc = "asking" => QuestionAsked
  BY DEF Screen, WaitsAreSeen, Asking
<1>4. Finished /\ events = <<>> => prompt = NoPrompt
  <2> SUFFICES ASSUME Finished, events = <<>> PROVE prompt = NoPrompt
    OBVIOUS
  <2>1. DOMAIN events = {}
    OBVIOUS
  <2> QED
    BY <2>1 DEF Finished, Screen, EndsSeen, EndIsComing, NothingAsked
<1> QED
  BY <1>1, <1>2, <1>3, <1>4 DEF PromptsHonest, ApprovalAsked, QuestionAsked, ApprovalEnds, QuestionEnds

\* An agent never waits for an answer that nobody is asked for, and when it has ended no question stays: the frontend's prompt and the agent's wait change in different processes, with a pipe and two queues between them.
THEOREM HonestInvariance == SessionSpec => []PromptsHonest
<1>1. SessionSpec => []TypesOK
  BY TypesInit, TypesNext, PTL DEF SessionSpec
<1>2. SessionSpec => []Screen
  BY <1>1, ScreenInit, ScreenNext, PTL DEF SessionSpec
<1>3. TypesOK /\ Screen => PromptsHonest
  BY ScreenImplies
<1> QED
  BY <1>1, <1>2, <1>3, PTL
=============================================================================
