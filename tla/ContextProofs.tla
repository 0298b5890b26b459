---------------------------- MODULE ContextProofs ----------------------------
(***************************************************************************)
(* Theorems about what an agent works from: the requests made of its       *)
(* trajectory (Context), its observer (Observer) and the file it edits     *)
(* beside others (EditFile).                                               *)
(***************************************************************************)
EXTENDS Context, Observer, EditFile, FiniteSetTheorems, SequenceTheorems,
        WellFoundedInduction, TLAPS

-----------------------------------------------------------------------------
(* Least elements, and the sequences that the models build.                *)

\* The library says it of well-founded relations: a set of naturals has a least element.
LEMMA LeastNatural ==
  ASSUME NEW S \in SUBSET Nat, S # {}
  PROVE  \E n \in S : \A m \in S : n <= m
<1>1. \E n \in S : \A m \in S : ~(<<m, n>> \in OpToRel(<, Nat))
  BY NatLessThanWellFounded, WFMin
<1>2. PICK n \in S : \A m \in S : ~(<<m, n>> \in OpToRel(<, Nat))
  BY <1>1
<1>3. ASSUME NEW m \in S
      PROVE  n <= m
  <2>1. ~(m < n)
    BY <1>2 DEF OpToRel
  <2> QED
    BY <2>1
<1> QED
  BY <1>3

\* What Min returns.
LEMMA MinIsLeast ==
  ASSUME NEW S \in SUBSET Nat, S # {}
  PROVE  Min(S) \in S /\ \A m \in S : Min(S) <= m
BY LeastNatural DEF Min

\* The elements of two sequences put together.
LEMMA ConcatElements ==
  ASSUME NEW S, NEW s \in Seq(S), NEW t \in Seq(S), NEW i \in DOMAIN (s \o t)
  PROVE  \/ i \in DOMAIN s /\ (s \o t)[i] = s[i]
         \/ i - Len(s) \in DOMAIN t /\ (s \o t)[i] = t[i - Len(s)]
<1>1. /\ s \o t \in Seq(S) /\ Len(s \o t) = Len(s) + Len(t)
      /\ \A j \in 1 .. Len(s) + Len(t) :
           (s \o t)[j] = IF j <= Len(s) THEN s[j] ELSE t[j - Len(s)]
  BY ConcatProperties
<1>2. /\ DOMAIN s = 1 .. Len(s) /\ DOMAIN t = 1 .. Len(t) /\ Len(s) \in Nat /\ Len(t) \in Nat
      /\ DOMAIN (s \o t) = 1 .. Len(s) + Len(t)
  BY <1>1, LenProperties
<1> QED
  BY <1>1, <1>2

-----------------------------------------------------------------------------
(* Requests.                                                               *)

Shows == {None, "excerpt", "stale", "full", "preview", "unchanged"}
Msg == [role : {"user", "assistant", "tool"}, tok : Nat, text : UserText \cup {None},
        word : Nat, calls : Nat, file : File \cup {None}, about : File \cup {None},
        shows : Shows, ver : Nat]

\* The messages of a trajectory; the first is the task, or the continuation.
Trajectory(ms) ==
  /\ ms \in Seq(Msg) /\ Len(ms) >= 1
  /\ ms[1].role = "user" /\ ms[1].file = None /\ ms[1].shows = None

ContextTypeOK ==
  /\ Trajectory(msgs)
  /\ edited \subseteq File /\ required \subseteq File /\ observed \in Nat
  /\ current \in [File -> Nat] /\ mine \in [File -> Nat]
  /\ \A f \in File : mine[f] <= current[f]
  /\ spoken \in Seq(Texts)

\* Messages of the engine, of the model and of the user.
LEMMA MessageKinds ==
  ASSUME ContextAssumption, NEW tokens \in Nat
  PROVE  /\ Note(tokens) \in Msg /\ Note(tokens).role = "user"
         /\ Note(tokens).file = None /\ Note(tokens).shows = None
         /\ Continuation(tokens) \in Msg /\ Continuation(tokens).role = "user"
         /\ Continuation(tokens).file = None /\ Continuation(tokens).shows = None
         /\ \A text \in Texts, word \in Nat :
              /\ Said(text, word, tokens) \in Msg /\ Said(text, word, tokens).role = "user"
              /\ Said(text, word, tokens).file = None /\ Said(text, word, tokens).shows = None
         /\ \A n \in {0, 1} : Assistant(tokens, n) \in Msg /\ Assistant(tokens, n).shows = None
         /\ Message("tool", tokens) \in Msg /\ Message("tool", tokens).shows = None
<1> USE DEF ContextAssumption, Msg, Shows, Message, UserText, Class
<1>1. /\ Note(tokens) \in Msg /\ Note(tokens).role = "user"
      /\ Note(tokens).file = None /\ Note(tokens).shows = None
  BY DEF Note
<1>2. /\ Continuation(tokens) \in Msg /\ Continuation(tokens).role = "user"
      /\ Continuation(tokens).file = None /\ Continuation(tokens).shows = None
  BY DEF Continuation
<1>3. ASSUME NEW text \in Texts, NEW word \in Nat
      PROVE  /\ Said(text, word, tokens) \in Msg /\ Said(text, word, tokens).role = "user"
             /\ Said(text, word, tokens).file = None /\ Said(text, word, tokens).shows = None
  BY DEF Said
<1>4. \A n \in {0, 1} : Assistant(tokens, n) \in Msg /\ Assistant(tokens, n).shows = None
  BY DEF Assistant
<1>5. Message("tool", tokens) \in Msg /\ Message("tool", tokens).shows = None
  OBVIOUS
<1> QED
  BY <1>1, <1>2, <1>3, <1>4, <1>5

\* The answer to a read, of any of the forms and details.
LEMMA AnswerKind ==
  ASSUME ContextAssumption, ContextTypeOK, NEW f \in File, NEW form, NEW tokens \in Nat,
         NEW shows \in Shows
  PROVE  LET m == ReadAnswer(f, form, shows, tokens)
         IN  m \in Msg /\ m.about = f /\ m.shows = shows /\ m.ver = current[f]
             /\ (form = "fields" => m.file = f)
BY DEF ContextAssumption, ContextTypeOK, Msg, Shows, Message, ReadAnswer

\* The first message of the user is the first of the trajectory.
LEMMA FirstIsOne ==
  ASSUME NEW ms, Trajectory(ms)
  PROVE  FirstUser(ms) = 1 /\ 1 \in DOMAIN ms
<1>1. DOMAIN ms = 1 .. Len(ms) /\ Len(ms) \in Nat /\ 1 \in DOMAIN ms
  BY LenProperties DEF Trajectory
<1>2. 1 \in Indices(ms, "user") /\ Indices(ms, "user") \in SUBSET Nat
      /\ \A i \in Indices(ms, "user") : i >= 1
  BY <1>1 DEF Indices, Trajectory
<1> DEFINE least == Min(Indices(ms, "user"))
<1>3. least \in Indices(ms, "user") /\ least <= 1
  BY <1>2, MinIsLeast
<1>4. least \in Nat /\ least >= 1
  BY <1>2, <1>3
<1> HIDE DEF least
<1>5. least = 1
  BY <1>3, <1>4
<1> QED
  BY <1>1, <1>5 DEF FirstUser, least

\* The task is chosen, whatever else has room.
LEMMA TaskIsChosen ==
  ASSUME NEW ms, Trajectory(ms)
  PROVE  1 \in Chosen(ms)
<1>1. FirstUser(ms) = 1
  BY FirstIsOne
<1>2. \A filled, order : 1 \in MakeRoom(ms, filled \cup {1}, order, 1)
  BY DEF MakeRoom
<1> QED
  BY <1>1, <1>2 DEF Chosen

\* The view of a trajectory is made of its messages and begins with its first.
LEMMA ViewElements ==
  ASSUME NEW ms, Trajectory(ms), NEW from \in Nat, NEW block \in BOOLEAN
  PROVE  /\ Trajectory(ViewOf(ms, from, block))
         /\ ViewOf(ms, from, block)[1] = ms[1]
         /\ \A i \in DOMAIN ViewOf(ms, from, block) :
              \E j \in DOMAIN ms : ViewOf(ms, from, block)[i] = ms[j]
<1>1. ms \in Seq(Msg) /\ DOMAIN ms = 1 .. Len(ms) /\ Len(ms) \in Nat /\ Len(ms) >= 1
  BY LenProperties DEF Trajectory
<1>2. CASE block /\ from > 2 /\ from < Len(ms)
  <2> DEFINE a == SubSeq(ms, 1, 2)
             b == SubSeq(ms, from + 1, Len(ms))
  <2>1. a \in Seq(Msg) /\ Len(a) = 2 /\ \A i \in 1 .. 2 : a[i] = ms[i]
    <3>1. \A i \in 1 .. 2 : ms[i] \in Msg
      BY <1>1, <1>2
    <3>2. /\ a \in Seq(Msg)
          /\ Len(a) = IF 1 <= 2 THEN 2 - 1 + 1 ELSE 0
          /\ \A i \in 1 .. 2 - 1 + 1 : a[i] = ms[1 + i - 1]
      BY <3>1, SubSeqProperties
    <3> QED
      BY <3>2
  <2>2. b \in Seq(Msg) /\ Len(b) = Len(ms) - from /\ \A i \in 1 .. Len(ms) - from : b[i] = ms[from + i]
    <3>1. from + 1 \in Int /\ Len(ms) \in Int /\ \A i \in from + 1 .. Len(ms) : ms[i] \in Msg
      BY <1>1
    <3>2. /\ b \in Seq(Msg)
          /\ Len(b) = IF from + 1 <= Len(ms) THEN Len(ms) - (from + 1) + 1 ELSE 0
          /\ \A i \in 1 .. Len(ms) - (from + 1) + 1 : b[i] = ms[(from + 1) + i - 1]
      BY <3>1, SubSeqProperties
    <3> HIDE DEF b
    <3>3. Len(b) = Len(ms) - from
      BY <1>1, <1>2, <3>2
    <3>4. ASSUME NEW i \in 1 .. Len(ms) - from
          PROVE  b[i] = ms[from + i]
      <4>1. i \in 1 .. Len(ms) - (from + 1) + 1 /\ (from + 1) + i - 1 = from + i
        BY <1>1, <1>2
      <4> QED
        BY <3>2, <4>1
    <3> QED
      BY <3>2, <3>3, <3>4
  <2>3. ViewOf(ms, from, block) = a \o b
    BY <1>2 DEF ViewOf
  <2> HIDE DEF a, b
  <2>4. DOMAIN a = 1 .. 2 /\ DOMAIN b = 1 .. Len(ms) - from
    BY <2>1, <2>2, LenProperties
  <2>5. /\ a \o b \in Seq(Msg) /\ Len(a \o b) = Len(a) + Len(b)
        /\ (a \o b)[1] = a[1]
    <3>1. 1 \in 1 .. Len(a) + Len(b) /\ 1 <= Len(a)
      BY <1>1, <1>2, <2>1, <2>2
    <3>2. a \in Seq(Msg) /\ b \in Seq(Msg)
      BY <2>1, <2>2
    <3>3. /\ a \o b \in Seq(Msg) /\ Len(a \o b) = Len(a) + Len(b)
          /\ \A i \in 1 .. Len(a) + Len(b) : (a \o b)[i] = IF i <= Len(a) THEN a[i] ELSE b[i - Len(a)]
      BY <3>2, ConcatProperties
    <3> QED
      BY <3>1, <3>3
  <2>6. ASSUME NEW i \in DOMAIN (a \o b)
        PROVE  \E j \in DOMAIN ms : (a \o b)[i] = ms[j]
    <3>1. CASE i \in DOMAIN a /\ (a \o b)[i] = a[i]
      <4>1. i \in DOMAIN ms /\ a[i] = ms[i]
        BY <1>1, <1>2, <2>1, <2>4, <3>1
      <4> QED
        BY <3>1, <4>1
    <3>2. CASE i - Len(a) \in DOMAIN b /\ (a \o b)[i] = b[i - Len(a)]
      <4>1. from + (i - Len(a)) \in DOMAIN ms /\ b[i - Len(a)] = ms[from + (i - Len(a))]
        BY <1>1, <1>2, <2>1, <2>2, <2>4, <3>2
      <4> QED
        BY <3>2, <4>1
    <3>3. a \in Seq(Msg) /\ b \in Seq(Msg)
      BY <2>1, <2>2
    <3>4. \/ i \in DOMAIN a /\ (a \o b)[i] = a[i]
          \/ i - Len(a) \in DOMAIN b /\ (a \o b)[i] = b[i - Len(a)]
      BY <2>6, <3>3, ConcatElements
    <3> QED
      BY <3>1, <3>2, <3>4
  <2>7. Len(a \o b) >= 1 /\ (a \o b)[1] = ms[1]
    BY <1>1, <1>2, <2>1, <2>2, <2>5
  <2> QED
    BY <2>3, <2>5, <2>6, <2>7 DEF Trajectory
<1>3. CASE ~(block /\ from > 2 /\ from < Len(ms))
  BY <1>3 DEF ViewOf
<1> QED
  BY <1>2, <1>3

\* A request that holds the task.
HoldsTask(req, ms) ==
  \E k \in DOMAIN req :
    \/ req[k] = ms[1]
    \/ req[k] = [ms[1] EXCEPT !.tok = req[k].tok, !.shows = "excerpt"]
\* Every request holds it.
LEMMA RequestShows ==
  ASSUME ContextAssumption, NEW ms, Trajectory(ms), edited \subseteq File, NEW from \in Nat,
         NEW looks \in BOOLEAN, NEW block \in BOOLEAN, RequestOf(ms, from, looks, block)
  PROVE  observed' \in Nat /\ HoldsTask(shown', ms)
<1> DEFINE at == IF looks THEN Len(ms) ELSE from
           view == ViewOf(ms, at, block)
<1>1. at \in Nat
  BY LenProperties DEF Trajectory
<1>2. observed' = at /\ shown' = Prompt(view)
  BY DEF RequestOf
<1> HIDE DEF at
<1>3. /\ Trajectory(view) /\ view[1] = ms[1]
      /\ \A i \in DOMAIN view : \E j \in DOMAIN ms : view[i] = ms[j]
  BY <1>1, ViewElements
<1> HIDE DEF view
<1>4. /\ DOMAIN shown' = {i \in DOMAIN view : i \in Chosen(view)}
      /\ \A i \in DOMAIN shown' : shown'[i] = Rendered(view, i)
  BY <1>2 DEF Prompt
<1>5. FirstUser(view) = 1 /\ 1 \in DOMAIN view /\ 1 \in Chosen(view)
  BY <1>3, FirstIsOne, TaskIsChosen
<1>6. view[1] \in Msg /\ \A i \in DOMAIN view : view[i] \in Msg
  BY <1>3, <1>5, LenProperties, ElementOfSeq DEF Trajectory
<1>7. \/ shown'[1] = view[1]
      \/ shown'[1] = [view[1] EXCEPT !.tok = shown'[1].tok, !.shows = "excerpt"]
  <2>1. shown'[1] = Rendered(view, 1)
    BY <1>4, <1>5
  <2>2. view[1].file \notin edited
    BY <1>3 DEF Trajectory, ContextAssumption
  <2>3. CASE Oversized(view)
    <3>1. shown'[1] = [view[1] EXCEPT !.tok = Min({Budget, 500}), !.shows = "excerpt"]
      BY <1>5, <2>1, <2>3 DEF Rendered
    <3>2. shown'[1].tok = Min({Budget, 500})
      BY <1>6, <3>1 DEF Msg
    <3> QED
      BY <3>1, <3>2
  <2>4. CASE ~Oversized(view)
    BY <2>1, <2>2, <2>4 DEF Rendered
  <2> QED
    BY <2>3, <2>4
<1>8. 1 \in DOMAIN shown'
  BY <1>4, <1>5
<1> QED
  BY <1>1, <1>2, <1>3, <1>7, <1>8 DEF HoldsTask

\* A trajectory grows at its end.
LEMMA TrajectoryGrows ==
  ASSUME NEW ms, Trajectory(ms), NEW t \in Seq(Msg)
  PROVE  /\ Trajectory(ms \o t) /\ (ms \o t)[1] = ms[1]
         /\ \A i \in DOMAIN (ms \o t) :
              (\E j \in DOMAIN ms : (ms \o t)[i] = ms[j]) \/ (\E j \in DOMAIN t : (ms \o t)[i] = t[j])
<1>1. ms \in Seq(Msg) /\ Len(ms) \in Nat /\ Len(ms) >= 1 /\ Len(t) \in Nat
  BY LenProperties DEF Trajectory
<1>2. /\ ms \o t \in Seq(Msg) /\ Len(ms \o t) = Len(ms) + Len(t)
      /\ \A i \in 1 .. Len(ms) + Len(t) : (ms \o t)[i] = IF i <= Len(ms) THEN ms[i] ELSE t[i - Len(ms)]
  BY <1>1, ConcatProperties
<1>3. (ms \o t)[1] = ms[1] /\ Len(ms \o t) >= 1
  BY <1>1, <1>2
<1>4. ASSUME NEW i \in DOMAIN (ms \o t)
      PROVE  (\E j \in DOMAIN ms : (ms \o t)[i] = ms[j]) \/ (\E j \in DOMAIN t : (ms \o t)[i] = t[j])
  BY <1>1, ConcatElements
<1> QED
  BY <1>2, <1>3, <1>4 DEF Trajectory

\* And starts anew, after a compaction, with a message of the engine.
LEMMA TrajectoryBegins ==
  ASSUME NEW m \in Msg, m.role = "user", m.file = None, m.shows = None
  PROVE  Trajectory(<<m>>)
BY DEF Trajectory

\* The required files are read back as they are now.
LEMMA ReloadedReads ==
  ASSUME ContextAssumption, ContextTypeOK, NEW tokens \in Nat
  PROVE  Reloaded(tokens) \in Seq(Msg)
<1> DEFINE wanted == SetToSeq(required)
           n == Cardinality(required)
           Piece(k) == IF k % 2 = 1 THEN Note(tokens)
                       ELSE ReadAnswer(wanted[k \div 2], "fields", "full", tokens)
<1>1. IsFiniteSet(required)
  BY FS_Subset DEF ContextAssumption, ContextTypeOK
<1>2. n \in Nat
  BY <1>1, FS_CardinalityType
<1>3. wanted \in [1 .. n -> required]
  <2>1. \E f \in [1 .. n -> required] : IsInjective(f)
    <3>1. ExistsBijection(1 .. n, required)
      BY <1>1, FS_CardinalityType
    <3> QED
      BY <3>1 DEF ExistsBijection, Bijection, Injection
  <2> QED
    BY <2>1 DEF SetToSeq
<1> HIDE DEF wanted, n
<1>4. ASSUME NEW k \in 1 .. (2 * n)
      PROVE  Piece(k) \in Msg
  <2>1. CASE k % 2 = 1
    <3>1. Piece(k) = Note(tokens)
      BY <2>1
    <3>2. Note(tokens) \in Msg
      BY MessageKinds
    <3> QED
      BY <3>1, <3>2
  <2>2. CASE k % 2 # 1
    <3>1. k \div 2 \in 1 .. n
      BY <1>2, <2>2
    <3>2. wanted[k \div 2] \in File
      BY <1>3, <3>1 DEF ContextTypeOK
    <3>3. Piece(k) = ReadAnswer(wanted[k \div 2], "fields", "full", tokens)
      BY <2>2
    <3>4. "full" \in Shows
      BY DEF Shows
    <3> HIDE DEF Piece
    <3> QED
      BY <3>2, <3>3, <3>4, AnswerKind
  <2> QED
    BY <2>1, <2>2
<1>5. Reloaded(tokens) = [k \in 1 .. (2 * n) |-> Piece(k)]
  BY DEF Reloaded, wanted, n
<1> HIDE DEF Piece
<1>6. 2 * n \in Nat
  BY <1>2
<1>7. \A k \in 1 .. (2 * n) : Piece(k) \in Msg
  BY <1>4
<1> QED
  BY <1>5, <1>6, <1>7, IsASeq

\* The trajectory begins with the task.
LEMMA ContextStart ==
  ASSUME ContextAssumption, ContextInit
  PROVE  ContextTypeOK /\ TaskSurvives
<1>1. PICK text \in Texts, tokens \in Size : msgs = <<Said(text, 1, tokens)>>
  BY DEF ContextInit
<1>2. /\ Said(text, 1, tokens) \in Msg /\ Said(text, 1, tokens).role = "user"
      /\ Said(text, 1, tokens).file = None /\ Said(text, 1, tokens).shows = None
  <2>1. tokens \in Nat /\ 1 \in Nat
    BY DEF ContextAssumption
  <2> QED
    BY <2>1, MessageKinds
<1>3. Trajectory(msgs)
  BY <1>1, <1>2, TrajectoryBegins
<1>4. /\ edited \subseteq File /\ required \subseteq File /\ observed \in Nat /\ spoken \in Seq(Texts)
      /\ current \in [File -> Nat] /\ mine \in [File -> Nat] /\ \A f \in File : mine[f] <= current[f]
  <2>1. 0 \in Nat /\ 0 <= 0
    OBVIOUS
  <2> QED
    BY <2>1 DEF ContextInit
<1>5. TaskSurvives
  BY DEF ContextInit, TaskSurvives
<1> QED
  BY <1>3, <1>4, <1>5 DEF ContextTypeOK

\* What a step appends to the trajectory.
Appends(t) == t \in Seq(Msg) /\ msgs' = msgs \o t

\* Appending keeps the trajectory.
LEMMA AppendsKeeps ==
  ASSUME Trajectory(msgs), NEW t, Appends(t)
  PROVE  Trajectory(msgs')
BY TrajectoryGrows DEF Appends

\* The answers of the model, and the results of its calls, by what they append.
LEMMA AnswersAppend ==
  ASSUME ContextAssumption, NEW tokens \in Nat,
         NEW t \in {<<Note(tokens)>>, <<Assistant(tokens, 0), Note(tokens)>>,
                    <<Assistant(tokens, 1), Message("tool", tokens)>>}
  PROVE  t \in Seq(Msg) /\ \A j \in DOMAIN t : t[j].shows = None
<1>1. /\ Note(tokens) \in Msg /\ Note(tokens).shows = None
      /\ Message("tool", tokens) \in Msg /\ Message("tool", tokens).shows = None
  BY MessageKinds
<1>2. /\ Assistant(tokens, 0) \in Msg /\ Assistant(tokens, 0).shows = None
      /\ Assistant(tokens, 1) \in Msg /\ Assistant(tokens, 1).shows = None
  BY MessageKinds
<1>3. CASE t = <<Note(tokens)>>
  BY <1>1, <1>3
<1>4. ASSUME NEW m \in Msg, NEW n \in Msg, m.shows = None, n.shows = None, t = <<m, n>>
      PROVE  t \in Seq(Msg) /\ \A j \in DOMAIN t : t[j].shows = None
  BY <1>4
<1>5. CASE t = <<Assistant(tokens, 0), Note(tokens)>>
  BY <1>1, <1>2, <1>4, <1>5
<1>6. CASE t = <<Assistant(tokens, 1), Message("tool", tokens)>>
  BY <1>1, <1>2, <1>4, <1>6
<1> QED
  BY <1>3, <1>5, <1>6

\* And those of a read.
LEMMA ReadAppends ==
  ASSUME ContextAssumption, ContextTypeOK, NEW tokens \in Nat, NEW f \in File, NEW form,
         NEW shows \in Shows, NEW t,
         t = <<Assistant(tokens, 1), ReadAnswer(f, form, shows, tokens)>>
  PROVE  t \in Seq(Msg)
<1>1. Assistant(tokens, 1) \in Msg
  BY MessageKinds
<1> DEFINE m == ReadAnswer(f, form, shows, tokens)
<1>2. m \in Msg
  BY AnswerKind
<1>3. t = <<Assistant(tokens, 1), m>>
  OBVIOUS
<1> HIDE DEF m
<1> QED
  BY <1>1, <1>2, <1>3

\* What is kept about the requests.
RequestsInv == ContextTypeOK /\ TaskSurvives

\* Between a turn and the next nothing is asked.
LEMMA NothingAsked == turn' = "idle" => TaskSurvives'
BY DEF TaskSurvives

\* A turn that appends and leaves the files alone.
LEMMA PlainTurn ==
  ASSUME ContextAssumption, RequestsInv, NEW t, Appends(t),
         UNCHANGED <<required, files, current, mine, observed>>, turn' = "idle",
         spoken' \in Seq(Texts)
  PROVE  RequestsInv'
<1>1. UNCHANGED <<required, edited, current, mine, observed>>
  BY DEF files
<1>2. Trajectory(msgs)
  BY DEF RequestsInv, ContextTypeOK
<1>3. Trajectory(msgs')
  BY <1>2, AppendsKeeps
<1>4. ContextTypeOK'
  BY <1>1, <1>3 DEF RequestsInv, ContextTypeOK
<1>5. TaskSurvives'
  BY NothingAsked
<1> QED
  BY <1>4, <1>5 DEF RequestsInv

\* The user's words.
LEMMA WordsKeep ==
  ASSUME ContextAssumption, RequestsInv, NEW text \in Texts, NEW tokens \in Size,
         UserSays(text, tokens)
  PROVE  RequestsInv'
<1> DEFINE m == Said(text, Len(spoken) + 1, tokens)
<1>1. spoken \in Seq(Texts) /\ msgs \in Seq(Msg)
  BY DEF RequestsInv, ContextTypeOK, Trajectory
<1>2. tokens \in Nat /\ Len(spoken) + 1 \in Nat
  BY <1>1, LenProperties DEF ContextAssumption
<1>3. m \in Msg
  BY <1>2, MessageKinds
<1>4. /\ msgs' = Append(msgs, m) /\ turn' = "idle" /\ shown' = shown
      /\ UNCHANGED <<required, files, current, mine, observed>>
      /\ spoken' = Append(spoken, text)
  BY DEF UserSays, pending, Process
<1> HIDE DEF m
<1>5. Appends(<<m>>)
  BY <1>1, <1>3, <1>4, AppendIsConcat DEF Appends
<1>6. spoken' \in Seq(Texts)
  BY <1>1, <1>4
<1> QED
  BY <1>4, <1>5, <1>6, PlainTurn

\* Answers without a call, and those that break.
LEMMA AnswerKeeps ==
  ASSUME ContextAssumption, RequestsInv, NEW tokens \in Size,
         \/ AnswerText(tokens)
         \/ \E partial \in BOOLEAN : AnswerFails(tokens, partial)
  PROVE  RequestsInv'
<1>1. tokens \in Nat /\ ContextTypeOK
  BY DEF ContextAssumption, RequestsInv
<1>2. PICK t \in {<<Note(tokens)>>, <<Assistant(tokens, 0), Note(tokens)>>} : msgs' = msgs \o t
  BY DEF AnswerText, AnswerFails, Appended
<1>3. /\ turn' = "idle" /\ shown' = <<>>
      /\ UNCHANGED <<required, files, current, mine, observed, spoken>>
  BY DEF AnswerText, AnswerFails, Appended, pending, talk
<1>4. t \in Seq(Msg) /\ \A j \in DOMAIN t : t[j].shows = None
  BY <1>1, <1>2, AnswersAppend
<1>5. Appends(t)
  BY <1>2, <1>4 DEF Appends
<1>6. spoken' \in Seq(Texts)
  BY <1>1, <1>3 DEF ContextTypeOK
<1> QED
  BY <1>3, <1>4, <1>5, <1>6, PlainTurn

\* The model refuses the length: the trajectory starts anew with two notes.
LEMMA ExceededKeeps ==
  ASSUME ContextAssumption, RequestsInv, NEW tokens \in Size, AnswerExceeded(tokens)
  PROVE  RequestsInv'
<1>1. tokens \in Nat /\ ContextTypeOK
  BY DEF ContextAssumption, RequestsInv
<1>2. /\ msgs' = <<Continuation(tokens), Note(tokens)>> /\ observed' = 1
      /\ turn' = "idle" /\ shown' = <<>>
      /\ UNCHANGED <<required, edited, current, mine, spoken>>
  BY DEF AnswerExceeded, pending, files, talk
<1>3. /\ Continuation(tokens) \in Msg /\ Continuation(tokens).role = "user"
      /\ Continuation(tokens).file = None /\ Continuation(tokens).shows = None
      /\ Note(tokens) \in Msg /\ Note(tokens).shows = None
  BY <1>1, MessageKinds
<1>4. Trajectory(msgs')
  BY <1>2, <1>3 DEF Trajectory
<1>5. ContextTypeOK'
  BY <1>1, <1>2, <1>4 DEF ContextTypeOK
<1>6. TaskSurvives'
  BY <1>2, NothingAsked
<1> QED
  BY <1>5, <1>6 DEF RequestsInv

\* A request holds the task of its trajectory.
LEMMA RequestKeeps ==
  ASSUME ContextAssumption, NEW ms, Trajectory(ms), edited \subseteq File, NEW from \in Nat,
         NEW looks \in BOOLEAN, NEW block \in BOOLEAN, RequestOf(ms, from, looks, block),
         msgs' = ms
  PROVE  observed' \in Nat /\ TaskSurvives'
<1>1. observed' \in Nat /\ HoldsTask(shown', ms)
  BY RequestShows
<1>2. HoldsTask(shown', msgs')
  BY <1>1
<1>3. PICK k \in DOMAIN shown' :
        \/ shown'[k] = msgs'[1]
        \/ shown'[k] = [msgs'[1] EXCEPT !.tok = shown'[k].tok, !.shows = "excerpt"]
  BY <1>2, Zenon DEF HoldsTask
<1>4. TaskSurvives'
  BY <1>3, Zenon DEF TaskSurvives
<1> QED
  BY <1>1, <1>4

\* A frame, with or without a compaction.
LEMMA FrameKeeps ==
  ASSUME ContextAssumption, RequestsInv, NEW looks \in BOOLEAN, NEW block \in BOOLEAN,
         Frame(looks, block) \/ \E tokens \in Size : Compact(tokens, looks, block)
  PROVE  RequestsInv'
<1>1. /\ Trajectory(msgs) /\ edited \subseteq File /\ observed \in Nat /\ ContextTypeOK
      /\ current \in [File -> Nat] /\ mine \in [File -> Nat] /\ \A f \in File : mine[f] <= current[f]
  BY DEF RequestsInv, ContextTypeOK
<1>2. CASE Frame(looks, block)
  <2>1. /\ RequestOf(msgs, observed, looks, block) /\ msgs' = msgs
        /\ UNCHANGED <<required, edited, current, mine, spoken>>
    BY <1>2 DEF Frame, trajectoryVars, pending, files, talk
  <2>2. observed' \in Nat /\ TaskSurvives'
    BY <1>1, <2>1, RequestKeeps
  <2>3. ContextTypeOK'
    BY <1>1, <2>1, <2>2 DEF ContextTypeOK
  <2> QED
    BY <2>2, <2>3 DEF RequestsInv
<1>3. CASE \E tokens \in Size : Compact(tokens, looks, block)
  <2>1. PICK tokens \in Size : Compact(tokens, looks, block)
    BY <1>3
  <2> DEFINE c == Continuation(tokens)
             r == Reloaded(tokens)
             ms == <<c>> \o r
  <2>2. /\ RequestOf(ms, 1, looks, block) /\ msgs' = ms /\ required' = {}
        /\ UNCHANGED <<edited, current, mine, spoken>>
    BY <2>1 DEF Compact, files, talk
  <2>3. tokens \in Nat /\ None \notin {"full", "preview"}
    BY DEF ContextAssumption
  <2>4. c \in Msg /\ c.role = "user" /\ c.file = None /\ c.shows = None
    BY <2>3, MessageKinds
  <2>5. r \in Seq(Msg)
    BY <1>1, <2>3, ReloadedReads
  <2> HIDE DEF c, r
  <2>6. Trajectory(<<c>>)
    BY <2>4, TrajectoryBegins
  <2>7. Trajectory(ms)
    BY <2>5, <2>6, TrajectoryGrows
  <2> HIDE DEF ms
  <2>8. observed' \in Nat /\ TaskSurvives'
    <3>1. 1 \in Nat
      OBVIOUS
    <3> QED
      BY <1>1, <2>2, <2>7, <3>1, RequestKeeps
  <2>9. ContextTypeOK'
    BY <1>1, <2>2, <2>7, <2>8 DEF ContextTypeOK
  <2> QED
    BY <2>8, <2>9 DEF RequestsInv
<1> QED
  BY <1>2, <1>3

\* The compact tool.
LEMMA CallCompactKeeps ==
  ASSUME ContextAssumption, RequestsInv, NEW wants \in SUBSET File, NEW tokens \in Size,
         CallCompact(wants, tokens)
  PROVE  RequestsInv'
<1> DEFINE t == <<Assistant(tokens, 1), Message("tool", tokens)>>
<1>1. tokens \in Nat /\ ContextTypeOK /\ None \notin {"full", "preview"}
  BY DEF ContextAssumption, RequestsInv
<1>2. /\ msgs' = msgs \o t /\ turn' = "idle" /\ shown' = <<>>
      /\ UNCHANGED <<edited, current, mine, observed, spoken>>
      /\ required' = required \/ required' = wants
  BY DEF CallCompact, ToolTurn, Appended, files, talk
<1>3. t \in Seq(Msg) /\ \A j \in DOMAIN t : t[j].shows = None
  BY <1>1, AnswersAppend
<1> HIDE DEF t
<1>4. Appends(t)
  BY <1>2, <1>3 DEF Appends
<1>5. Trajectory(msgs')
  BY <1>1, <1>4, AppendsKeeps DEF ContextTypeOK
<1>6. ContextTypeOK'
  BY <1>1, <1>2, <1>5 DEF ContextTypeOK
<1>7. TaskSurvives'
  BY <1>2, NothingAsked
<1> QED
  BY <1>6, <1>7 DEF RequestsInv

\* A read.
LEMMA CallReadKeeps ==
  ASSUME ContextAssumption, RequestsInv, NEW f \in File, NEW form \in Forms,
         NEW detail \in {"full", "preview"}, NEW tokens \in Size, CallRead(f, form, detail, tokens)
  PROVE  RequestsInv'
<1>1. tokens \in Nat /\ ContextTypeOK /\ None \notin {"full", "preview"}
  BY DEF ContextAssumption, RequestsInv
<1>2. PICK given \in Shows :
           msgs' = msgs \o <<Assistant(tokens, 1), ReadAnswer(f, form, given, tokens)>>
  BY DEF CallRead, ToolTurn, Appended, Shows
<1> DEFINE t == <<Assistant(tokens, 1), ReadAnswer(f, form, given, tokens)>>
<1>3. /\ turn' = "idle" /\ shown' = <<>>
      /\ UNCHANGED <<edited, current, mine, observed, spoken, required>>
  BY DEF CallRead, ToolTurn, Appended, talk, pending
<1>4. t \in Seq(Msg)
  BY <1>1, <1>2, ReadAppends
<1>5. msgs' = msgs \o t
  BY <1>2
<1> HIDE DEF t
<1>6. Appends(t)
  BY <1>4, <1>5 DEF Appends
<1>7. Trajectory(msgs')
  BY <1>1, <1>6, AppendsKeeps DEF ContextTypeOK
<1>8. ContextTypeOK'
  BY <1>1, <1>3, <1>7 DEF ContextTypeOK
<1>9. TaskSurvives'
  BY <1>3, NothingAsked
<1> QED
  BY <1>8, <1>9 DEF RequestsInv

\* An edit.
LEMMA CallEditKeeps ==
  ASSUME ContextAssumption, RequestsInv, NEW f \in File, NEW form \in Forms,
         NEW works \in BOOLEAN, NEW tokens \in Size, CallEdit(f, form, works, tokens)
  PROVE  RequestsInv'
<1> DEFINE t == <<Assistant(tokens, 1), Message("tool", tokens)>>
<1>1. /\ tokens \in Nat /\ ContextTypeOK /\ None \notin {"full", "preview"}
      /\ current \in [File -> Nat] /\ mine \in [File -> Nat] /\ \A g \in File : mine[g] <= current[g]
  BY DEF ContextAssumption, RequestsInv, ContextTypeOK
<1>2. /\ msgs' = msgs \o t /\ turn' = "idle" /\ shown' = <<>>
      /\ UNCHANGED <<observed, spoken, required>>
      /\ edited' = IF form = "fields" THEN edited \cup {f} ELSE edited
      /\ current' = IF works THEN [current EXCEPT ![f] = @ + 1] ELSE current
      /\ mine' = IF works THEN [mine EXCEPT ![f] = current'[f]] ELSE mine
  BY DEF CallEdit, ToolTurn, Appended, talk, pending
<1>3. t \in Seq(Msg) /\ \A j \in DOMAIN t : t[j].shows = None
  BY <1>1, AnswersAppend
<1> HIDE DEF t
<1>4. /\ current' \in [File -> Nat] /\ mine' \in [File -> Nat]
      /\ \A g \in File : mine'[g] <= current'[g]
      /\ \A g \in File : mine'[g] = mine[g] \/ g = f
  <2>1. CASE ~works
    BY <1>1, <1>2, <2>1
  <2>2. CASE works
    <3>1. current' = [current EXCEPT ![f] = @ + 1] /\ current'[f] = current[f] + 1
          /\ mine' = [mine EXCEPT ![f] = current[f] + 1]
      BY <1>1, <1>2, <2>2
    <3>2. current[f] + 1 \in Nat
      BY <1>1
    <3>3. current' \in [File -> Nat] /\ mine' \in [File -> Nat]
      BY <1>1, <3>1, <3>2
    <3>4. ASSUME NEW g \in File
          PROVE  mine'[g] <= current'[g] /\ (mine'[g] = mine[g] \/ g = f)
      BY <1>1, <3>1, <3>2
    <3> QED
      BY <3>3, <3>4
  <2> QED
    BY <2>1, <2>2
<1>5. edited' \subseteq File
  BY <1>1, <1>2 DEF ContextTypeOK
<1>6. Appends(t)
  BY <1>2, <1>3 DEF Appends
<1>7. Trajectory(msgs')
  BY <1>1, <1>6, AppendsKeeps DEF ContextTypeOK
<1>8. ContextTypeOK'
  BY <1>1, <1>2, <1>4, <1>5, <1>7 DEF ContextTypeOK
<1>9. TaskSurvives'
  BY <1>2, NothingAsked
<1> QED
  BY <1>8, <1>9 DEF RequestsInv

\* Somebody else changes a file.
LEMMA ChangeKeeps ==
  ASSUME ContextAssumption, RequestsInv, NEW f \in File, FileChanges(f)
  PROVE  RequestsInv'
<1>1. /\ ContextTypeOK /\ current \in [File -> Nat] /\ mine \in [File -> Nat]
      /\ \A g \in File : mine[g] <= current[g]
  BY DEF RequestsInv, ContextTypeOK
<1>2. /\ current' = [current EXCEPT ![f] = @ + 1]
      /\ UNCHANGED <<msgs, required, edited, mine, observed, shown, turn, spoken>>
  BY DEF FileChanges, trajectoryVars, pending, talk, files
<1>3. current' \in [File -> Nat] /\ \A g \in File : mine[g] <= current'[g]
  BY <1>1, <1>2
<1>4. ContextTypeOK'
  BY <1>1, <1>2, <1>3 DEF ContextTypeOK
<1>5. TaskSurvives => TaskSurvives'
  BY <1>2 DEF TaskSurvives
<1> QED
  BY <1>4, <1>5 DEF RequestsInv

\* A step keeps what is kept about the requests.
LEMMA RequestsStep ==
  ASSUME ContextAssumption, RequestsInv, [ContextNext]_contextVars
  PROVE  RequestsInv'
<1>1. CASE TalkNext(Texts, Size)
  BY <1>1, WordsKeep DEF TalkNext
<1>2. CASE FrameNext(Size)
  BY <1>2, FrameKeeps DEF FrameNext
<1>3. CASE AnswerNext(Size)
  BY <1>3, AnswerKeeps, ExceededKeeps DEF AnswerNext
<1>4. CASE CompactNext(SUBSET File, Size)
  BY <1>4, CallCompactKeeps DEF CompactNext
<1>5. CASE FileNext(Size)
  BY <1>5, ChangeKeeps, CallReadKeeps, CallEditKeeps DEF FileNext
<1>6. CASE UNCHANGED contextVars
  <2>1. UNCHANGED <<msgs, required, edited, current, mine, observed, shown, turn, spoken>>
    BY <1>6 DEF contextVars, trajectoryVars, pending, files, talk
  <2> QED
    BY <2>1 DEF RequestsInv, ContextTypeOK, Trajectory, TaskSurvives
<1> QED
  BY <1>1, <1>2, <1>3, <1>4, <1>5, <1>6 DEF ContextNext

\* Every request holds the first message of its trajectory, whole or as an excerpt: the task,
\* or the engine's continuation note after a compaction (Context).
THEOREM TaskInvariance == ContextSpec => []TaskSurvives
<1>1. ContextInit => RequestsInv
  BY ContextAssumption, ContextStart DEF RequestsInv
<1>2. RequestsInv /\ [ContextNext]_contextVars => RequestsInv'
  BY ContextAssumption, RequestsStep
<1>3. RequestsInv => TaskSurvives
  BY DEF RequestsInv
<1> QED
  BY <1>1, <1>2, <1>3, PTL DEF ContextSpec

\* What is remembered of the user's words: they are only ever appended, and the goal is a
\* place among them.
WordsInv == spoken \in Seq(Texts) /\ goal \in Nat /\ WordsOutlive

\* A text keeps what was remembered of the others.
LEMMA WordsStep ==
  ASSUME ContextAssumption, WordsInv, [ContextNext]_contextVars
  PROVE  WordsInv'
<1>1. ASSUME NEW text \in Texts, NEW tokens \in Size, UserSays(text, tokens)
      PROVE  WordsInv'
  <2> DEFINE n == Len(spoken)
             kind == Classify(text, FALSE)
  <2>1. /\ spoken \in Seq(Texts) /\ n \in Nat /\ goal \in Nat
        /\ spoken' = Append(spoken, text)
        /\ goal' = IF kind = "goal" THEN n + 1 ELSE goal
        /\ duties' = IF kind \in {"correction", "constraint"} THEN duties \cup {n + 1} ELSE duties
    BY <1>1, LenProperties DEF WordsInv, UserSays, Process
  <2>2. /\ spoken' \in Seq(Texts) /\ Len(spoken') = n + 1
        /\ spoken'[n + 1] = text /\ \A w \in 1 .. n : spoken'[w] = spoken[w]
    BY <2>1, AppendProperties
  <2> HIDE DEF n, kind
  <2>3. goal' \in Nat
    BY <2>1
  <2>4. ASSUME NEW w \in 2 .. Len(spoken')
        PROVE  /\ Classify(spoken'[w], FALSE) \in {"correction", "constraint"} => w \in duties'
               /\ Classify(spoken'[w], FALSE) = "goal" => goal' >= w
    <3>1. CASE w = n + 1
      <4>1. Classify(spoken'[w], FALSE) = kind
        BY <2>2, <3>1 DEF kind
      <4>2. kind \in {"correction", "constraint"} => w \in duties'
        BY <2>1, <3>1
      <4>3. kind = "goal" => goal' = n + 1 /\ n + 1 >= w
        BY <2>1, <3>1
      <4> QED
        BY <4>1, <4>2, <4>3
    <3>2. CASE w # n + 1
      <4>1. w \in 2 .. n /\ spoken'[w] = spoken[w]
        BY <2>1, <2>2, <3>2
      <4>2. /\ Classify(spoken[w], FALSE) \in {"correction", "constraint"} => w \in duties
            /\ Classify(spoken[w], FALSE) = "goal" => goal >= w
        BY <4>1 DEF WordsInv, WordsOutlive, CriticalSummary, n
      <4>3. Classify(spoken'[w], FALSE) = Classify(spoken[w], FALSE)
        BY <4>1
      <4>4. duties \subseteq duties'
        BY <2>1
      <4>5. goal' >= w \/ goal' = goal
        BY <2>1, <4>1
      <4> QED
        BY <4>2, <4>3, <4>4, <4>5
    <3> QED
      BY <3>1, <3>2
  <2> QED
    BY <2>2, <2>3, <2>4 DEF WordsInv, WordsOutlive, CriticalSummary
<1>2. ASSUME UNCHANGED talk
      PROVE  WordsInv'
  BY <1>2 DEF talk, WordsInv, WordsOutlive, CriticalSummary
<1>3. CASE TalkNext(Texts, Size)
  BY <1>1, <1>3 DEF TalkNext
<1>4. CASE FrameNext(Size)
  BY <1>2, <1>4 DEF FrameNext, Frame, Compact
<1>5. CASE AnswerNext(Size)
  BY <1>2, <1>5 DEF AnswerNext, AnswerText, AnswerFails, AnswerExceeded
<1>6. CASE CompactNext(SUBSET File, Size)
  BY <1>2, <1>6 DEF CompactNext, CallCompact, ToolTurn
<1>7. CASE FileNext(Size)
  <2>1. ASSUME NEW f \in File, FileChanges(f)
        PROVE  UNCHANGED talk
    BY <2>1 DEF FileChanges
  <2>2. ASSUME NEW f, NEW form, NEW detail, NEW tokens, CallRead(f, form, detail, tokens)
        PROVE  UNCHANGED talk
    BY <2>2 DEF CallRead, ToolTurn
  <2>3. ASSUME NEW f, NEW form, NEW works, NEW tokens, CallEdit(f, form, works, tokens)
        PROVE  UNCHANGED talk
    BY <2>3 DEF CallEdit, ToolTurn
  <2>4. UNCHANGED talk
    BY <1>7, <2>1, <2>2, <2>3 DEF FileNext
  <2> QED
    BY <1>2, <2>4
<1>8. CASE UNCHANGED contextVars
  BY <1>2, <1>8 DEF contextVars
<1> QED
  BY <1>3, <1>4, <1>5, <1>6, <1>7, <1>8 DEF ContextNext

\* What the user corrected or demanded stays in the system prompt, and the goal is the last
\* one named, whatever was compacted since (Context).
THEOREM WordsInvariance == ContextSpec => []WordsOutlive
<1>1. ContextInit => WordsInv
  <2>1. ASSUME ContextInit
        PROVE  WordsInv
    <3>1. PICK text \in Texts : spoken = <<text>>
      BY <2>1 DEF ContextInit
    <3>2. spoken \in Seq(Texts) /\ Len(spoken) = 1 /\ goal \in Nat
      BY <2>1, <3>1 DEF ContextInit
    <3> QED
      BY <3>2 DEF WordsInv, WordsOutlive
  <2> QED
    BY <2>1
<1>2. WordsInv /\ [ContextNext]_contextVars => WordsInv'
  BY ContextAssumption, WordsStep
<1>3. WordsInv => WordsOutlive
  BY DEF WordsInv
<1> QED
  BY <1>1, <1>2, <1>3, PTL DEF ContextSpec

-----------------------------------------------------------------------------
(* The observer's store and what is left out of requests.                  *)

Obs == [kind : Kind, action : Action, sure : {"certain", "heuristic"}, turn : Nat]
HasReflection(observations) == \E i \in DOMAIN observations : observations[i].kind = "Reflection"

\* What is left when one element is taken out of a sequence.
LEMMA RemoveKeeps ==
  ASSUME NEW S, NEW s \in Seq(S), NEW v \in DOMAIN s
  PROVE  /\ RemoveAt(s, v) \in Seq(S)
         /\ \A j \in DOMAIN s \ {v} : \E k \in DOMAIN RemoveAt(s, v) : RemoveAt(s, v)[k] = s[j]
<1> DEFINE a == SubSeq(s, 1, v - 1)
           b == SubSeq(s, v + 1, Len(s))
<1>1. Len(s) \in Nat /\ DOMAIN s = 1 .. Len(s) /\ v \in 1 .. Len(s) /\ \A i \in 1 .. Len(s) : s[i] \in S
  BY LenProperties, ElementOfSeq
<1>2. a \in Seq(S) /\ Len(a) = v - 1 /\ \A i \in 1 .. v - 1 : a[i] = s[i]
  <2>1. \A i \in 1 .. v - 1 : s[i] \in S
    BY <1>1
  <2>2. /\ a \in Seq(S)
        /\ Len(a) = IF 1 <= v - 1 THEN (v - 1) - 1 + 1 ELSE 0
        /\ \A i \in 1 .. (v - 1) - 1 + 1 : a[i] = s[1 + i - 1]
    BY <1>1, <2>1, SubSeqProperties
  <2> HIDE DEF a
  <2> QED
    BY <1>1, <2>2
<1>3. b \in Seq(S) /\ Len(b) = Len(s) - v /\ \A i \in 1 .. Len(s) - v : b[i] = s[v + i]
  <2>1. \A i \in v + 1 .. Len(s) : s[i] \in S
    BY <1>1
  <2>2. /\ b \in Seq(S)
        /\ Len(b) = IF v + 1 <= Len(s) THEN Len(s) - (v + 1) + 1 ELSE 0
        /\ \A i \in 1 .. Len(s) - (v + 1) + 1 : b[i] = s[(v + 1) + i - 1]
    BY <1>1, <2>1, SubSeqProperties
  <2> HIDE DEF b
  <2>3. ASSUME NEW i \in 1 .. Len(s) - v
        PROVE  b[i] = s[v + i]
    <3>1. i \in 1 .. Len(s) - (v + 1) + 1 /\ (v + 1) + i - 1 = v + i
      BY <1>1
    <3> QED
      BY <2>2, <3>1
  <2> QED
    BY <1>1, <2>2, <2>3
<1>4. RemoveAt(s, v) = a \o b
  BY DEF RemoveAt
<1> HIDE DEF a, b
<1>5. /\ a \o b \in Seq(S) /\ Len(a \o b) = Len(a) + Len(b)
      /\ \A i \in 1 .. Len(a) + Len(b) : (a \o b)[i] = IF i <= Len(a) THEN a[i] ELSE b[i - Len(a)]
  BY <1>2, <1>3, ConcatProperties
<1>6. ASSUME NEW j \in DOMAIN s \ {v}
      PROVE  \E k \in DOMAIN (a \o b) : (a \o b)[k] = s[j]
  <2>1. DOMAIN (a \o b) = 1 .. Len(a) + Len(b) /\ j \in 1 .. Len(s) /\ j # v
    BY <1>1, <1>5, LenProperties
  <2>2. CASE j < v
    <3>1. j \in 1 .. Len(a) + Len(b) /\ j <= Len(a) /\ a[j] = s[j] /\ j \in DOMAIN (a \o b)
      BY <1>1, <1>2, <1>3, <2>1, <2>2
    <3> QED
      BY <1>5, <3>1
  <2>3. CASE j > v
    <3>1. /\ Len(a) = v - 1 /\ Len(b) = Len(s) - v
          /\ j \in Nat /\ v \in Nat /\ Len(s) \in Nat /\ 1 <= v /\ v < j /\ j <= Len(s)
      BY <1>1, <1>2, <1>3, <2>1, <2>3
    <3>2. j - 1 \in 1 .. (v - 1) + (Len(s) - v) /\ ~(j - 1 <= v - 1)
      BY <3>1
    <3>3. (j - 1) - (v - 1) = j - v /\ v + (j - v) = j
      BY <3>1
    <3>4. j - v \in 1 .. Len(s) - v
      BY <3>1
    <3>5. b[j - v] = s[j] /\ (a \o b)[j - 1] = b[j - v]
      BY <1>3, <1>5, <3>1, <3>2, <3>3, <3>4
    <3> QED
      BY <2>1, <3>1, <3>2, <3>5
  <2> QED
    BY <1>1, <2>1, <2>2, <2>3
<1> QED
  BY <1>4, <1>5, <1>6

\* append evicts, but never the last reflection for another kind of observation.
LEMMA AppendToKeeps ==
  ASSUME ObserverAssumption, NEW s \in Seq(Obs), NEW o \in Obs
  PROVE  /\ AppendTo(s, o) \in Seq(Obs)
         /\ HasReflection(s) \/ o.kind = "Reflection" => HasReflection(AppendTo(s, o))
<1> DEFINE others == {i \in DOMAIN s : s[i].kind # "Reflection"}
           victim == IF others = {} THEN 1 ELSE Min(others)
           rest == IF Len(s) >= Stored THEN RemoveAt(s, victim) ELSE s
<1>1. Len(s) \in Nat /\ DOMAIN s = 1 .. Len(s) /\ Stored >= 2 /\ Stored \in Nat
  BY LenProperties DEF ObserverAssumption
<1>2. AppendTo(s, o) = Append(rest, o)
  BY DEF AppendTo
<1>3. Len(s) >= Stored => victim \in DOMAIN s
  <2>1. others \in SUBSET Nat /\ others \subseteq DOMAIN s
    BY <1>1, SMTT(40)
  <2>2. others # {} => Min(others) \in others
    BY <2>1, MinIsLeast
  <2> QED
    BY <1>1, <2>1, <2>2
<1>4. rest \in Seq(Obs)
  BY <1>3, RemoveKeeps
<1>5. ASSUME HasReflection(s)
      PROVE  HasReflection(rest)
  <2>1. CASE ~(Len(s) >= Stored)
    BY <1>5, <2>1
  <2>2. CASE Len(s) >= Stored
    <3>1. \E j \in DOMAIN s \ {victim} : s[j].kind = "Reflection"
      <4>1. CASE others = {}
        <5>1. 2 \in DOMAIN s /\ victim = 1
          BY <1>1, <2>2, <4>1
        <5>2. s[2].kind = "Reflection"
          BY <4>1, <5>1
        <5> HIDE DEF victim
        <5> QED
          BY <5>1, <5>2
      <4>2. CASE others # {}
        <5>1. others \in SUBSET Nat
          BY <1>1
        <5>2. victim \in others
          BY <4>2, <5>1, MinIsLeast
        <5>3. PICK j \in DOMAIN s : s[j].kind = "Reflection"
          BY <1>5 DEF HasReflection
        <5> HIDE DEF victim
        <5>4. j # victim
          BY <5>2, <5>3
        <5> QED
          BY <5>3, <5>4
      <4> QED
        BY <4>1, <4>2
    <3>2. PICK j \in DOMAIN s \ {victim} : s[j].kind = "Reflection"
      BY <3>1
    <3> HIDE DEF victim
    <3>3. \E k \in DOMAIN RemoveAt(s, victim) : RemoveAt(s, victim)[k] = s[j]
      BY <1>3, <2>2, <3>2, RemoveKeeps
    <3> QED
      BY <2>2, <3>2, <3>3 DEF HasReflection
  <2> QED
    BY <2>1, <2>2
<1> HIDE DEF rest
<1>6. /\ Append(rest, o) \in Seq(Obs) /\ Len(Append(rest, o)) = Len(rest) + 1
      /\ \A i \in 1 .. Len(rest) : Append(rest, o)[i] = rest[i]
      /\ Append(rest, o)[Len(rest) + 1] = o
  BY <1>4, AppendProperties
<1>7. /\ Len(rest) \in Nat /\ DOMAIN rest = 1 .. Len(rest)
      /\ DOMAIN Append(rest, o) = 1 .. Len(rest) + 1
  BY <1>4, <1>6, LenProperties
<1>8. HasReflection(rest) \/ o.kind = "Reflection" => HasReflection(Append(rest, o))
  <2>1. CASE HasReflection(rest)
    <3>1. PICK i \in 1 .. Len(rest) : rest[i].kind = "Reflection"
      BY <1>7, <2>1 DEF HasReflection
    <3>2. i \in DOMAIN Append(rest, o) /\ Append(rest, o)[i].kind = "Reflection"
      BY <1>6, <1>7, <3>1
    <3> QED
      BY <3>2 DEF HasReflection
  <2>2. CASE o.kind = "Reflection"
    <3>1. Len(rest) + 1 \in DOMAIN Append(rest, o)
      BY <1>7
    <3> QED
      BY <1>6, <2>2, <3>1 DEF HasReflection
  <2> QED
    BY <2>1, <2>2
<1> QED
  BY <1>2, <1>5, <1>6, <1>8

\* An observation is made when there is reason to.
LEMMA AddedKeeps ==
  ASSUME ObserverAssumption, NEW s \in Seq(Obs), NEW o \in Obs, NEW when
  PROVE  Added(s, when, o) \in Seq(Obs) /\ (HasReflection(s) => HasReflection(Added(s, when, o)))
<1>1. CASE when
  BY <1>1, AppendToKeeps DEF Added
<1>2. CASE ~when
  BY <1>2 DEF Added
<1> QED
  BY <1>1, <1>2

ObserverTypeOK ==
  /\ store \in Seq(Obs) /\ asks \in Seq(Kind)
  /\ turnNo \in Nat /\ index \in Nat /\ count \in Nat

\* What the index passes has been summarised; so has what is left out of a request.
Covered == reflected \/ cut \/ (3 .. index \subseteq summarised /\ dropped \subseteq summarised)

StoreInv == ObserverTypeOK /\ (reflected => HasReflection(store)) /\ Covered

\* A turn is judged.
LEMMA TurnKeeps ==
  ASSUME ObserverAssumption, StoreInv, NEW sight, NEW llm, TurnComplete(sight, llm)
  PROVE  StoreInv'
<1> DEFINE data == SkeletonData(sight)
           pattern == ClassifyLoop(sight.files, sight.repeated)
           since == sinceReflect + 1
           watches == Watches(sight, pattern)
           watched == Added(store, watches /\ pattern \notin {"Productive", "Unknown"},
                            Observation("Watcher", "Continue", "heuristic"))
           criticises == since >= CriticCooldown(data.names, data.error) /\ sight.score = "low"
           criticised == Added(watched, criticises, Observation("Critic", Advice(pattern), "heuristic"))
           sketched == Added(criticised, Sketches(data), Observation("Skeleton", "Continue", "heuristic"))
           waited == IF criticises THEN 0 ELSE since
           reflects == \/ ShouldReflect(sketched, waited, data, sight.score)
                       \/ TokenCount(sketched) > MemoryCap /\ Len(sketched) > 5
           after == IF reflects THEN <<Reflection>> ELSE sketched
           rested == IF reflects THEN 0 ELSE waited
           kept == IF reflects THEN [names |-> 0, error |-> "none"] ELSE data
           interrupt == InterruptOf(after, pattern, sight.score, rested)
           summarises == ShouldSummarize(sight)
           pend == Asked(watches, "Watcher")
                   \o Asked(interrupt.action # "Continue", "Critic")
                   \o Asked(Sketches(kept), "Skeleton")
                   \o Asked(ShouldReflect(after, rested, kept, sight.score), "Reflection")
                   \o Asked(summarises, "Summary")
<1>1. /\ turnNo' = turnNo + 1 /\ store' = after
      /\ index' = IF reflects THEN count ELSE index
      /\ reflected' = (reflected \/ reflects)
      /\ asks' = IF llm THEN pend ELSE <<>>
      /\ UNCHANGED <<count, dropped, summarised, cut>>
  BY DEF TurnComplete
<1>2. ObserverTypeOK
  BY DEF StoreInv
<1>3. /\ Observation("Watcher", "Continue", "heuristic") \in Obs
      /\ Observation("Critic", Advice(pattern), "heuristic") \in Obs
      /\ Observation("Skeleton", "Continue", "heuristic") \in Obs
      /\ Reflection \in Obs /\ Reflection.kind = "Reflection"
  <2>1. Advice(pattern) \in Action /\ turnNo + 1 \in Nat
    BY <1>2 DEF Advice, Action, ObserverTypeOK
  <2> HIDE DEF pattern
  <2> QED
    BY <2>1 DEF Observation, Reflection, Obs, Kind, Action
<1> HIDE DEF data, pattern, since, watches, criticises, waited
<1>4. watched \in Seq(Obs) /\ (HasReflection(store) => HasReflection(watched))
  BY <1>2, <1>3, AddedKeeps DEF ObserverTypeOK
<1> HIDE DEF watched
<1>5. criticised \in Seq(Obs) /\ (HasReflection(watched) => HasReflection(criticised))
  BY <1>3, <1>4, AddedKeeps
<1> HIDE DEF criticised
<1>6. sketched \in Seq(Obs) /\ (HasReflection(criticised) => HasReflection(sketched))
  BY <1>3, <1>5, AddedKeeps
<1> HIDE DEF sketched, reflects, kept, rested
<1>7. store' \in Seq(Obs) /\ (reflected' => HasReflection(store'))
  <2>1. CASE reflects
    <3>1. store' = <<Reflection>>
      BY <1>1, <2>1
    <3> QED
      BY <1>3, <3>1 DEF HasReflection
  <2>2. CASE ~reflects
    BY <1>1, <1>4, <1>5, <1>6, <2>2 DEF StoreInv
  <2> QED
    BY <2>1, <2>2
<1> HIDE DEF after, interrupt, summarises
<1>8. asks' \in Seq(Kind)
  <2> DEFINE a == Asked(watches, "Watcher")
             b == Asked(interrupt.action # "Continue", "Critic")
             c == Asked(Sketches(kept), "Skeleton")
             d == Asked(ShouldReflect(after, rested, kept, sight.score), "Reflection")
             e == Asked(summarises, "Summary")
  <2>1. ASSUME NEW when, NEW kind \in Kind
        PROVE  Asked(when, kind) \in Seq(Kind)
    BY DEF Asked
  <2>2. {"Watcher", "Critic", "Skeleton", "Reflection", "Summary"} \subseteq Kind
    BY DEF Kind
  <2>3. a \in Seq(Kind) /\ b \in Seq(Kind)
    BY <2>1, <2>2
  <2>4. c \in Seq(Kind) /\ d \in Seq(Kind) /\ e \in Seq(Kind)
    BY <2>1, <2>2
  <2>5. pend = a \o b \o c \o d \o e
    OBVIOUS
  <2> HIDE DEF a, b, c, d, e
  <2>6. a \o b \o c \o d \o e \in Seq(Kind)
    BY <2>3, <2>4, ConcatProperties
  <2> HIDE DEF pend
  <2>7. <<>> \in Seq(Kind)
    OBVIOUS
  <2> QED
    BY <1>1, <2>5, <2>6, <2>7
<1>9. turnNo' \in Nat /\ index' \in Nat /\ count' \in Nat
  BY <1>1, <1>2 DEF ObserverTypeOK
<1>10. Covered'
  BY <1>1 DEF StoreInv, Covered
<1> QED
  BY <1>7, <1>8, <1>9, <1>10 DEF StoreInv, ObserverTypeOK

\* An answer about what to observe.
LEMMA LlmKeeps ==
  ASSUME ObserverAssumption, StoreInv, NEW outcome, NEW action \in Action, NEW late,
         LlmAnswers(outcome, action, late)
  PROVE  StoreInv'
<1>1. /\ store \in Seq(Obs) /\ asks \in Seq(Kind) /\ asks # <<>>
      /\ turnNo \in Nat /\ index \in Nat /\ count \in Nat
  BY DEF StoreInv, ObserverTypeOK, LlmAnswers
<1>2. asks[1] \in Kind /\ Tail(asks) \in Seq(Kind)
  BY <1>1
<1>3. UNCHANGED <<turnNo, index, count, dropped, cut>> /\ asks' \in Seq(Kind)
  <2>1. <<>> \in Seq(Kind)
    OBVIOUS
  <2> QED
    BY <1>2, <2>1 DEF LlmAnswers, judgement
<1>4. CASE Processed(asks[1], action)
  <2> DEFINE o == [Observation(asks[1], IF asks[1] = "Critic" THEN action ELSE "Continue", "certain")
                    EXCEPT !.turn = turnNo]
  <2>1. o \in Obs /\ o.kind = asks[1]
    BY <1>1, <1>2 DEF Observation, Obs, Action
  <2>2. /\ store' = AppendTo(store, o)
        /\ reflected' = (reflected \/ asks[1] = "Reflection")
        /\ summarised \subseteq summarised'
    BY <1>4 DEF Processed
  <2> HIDE DEF o
  <2>3. store' \in Seq(Obs) /\ (HasReflection(store) \/ o.kind = "Reflection" => HasReflection(store'))
    BY <1>1, <2>1, <2>2, AppendToKeeps
  <2>4. Covered'
    BY <1>3, <2>2 DEF StoreInv, Covered
  <2>5. reflected' => HasReflection(store')
    BY <2>1, <2>2, <2>3 DEF StoreInv
  <2>6. ObserverTypeOK'
    BY <1>1, <1>3, <2>3 DEF ObserverTypeOK
  <2> QED
    BY <2>4, <2>5, <2>6 DEF StoreInv
<1>5. CASE UNCHANGED <<store, sinceReflect, reflected, summarised>>
  <2>1. ObserverTypeOK'
    BY <1>1, <1>3, <1>5 DEF ObserverTypeOK
  <2>2. Covered' /\ (reflected' => HasReflection(store'))
    BY <1>3, <1>5 DEF StoreInv, Covered
  <2> QED
    BY <2>1, <2>2 DEF StoreInv
<1> QED
  BY <1>4, <1>5 DEF LlmAnswers

\* The summary that is made in any case.
LEMMA SummariseKeeps ==
  ASSUME ObserverAssumption, StoreInv, NEW works, Summarise(works)
  PROVE  StoreInv'
<1>1. /\ store \in Seq(Obs) /\ asks \in Seq(Kind) /\ turnNo \in Nat /\ index \in Nat /\ count \in Nat
  BY DEF StoreInv, ObserverTypeOK
<1>2. UNCHANGED <<turnNo, count, dropped, asks, reflected>>
  BY DEF Summarise, judgement
<1>3. CASE UNCHANGED <<store, index, summarised, cut>>
  BY <1>1, <1>2, <1>3 DEF StoreInv, ObserverTypeOK, Covered
<1>4. CASE /\ store' = AppendTo(store, [Observation("Summary", "Continue", "certain")
                                       EXCEPT !.turn = turnNo])
           /\ index' = count
           /\ summarised' = summarised \cup Unobserved
           /\ cut' = (cut \/ count > index + Window)
  <2> DEFINE o == [Observation("Summary", "Continue", "certain") EXCEPT !.turn = turnNo]
  <2>1. o \in Obs
    BY <1>1 DEF Observation, Obs, Action, Kind
  <2>2. store' = AppendTo(store, o)
    BY <1>4
  <2> HIDE DEF o
  <2>3. store' \in Seq(Obs) /\ (HasReflection(store) => HasReflection(store'))
    BY <1>1, <2>1, <2>2, AppendToKeeps
  <2>4. Covered'
    <3>1. CASE count > index + Window
      BY <1>4, <3>1 DEF Covered
    <3>2. CASE ~(count > index + Window)
      <4>1. Window \in Nat /\ index + Window \in Nat
        BY <1>1, SMTT(40) DEF ObserverAssumption
      <4> DEFINE least == Min({count, index + Window})
      <4>2. least = count
        <5>1. {count, index + Window} \in SUBSET Nat
          BY <1>1, <4>1
        <5>2. least \in {count, index + Window} /\ least <= count
          BY <5>1, MinIsLeast
        <5> HIDE DEF least
        <5> QED
          BY <1>1, <3>2, <4>1, <5>2
      <4>3. Unobserved = (index + 1) .. count
        BY <4>2 DEF Unobserved
      <4>4. 3 .. count \subseteq (3 .. index) \cup ((index + 1) .. count)
        BY <1>1
      <4> QED
        BY <1>2, <1>4, <4>3, <4>4 DEF StoreInv, Covered
    <3> QED
      BY <3>1, <3>2
  <2> QED
    BY <1>1, <1>2, <1>4, <2>3, <2>4 DEF StoreInv, ObserverTypeOK
<1> QED
  BY <1>3, <1>4 DEF Summarise

\* Requests, answers, words of the user and compactions leave the store alone.
LEMMA SendingKeeps ==
  ASSUME StoreInv,
         \/ \E recalls \in BOOLEAN : SendsView(recalls)
         \/ \E results : Answers(results)
         \/ UserWrites \/ Compacted \/ UNCHANGED observerVars
  PROVE  StoreInv'
<1>1. /\ store \in Seq(Obs) /\ asks \in Seq(Kind) /\ turnNo \in Nat /\ index \in Nat /\ count \in Nat
  BY DEF StoreInv, ObserverTypeOK
<1>2. UNCHANGED <<store, turnNo, reflected, asks>>
  BY DEF SendsView, Answers, UserWrites, Compacted, observerVars, judgement
<1>3. /\ index' = index \/ index' = 1
      /\ count' \in {count, count + 1, count + 2, 1, 2}
  BY DEF SendsView, Answers, UserWrites, Compacted, observerVars, reach
<1>4. Covered'
  <2>1. ASSUME NEW recalls \in BOOLEAN, SendsView(recalls)
        PROVE  Covered'
    BY <2>1 DEF SendsView, StoreInv, Covered
  <2>2. ASSUME NEW results, Answers(results)
        PROVE  Covered'
    BY <2>2 DEF Answers, StoreInv, Covered
  <2>3. CASE Compacted
    <3>1. 3 .. index' = {} /\ dropped' = {}
      BY <2>3 DEF Compacted
    <3> QED
      BY <3>1 DEF Covered
  <2>4. CASE UserWrites
    BY <2>4 DEF UserWrites, StoreInv, Covered
  <2>5. CASE UNCHANGED observerVars
    BY <2>5 DEF observerVars, reach, StoreInv, Covered
  <2> QED
    BY <2>1, <2>2, <2>3, <2>4, <2>5
<1>5. index' \in Nat /\ count' \in Nat
  BY <1>1, <1>3
<1> QED
  BY <1>1, <1>2, <1>4, <1>5 DEF StoreInv, ObserverTypeOK

\* Every step of the observer keeps the store within its sight and the reflections in it.
LEMMA StoreStep ==
  ASSUME ObserverAssumption, StoreInv, [ObserverNext]_observerVars
  PROVE  StoreInv'
<1>1. CASE Judged(Sight, UseLlm)
  BY <1>1, TurnKeeps DEF Judged
<1>2. CASE Condensed
  BY <1>2, LlmKeeps, SummariseKeeps DEF Condensed
<1>3. CASE Sent(BOOLEAN) \/ Got(Sign) \/ UserWrites \/ Compacted \/ UNCHANGED observerVars
  BY <1>3, SendingKeeps DEF Sent, Got
<1> QED
  BY <1>1, <1>2, <1>3 DEF ObserverNext

\* A new observer has seen nothing and reflected on nothing.
LEMMA StoreStart ==
  ASSUME ObserverInit
  PROVE  StoreInv
<1>1. ObserverTypeOK
  BY DEF ObserverInit, ObserverTypeOK
<1>2. Covered /\ ~reflected
  BY DEF ObserverInit, Covered
<1> QED
  BY <1>1, <1>2 DEF StoreInv

\* Once the store has a reflection it always has one, for any capacity (Observer).
THEOREM ReflectionInvariance == ObserverSpec => []ReflectionSurvives
<1>1. StoreInv /\ [ObserverNext]_observerVars => StoreInv'
  BY ObserverAssumption, StoreStep
<1>2. StoreInv => ReflectionSurvives
  BY DEF StoreInv, HasReflection, ReflectionSurvives
<1> QED
  BY StoreStart, <1>1, <1>2, PTL DEF ObserverSpec

\* Only what a summary was made of is left out of a request (Observer).
THEOREM DroppedInvariance == ObserverSpec => []OnlySummarisedDropped
<1>1. StoreInv /\ [ObserverNext]_observerVars => StoreInv'
  BY ObserverAssumption, StoreStep
<1>2. StoreInv => OnlySummarisedDropped
  BY DEF StoreInv, Covered, OnlySummarisedDropped
<1> QED
  BY StoreStart, <1>1, <1>2, PTL DEF ObserverSpec

-----------------------------------------------------------------------------
(* The file that several agents edit.                                      *)

\* What the line with an identity reads: identities are never used for another text.
WordOf(n) == IF n = 0 THEN Blank ELSE IF n <= Len(FirstLines) THEN FirstLines[n] ELSE NewText
RightLine == {l \in [id : Nat, text : LineText] : l.text = WordOf(l.id)}

\* An anchor is the sight of a line; both anchors of an edit are bare, or neither is.
RightAnchor(anchor) == anchor.text = WordOf(anchor.id)
RightEdit(e) ==
  /\ e.kind \in {"replace", "before", "after"} /\ e.text \in {NewText, Blank}
  /\ RightAnchor(e.start) /\ RightAnchor(e.end)
  /\ ~e.start.bare => ~e.end.bare
  /\ e.kind # "replace" => e.end = e.start

\* A resolved edit whose anchors landed.
Holds(lines, r) ==
  ~r.asked[1].bare => Lands(lines, r.from, r.asked[1]) /\ Lands(lines, r.to, r.asked[2])
InRange(n, r) ==
  /\ r.kind \in {"replace", "before", "after"} /\ r.text \in {NewText, Blank}
  /\ r.from \in 1 .. n /\ r.to \in 1 .. n /\ r.from <= r.to

\* New lines get identities of their own.
LEMMA FreshIsNew ==
  ASSUME EditAssumption
  PROVE  FreshId \in Nat /\ FreshId > Len(FirstLines)
<1> DEFINE calls == Agent \X (1 .. MaxEditCalls)
           made == {p \in calls : p[2] <= begun[p[1]]}
<1>1. IsFiniteSet(calls)
  <2>1. IsFiniteSet(1 .. MaxEditCalls)
    BY FS_Interval DEF EditAssumption
  <2> QED
    BY <2>1, FS_Product DEF EditAssumption
<1>2. made \subseteq calls
  OBVIOUS
<1> HIDE DEF calls
<1>3. IsFiniteSet(made)
  BY <1>1, <1>2, FS_Subset
<1>4. Cardinality(made) \in Nat
  BY <1>3, FS_CardinalityType
<1>5. Started = Cardinality(made)
  BY DEF Started, calls
<1> HIDE DEF made
<1>6. Len(FirstLines) \in Nat
  BY LenProperties DEF EditAssumption
<1> QED
  BY <1>4, <1>5, <1>6 DEF FreshId

\* What is written anew reads as its identity says.
LEMMA NewLines ==
  ASSUME EditAssumption
  PROVE  /\ Line(0, Blank) \in RightLine
         /\ \A n \in Nat : n > Len(FirstLines) => Line(n, NewText) \in RightLine
         /\ [i \in DOMAIN FirstLines |-> Line(i, FirstLines[i])] \in Seq(RightLine)
<1>1. /\ Len(FirstLines) \in Nat /\ DOMAIN FirstLines = 1 .. Len(FirstLines)
      /\ NewText \in LineText /\ Blank \in LineText
      /\ \A i \in 1 .. Len(FirstLines) : FirstLines[i] \in LineText
  BY LenProperties, ElementOfSeq DEF EditAssumption
<1>2. Line(0, Blank) \in RightLine
  BY <1>1 DEF Line, RightLine, WordOf
<1>3. \A n \in Nat : n > Len(FirstLines) => Line(n, NewText) \in RightLine
  BY <1>1 DEF Line, RightLine, WordOf
<1>4. \A i \in 1 .. Len(FirstLines) : Line(i, FirstLines[i]) \in RightLine
  BY <1>1 DEF Line, RightLine, WordOf
<1> QED
  BY <1>1, <1>2, <1>3, <1>4, IsASeq

\* Some line matches best.
LEMMA BestExists ==
  ASSUME NEW lines \in Seq(RightLine), NEW at, NEW t, Around(lines, at) # {}
  PROVE  /\ BestMatch(lines, at, t) \in Around(lines, at)
         /\ \A j \in Around(lines, at) :
              Alike(t, lines[j].text) <= Alike(t, lines[BestMatch(lines, at, t)].text)
<1> DEFINE near == Around(lines, at)
           Level(n) == {i \in near : Alike(t, lines[i].text) = n}
           Best(i) == \A j \in near :
                        \/ Alike(t, lines[j].text) < Alike(t, lines[i].text)
                        \/ Alike(t, lines[j].text) = Alike(t, lines[i].text) /\ i <= j
<1>1. near \subseteq Nat
  BY LenProperties DEF Around
<1>2. \A i \in near : Alike(t, lines[i].text) \in {0, 1, 2}
  BY DEF Alike
<1>3. ASSUME NEW n \in {0, 1, 2}, Level(n) # {}, \A i \in near : Alike(t, lines[i].text) <= n
      PROVE  \E i \in near : Best(i)
  <2>1. Level(n) \in SUBSET Nat
    BY <1>1
  <2>2. PICK i \in Level(n) : \A j \in Level(n) : i <= j
    BY <1>3, <2>1, LeastNatural
  <2>3. ASSUME NEW j \in near
        PROVE  \/ Alike(t, lines[j].text) < Alike(t, lines[i].text)
               \/ Alike(t, lines[j].text) = Alike(t, lines[i].text) /\ i <= j
    <3>1. CASE Alike(t, lines[j].text) = n
      BY <2>2, <3>1
    <3>2. CASE Alike(t, lines[j].text) # n
      BY <1>2, <1>3, <2>2, <3>2
    <3> QED
      BY <3>1, <3>2
  <2> QED
    BY <2>2, <2>3
<1>4. \E i \in near : Best(i)
  <2>1. CASE Level(2) # {}
    <3>1. \A i \in near : Alike(t, lines[i].text) <= 2
      BY <1>2
    <3> QED
      BY <1>3, <2>1, <3>1
  <2>2. CASE Level(2) = {} /\ Level(1) # {}
    <3>1. \A i \in near : Alike(t, lines[i].text) <= 1
      BY <1>2, <2>2
    <3> QED
      BY <1>3, <2>2, <3>1
  <2>3. CASE Level(2) = {} /\ Level(1) = {}
    <3>1. \A i \in near : Alike(t, lines[i].text) = 0
      BY <1>2, <2>3
    <3>2. Level(0) # {}
      BY <3>1
    <3> QED
      BY <1>3, <3>1, <3>2, SMTT(40)
  <2> QED
    BY <2>1, <2>2, <2>3
<1>5. BestMatch(lines, at, t) = CHOOSE i \in near : Best(i)
  BY DEF BestMatch
<1>6. BestMatch(lines, at, t) \in near /\ Best(BestMatch(lines, at, t))
  BY <1>4, <1>5
<1>7. ASSUME NEW j \in near
      PROVE  Alike(t, lines[j].text) <= Alike(t, lines[BestMatch(lines, at, t)].text)
  <2>1. /\ Alike(t, lines[j].text) \in {0, 1, 2}
        /\ Alike(t, lines[BestMatch(lines, at, t)].text) \in {0, 1, 2}
    BY <1>2, <1>6
  <2> QED
    BY <1>6, <2>1
<1> QED
  BY <1>6, <1>7

\* An anchor that is resolved lands where it should.
LEMMA AnchorLands ==
  ASSUME EditAssumption, NEW lines \in Seq(RightLine), NEW anchor, RightAnchor(anchor),
         Resolve(lines, anchor) # 0
  PROVE  /\ Resolve(lines, anchor) \in DOMAIN lines
         /\ Lands(lines, Resolve(lines, anchor), anchor)
<1> DEFINE p == Parsed(anchor)
           at == Named(lines, p)
           best == BestMatch(lines, at, p.text)
<1>1. LineOf(lines, p) # {}
  BY DEF Resolve
<1>2. LineOf(lines, p) \subseteq DOMAIN lines
  BY DEF LineOf
<1>3. at \in DOMAIN lines
  BY <1>1, <1>2 DEF Named
<1>4. /\ at \in Around(lines, at) /\ Around(lines, at) \subseteq DOMAIN lines
      /\ best \in Around(lines, at)
      /\ \A j \in Around(lines, at) : Alike(p.text, lines[j].text) <= Alike(p.text, lines[best].text)
  <2>1. at \in Nat /\ Radius \in Nat
    BY <1>3, LenProperties DEF EditAssumption
  <2>2. at \in Around(lines, at) /\ Around(lines, at) \subseteq DOMAIN lines
    <3> HIDE DEF at
    <3> QED
      BY <1>3, <2>1 DEF Around
  <2> QED
    BY <2>2, BestExists
<1>5. Resolve(lines, anchor) =
        IF p.text = Blank \/ Norm[lines[at].text] = Norm[p.text] THEN at
        ELSE IF Alike(p.text, lines[best].text) >= 1 THEN best ELSE 0
  BY <1>1 DEF Resolve
<1> DEFINE kept == Norm[p.text] = Norm[anchor.text]
           sole(j) == \A h \in DOMAIN lines : Norm[lines[h].text] = Norm[anchor.text] => h = j
           found == Resolve(lines, anchor)
<1> HIDE DEF at, best
<1>6. ASSUME NEW j \in DOMAIN lines, lines[j].id = anchor.id
      PROVE  lines[j].text = anchor.text
  <2>1. lines[j] \in RightLine
    BY <1>6, ElementOfSeq, LenProperties
  <2> QED
    BY <1>6, <2>1 DEF RightLine, RightAnchor
<1>7. ASSUME p.text # Blank
      PROVE  /\ Alike(p.text, lines[found].text) >= 1
             /\ \A j \in Around(lines, at) :
                  lines[j].id = anchor.id /\ kept /\ sole(j) => found = j
  <2>1. CASE Norm[lines[at].text] = Norm[p.text]
    <3>1. found = at /\ Alike(p.text, lines[at].text) = 2
      BY <1>5, <2>1 DEF Alike
    <3> QED
      BY <1>3, <2>1, <3>1
  <2>2. CASE Norm[lines[at].text] # Norm[p.text]
    <3>1. found = best /\ Alike(p.text, lines[best].text) >= 1
      BY <1>5, <1>7, <2>2
    <3>2. ASSUME NEW j \in Around(lines, at), lines[j].id = anchor.id, kept, sole(j)
          PROVE  best = j
      <4>1. Alike(p.text, lines[j].text) = 2
        BY <1>4, <1>6, <3>2 DEF Alike
      <4>2. 2 <= Alike(p.text, lines[best].text)
        BY <1>4, <3>2, <4>1
      <4>3. Norm[lines[best].text] = Norm[anchor.text]
        BY <3>2, <4>2 DEF Alike
      <4> QED
        BY <1>4, <3>2, <4>3
    <3> QED
      BY <3>1, <3>2
  <2> QED
    BY <2>1, <2>2
<1>8. found \in DOMAIN lines
  BY <1>3, <1>4, <1>5
<1>9. Lands(lines, found, anchor)
  BY <1>7 DEF Lands, at
<1> QED
  BY <1>8, <1>9

\* An agent sends one edit or two, with anchors it saw.
LEMMA EditsSeen ==
  ASSUME NEW lines \in Seq(RightLine), NEW a, NEW list \in EditLists(a, lines)
  PROVE  /\ DOMAIN list \subseteq {1, 2}
         /\ \A k \in DOMAIN list : RightEdit(list[k])
<1>1. ASSUME NEW anchor \in AnchorsOf(lines)
      PROVE  RightAnchor(anchor)
  <2>1. PICK i \in DOMAIN lines, b \in BOOLEAN :
          anchor = [hash |-> AnchorAt(lines, i).hash, nth |-> AnchorAt(lines, i).nth,
                    text |-> lines[i].text, id |-> lines[i].id, bare |-> b]
    BY DEF AnchorsOf
  <2>2. lines[i] \in RightLine
    BY ElementOfSeq, LenProperties
  <2> QED
    BY <2>1, <2>2 DEF RightAnchor, RightLine
<1>2. ASSUME NEW e \in EditsOf(lines), Bare(e) \/ Full(e)
      PROVE  RightEdit(e)
  <2>1. CASE \E s \in AnchorsOf(lines), d \in AnchorsOf(lines), t \in {NewText, Blank} :
               e = [kind |-> "replace", start |-> s, end |-> d, text |-> t]
    BY <1>1, <1>2, <2>1 DEF RightEdit, Bare, Full
  <2>2. CASE \E k \in {"before", "after"}, s \in AnchorsOf(lines) :
               e = [kind |-> k, start |-> s, end |-> s, text |-> NewText]
    BY <1>1, <1>2, <2>2 DEF RightEdit, Bare, Full
  <2> QED
    BY <2>1, <2>2 DEF EditsOf
<1>3. CASE \E e \in EditsOf(lines) : (Bare(e) \/ Full(e)) /\ list = <<e>>
  BY <1>2, <1>3
<1>4. CASE \E e, f \in EditsOf(lines) : Full(e) /\ Full(f) /\ list = <<e, f>>
  <2>1. PICK e \in EditsOf(lines), f \in EditsOf(lines) : Full(e) /\ Full(f) /\ list = <<e, f>>
    BY <1>4
  <2>2. RightEdit(e) /\ RightEdit(f)
    BY <1>2, <2>1
  <2>3. DOMAIN list = {1, 2} /\ list[1] = e /\ list[2] = f
    BY <2>1
  <2> QED
    BY <2>2, <2>3
<1>5. \/ \E e \in EditsOf(lines) : (Bare(e) \/ Full(e)) /\ list = <<e>>
      \/ \E e, f \in EditsOf(lines) : Full(e) /\ Full(f) /\ list = <<e, f>>
  BY DEF EditLists
<1> QED
  BY <1>3, <1>4, <1>5

\* What is resolved is in the file, and its anchors landed; there are two at most.
LEMMA ResolvedInRange ==
  ASSUME NEW lines \in Seq(RightLine), NEW list, DOMAIN list \subseteq {1, 2},
         \A k \in DOMAIN list : RightEdit(list[k]), EditAssumption
  PROVE  \/ Resolved(lines, list) = <<>>
         \/ \E r : /\ Resolved(lines, list) = <<r>>
                   /\ InRange(Len(lines), r) /\ Holds(lines, r)
         \/ \E r, s : /\ Resolved(lines, list) = <<r, s>>
                      /\ InRange(Len(lines), r) /\ Holds(lines, r)
                      /\ InRange(Len(lines), s) /\ Holds(lines, s)
<1> DEFINE At(e) == [kind |-> e.kind, text |-> e.text, asked |-> <<e.start, e.end>>,
                     from |-> Resolve(lines, e.start),
                     to   |-> IF e.kind = "replace" THEN Resolve(lines, e.end)
                              ELSE Resolve(lines, e.start)]
           Good(r) == r.from > 0 /\ r.to >= r.from
           Of(k) == LET r == At(list[k]) IN
                    IF k \in DOMAIN list /\ Good(r) THEN <<r>> ELSE <<>>
<1>1. Resolved(lines, list) = Of(1) \o Of(2)
  BY DEF Resolved
<1>2. DOMAIN lines = 1 .. Len(lines) /\ Len(lines) \in Nat
  BY LenProperties
<1>3. ASSUME NEW anchor, RightAnchor(anchor)
      PROVE  /\ Resolve(lines, anchor) \in 0 .. Len(lines)
             /\ Resolve(lines, anchor) # 0 =>
                  Lands(lines, Resolve(lines, anchor), anchor)
  BY <1>2, <1>3, AnchorLands
<1>4. ASSUME NEW e, RightEdit(e), Good(At(e))
      PROVE  InRange(Len(lines), At(e)) /\ Holds(lines, At(e))
  <2> DEFINE r == At(e)
  <2>1. /\ r.kind = e.kind /\ r.text = e.text /\ r.asked[1] = e.start /\ r.asked[2] = e.end
        /\ r.from = Resolve(lines, e.start)
        /\ r.to = IF e.kind = "replace" THEN Resolve(lines, e.end) ELSE Resolve(lines, e.start)
    OBVIOUS
  <2>2. r.from > 0 /\ r.to >= r.from
    BY <1>4
  <2>3. /\ RightAnchor(e.start) /\ RightAnchor(e.end) /\ (~e.start.bare => ~e.end.bare)
        /\ e.kind # "replace" => e.end = e.start
        /\ e.kind \in {"replace", "before", "after"} /\ e.text \in {NewText, Blank}
    BY <1>4 DEF RightEdit
  <2> HIDE DEF r
  <2>4. r.to = Resolve(lines, e.end)
    BY <2>1, <2>3
  <2>5. r.from \in 0 .. Len(lines) /\ r.to \in 0 .. Len(lines)
    BY <1>3, <2>1, <2>3, <2>4
  <2>6. InRange(Len(lines), r)
    BY <1>2, <2>1, <2>2, <2>3, <2>5 DEF InRange
  <2>7. Holds(lines, r)
    <3>1. ASSUME ~e.start.bare
          PROVE  Lands(lines, r.from, e.start) /\ Lands(lines, r.to, e.end)
      <4>1. r.from # 0 /\ r.to # 0
        BY <2>2, <2>5
      <4> QED
        BY <1>3, <2>1, <2>3, <2>4, <3>1, <4>1
    <3> QED
      BY <2>1, <3>1 DEF Holds
  <2> QED
    BY <2>6, <2>7 DEF r
<1> HIDE DEF At, Good
<1>5. ASSUME NEW k
      PROVE  Of(k) = <<>> \/ \E r : Of(k) = <<r>> /\ InRange(Len(lines), r) /\ Holds(lines, r)
  <2>1. CASE k \in DOMAIN list /\ Good(At(list[k]))
    BY <1>4, <2>1
  <2>2. CASE ~(k \in DOMAIN list /\ Good(At(list[k])))
    BY <2>2
  <2> QED
    BY <2>1, <2>2
<1> HIDE DEF Of
<1>6. ASSUME NEW r, NEW s
      PROVE  <<r>> \o <<s>> = <<r, s>> /\ <<r>> \o <<>> = <<r>> /\ <<>> \o <<s>> = <<s>>
             /\ <<>> \o <<>> = <<>>
  <2>1. <<r>> \in Seq({r, s}) /\ <<s>> \in Seq({r, s}) /\ <<>> \in Seq({r, s})
    OBVIOUS
  <2>2. <<r>> \o <<>> = <<r>> /\ <<>> \o <<s>> = <<s>> /\ <<>> \o <<>> = <<>>
    BY <2>1, ConcatEmptySeq
  <2>3. <<r>> \o <<s>> = <<r, s>>
    <3>1. /\ <<r>> \o <<s>> \in Seq({r, s}) /\ Len(<<r>> \o <<s>>) = 2
          /\ \A i \in 1 .. 2 : (<<r>> \o <<s>>)[i] = IF i <= 1 THEN <<r>>[i] ELSE <<s>>[i - 1]
      <4>1. Len(<<r>>) = 1 /\ Len(<<s>>) = 1
        OBVIOUS
      <4> QED
        BY <2>1, <4>1, ConcatProperties
    <3>2. /\ <<r, s>> \in Seq({r, s}) /\ Len(<<r, s>>) = 2
          /\ <<r, s>>[1] = r /\ <<r, s>>[2] = s
      OBVIOUS
    <3>3. \A i \in 1 .. 2 : (<<r>> \o <<s>>)[i] = <<r, s>>[i]
      <4>1. (<<r>> \o <<s>>)[1] = r /\ (<<r>> \o <<s>>)[2] = s
        BY <3>1
      <4>2. \A i \in 1 .. 2 : i = 1 \/ i = 2
        OBVIOUS
      <4> QED
        BY <3>2, <4>1, <4>2
    <3> DEFINE a == <<r>> \o <<s>>
               b == <<r, s>>
    <3>4. /\ a \in Seq({r, s}) /\ b \in Seq({r, s}) /\ Len(a) = 2 /\ Len(b) = 2
          /\ \A i \in 1 .. 2 : a[i] = b[i]
      BY <3>1, <3>2, <3>3
    <3> HIDE DEF a, b
    <3>5. a = b
      BY <3>4, SeqEqual
    <3> QED
      BY <3>5 DEF a, b
  <2> QED
    BY <2>2, <2>3
<1>7. CASE Of(1) = <<>>
  <2>1. CASE Of(2) = <<>>
    BY <1>1, <1>6, <1>7, <2>1
  <2>2. CASE \E s : Of(2) = <<s>> /\ InRange(Len(lines), s) /\ Holds(lines, s)
    BY <1>1, <1>6, <1>7, <2>2
  <2> QED
    BY <1>5, <2>1, <2>2
<1>8. CASE \E r : Of(1) = <<r>> /\ InRange(Len(lines), r) /\ Holds(lines, r)
  <2>1. PICK r : Of(1) = <<r>> /\ InRange(Len(lines), r) /\ Holds(lines, r)
    BY <1>8
  <2>2. CASE Of(2) = <<>>
    BY <1>1, <1>6, <2>1, <2>2
  <2>3. CASE \E s : Of(2) = <<s>> /\ InRange(Len(lines), s) /\ Holds(lines, s)
    BY <1>1, <1>6, <2>1, <2>3
  <2> QED
    BY <1>5, <2>2, <2>3
<1> QED
  BY <1>5, <1>7, <1>8

\* What a splice leaves, and how long it is.
LEMMA SpliceGrows ==
  ASSUME NEW lines \in Seq(RightLine), NEW r, r.kind \in {"replace", "before", "after"},
         r.from \in Nat \ {0}, r.to \in Nat, r.from <= r.to, ~Overlong(lines, r),
         NEW new \in Seq(RightLine)
  PROVE  /\ Splice(lines, r, new) \in Seq(RightLine)
         /\ Len(Splice(lines, r, new)) = Len(lines) + Len(new) - Removed(r)
         /\ Removed(r) \in Nat
<1> DEFINE at == SpliceAt(r)
           gone == Removed(r)
           a == SubSeq(lines, 1, at - 1)
           b == SubSeq(lines, at + gone, Len(lines))
<1>1. Len(lines) \in Nat /\ \A i \in 1 .. Len(lines) : lines[i] \in RightLine
  BY LenProperties, ElementOfSeq
<1>2. at \in Nat /\ at >= 1 /\ gone \in Nat
  BY DEF SpliceAt, Removed
<1>3. at + gone - 1 <= Len(lines)
  BY <1>1, <1>2 DEF Overlong
<1> HIDE DEF at, gone
<1>4. a \in Seq(RightLine) /\ Len(a) = at - 1
  <2>1. \A i \in 1 .. at - 1 : lines[i] \in RightLine
    BY <1>1, <1>2, <1>3
  <2>2. a \in Seq(RightLine) /\ Len(a) = IF 1 <= at - 1 THEN (at - 1) - 1 + 1 ELSE 0
    BY <1>2, <2>1, SubSeqProperties
  <2> HIDE DEF a
  <2> QED
    BY <1>2, <2>2
<1>5. b \in Seq(RightLine) /\ Len(b) = Len(lines) - at - gone + 1
  <2>1. \A i \in at + gone .. Len(lines) : lines[i] \in RightLine
    BY <1>1, <1>2
  <2>2. b \in Seq(RightLine)
        /\ Len(b) = IF at + gone <= Len(lines) THEN Len(lines) - (at + gone) + 1 ELSE 0
    BY <1>1, <1>2, <2>1, SubSeqProperties
  <2> HIDE DEF b
  <2> QED
    BY <1>1, <1>2, <1>3, <2>2
<1>6. Splice(lines, r, new) = a \o new \o b
  BY DEF Splice, at, gone, a, b
<1> HIDE DEF a, b
<1>7. a \o new \in Seq(RightLine) /\ Len(a \o new) = Len(a) + Len(new)
  BY <1>4, ConcatProperties
<1>8. (a \o new) \o b \in Seq(RightLine) /\ Len((a \o new) \o b) = Len(a \o new) + Len(b)
  BY <1>5, <1>7, ConcatProperties
<1>9. Len(new) \in Nat
  BY LenProperties
<1> QED
  BY <1>1, <1>2, <1>4, <1>5, <1>6, <1>7, <1>8, <1>9, SMTT(40) DEF gone

\* The last line an edit takes out, or the line it stands at.
LastLine(r) == IF r.kind = "replace" THEN r.to ELSE r.from

\* Separate edits stand one above the other.
LEMMA ApartOrder ==
  ASSUME NEW n \in Nat, NEW r, NEW s, InRange(n, r), InRange(n, s), Apart(r, s),
         r.from <= s.from
  PROVE  LastLine(r) < s.from
<1>1. /\ r.from \in Nat /\ r.to \in Nat /\ s.from \in Nat /\ s.to \in Nat
      /\ r.from <= r.to /\ s.from <= s.to
  BY DEF InRange
<1>2. s.from \in Cut(s) \cup Kept(s)
  BY <1>1 DEF Cut, Kept
<1>3. s.from \notin Cut(r) \cup Kept(r)
  BY <1>2 DEF Apart
<1> QED
  BY <1>1, <1>3 DEF Cut, Kept, LastLine

\* What is left of a length when something no longer than a stretch is taken from it.
LEMMA LessTaken ==
  ASSUME NEW brought \in {0, 1}, NEW taken \in Nat, NEW first \in Int, NEW last \in Int,
         taken <= last - first + 1, NEW growth, growth = brought - taken
  PROVE  growth \in Int /\ growth >= first - last - 1 /\ growth + taken = brought
  OBVIOUS

\* By how much an edit makes the file longer.
LEMMA GrowthBounds ==
  ASSUME NEW n \in Nat, NEW r, InRange(n, r)
  PROVE  /\ LastLine(r) \in Int /\ r.from \in Int /\ 1 <= r.from /\ r.from <= LastLine(r) /\ LastLine(r) <= n
         /\ Grown(r) \in Int /\ Grown(r) >= r.from - LastLine(r) - 1
         /\ \A k : Len(Fresh(k, r)) = Grown(r) + Removed(r)
         /\ Len(Fresh(0, r)) \in {0, 1} /\ Removed(r) \in Nat
         /\ SpliceAt(r) + Removed(r) <= LastLine(r) + 1 /\ SpliceAt(r) \in Int
<1>1. /\ r.from \in 1 .. n /\ r.to \in 1 .. n /\ r.from <= r.to
      /\ r.from \in Nat /\ r.to \in Nat
  BY DEF InRange
<1>2. LastLine(r) \in r.from .. n
  BY <1>1 DEF LastLine
<1>3. \A k : Len(Fresh(k, r)) = IF r.text = Blank THEN 0 ELSE 1
  BY DEF Fresh
<1>4. /\ Removed(r) \in Nat /\ Removed(r) <= LastLine(r) - r.from + 1
      /\ SpliceAt(r) + Removed(r) <= LastLine(r) + 1 /\ SpliceAt(r) \in Int
  BY <1>1 DEF Removed, LastLine, SpliceAt
<1>5. Len(Fresh(0, r)) \in {0, 1} /\ Grown(r) = Len(Fresh(0, r)) - Removed(r)
  BY <1>3 DEF Grown
<1>6. /\ Grown(r) \in Int /\ Grown(r) >= r.from - LastLine(r) - 1
      /\ Grown(r) + Removed(r) = Len(Fresh(0, r))
  <2>1. LastLine(r) \in Int /\ r.from \in Int
    BY <1>1, <1>2
  <2> QED
    BY <2>1, <1>4, <1>5, LessTaken
<1>7. \A k : Len(Fresh(k, r)) = Len(Fresh(0, r))
  BY <1>3
<1> QED
  BY <1>1, <1>2, <1>4, <1>5, <1>6, <1>7

\* The lines an edit brings in.
LEMMA FreshRight ==
  ASSUME EditAssumption, NEW n \in Nat, n > Len(FirstLines), NEW r, r.text \in {NewText, Blank}
  PROVE  Fresh(n, r) \in Seq(RightLine)
<1>1. r.text # Blank => Line(n, r.text) \in RightLine
  BY NewLines
<1> QED
  BY <1>1 DEF Fresh

\* One edit is spliced in; a second one that stands above it fits as well.
LEMMA OneSplice ==
  ASSUME EditAssumption, NEW n \in Nat, n > Len(FirstLines), NEW lines \in Seq(RightLine),
         NEW top, NEW r, InRange(top, r), ~Overlong(lines, r)
  PROVE  /\ Splice(lines, r, Fresh(n, r)) \in Seq(RightLine)
         /\ Len(Splice(lines, r, Fresh(n, r))) = Len(lines) + Grown(r)
<1>1. /\ r.kind \in {"replace", "before", "after"} /\ r.from \in Nat \ {0} /\ r.to \in Nat
      /\ r.from <= r.to /\ r.text \in {NewText, Blank}
  BY DEF InRange
<1>2. Fresh(n, r) \in Seq(RightLine)
  BY <1>1, FreshRight
<1>3. Len(Fresh(n, r)) = Len(Fresh(0, r)) /\ Len(Fresh(n, r)) \in Nat
  BY DEF Fresh
<1>4. /\ Splice(lines, r, Fresh(n, r)) \in Seq(RightLine)
      /\ Len(Splice(lines, r, Fresh(n, r))) = Len(lines) + Len(Fresh(n, r)) - Removed(r)
      /\ Removed(r) \in Nat
  BY <1>1, <1>2, SpliceGrows
<1>5. Len(lines) \in Nat
  BY LenProperties
<1> QED
  BY <1>3, <1>4, <1>5 DEF Grown

-----------------------------------------------------------------------------
(* What separate edits mean, and what splicing them from the bottom up     *)
(* makes of a file.                                                        *)

\* Induction over the numbers up to n, for a set of them.
LEMMA UpTo ==
  ASSUME NEW n \in Nat, NEW S, 0 \in S, \A i \in 1 .. n : i - 1 \in S => i \in S
  PROVE  \A i \in 0 .. n : i \in S
<1> DEFINE Out == {i \in 0 .. n : i \notin S}
<1> SUFFICES ASSUME Out # {} PROVE FALSE
  OBVIOUS
<1>1. PICK i \in Out : \A j \in Out : i <= j
  <2>1. Out \in SUBSET Nat
    OBVIOUS
  <2> HIDE DEF Out
  <2> QED
    BY <2>1, LeastNatural
<1>2. i \in 1 .. n /\ i - 1 \notin Out /\ i - 1 \in 0 .. n
  BY <1>1
<1> QED
  BY <1>1, <1>2

\* One sequence after another; the facts about it are cited by name.
Cat(s, t) == s \o t

LEMMA CatFacts ==
  ASSUME NEW S, NEW s \in Seq(S), NEW t \in Seq(S)
  PROVE  /\ Cat(s, t) \in Seq(S) /\ Len(Cat(s, t)) = Len(s) + Len(t)
         /\ \A i \in 1 .. Len(s) + Len(t) : Cat(s, t)[i] = IF i <= Len(s) THEN s[i] ELSE t[i - Len(s)]
         /\ Cat(s, <<>>) = s /\ Cat(<<>>, s) = s
BY ConcatProperties, ConcatEmptySeq DEF Cat

LEMMA CatThree ==
  ASSUME NEW S, NEW s \in Seq(S), NEW t \in Seq(S), NEW u \in Seq(S)
  PROVE  Cat(Cat(s, t), u) = Cat(s, Cat(t, u))
BY ConcatAssociative DEF Cat

LEMMA CatParts ==
  ASSUME NEW S, NEW s \in Seq(S), NEW m \in 1 .. Len(s) + 1, NEW k \in m - 1 .. Len(s), NEW n \in k .. Len(s)
  PROVE  Cat(SubSeq(s, m, k), SubSeq(s, k + 1, n)) = SubSeq(s, m, n)
BY ConcatAdjacentSubSeq DEF Cat

LEMMA CatOne ==
  ASSUME NEW S, NEW s \in Seq(S), NEW m \in 1 .. Len(s), NEW n \in m .. Len(s)
  PROVE  /\ SubSeq(s, m, n) = Cat(<<s[m]>>, SubSeq(s, m + 1, n))
         /\ SubSeq(s, m, n) = Cat(SubSeq(s, m, n - 1), <<s[n]>>)
BY SubSeqRecursiveFirst, SubSeqRecursiveSecond DEF Cat

\* The sequences of g put together, one after the other.
Joins(g, n, f) == f[0] = <<>> /\ \A i \in 1 .. n : f[i] = Cat(f[i - 1], g[i])

LEMMA JoinsExist ==
  ASSUME NEW V, NEW n \in Nat, NEW g, \A i \in 1 .. n : g[i] \in Seq(V)
  PROVE  \E f \in [0 .. n -> Seq(V)] : Joins(g, n, f)
<1> DEFINE Partly == {m \in 0 .. n : \E f \in [0 .. m -> Seq(V)] : Joins(g, m, f)}
<1>1. 0 \in Partly
  <2> DEFINE f == [k \in 0 .. 0 |-> <<>>]
  <2>1. f \in [0 .. 0 -> Seq(V)] /\ Joins(g, 0, f)
    BY DEF Joins
  <2> HIDE DEF f
  <2> QED
    BY <2>1
<1>2. ASSUME NEW m \in 1 .. n, m - 1 \in Partly
      PROVE  m \in Partly
  <2>1. PICK h \in [0 .. m - 1 -> Seq(V)] : Joins(g, m - 1, h)
    BY <1>2
  <2> DEFINE w == Cat(h[m - 1], g[m])
             f == [j \in 0 .. m |-> IF j = m THEN w ELSE h[j]]
  <2>2. w \in Seq(V)
    <3>1. h[m - 1] \in Seq(V) /\ g[m] \in Seq(V)
      BY <2>1
    <3> QED
      BY <3>1, CatFacts
  <2>3. f \in [0 .. m -> Seq(V)]
    <3> HIDE DEF w
    <3> QED
      BY <2>1, <2>2
  <2>4. f[0] = <<>>
    <3>1. f[0] = h[0]
      <4> HIDE DEF w
      <4> QED
        OBVIOUS
    <3> HIDE DEF f
    <3> QED
      BY <2>1, <3>1 DEF Joins
  <2>5. ASSUME NEW k \in 1 .. m
        PROVE  f[k] = Cat(f[k - 1], g[k])
    <3>1. f[k - 1] = h[k - 1]
      <4>1. k - 1 \in 0 .. m /\ k - 1 # m
        OBVIOUS
      <4> HIDE DEF w
      <4> QED
        BY <4>1
    <3>2. CASE k = m
      <4>1. f[m] = w
        OBVIOUS
      <4> HIDE DEF f
      <4> QED
        BY <3>1, <3>2, <4>1
    <3>3. CASE k # m
      <4>1. k \in 1 .. m - 1 /\ f[k] = h[k]
        BY <3>3
      <4> HIDE DEF f
      <4> QED
        BY <2>1, <3>1, <4>1 DEF Joins
    <3> QED
      BY <3>2, <3>3
  <2> HIDE DEF f
  <2>6. Joins(g, m, f)
    BY <2>4, <2>5 DEF Joins
  <2> QED
    BY <2>3, <2>6
<1> HIDE DEF Partly
<1>3. n \in Partly
  <2>1. \A m \in 0 .. n : m \in Partly
    BY <1>1, <1>2, UpTo
  <2> QED
    BY <2>1
<1> QED
  BY <1>3 DEF Partly

\* What the community module makes of them.
LEMMA FlattenJoins ==
  ASSUME NEW V, NEW n \in Nat \ {0}, NEW g \in [1 .. n -> Seq(V)]
  PROVE  \E f \in [0 .. n -> Seq(V)] : Joins(g, n, f) /\ FlattenSeq(g) = f[n]
<1> DEFINE Body(h, i) == IF i = 1 THEN g[i] ELSE Cat(h[i - 1], g[i])
<1>1. Len(g) = n
  <2>1. g \in Seq(Seq(V)) /\ DOMAIN g = 1 .. n
    OBVIOUS
  <2>2. Len(g) \in Nat /\ DOMAIN g = 1 .. Len(g)
    BY <2>1, LenProperties
  <2> QED
    BY <2>1, <2>2
<1>2. PICK f \in [0 .. n -> Seq(V)] : Joins(g, n, f)
  BY JoinsExist
<1>3. f[1] = g[1]
  <2>1. f[1] = Cat(f[0], g[1]) /\ f[0] = <<>> /\ g[1] \in Seq(V)
    BY <1>2 DEF Joins
  <2> QED
    BY <2>1, CatFacts
<1>4. ASSUME NEW i \in 1 .. n
      PROVE  f[i] = Body(f, i)
  <2>1. f[i] = Cat(f[i - 1], g[i])
    BY <1>2 DEF Joins
  <2>2. CASE i = 1
    BY <1>3, <2>2
  <2>3. CASE i # 1
    BY <2>1, <2>3
  <2> QED
    BY <2>2, <2>3
<1> DEFINE h == [i \in 1 .. n |-> f[i]]
<1>5. h = [i \in 1 .. n |-> Body(h, i)]
  <2>1. ASSUME NEW i \in 1 .. n
        PROVE  f[i] = Body(h, i)
    BY <1>4
  <2> HIDE DEF Body
  <2> QED
    BY <2>1
<1>6. PICK u : u = [i \in 1 .. n |-> Body(u, i)] /\ FlattenSeq(g) = u[n]
  <2> HIDE DEF h
  <2> QED
    BY <1>1, <1>5 DEF FlattenSeq, Cat
<1>7. \A i \in 0 .. n : i = 0 \/ u[i] = f[i]
  <2> DEFINE S == {i \in 0 .. n : i = 0 \/ u[i] = f[i]}
  <2>1. 0 \in S
    OBVIOUS
  <2>2. ASSUME NEW i \in 1 .. n, i - 1 \in S
        PROVE  i \in S
    <3>1. u[i] = Body(u, i)
      <4> HIDE DEF Body
      <4> QED
        BY <1>6
    <3>2. CASE i = 1
      BY <1>3, <3>1, <3>2
    <3>3. CASE i # 1
      <4>1. u[i - 1] = f[i - 1]
        BY <2>2, <3>3
      <4>2. f[i] = Cat(f[i - 1], g[i])
        BY <1>2 DEF Joins
      <4>3. u[i] = Cat(u[i - 1], g[i])
        BY <3>1, <3>3
      <4>4. u[i] = f[i]
        BY <4>1, <4>2, <4>3
      <4> QED
        BY <4>4
    <3> QED
      BY <3>2, <3>3
  <2> HIDE DEF S
  <2>3. \A i \in 0 .. n : i \in S
    BY <2>1, <2>2, UpTo
  <2> QED
    BY <2>3 DEF S
<1>8. u[n] = f[n]
  BY <1>7
<1> QED
  BY <1>2, <1>6, <1>8

\* Stretches whose pieces are the lines themselves, and whose pieces are empty.
Verbatim(g, T, a, b) == \A i \in a + 1 .. b : g[i] = <<T[i]>>
Quiet(g, a, b) == \A i \in a + 1 .. b : g[i] = <<>>
Joined(V, n, g, f, T) ==
  n \in Nat /\ f \in [0 .. n -> Seq(V)] /\ T \in Seq(V) /\ Len(T) = n /\ Joins(g, n, f)

LEMMA JoinLines ==
  ASSUME NEW V, NEW n, NEW g, NEW f, NEW T, Joined(V, n, g, f, T),
         NEW a, a \in 0 .. n, NEW b, b \in a .. n, Verbatim(g, T, a, b)
  PROVE  f[b] = Cat(f[a], SubSeq(T, a + 1, b))
<1> USE DEF Joined
<1> DEFINE Good(p) == f[p] = Cat(f[a], SubSeq(T, a + 1, p))
           S == {k \in 0 .. b - a : Good(a + k)}
<1>1. f[a] \in Seq(V)
  BY DEF Joined
<1>2. Good(a)
  <2>1. SubSeq(T, a + 1, a) = <<>>
    BY SubSeqEmpty
  <2>2. Cat(f[a], <<>>) = f[a]
    BY <1>1, CatFacts
  <2> QED
    BY <2>1, <2>2
<1>3. ASSUME NEW q \in a + 1 .. b, Good(q - 1)
      PROVE  Good(q)
  <2> DEFINE s == SubSeq(T, a + 1, q - 1)
             x == <<T[q]>>
  <2>1. q \in 1 .. n /\ a + 1 \in 1 .. Len(T) /\ q \in a + 1 .. Len(T) /\ a + 1 \in Int /\ q - 1 \in Int
    OBVIOUS
  <2>2. f[q] = Cat(f[q - 1], x)
    <3>1. g[q] = x
      BY DEF Verbatim
    <3>2. f[q] = Cat(f[q - 1], g[q])
      BY <2>1 DEF Joins
    <3> HIDE DEF x
    <3> QED
      BY <3>1, <3>2
  <2>3. f[q - 1] = Cat(f[a], s)
    BY <1>3
  <2>4. s \in Seq(V) /\ x \in Seq(V)
    <3>1. \A i \in a + 1 .. q - 1 : T[i] \in V
      <4>1. \A i \in 1 .. Len(T) : T[i] \in V
        BY ElementOfSeq
      <4> QED
        BY <4>1
    <3>2. T[q] \in V
      BY <2>1, ElementOfSeq
    <3>3. s \in Seq(V)
      BY <2>1, <3>1, SubSeqProperties
    <3> HIDE DEF s
    <3> QED
      BY <3>2, <3>3
  <2>5. SubSeq(T, a + 1, q) = Cat(s, x)
    BY <2>1, CatOne
  <2> HIDE DEF s, x
  <2>6. Cat(Cat(f[a], s), x) = Cat(f[a], Cat(s, x))
    BY <1>1, <2>4, CatThree
  <2> QED
    BY <2>2, <2>3, <2>5, <2>6
<1> HIDE DEF Good
<1>4. 0 \in S
  BY <1>2
<1>5. ASSUME NEW k \in 1 .. b - a, k - 1 \in S
      PROVE  k \in S
  <2>1. a + k \in a + 1 .. b /\ (a + k) - 1 = a + (k - 1)
    OBVIOUS
  <2>2. Good((a + k) - 1)
    BY <1>5, <2>1
  <2> QED
    BY <1>3, <2>1, <2>2
<1> HIDE DEF S
<1>6. b - a \in S
  <2>1. b - a \in Nat
    OBVIOUS
  <2>2. \A k \in 0 .. b - a : k \in S
    BY <1>4, <1>5, <2>1, UpTo
  <2> QED
    BY <2>1, <2>2
<1>7. a + (b - a) = b
  OBVIOUS
<1> QED
  BY <1>6, <1>7 DEF S, Good

LEMMA JoinNothing ==
  ASSUME NEW V, NEW n, NEW g, NEW f, NEW T, Joined(V, n, g, f, T),
         NEW a, a \in 0 .. n, NEW b, b \in a .. n, Quiet(g, a, b)
  PROVE  f[b] = f[a]
<1> USE DEF Joined
<1> DEFINE S == {k \in 0 .. b - a : f[a + k] = f[a]}
<1>1. 0 \in S
  OBVIOUS
<1>2. ASSUME NEW k \in 1 .. b - a, k - 1 \in S
      PROVE  k \in S
  <2>1. /\ a + k \in 1 .. n /\ a + k \in a + 1 .. b /\ a + k - 1 = a + (k - 1)
        /\ a + k - 1 \in 0 .. n
    OBVIOUS
  <2>2. f[a + k] = Cat(f[a + k - 1], <<>>)
    <3>1. f[a + k] = Cat(f[a + k - 1], g[a + k])
      BY <2>1 DEF Joins
    <3> QED
      BY <2>1, <3>1 DEF Quiet
  <2>3. f[a + k - 1] \in Seq(V) /\ f[a + k - 1] = f[a]
    BY <1>2, <2>1
  <2> QED
    BY <2>2, <2>3, CatFacts
<1> HIDE DEF S
<1>3. b - a \in S
  <2>1. b - a \in Nat
    OBVIOUS
  <2>2. \A k \in 0 .. b - a : k \in S
    BY <1>1, <1>2, <2>1, UpTo
  <2> QED
    BY <2>1, <2>2
<1> QED
  <2>1. a + (b - a) = b
    OBVIOUS
  <2> QED
    BY <1>3, <2>1 DEF S

\* The texts of lines.
LEMMA TextsAre ==
  ASSUME NEW s \in Seq(RightLine)
  PROVE  /\ TextsOf(s) \in Seq(LineText) /\ Len(TextsOf(s)) = Len(s) /\ Len(s) \in Nat
         /\ \A i \in 1 .. Len(s) : TextsOf(s)[i] = s[i].text
<1>1. Len(s) \in Nat /\ DOMAIN s = 1 .. Len(s) /\ \A i \in 1 .. Len(s) : s[i] \in RightLine
  BY LenProperties, ElementOfSeq
<1>2. \A i \in 1 .. Len(s) : s[i].text \in LineText
  BY <1>1 DEF RightLine
<1>3. TextsOf(s) = [i \in 1 .. Len(s) |-> s[i].text]
  BY <1>1 DEF TextsOf
<1>4. TextsOf(s) \in Seq(LineText)
  BY <1>1, <1>2, <1>3
<1>5. Len(TextsOf(s)) = Len(s)
  BY <1>1, <1>3
<1> QED
  BY <1>1, <1>3, <1>4, <1>5

LEMMA TextsOfCat ==
  ASSUME NEW s \in Seq(RightLine), NEW t \in Seq(RightLine)
  PROVE  TextsOf(s \o t) = Cat(TextsOf(s), TextsOf(t))
<1>1. s \o t = Cat(s, t)
  BY DEF Cat
<1> DEFINE w == Cat(s, t)
<1>2. /\ w \in Seq(RightLine) /\ Len(w) = Len(s) + Len(t)
      /\ \A i \in 1 .. Len(s) + Len(t) : w[i] = IF i <= Len(s) THEN s[i] ELSE t[i - Len(s)]
  BY CatFacts
<1> DEFINE a == TextsOf(s)
           b == TextsOf(t)
           c == TextsOf(w)
<1>3. /\ a \in Seq(LineText) /\ Len(a) = Len(s) /\ Len(s) \in Nat
      /\ \A i \in 1 .. Len(s) : a[i] = s[i].text
  BY TextsAre
<1>4. /\ b \in Seq(LineText) /\ Len(b) = Len(t) /\ Len(t) \in Nat
      /\ \A i \in 1 .. Len(t) : b[i] = t[i].text
  BY TextsAre
<1>5. /\ c \in Seq(LineText) /\ Len(c) = Len(w)
      /\ \A i \in 1 .. Len(w) : c[i] = w[i].text
  BY <1>2, TextsAre
<1> HIDE DEF a, b, c, w
<1>6. /\ Cat(a, b) \in Seq(LineText) /\ Len(Cat(a, b)) = Len(a) + Len(b)
      /\ \A i \in 1 .. Len(a) + Len(b) : Cat(a, b)[i] = IF i <= Len(a) THEN a[i] ELSE b[i - Len(a)]
  <2>1. a \in Seq(LineText) /\ b \in Seq(LineText)
    BY <1>3, <1>4
  <2> QED
    BY <2>1, CatFacts
<1>7. \A i \in 1 .. Len(c) : c[i] = Cat(a, b)[i]
  <2> TAKE i \in 1 .. Len(c)
  <2>1. /\ i \in 1 .. Len(s) + Len(t) /\ i \in 1 .. Len(a) + Len(b) /\ i \in 1 .. Len(w)
        /\ c[i] = w[i].text
    BY <1>2, <1>3, <1>4, <1>5
  <2>2. CASE i <= Len(s)
    <3>1. w[i] = s[i] /\ Cat(a, b)[i] = a[i] /\ i \in 1 .. Len(s)
      BY <1>2, <1>3, <1>6, <2>1, <2>2
    <3> QED
      BY <1>3, <2>1, <3>1
  <2>3. CASE ~(i <= Len(s))
    <3>1. w[i] = t[i - Len(s)] /\ Cat(a, b)[i] = b[i - Len(s)] /\ i - Len(s) \in 1 .. Len(t)
      BY <1>2, <1>3, <1>4, <1>6, <2>1, <2>3
    <3> QED
      BY <1>4, <2>1, <3>1
  <2> QED
    BY <2>2, <2>3
<1>8. c = Cat(a, b)
  BY <1>2, <1>3, <1>4, <1>5, <1>6, <1>7, SeqEqual
<1> QED
  BY <1>1, <1>8 DEF a, b, c, w

LEMMA PartIs ==
  ASSUME NEW S, NEW s \in Seq(S), NEW m \in 1 .. Len(s) + 1, NEW k \in m - 1 .. Len(s)
  PROVE  /\ SubSeq(s, m, k) \in Seq(S) /\ Len(SubSeq(s, m, k)) = k - m + 1
         /\ \A i \in 1 .. k - m + 1 : SubSeq(s, m, k)[i] = s[m + i - 1]
<1>1. Len(s) \in Nat /\ \A i \in 1 .. Len(s) : s[i] \in S
  BY LenProperties, ElementOfSeq
<1>2. m \in Int /\ k \in Int /\ \A i \in m .. k : s[i] \in S
  BY <1>1
<1>3. /\ SubSeq(s, m, k) \in Seq(S) /\ Len(SubSeq(s, m, k)) = IF m <= k THEN k - m + 1 ELSE 0
      /\ \A i \in 1 .. k - m + 1 : SubSeq(s, m, k)[i] = s[m + i - 1]
  BY <1>2, SubSeqProperties
<1>4. (IF m <= k THEN k - m + 1 ELSE 0) = k - m + 1
  BY <1>1
<1> QED
  BY <1>3, <1>4

LEMMA TextsOfPart ==
  ASSUME NEW s \in Seq(RightLine), NEW m \in 1 .. Len(s) + 1, NEW k \in m - 1 .. Len(s)
  PROVE  TextsOf(SubSeq(s, m, k)) = SubSeq(TextsOf(s), m, k)
<1> DEFINE T == TextsOf(s)
           w == SubSeq(s, m, k)
           a == TextsOf(w)
           b == SubSeq(T, m, k)
<1>1. /\ T \in Seq(LineText) /\ Len(T) = Len(s) /\ Len(s) \in Nat
      /\ \A i \in 1 .. Len(s) : T[i] = s[i].text
  BY TextsAre
<1>2. /\ w \in Seq(RightLine) /\ Len(w) = k - m + 1
      /\ \A i \in 1 .. k - m + 1 : w[i] = s[m + i - 1]
  BY PartIs
<1>3. /\ b \in Seq(LineText) /\ Len(b) = k - m + 1
      /\ \A i \in 1 .. k - m + 1 : b[i] = T[m + i - 1]
  <2>1. m \in 1 .. Len(T) + 1 /\ k \in m - 1 .. Len(T)
    BY <1>1
  <2> HIDE DEF T
  <2> QED
    BY <1>1, <2>1, PartIs
<1>4. /\ a \in Seq(LineText) /\ Len(a) = Len(w) /\ \A i \in 1 .. Len(w) : a[i] = w[i].text
  BY <1>2, TextsAre
<1> HIDE DEF T, w, a, b
<1>5. \A i \in 1 .. k - m + 1 : a[i] = b[i]
  <2> TAKE i \in 1 .. k - m + 1
  <2>1. m + i - 1 \in 1 .. Len(s) /\ i \in 1 .. Len(w)
    BY <1>1, <1>2
  <2> QED
    BY <1>1, <1>2, <1>3, <1>4, <2>1
<1>6. a = b
  BY <1>2, <1>3, <1>4, <1>5, SeqEqual
<1> QED
  BY <1>6 DEF a, b, w, T

\* The texts an edit brings in, and what it makes of its lines.
NewTexts(r) == IF r.text = Blank THEN <<>> ELSE <<r.text>>
Made(T, r) ==
  IF r.kind = "replace" THEN NewTexts(r)
  ELSE IF r.kind = "before" THEN Cat(NewTexts(r), <<T[r.from]>>)
  ELSE Cat(<<T[r.from]>>, NewTexts(r))

LEMMA NewTextsType ==
  ASSUME EditAssumption, NEW r, r.text \in {NewText, Blank}
  PROVE  NewTexts(r) \in Seq(LineText)
<1>1. r.text \in LineText
  BY DEF EditAssumption
<1> QED
  BY <1>1 DEF NewTexts

LEMMA NewTextsAre ==
  ASSUME EditAssumption, NEW k, NEW r, r.text \in {NewText, Blank}
  PROVE  TextsOf(Fresh(k, r)) = NewTexts(r)
<1>1. r.text \in LineText
  BY DEF EditAssumption
<1>2. CASE r.text = Blank
  <2>1. Fresh(k, r) = <<>> /\ NewTexts(r) = <<>>
    BY <1>2 DEF Fresh, NewTexts
  <2>2. TextsOf(<<>>) = <<>>
    <3>1. <<>> \in Seq(RightLine) /\ Len(<<>>) = 0
      OBVIOUS
    <3>2. TextsOf(<<>>) \in Seq(LineText) /\ Len(TextsOf(<<>>)) = 0
      BY <3>1, TextsAre
    <3> QED
      BY <3>2, EmptySeq
  <2> QED
    BY <2>1, <2>2
<1>3. CASE r.text # Blank
  <2>1. Fresh(k, r) = <<Line(k, r.text)>> /\ NewTexts(r) = <<r.text>>
    BY <1>3 DEF Fresh, NewTexts
  <2>2. TextsOf(<<Line(k, r.text)>>) = <<r.text>>
    BY DEF TextsOf, Line
  <2> QED
    BY <1>1, <2>1, <2>2
<1> QED
  BY <1>2, <1>3

LEMMA MadeRight ==
  ASSUME EditAssumption, NEW T \in Seq(LineText), NEW r, r.text \in {NewText, Blank}, r.from \in 1 .. Len(T)
  PROVE  /\ Made(T, r) \in Seq(LineText)
         /\ <<T[r.from]>> \in Seq(LineText) /\ NewTexts(r) \in Seq(LineText)
<1>1. NewTexts(r) \in Seq(LineText)
  BY NewTextsType
<1>2. <<T[r.from]>> \in Seq(LineText)
  <2>1. T[r.from] \in LineText
    BY ElementOfSeq
  <2> QED
    BY <2>1
<1>3. Cat(NewTexts(r), <<T[r.from]>>) \in Seq(LineText) /\ Cat(<<T[r.from]>>, NewTexts(r)) \in Seq(LineText)
  BY <1>1, <1>2, CatFacts
<1> QED
  BY <1>1, <1>2, <1>3 DEF Made

\* What the texts are after a splice.
Respelt(T, r) ==
  Cat(Cat(SubSeq(T, 1, r.from - 1), Made(T, r)), SubSeq(T, LastLine(r) + 1, Len(T)))

LEMMA SpliceTexts ==
  ASSUME EditAssumption, NEW k \in Nat, k > Len(FirstLines), NEW lines \in Seq(RightLine), NEW top, NEW r, InRange(top, r),
         LastLine(r) <= Len(lines)
  PROVE  TextsOf(Splice(lines, r, Fresh(k, r))) = Respelt(TextsOf(lines), r)
<1> DEFINE n == Len(lines)
           T == TextsOf(lines)
           new == Fresh(k, r)
           at == SpliceAt(r)
           rest == SpliceAt(r) + Removed(r)
           a == SubSeq(lines, 1, at - 1)
           b == SubSeq(lines, rest, n)
<1>1. /\ r.kind \in {"replace", "before", "after"} /\ r.text \in {NewText, Blank}
      /\ r.from \in Nat \ {0} /\ r.to \in Nat /\ r.from <= r.to
  BY DEF InRange
<1>2. n \in Nat /\ T \in Seq(LineText) /\ Len(T) = n
  BY TextsAre
<1>3. r.from \in 1 .. n
  BY <1>1, <1>2 DEF LastLine
<1>4. at \in 1 .. n + 1 /\ rest \in at .. n + 1
  BY <1>1, <1>2, <1>3 DEF SpliceAt, Removed, LastLine
<1>5. new \in Seq(RightLine) /\ TextsOf(new) = NewTexts(r)
  BY <1>1, FreshRight, NewTextsAre
<1> HIDE DEF at, rest, new, n, T
<1>6. /\ a \in Seq(RightLine) /\ b \in Seq(RightLine)
      /\ TextsOf(a) = SubSeq(T, 1, at - 1) /\ TextsOf(b) = SubSeq(T, rest, n)
  <2>1. 1 \in 1 .. Len(lines) + 1 /\ at - 1 \in 1 - 1 .. Len(lines)
    BY <1>2, <1>4 DEF n
  <2>2. rest \in 1 .. Len(lines) + 1 /\ n \in rest - 1 .. Len(lines)
    BY <1>2, <1>4 DEF n
  <2>3. a \in Seq(RightLine) /\ TextsOf(a) = SubSeq(TextsOf(lines), 1, at - 1)
    BY <2>1, PartIs, TextsOfPart
  <2>4. b \in Seq(RightLine) /\ TextsOf(b) = SubSeq(TextsOf(lines), rest, n)
    BY <2>2, PartIs, TextsOfPart
  <2> HIDE DEF a, b
  <2> QED
    BY <2>3, <2>4 DEF T
<1>7. Splice(lines, r, new) = a \o new \o b
  BY DEF Splice, at, rest, a, b, n
<1> HIDE DEF a, b
<1>8. TextsOf((a \o new) \o b) = Cat(Cat(TextsOf(a), TextsOf(new)), TextsOf(b))
  <2>1. a \o new \in Seq(RightLine)
    BY <1>5, <1>6, ConcatProperties
  <2>2. TextsOf(a \o new) = Cat(TextsOf(a), TextsOf(new))
    BY <1>5, <1>6, TextsOfCat
  <2>3. TextsOf((a \o new) \o b) = Cat(TextsOf(a \o new), TextsOf(b))
    BY <1>6, <2>1, TextsOfCat
  <2> QED
    BY <2>2, <2>3
<1>9. TextsOf(Splice(lines, r, new)) = Cat(Cat(SubSeq(T, 1, at - 1), NewTexts(r)), SubSeq(T, rest, n))
  BY <1>5, <1>6, <1>7, <1>8
<1> DEFINE before == SubSeq(T, 1, r.from - 1)
           own == <<T[r.from]>>
           after == SubSeq(T, r.from + 1, n)
           nw == NewTexts(r)
<1>10. /\ before \in Seq(LineText) /\ own \in Seq(LineText) /\ after \in Seq(LineText) /\ nw \in Seq(LineText)
       /\ SubSeq(T, 1, r.from) = Cat(before, own) /\ SubSeq(T, r.from, n) = Cat(own, after)
  <2>1. /\ 1 \in 1 .. Len(T) + 1 /\ r.from - 1 \in 1 - 1 .. Len(T)
        /\ r.from + 1 \in 1 .. Len(T) + 1 /\ n \in (r.from + 1) - 1 .. Len(T)
    BY <1>2, <1>3
  <2>2. before \in Seq(LineText) /\ after \in Seq(LineText)
    BY <1>2, <2>1, PartIs
  <2>3. own \in Seq(LineText) /\ nw \in Seq(LineText)
    BY <1>1, <1>2, <1>3, MadeRight
  <2>4. /\ 1 \in 1 .. Len(T) /\ r.from \in 1 .. Len(T) /\ n \in r.from .. Len(T)
    BY <1>2, <1>3
  <2>5. SubSeq(T, 1, r.from) = Cat(SubSeq(T, 1, r.from - 1), <<T[r.from]>>)
    BY <1>2, <2>4, CatOne
  <2>6. SubSeq(T, r.from, n) = Cat(<<T[r.from]>>, SubSeq(T, r.from + 1, n))
    BY <1>2, <2>4, CatOne
  <2> QED
    BY <2>2, <2>3, <2>5, <2>6
<1>11. Respelt(T, r) = Cat(Cat(before, Made(T, r)), SubSeq(T, LastLine(r) + 1, n))
  BY <1>2 DEF Respelt
<1>12. Made(T, r) = IF r.kind = "replace" THEN nw ELSE IF r.kind = "before" THEN Cat(nw, own) ELSE Cat(own, nw)
  BY DEF Made
<1>13. CASE r.kind = "replace"
  <2>1. at - 1 = r.from - 1 /\ rest = LastLine(r) + 1
    BY <1>1, <1>13 DEF at, rest, SpliceAt, Removed, LastLine
  <2>2. TextsOf(Splice(lines, r, new)) = Cat(Cat(before, nw), SubSeq(T, LastLine(r) + 1, n))
    BY <1>9, <2>1
  <2> HIDE DEF before, own, after, nw
  <2> QED
    BY <1>11, <1>12, <1>13, <2>2 DEF T, new
<1>14. CASE r.kind = "before"
  <2>1. at - 1 = r.from - 1 /\ rest = r.from /\ LastLine(r) + 1 = r.from + 1
    BY <1>1, <1>14 DEF at, rest, SpliceAt, Removed, LastLine
  <2>2. TextsOf(Splice(lines, r, new)) = Cat(Cat(before, nw), Cat(own, after))
    BY <1>9, <1>10, <2>1
  <2>3. Respelt(T, r) = Cat(Cat(before, Cat(nw, own)), after)
    BY <1>11, <1>12, <1>14, <2>1
  <2> HIDE DEF before, own, after, nw
  <2>4. Cat(before, Cat(nw, own)) = Cat(Cat(before, nw), own)
    BY <1>10, CatThree
  <2>5. Cat(Cat(Cat(before, nw), own), after) = Cat(Cat(before, nw), Cat(own, after))
    <3>1. Cat(before, nw) \in Seq(LineText)
      BY <1>10, CatFacts
    <3> QED
      BY <1>10, <3>1, CatThree
  <2> QED
    BY <2>2, <2>3, <2>4, <2>5 DEF T, new
<1>15. CASE r.kind = "after"
  <2>1. at - 1 = r.from /\ rest = r.from + 1 /\ LastLine(r) + 1 = r.from + 1
    BY <1>1, <1>15 DEF at, rest, SpliceAt, Removed, LastLine
  <2>2. TextsOf(Splice(lines, r, new)) = Cat(Cat(Cat(before, own), nw), after)
    BY <1>9, <1>10, <2>1
  <2>3. Respelt(T, r) = Cat(Cat(before, Cat(own, nw)), after)
    BY <1>11, <1>12, <1>15, <2>1
  <2> HIDE DEF before, own, after, nw
  <2>4. Cat(before, Cat(own, nw)) = Cat(Cat(before, own), nw)
    BY <1>10, CatThree
  <2> QED
    BY <2>2, <2>3, <2>4 DEF T, new
<1> QED
  BY <1>1, <1>13, <1>14, <1>15

\* What Meant makes of a line.
PieceAt(lines, rs, i) ==
  LET TextsAt(kind, j) ==
        IF \E k \in DOMAIN rs : rs[k].kind = kind /\ rs[k].from = j /\ rs[k].text # Blank
        THEN <<rs[CHOOSE k \in DOMAIN rs : rs[k].kind = kind /\ rs[k].from = j].text>>
        ELSE <<>>
      Own(j) == IF \E k \in DOMAIN rs : j \in Cut(rs[k]) THEN <<>> ELSE <<lines[j].text>>
  IN  TextsAt("before", i) \o TextsAt("replace", i) \o Own(i) \o TextsAt("after", i)

LEMMA MeantPieces ==
  ASSUME NEW lines, NEW rs
  PROVE  Meant(lines, rs) = FlattenSeq([i \in DOMAIN lines |-> PieceAt(lines, rs, i)])
BY DEF Meant, PieceAt

\* The first line of an edit becomes what the edit makes of it, the others it takes out become
\* nothing, and the lines of no edit stay.
LEMMA PiecesAre ==
  ASSUME EditAssumption, NEW lines \in Seq(RightLine), NEW rs, Separate(rs),
         \A k \in DOMAIN rs : InRange(Len(lines), rs[k]),
         NEW i \in 1 .. Len(lines)
  PROVE  /\ \A k \in DOMAIN rs : rs[k].from = i => PieceAt(lines, rs, i) = Made(TextsOf(lines), rs[k])
         /\ \A k \in DOMAIN rs : rs[k].from < i /\ i <= LastLine(rs[k]) => PieceAt(lines, rs, i) = <<>>
         /\ (\A k \in DOMAIN rs : i < rs[k].from \/ LastLine(rs[k]) < i)
              => PieceAt(lines, rs, i) = <<TextsOf(lines)[i]>>
<1> DEFINE TextsAt(kind, j) ==
             IF \E k \in DOMAIN rs : rs[k].kind = kind /\ rs[k].from = j /\ rs[k].text # Blank
             THEN <<rs[CHOOSE k \in DOMAIN rs : rs[k].kind = kind /\ rs[k].from = j].text>>
             ELSE <<>>
           Own(j) == IF \E k \in DOMAIN rs : j \in Cut(rs[k]) THEN <<>> ELSE <<lines[j].text>>
           own == <<TextsOf(lines)[i]>>
<1>1. TextsOf(lines)[i] = lines[i].text /\ own \in Seq(LineText) /\ Len(lines) \in Nat
  <2>1. TextsOf(lines)[i] = lines[i].text /\ TextsOf(lines) \in Seq(LineText) /\ Len(TextsOf(lines)) = Len(lines)
        /\ Len(lines) \in Nat
    BY TextsAre
  <2>2. TextsOf(lines)[i] \in LineText
    BY <2>1, ElementOfSeq
  <2> QED
    BY <2>1, <2>2
<1>2. PieceAt(lines, rs, i) = Cat(Cat(Cat(TextsAt("before", i), TextsAt("replace", i)), Own(i)), TextsAt("after", i))
  BY DEF PieceAt, Cat
<1>3. ASSUME NEW k \in DOMAIN rs
      PROVE  /\ rs[k].kind \in {"replace", "before", "after"} /\ rs[k].text \in {NewText, Blank}
             /\ rs[k].from \in 1 .. Len(lines) /\ LastLine(rs[k]) \in rs[k].from .. Len(lines)
             /\ Cut(rs[k]) = IF rs[k].kind = "replace" THEN rs[k].from .. LastLine(rs[k]) ELSE {}
             /\ Cut(rs[k]) \cup Kept(rs[k]) = rs[k].from .. LastLine(rs[k])
             /\ NewTexts(rs[k]) \in Seq(LineText)
  <2>1. /\ rs[k].kind \in {"replace", "before", "after"} /\ rs[k].text \in {NewText, Blank}
        /\ rs[k].from \in 1 .. Len(lines) /\ rs[k].to \in 1 .. Len(lines) /\ rs[k].from <= rs[k].to
    BY DEF InRange
  <2>2. LastLine(rs[k]) \in rs[k].from .. Len(lines)
    BY <1>1, <2>1 DEF LastLine
  <2>3. Cut(rs[k]) = IF rs[k].kind = "replace" THEN rs[k].from .. LastLine(rs[k]) ELSE {}
    BY DEF Cut, LastLine
  <2>4. Cut(rs[k]) \cup Kept(rs[k]) = rs[k].from .. LastLine(rs[k])
    <3>1. CASE rs[k].kind = "replace"
      BY <3>1 DEF Cut, Kept, LastLine
    <3>2. CASE rs[k].kind # "replace"
      <4>1. rs[k].from .. rs[k].from = {rs[k].from}
        BY <2>1
      <4> QED
        BY <3>2, <4>1 DEF Cut, Kept, LastLine
    <3> QED
      BY <3>1, <3>2
  <2> QED
    BY <2>1, <2>2, <2>3, <2>4, NewTextsType
<1>4. ASSUME NEW k \in DOMAIN rs, NEW m \in DOMAIN rs, rs[k].from <= i, i <= LastLine(rs[k]),
             rs[m].from <= i, i <= LastLine(rs[m])
      PROVE  m = k
  <2>1. i \in rs[k].from .. LastLine(rs[k]) /\ i \in rs[m].from .. LastLine(rs[m])
    BY <1>1, <1>3, <1>4
  <2>2. i \in (Cut(rs[k]) \cup Kept(rs[k])) \cap (Cut(rs[m]) \cup Kept(rs[m]))
    BY <1>3, <2>1
  <2> QED
    BY <2>2 DEF Separate, Apart
<1>5. ASSUME NEW kind, NEW k \in DOMAIN rs, rs[k].from <= i, i <= LastLine(rs[k])
      PROVE  TextsAt(kind, i) = IF rs[k].kind = kind /\ rs[k].from = i THEN NewTexts(rs[k]) ELSE <<>>
  <2>1. \A m \in DOMAIN rs : rs[m].from = i => m = k
    BY <1>1, <1>3, <1>4, <1>5
  <2>2. CASE rs[k].kind = kind /\ rs[k].from = i
    <3>1. (CHOOSE m \in DOMAIN rs : rs[m].kind = kind /\ rs[m].from = i) = k
      BY <2>1, <2>2
    <3>2. CASE rs[k].text = Blank
      <4>1. ~\E m \in DOMAIN rs : rs[m].kind = kind /\ rs[m].from = i /\ rs[m].text # Blank
        BY <2>1, <3>2
      <4> QED
        BY <2>2, <3>2, <4>1 DEF NewTexts
    <3>3. CASE rs[k].text # Blank
      <4>1. \E m \in DOMAIN rs : rs[m].kind = kind /\ rs[m].from = i /\ rs[m].text # Blank
        BY <2>2, <3>3
      <4> QED
        BY <2>2, <3>1, <3>3, <4>1 DEF NewTexts
    <3> QED
      BY <3>2, <3>3
  <2>3. CASE ~(rs[k].kind = kind /\ rs[k].from = i)
    <3>1. ~\E m \in DOMAIN rs : rs[m].kind = kind /\ rs[m].from = i /\ rs[m].text # Blank
      BY <2>1, <2>3
    <3> QED
      BY <2>3, <3>1
  <2> QED
    BY <2>2, <2>3
<1>6. ASSUME NEW k \in DOMAIN rs, rs[k].from <= i, i <= LastLine(rs[k])
      PROVE  Own(i) = IF rs[k].kind = "replace" THEN <<>> ELSE own
  <2>1. CASE rs[k].kind = "replace"
    <3>1. i \in Cut(rs[k])
      BY <1>1, <1>3, <1>6, <2>1
    <3> QED
      BY <2>1, <3>1
  <2>2. CASE rs[k].kind # "replace"
    <3>1. ASSUME NEW m \in DOMAIN rs, i \in Cut(rs[m])
          PROVE  FALSE
      <4>1. rs[m].kind = "replace" /\ rs[m].from <= i /\ i <= LastLine(rs[m])
        BY <1>1, <1>3, <3>1
      <4>2. m = k
        BY <1>4, <1>6, <4>1
      <4> QED
        BY <2>2, <4>1, <4>2
    <3> QED
      BY <1>1, <2>2, <3>1
  <2> QED
    BY <2>1, <2>2
<1>7. ASSUME \A k \in DOMAIN rs : i < rs[k].from \/ LastLine(rs[k]) < i
      PROVE  Own(i) = own /\ \A kind : TextsAt(kind, i) = <<>>
  <2>1. \A k \in DOMAIN rs : i \notin Cut(rs[k]) /\ rs[k].from # i
    BY <1>1, <1>3, <1>7
  <2> QED
    BY <1>1, <2>1
<1> DEFINE before == TextsAt("before", i)
           replaced == TextsAt("replace", i)
           kept == Own(i)
           after == TextsAt("after", i)
<1>8. ASSUME NEW a \in Seq(LineText), NEW b \in Seq(LineText)
      PROVE  /\ Cat(a, <<>>) = a /\ Cat(<<>>, a) = a /\ Cat(a, b) \in Seq(LineText)
  BY CatFacts
<1>9. <<>> \in Seq(LineText) /\ Cat(<<>>, <<>>) = <<>>
  <2>1. <<>> \in Seq(LineText)
    OBVIOUS
  <2> QED
    BY <1>8, <2>1
<1>10. ASSUME NEW k \in DOMAIN rs, rs[k].from = i
       PROVE  PieceAt(lines, rs, i) = Made(TextsOf(lines), rs[k])
  <2> DEFINE nw == NewTexts(rs[k])
  <2>1. rs[k].from <= i /\ i <= LastLine(rs[k]) /\ nw \in Seq(LineText)
    BY <1>1, <1>3, <1>10
  <2>2. /\ before = IF rs[k].kind = "before" THEN nw ELSE <<>>
        /\ replaced = IF rs[k].kind = "replace" THEN nw ELSE <<>>
        /\ after = IF rs[k].kind = "after" THEN nw ELSE <<>>
        /\ kept = IF rs[k].kind = "replace" THEN <<>> ELSE own
    <3> HIDE DEF TextsAt, Own
    <3>1. before = IF rs[k].kind = "before" THEN nw ELSE <<>>
      BY <1>5, <1>10, <2>1
    <3>2. replaced = IF rs[k].kind = "replace" THEN nw ELSE <<>>
      BY <1>5, <1>10, <2>1
    <3>3. after = IF rs[k].kind = "after" THEN nw ELSE <<>>
      BY <1>5, <1>10, <2>1
    <3>4. kept = IF rs[k].kind = "replace" THEN <<>> ELSE own
      BY <1>6, <2>1
    <3> HIDE DEF before, replaced, after, kept, nw, own
    <3> QED
      BY <3>1, <3>2, <3>3, <3>4
  <2>3. Made(TextsOf(lines), rs[k]) =
          IF rs[k].kind = "replace" THEN nw
          ELSE IF rs[k].kind = "before" THEN Cat(nw, own) ELSE Cat(own, nw)
    BY <1>10 DEF Made
  <2>4. PieceAt(lines, rs, i) = Cat(Cat(Cat(before, replaced), kept), after)
    BY <1>2
  <2> HIDE DEF nw, own, before, replaced, kept, after
  <2>5. CASE rs[k].kind = "replace"
    BY <1>8, <1>9, <2>1, <2>2, <2>3, <2>4, <2>5
  <2>6. CASE rs[k].kind = "before"
    BY <1>1, <1>8, <1>9, <2>1, <2>2, <2>3, <2>4, <2>6
  <2>7. CASE rs[k].kind = "after"
    BY <1>1, <1>8, <1>9, <2>1, <2>2, <2>3, <2>4, <2>7
  <2> QED
    BY <1>3, <2>5, <2>6, <2>7
<1>11. ASSUME NEW k \in DOMAIN rs, rs[k].from < i, i <= LastLine(rs[k])
       PROVE  PieceAt(lines, rs, i) = <<>>
  <2>1. rs[k].from <= i /\ rs[k].from # i /\ rs[k].kind = "replace"
    <3>1. rs[k].from \in Nat /\ LastLine(rs[k]) \in Nat
      BY <1>1, <1>3
    <3>2. rs[k].from # LastLine(rs[k])
      BY <1>11, <3>1
    <3> QED
      BY <1>11, <3>1, <3>2 DEF LastLine
  <2>2. before = <<>> /\ replaced = <<>> /\ after = <<>>
    BY <1>5, <1>11, <2>1
  <2>3. kept = <<>>
    BY <1>6, <1>11, <2>1
  <2>4. PieceAt(lines, rs, i) = Cat(Cat(Cat(before, replaced), kept), after)
    BY <1>2
  <2> HIDE DEF before, replaced, kept, after
  <2> QED
    BY <1>9, <2>2, <2>3, <2>4
<1>12. ASSUME \A k \in DOMAIN rs : i < rs[k].from \/ LastLine(rs[k]) < i
       PROVE  PieceAt(lines, rs, i) = own
  <2>1. before = <<>> /\ replaced = <<>> /\ after = <<>> /\ kept = own
    BY <1>7, <1>12
  <2>2. PieceAt(lines, rs, i) = Cat(Cat(Cat(before, replaced), kept), after)
    BY <1>2
  <2> HIDE DEF before, replaced, kept, after, own
  <2> QED
    BY <1>1, <1>8, <1>9, <2>1, <2>2
<1> QED
  BY <1>10, <1>11, <1>12

\* The lines of an edit, put together.
LEMMA JoinEdit ==
  ASSUME NEW V, NEW n, NEW g, NEW f, NEW T, Joined(V, n, g, f, T),
         NEW a, a \in 1 .. n, NEW b, b \in a .. n, NEW made, g[a] = made, Quiet(g, a, b)
  PROVE  f[b] = Cat(f[a - 1], made)
<1>1. f[a] = Cat(f[a - 1], g[a])
  BY DEF Joined, Joins
<1>2. f[b] = f[a]
  <2>1. a \in 0 .. n
    BY DEF Joined
  <2> QED
    BY <2>1, JoinNothing
<1> QED
  BY <1>1, <1>2

\* Lines that stay, and then the lines of an edit.
LEMMA JoinSpan ==
  ASSUME NEW V, NEW n, NEW g, NEW f, NEW T, Joined(V, n, g, f, T),
         NEW c, c \in 0 .. n, NEW a, a \in c + 1 .. n, NEW b, b \in a .. n, NEW made,
         Verbatim(g, T, c, a - 1), g[a] = made, Quiet(g, a, b)
  PROVE  f[b] = Cat(Cat(f[c], SubSeq(T, c + 1, a - 1)), made)
<1>1. a - 1 \in c .. n /\ a \in 1 .. n
  BY DEF Joined
<1>2. f[a - 1] = Cat(f[c], SubSeq(T, c + 1, a - 1))
  <2> DEFINE p == a - 1
  <2>1. p \in c .. n /\ Verbatim(g, T, c, p)
    BY <1>1
  <2> HIDE DEF p
  <2>2. f[p] = Cat(f[c], SubSeq(T, c + 1, p))
    BY <2>1, JoinLines
  <2> QED
    BY <2>2 DEF p
<1>3. f[b] = Cat(f[a - 1], made)
  BY <1>1, JoinEdit
<1> QED
  BY <1>2, <1>3


\* One edit among lines that stay; two edits, the first of them above the other.
EditAt(g, T, n, c, r) ==
  /\ r.from \in c + 1 .. n /\ LastLine(r) \in r.from .. n
  /\ Verbatim(g, T, c, r.from - 1) /\ g[r.from] = Made(T, r) /\ Quiet(g, r.from, LastLine(r))
OneEdit(g, T, n, r) == EditAt(g, T, n, 0, r) /\ Verbatim(g, T, LastLine(r), n)
TwoEdits(g, T, n, v, u) ==
  EditAt(g, T, n, 0, v) /\ EditAt(g, T, n, LastLine(v), u) /\ Verbatim(g, T, LastLine(u), n)

\* What the texts are after two edits, v above u.
Both(T, v, u) ==
  Cat(Cat(Cat(Cat(SubSeq(T, 1, v.from - 1), Made(T, v)),
              SubSeq(T, LastLine(v) + 1, u.from - 1)), Made(T, u)),
      SubSeq(T, LastLine(u) + 1, Len(T)))

LEMMA JoinAt ==
  ASSUME NEW V, NEW n, NEW g, NEW f, NEW T, Joined(V, n, g, f, T), NEW c, c \in 0 .. n, NEW r, EditAt(g, T, n, c, r)
  PROVE  /\ f[LastLine(r)] = Cat(Cat(f[c], SubSeq(T, c + 1, r.from - 1)), Made(T, r))
         /\ LastLine(r) \in 0 .. n /\ n \in LastLine(r) .. n
<1>1. n \in Nat /\ c \in 0 .. n
  BY DEF Joined
<1> DEFINE a == r.from
           b == LastLine(r)
           made == Made(T, r)
<1>2. /\ a \in c + 1 .. n /\ b \in a .. n
      /\ Verbatim(g, T, c, a - 1) /\ g[a] = made /\ Quiet(g, a, b)
  BY DEF EditAt
<1> HIDE DEF a, b, made
<1>3. b \in 0 .. n /\ n \in b .. n
  BY <1>1, <1>2
<1>4. f[b] = Cat(Cat(f[c], SubSeq(T, c + 1, a - 1)), made)
  BY <1>1, <1>2, JoinSpan, SMT
<1> QED
  BY <1>3, <1>4 DEF a, b, made

LEMMA UpperPart ==
  ASSUME NEW V, NEW T \in Seq(V), NEW a \in 1 .. Len(T)
  PROVE  SubSeq(T, 1, a - 1) \in Seq(V)
<1>1. Len(T) \in Nat
  BY LenProperties
<1>2. 1 \in 1 .. Len(T) + 1 /\ a - 1 \in 1 - 1 .. Len(T)
  BY <1>1
<1> QED
  BY <1>2, PartIs

LEMMA JoinOne ==
  ASSUME NEW V, NEW n, NEW g, NEW f, NEW T, Joined(V, n, g, f, T), NEW r, OneEdit(g, T, n, r)
  PROVE  f[n] = Respelt(T, r)
<1> DEFINE b == LastLine(r)
           p == SubSeq(T, 1, r.from - 1)
<1>1. 0 \in 0 .. n /\ f[0] = <<>> /\ n \in Nat
  BY DEF Joined, Joins
<1>2. /\ f[b] = Cat(Cat(f[0], SubSeq(T, 0 + 1, r.from - 1)), Made(T, r))
      /\ b \in 0 .. n /\ n \in b .. n
  BY <1>1, JoinAt DEF OneEdit
<1>3. Verbatim(g, T, b, n)
  BY DEF OneEdit
<1> HIDE DEF b
<1>4. f[n] = Cat(f[b], SubSeq(T, b + 1, n))
  BY <1>2, <1>3, JoinLines
<1>5. Cat(<<>>, p) = p
  <2>1. r.from \in 0 + 1 .. n
    BY DEF OneEdit, EditAt
  <2>2. r.from \in 1 .. n /\ Len(T) = n
    BY <1>1, <2>1 DEF Joined
  <2>3. p \in Seq(V)
    BY <2>2, UpperPart DEF Joined
  <2> HIDE DEF p
  <2> QED
    BY <2>3, CatFacts
<1>6. Cat(f[0], SubSeq(T, 0 + 1, r.from - 1)) = p
  <2>1. 0 + 1 = 1
    OBVIOUS
  <2> QED
    BY <1>1, <1>5, <2>1
<1> HIDE DEF p
<1>7. f[b] = Cat(p, Made(T, r))
  BY <1>2, <1>6
<1>8. Len(T) = n
  BY DEF Joined
<1> QED
  BY <1>4, <1>7, <1>8 DEF b, p, Respelt

LEMMA JoinTwo ==
  ASSUME NEW V, NEW n, NEW g, NEW f, NEW T, Joined(V, n, g, f, T), NEW v, NEW u, TwoEdits(g, T, n, v, u)
  PROVE  f[n] = Both(T, v, u)
<1> DEFINE b == LastLine(v)
           d == LastLine(u)
           p == SubSeq(T, 1, v.from - 1)
<1>1. 0 \in 0 .. n /\ f[0] = <<>> /\ n \in Nat
  BY DEF Joined, Joins
<1>2. /\ f[b] = Cat(Cat(f[0], SubSeq(T, 0 + 1, v.from - 1)), Made(T, v))
      /\ b \in 0 .. n
  BY <1>1, JoinAt DEF TwoEdits
<1>3. /\ f[d] = Cat(Cat(f[b], SubSeq(T, b + 1, u.from - 1)), Made(T, u))
      /\ d \in 0 .. n /\ n \in d .. n
  BY <1>2, JoinAt DEF TwoEdits
<1>4. Verbatim(g, T, d, n)
  BY DEF TwoEdits
<1> HIDE DEF b, d
<1>5. f[n] = Cat(f[d], SubSeq(T, d + 1, n))
  BY <1>3, <1>4, JoinLines
<1>6. Cat(<<>>, p) = p
  <2>1. v.from \in 0 + 1 .. n
    BY DEF TwoEdits, EditAt
  <2>2. v.from \in 1 .. n /\ Len(T) = n
    BY <1>1, <2>1 DEF Joined
  <2>3. p \in Seq(V)
    BY <2>2, UpperPart DEF Joined
  <2> HIDE DEF p
  <2> QED
    BY <2>3, CatFacts
<1>7. Cat(f[0], SubSeq(T, 0 + 1, v.from - 1)) = p
  <2>1. 0 + 1 = 1
    OBVIOUS
  <2> QED
    BY <1>1, <1>6, <2>1
<1> HIDE DEF p
<1>8. f[b] = Cat(p, Made(T, v))
  BY <1>2, <1>7
<1>9. Len(T) = n
  BY DEF Joined
<1> QED
  BY <1>3, <1>5, <1>8, <1>9 DEF b, d, p, Both

\* The pieces of a file, of the type of its texts.
LEMMA PiecesJoin ==
  ASSUME EditAssumption, NEW lines \in Seq(RightLine), Len(lines) # 0, NEW rs, Separate(rs),
         \A k \in DOMAIN rs : InRange(Len(lines), rs[k])
  PROVE  LET n == Len(lines)
             g == [i \in 1 .. n |-> PieceAt(lines, rs, i)]
         IN  \E f \in [0 .. n -> Seq(LineText)] : Joins(g, n, f) /\ Meant(lines, rs) = f[n]
<1> DEFINE n == Len(lines)
           g == [i \in 1 .. n |-> PieceAt(lines, rs, i)]
<1>1. n \in Nat \ {0} /\ DOMAIN lines = 1 .. n
  BY LenProperties
<1>2. TextsOf(lines) \in Seq(LineText) /\ Len(TextsOf(lines)) = n
  BY TextsAre
<1>3. ASSUME NEW i \in 1 .. n
      PROVE  PieceAt(lines, rs, i) \in Seq(LineText)
  <2>1. CASE \E k \in DOMAIN rs : rs[k].from = i
    <3>1. PICK k \in DOMAIN rs : rs[k].from = i
      BY <2>1
    <3>2. rs[k].text \in {NewText, Blank} /\ rs[k].from \in 1 .. Len(TextsOf(lines))
      BY <1>2, <3>1 DEF InRange
    <3>3. PieceAt(lines, rs, i) = Made(TextsOf(lines), rs[k])
      BY <1>3, <3>1, PiecesAre
    <3> QED
      BY <1>2, <3>2, <3>3, MadeRight
  <2>2. CASE \E k \in DOMAIN rs : rs[k].from < i /\ i <= LastLine(rs[k])
    <3>1. PieceAt(lines, rs, i) = <<>>
      BY <1>3, <2>2, PiecesAre
    <3> QED
      BY <3>1
  <2>3. CASE \A k \in DOMAIN rs : i < rs[k].from \/ LastLine(rs[k]) < i
    <3>1. PieceAt(lines, rs, i) = <<TextsOf(lines)[i]>>
      BY <1>3, <2>3, PiecesAre
    <3>2. TextsOf(lines)[i] \in LineText
      BY <1>2, <1>3, ElementOfSeq
    <3> QED
      BY <3>1, <3>2
  <2> QED
    <3>1. ASSUME NEW k \in DOMAIN rs
          PROVE  rs[k].from \in Int /\ LastLine(rs[k]) \in Int
      BY <1>1 DEF InRange, LastLine
    <3> QED
      BY <1>1, <2>1, <2>2, <2>3, <3>1
<1> HIDE DEF n
<1>4. g \in [1 .. n -> Seq(LineText)]
  BY <1>3
<1>5. Meant(lines, rs) = FlattenSeq(g)
  BY <1>1, MeantPieces
<1> HIDE DEF g
<1>6. \E f \in [0 .. n -> Seq(LineText)] : Joins(g, n, f) /\ FlattenSeq(g) = f[n]
  BY <1>1, <1>4, FlattenJoins
<1> QED
  BY <1>5, <1>6 DEF g, n

\* What one edit means.
LEMMA MeantOne ==
  ASSUME EditAssumption, NEW lines \in Seq(RightLine), NEW r, InRange(Len(lines), r)
  PROVE  Meant(lines, <<r>>) = Respelt(TextsOf(lines), r)
<1> DEFINE n == Len(lines)
           T == TextsOf(lines)
           rs == <<r>>
           g == [i \in 1 .. n |-> PieceAt(lines, rs, i)]
<1>1. n \in Nat /\ T \in Seq(LineText) /\ Len(T) = n
  BY TextsAre
<1>2. DOMAIN rs = {1} /\ rs[1] = r
  OBVIOUS
<1>3. Separate(rs)
  BY <1>2 DEF Separate
<1>4. r.from \in 1 .. n /\ LastLine(r) \in r.from .. n
  BY <1>1 DEF InRange, LastLine
<1>5. ASSUME NEW i \in 1 .. n
      PROVE  /\ r.from = i => PieceAt(lines, rs, i) = Made(T, r)
             /\ r.from < i /\ i <= LastLine(r) => PieceAt(lines, rs, i) = <<>>
             /\ i < r.from \/ LastLine(r) < i => PieceAt(lines, rs, i) = <<T[i]>>
  <2>1. \A k \in DOMAIN rs : rs[k] = r
    BY <1>2
  <2>2. /\ \A k \in DOMAIN rs : rs[k].from = i => PieceAt(lines, rs, i) = Made(T, rs[k])
        /\ \A k \in DOMAIN rs : rs[k].from < i /\ i <= LastLine(rs[k]) => PieceAt(lines, rs, i) = <<>>
        /\ (\A k \in DOMAIN rs : i < rs[k].from \/ LastLine(rs[k]) < i)
             => PieceAt(lines, rs, i) = <<T[i]>>
    <3> HIDE DEF rs
    <3> QED
      BY <1>3, <1>5, <2>1, PiecesAre
  <2> HIDE DEF rs, n, T
  <2> QED
    BY <1>2, <2>1, <2>2
<1>6. PICK f \in [0 .. n -> Seq(LineText)] : Joins(g, n, f) /\ Meant(lines, rs) = f[n]
  <2>1. n # 0 /\ \A k \in DOMAIN rs : InRange(n, rs[k])
    BY <1>1, <1>2, <1>4
  <2> HIDE DEF rs
  <2> QED
    BY <1>3, <2>1, PiecesJoin
<1>7. ASSUME NEW i \in 1 .. n
      PROVE  /\ r.from = i => g[i] = Made(T, r)
             /\ r.from < i /\ i <= LastLine(r) => g[i] = <<>>
             /\ i < r.from \/ LastLine(r) < i => g[i] = <<T[i]>>
  <2> HIDE DEF rs, n, T
  <2> QED
    BY <1>5, <1>7
<1> HIDE DEF g, T, n, rs
<1>8. Joined(LineText, n, g, f, T)
  BY <1>1, <1>6 DEF Joined
<1>9. OneEdit(g, T, n, r)
  <2>1. r.from \in Nat /\ LastLine(r) \in Nat /\ r.from >= 1 /\ r.from <= LastLine(r) /\ LastLine(r) <= n
    BY <1>1, <1>4
  <2>2. ASSUME NEW i \in 0 + 1 .. r.from - 1
        PROVE  g[i] = <<T[i]>>
    <3>1. i \in 1 .. n /\ i < r.from
      BY <1>1, <2>1
    <3> QED
      BY <1>7, <3>1
  <2>3. ASSUME NEW i \in r.from + 1 .. LastLine(r)
        PROVE  g[i] = <<>>
    <3>1. i \in 1 .. n /\ r.from < i /\ i <= LastLine(r)
      BY <1>1, <2>1
    <3> QED
      BY <1>7, <3>1
  <2>4. ASSUME NEW i \in LastLine(r) + 1 .. n
        PROVE  g[i] = <<T[i]>>
    <3>1. i \in 1 .. n /\ LastLine(r) < i
      BY <1>1, <2>1
    <3> QED
      BY <1>7, <3>1
  <2>5. g[r.from] = Made(T, r) /\ r.from \in 0 + 1 .. n
    BY <1>4, <1>7
  <2> QED
    BY <1>4, <2>2, <2>3, <2>4, <2>5 DEF OneEdit, EditAt, Verbatim, Quiet
<1>10. f[n] = Respelt(T, r)
  BY <1>8, <1>9, JoinOne
<1> QED
  BY <1>6, <1>10 DEF rs, T

\* Where the lines are that two edits divide a file of.
Division(n, a, b, c, d) ==
  /\ \A i \in 0 + 1 .. a - 1 : i \in 1 .. n /\ i < a /\ i < c
  /\ \A i \in a + 1 .. b : i \in 1 .. n /\ a < i /\ i <= b
  /\ \A i \in b + 1 .. c - 1 : i \in 1 .. n /\ b < i /\ i < c
  /\ \A i \in c + 1 .. d : i \in 1 .. n /\ c < i /\ i <= d
  /\ \A i \in d + 1 .. n : i \in 1 .. n /\ d < i /\ b < i

LEMMA Divided ==
  ASSUME NEW n \in Nat, NEW a, NEW b, NEW c, NEW d, a \in Nat, b \in Nat, c \in Nat, d \in Nat,
         1 <= a, a <= b, b < c, c <= d, d <= n
  PROVE  Division(n, a, b, c, d)
BY DEF Division

\* What two edits mean, the first of them above the other, however they are listed.
LEMMA MeantDivides ==
  ASSUME EditAssumption, NEW lines \in Seq(RightLine), NEW v, NEW u,
         InRange(Len(lines), v), InRange(Len(lines), u), Apart(v, u), v.from <= u.from,
         NEW rs, Separate(rs), DOMAIN rs = {1, 2},
         (rs[1] = v /\ rs[2] = u) \/ (rs[1] = u /\ rs[2] = v)
  PROVE  /\ LastLine(v) < u.from
         /\ \E n, g, f : /\ Joined(LineText, n, g, f, TextsOf(lines))
                          /\ TwoEdits(g, TextsOf(lines), n, v, u) /\ Meant(lines, rs) = f[n]
<1> DEFINE n == Len(lines)
           T == TextsOf(lines)
           g == [i \in 1 .. n |-> PieceAt(lines, rs, i)]
<1>1. n \in Nat /\ T \in Seq(LineText) /\ Len(T) = n
  BY TextsAre
<1>2. \A k \in DOMAIN rs : rs[k] = v \/ rs[k] = u
  OBVIOUS
<1>3. \E k, m \in DOMAIN rs : rs[k] = v /\ rs[m] = u
  OBVIOUS
<1>4. /\ v.from \in 1 .. n /\ LastLine(v) \in v.from .. n
      /\ u.from \in 1 .. n /\ LastLine(u) \in u.from .. n
  BY <1>1 DEF InRange, LastLine
<1>5. LastLine(v) < u.from
  BY <1>1, ApartOrder
<1>6. ASSUME NEW i \in 1 .. n
      PROVE  /\ v.from = i => PieceAt(lines, rs, i) = Made(T, v)
             /\ u.from = i => PieceAt(lines, rs, i) = Made(T, u)
             /\ v.from < i /\ i <= LastLine(v) => PieceAt(lines, rs, i) = <<>>
             /\ u.from < i /\ i <= LastLine(u) => PieceAt(lines, rs, i) = <<>>
             /\ (i < v.from \/ LastLine(v) < i) /\ (i < u.from \/ LastLine(u) < i)
                  => PieceAt(lines, rs, i) = <<T[i]>>
  <2>1. /\ \A k \in DOMAIN rs : rs[k].from = i => PieceAt(lines, rs, i) = Made(T, rs[k])
        /\ \A k \in DOMAIN rs : rs[k].from < i /\ i <= LastLine(rs[k]) => PieceAt(lines, rs, i) = <<>>
        /\ (\A k \in DOMAIN rs : i < rs[k].from \/ LastLine(rs[k]) < i)
             => PieceAt(lines, rs, i) = <<T[i]>>
    <3>1. \A k \in DOMAIN rs : InRange(Len(lines), rs[k])
      BY <1>2
    <3> QED
      BY <1>6, <3>1, PiecesAre
  <2>2. PICK k \in DOMAIN rs, m \in DOMAIN rs : rs[k] = v /\ rs[m] = u
    BY <1>3
  <2> HIDE DEF n, T
  <2> QED
    BY <1>2, <2>1, <2>2
<1>7. PICK f \in [0 .. n -> Seq(LineText)] : Joins(g, n, f) /\ Meant(lines, rs) = f[n]
  <2>1. n # 0 /\ \A k \in DOMAIN rs : InRange(n, rs[k])
    BY <1>1, <1>2, <1>4
  <2> QED
    BY <2>1, PiecesJoin
<1>8. ASSUME NEW i \in 1 .. n
      PROVE  /\ v.from = i => g[i] = Made(T, v)
             /\ u.from = i => g[i] = Made(T, u)
             /\ v.from < i /\ i <= LastLine(v) => g[i] = <<>>
             /\ u.from < i /\ i <= LastLine(u) => g[i] = <<>>
             /\ (i < v.from \/ LastLine(v) < i) /\ (i < u.from \/ LastLine(u) < i) => g[i] = <<T[i]>>
  <2>1. g[i] = PieceAt(lines, rs, i)
    OBVIOUS
  <2> HIDE DEF n, T, g
  <2> QED
    BY <1>6, <1>8, <2>1
<1> HIDE DEF g, T, n
<1>9. Joined(LineText, n, g, f, T)
  BY <1>1, <1>7 DEF Joined
<1>10. /\ v.from \in Nat /\ LastLine(v) \in Nat /\ v.from >= 1 /\ v.from <= LastLine(v) /\ LastLine(v) <= n
       /\ u.from \in Nat /\ LastLine(u) \in Nat /\ u.from >= 1 /\ u.from <= LastLine(u) /\ LastLine(u) <= n
       /\ LastLine(v) < u.from
  BY <1>1, <1>4, <1>5
<1>11. Division(n, v.from, LastLine(v), u.from, LastLine(u))
  BY <1>1, <1>10, Divided
<1>12. EditAt(g, T, n, 0, v)
  <2>1. ASSUME NEW i \in 0 + 1 .. v.from - 1
        PROVE  g[i] = <<T[i]>>
    <3>1. i \in 1 .. n /\ i < v.from /\ i < u.from
      BY <1>11 DEF Division
    <3> QED
      BY <1>8, <3>1
  <2>2. ASSUME NEW i \in v.from + 1 .. LastLine(v)
        PROVE  g[i] = <<>>
    <3>1. i \in 1 .. n /\ v.from < i /\ i <= LastLine(v)
      BY <1>11 DEF Division
    <3> QED
      BY <1>8, <3>1
  <2>3. g[v.from] = Made(T, v) /\ v.from \in 0 + 1 .. n
    BY <1>4, <1>8
  <2> QED
    BY <1>4, <2>1, <2>2, <2>3 DEF EditAt, Verbatim, Quiet
<1>13. EditAt(g, T, n, LastLine(v), u)
  <2>1. ASSUME NEW i \in LastLine(v) + 1 .. u.from - 1
        PROVE  g[i] = <<T[i]>>
    <3>1. i \in 1 .. n /\ LastLine(v) < i /\ i < u.from
      BY <1>11 DEF Division
    <3> QED
      BY <1>8, <3>1
  <2>2. ASSUME NEW i \in u.from + 1 .. LastLine(u)
        PROVE  g[i] = <<>>
    <3>1. i \in 1 .. n /\ u.from < i /\ i <= LastLine(u)
      BY <1>11 DEF Division
    <3> QED
      BY <1>8, <3>1
  <2>3. g[u.from] = Made(T, u)
    BY <1>4, <1>8
  <2>4. u.from \in LastLine(v) + 1 .. n
    BY <1>1, <1>10
  <2> QED
    BY <1>4, <2>1, <2>2, <2>3, <2>4 DEF EditAt, Verbatim, Quiet
<1>14. Verbatim(g, T, LastLine(u), n)
  <2>1. ASSUME NEW i \in LastLine(u) + 1 .. n
        PROVE  g[i] = <<T[i]>>
    <3>1. i \in 1 .. n /\ LastLine(u) < i /\ LastLine(v) < i
      BY <1>11 DEF Division
    <3> QED
      BY <1>8, <3>1
  <2> QED
    BY <2>1 DEF Verbatim
<1>15. TwoEdits(g, T, n, v, u)
  BY <1>12, <1>13, <1>14 DEF TwoEdits
<1> QED
  BY <1>5, <1>7, <1>9, <1>15 DEF T

LEMMA MeantTwo ==
  ASSUME EditAssumption, NEW lines \in Seq(RightLine), NEW v, NEW u,
         InRange(Len(lines), v), InRange(Len(lines), u), Apart(v, u), v.from <= u.from,
         NEW rs, Separate(rs), DOMAIN rs = {1, 2},
         (rs[1] = v /\ rs[2] = u) \/ (rs[1] = u /\ rs[2] = v)
  PROVE  LastLine(v) < u.from /\ Meant(lines, rs) = Both(TextsOf(lines), v, u)
<1>1. /\ LastLine(v) < u.from
      /\ \E n, g, f : /\ Joined(LineText, n, g, f, TextsOf(lines))
                       /\ TwoEdits(g, TextsOf(lines), n, v, u) /\ Meant(lines, rs) = f[n]
  BY MeantDivides
<1> QED
  BY <1>1, JoinTwo

\* What stands first in two sequences put together, and what stands last.
LEMMA FrontBack ==
  ASSUME NEW S, NEW x \in Seq(S), NEW w \in Seq(S)
  PROVE  /\ SubSeq(Cat(x, w), 1, Len(x)) = x
         /\ SubSeq(Cat(x, w), Len(x) + 1, Len(Cat(x, w))) = w
         /\ \A i \in 1 .. Len(x) : Cat(x, w)[i] = x[i]
<1> DEFINE z == Cat(x, w)
           m == Len(x)
           k == Len(w)
           p == SubSeq(z, 1, m)
           q == SubSeq(z, m + 1, Len(z))
<1>1. m \in Nat /\ k \in Nat
  BY LenProperties
<1>2. /\ z \in Seq(S) /\ Len(z) = m + k
      /\ \A i \in 1 .. m + k : z[i] = IF i <= m THEN x[i] ELSE w[i - m]
  BY CatFacts
<1> HIDE DEF z
<1>3. /\ p \in Seq(S) /\ Len(p) = m - 1 + 1 /\ \A i \in 1 .. m - 1 + 1 : p[i] = z[1 + i - 1]
  <2>1. 1 \in 1 .. Len(z) + 1 /\ m \in 1 - 1 .. Len(z)
    BY <1>1, <1>2
  <2> HIDE DEF m
  <2> QED
    BY <1>2, <2>1, PartIs
<1>4. /\ q \in Seq(S) /\ Len(q) = Len(z) - (m + 1) + 1
      /\ \A i \in 1 .. Len(z) - (m + 1) + 1 : q[i] = z[(m + 1) + i - 1]
  <2>1. m + 1 \in 1 .. Len(z) + 1 /\ Len(z) \in (m + 1) - 1 .. Len(z)
    BY <1>1, <1>2
  <2> HIDE DEF m
  <2> QED
    BY <1>2, <2>1, PartIs
<1> HIDE DEF p, q
<1>5. p = x
  <2>1. Len(p) = Len(x)
    BY <1>1, <1>3
  <2>2. ASSUME NEW i \in 1 .. Len(p)
        PROVE  p[i] = x[i]
    <3>1. i \in 1 .. m /\ 1 + i - 1 = i /\ i \in 1 .. m + k /\ i \in 1 .. m - 1 + 1
      BY <1>1, <2>1
    <3> HIDE DEF m, k
    <3> QED
      BY <1>1, <1>2, <1>3, <3>1
  <2> QED
    BY <1>3, <2>1, <2>2, SeqEqual
<1>6. q = w
  <2>1. Len(q) = Len(w)
    BY <1>1, <1>2, <1>4
  <2>2. ASSUME NEW i \in 1 .. Len(q)
        PROVE  q[i] = w[i]
    <3>1. /\ i \in 1 .. Len(z) - (m + 1) + 1 /\ (m + 1) + i - 1 = m + i /\ m + i \in 1 .. m + k
          /\ ~(m + i <= m) /\ (m + i) - m = i
      BY <1>1, <1>2, <2>1
    <3>2. q[i] = z[m + i]
      BY <1>4, <3>1
    <3>3. z[m + i] = w[(m + i) - m]
      BY <1>2, <3>1
    <3> QED
      BY <3>1, <3>2, <3>3
  <2> QED
    BY <1>4, <2>1, <2>2, SeqEqual
<1>7. \A i \in 1 .. m : z[i] = x[i]
  <2> TAKE i \in 1 .. m
  <2>1. i \in 1 .. m + k /\ i <= m
    BY <1>1
  <2> QED
    BY <1>2, <2>1
<1> QED
  BY <1>5, <1>6, <1>7 DEF p, q, m, z

LEMMA FrontOf ==
  ASSUME NEW S, NEW x, x \in Seq(S), NEW w, w \in Seq(S), NEW m, m = Len(x)
  PROVE  SubSeq(Cat(x, w), 1, m) = x
BY FrontBack

Ends(x, w, k, e) == k = Len(x) + 1 /\ e = Len(Cat(x, w))
LEMMA BackOf ==
  ASSUME NEW S, NEW x, x \in Seq(S), NEW w, w \in Seq(S), NEW k, NEW e, Ends(x, w, k, e)
  PROVE  SubSeq(Cat(x, w), k, e) = w
BY FrontBack DEF Ends

LEMMA FrontAt ==
  ASSUME NEW S, NEW x, x \in Seq(S), NEW w, w \in Seq(S), NEW i \in 1 .. Len(x)
  PROVE  Cat(x, w)[i] = x[i]
BY FrontBack

\* The lower edit first and then the upper one: what is below the upper one is left alone.
LEMMA RespeltTwice ==
  ASSUME EditAssumption, NEW T \in Seq(LineText), NEW n, n = Len(T), NEW v, NEW u,
         InRange(n, v), InRange(n, u), LastLine(v) < u.from
  PROVE  Respelt(Respelt(T, u), v) = Both(T, v, u)
<1> DEFINE b == LastLine(v)
           c == u.from - 1
           d == LastLine(u)
           A == SubSeq(T, 1, v.from - 1)
           B == SubSeq(T, v.from, b)
           M == SubSeq(T, b + 1, c)
           D == Made(T, u)
           E == SubSeq(T, d + 1, n)
           X == SubSeq(T, 1, b)
           F == SubSeq(T, 1, c)
           W == Cat(Cat(M, D), E)
           Z == Respelt(T, u)
<1>1. /\ n \in Nat /\ v.from \in 1 .. n /\ b \in v.from .. n /\ u.from \in 1 .. n /\ d \in u.from .. n
      /\ v.text \in {NewText, Blank} /\ u.text \in {NewText, Blank}
  <2>1. n \in Nat
    BY LenProperties
  <2> QED
    BY <2>1 DEF InRange, LastLine
<1>2. v.from \in Nat /\ b \in Nat /\ c \in Nat /\ d \in Nat /\ v.from >= 1 /\ v.from <= b /\ b <= c /\ c < d /\ d <= n
  BY <1>1
<1>3. D \in Seq(LineText)
  BY <1>1, MadeRight
<1> DEFINE P == Made(T, v)
<1>4. P \in Seq(LineText)
  BY <1>1, MadeRight
<1> HIDE DEF b, c, d, D, P
<1>5. /\ A \in Seq(LineText) /\ Len(A) = v.from - 1
      /\ B \in Seq(LineText)
      /\ M \in Seq(LineText) /\ E \in Seq(LineText) /\ F \in Seq(LineText)
      /\ X \in Seq(LineText) /\ Len(X) = b
  <2>1. ASSUME NEW p \in Nat, NEW q \in Nat, p >= 1, p <= q + 1, q <= n
        PROVE  SubSeq(T, p, q) \in Seq(LineText) /\ Len(SubSeq(T, p, q)) = q - p + 1
    <3>1. p \in 1 .. Len(T) + 1 /\ q \in p - 1 .. Len(T)
      BY <1>1, <2>1
    <3> QED
      BY <3>1, PartIs
  <2>2. A \in Seq(LineText) /\ Len(A) = (v.from - 1) - 1 + 1
    BY <1>1, <1>2, <2>1
  <2>3. X \in Seq(LineText) /\ Len(X) = b - 1 + 1
    BY <1>1, <1>2, <2>1
  <2>4. B \in Seq(LineText)
    BY <1>1, <1>2, <2>1
  <2>5. M \in Seq(LineText)
    BY <1>1, <1>2, <2>1
  <2>6. E \in Seq(LineText)
    BY <1>1, <1>2, <2>1
  <2>7. F \in Seq(LineText)
    BY <1>1, <1>2, <2>1
  <2> HIDE DEF A, B, M, E, F, X
  <2> QED
    BY <1>2, <2>2, <2>3, <2>4, <2>5, <2>6, <2>7
<1>6. F = Cat(X, M) /\ X = Cat(A, B)
  <2>1. 1 \in 1 .. Len(T) + 1 /\ b \in 1 - 1 .. Len(T) /\ c \in b .. Len(T)
    BY <1>1, <1>2
  <2>2. Cat(SubSeq(T, 1, b), SubSeq(T, b + 1, c)) = SubSeq(T, 1, c)
    BY <2>1, CatParts
  <2> DEFINE a == v.from - 1
  <2>3. a \in 1 - 1 .. Len(T) /\ b \in a .. Len(T) /\ a + 1 = v.from
    BY <1>1, <1>2
  <2> HIDE DEF a
  <2>4. Cat(SubSeq(T, 1, a), SubSeq(T, a + 1, b)) = SubSeq(T, 1, b)
    BY <2>1, <2>3, CatParts
  <2> QED
    BY <2>2, <2>3, <2>4 DEF a
<1>7. Z = Cat(Cat(F, D), E)
  BY DEF Respelt, c, D, d
<1>8. X[v.from] = T[v.from]
  <2>1. 1 \in 1 .. Len(T) + 1 /\ b \in 1 - 1 .. Len(T) /\ v.from \in 1 .. b - 1 + 1 /\ 1 + v.from - 1 = v.from
    BY <1>1, <1>2
  <2>2. \A i \in 1 .. b - 1 + 1 : SubSeq(T, 1, b)[i] = T[1 + i - 1]
    BY <2>1, PartIs
  <2> QED
    BY <2>1, <2>2
<1> HIDE DEF A, B, M, E, F, X, Z
<1>9. W \in Seq(LineText) /\ Cat(M, D) \in Seq(LineText)
  <2>1. Cat(M, D) \in Seq(LineText)
    BY <1>3, <1>5, CatFacts
  <2> QED
    BY <1>5, <2>1, CatFacts
<1>10. Z = Cat(X, W)
  <2>1. Cat(Cat(X, M), D) = Cat(X, Cat(M, D))
    BY <1>3, <1>5, CatThree
  <2>2. Cat(Cat(X, Cat(M, D)), E) = Cat(X, Cat(Cat(M, D), E))
    BY <1>5, <1>9, CatThree
  <2> QED
    BY <1>6, <1>7, <2>1, <2>2
<1> HIDE DEF W
<1>11. /\ SubSeq(Z, b + 1, Len(Z)) = W
       /\ Z[v.from] = T[v.from]
  <2>1. v.from \in 1 .. Len(X) /\ b = Len(X)
    BY <1>1, <1>2, <1>5
  <2>2. SubSeq(Z, b + 1, Len(Z)) = W
    <3>1. Ends(X, W, b + 1, Len(Z))
      BY <1>10, <2>1 DEF Ends
    <3>2. SubSeq(Cat(X, W), b + 1, Len(Z)) = W
      BY <1>5, <1>9, <3>1, BackOf
    <3> QED
      BY <1>10, <3>2
  <2>3. Cat(X, W)[v.from] = X[v.from]
    BY <1>5, <1>9, <2>1, FrontAt
  <2> QED
    BY <1>8, <1>10, <2>2, <2>3
<1>12. SubSeq(Z, 1, v.from - 1) = A
  <2>1. Cat(B, W) \in Seq(LineText)
    BY <1>5, <1>9, CatFacts
  <2>2. Z = Cat(A, Cat(B, W))
    <3>1. Cat(Cat(A, B), W) = Cat(A, Cat(B, W))
      BY <1>5, <1>9, CatThree
    <3> QED
      BY <1>6, <1>10, <3>1
  <2>3. SubSeq(Cat(A, Cat(B, W)), 1, Len(A)) = A
    BY <1>5, <2>1, FrontOf
  <2> QED
    BY <1>5, <2>2, <2>3
<1>13. Made(Z, v) = P
  BY <1>11 DEF Made, P
<1>14. Respelt(Z, v) = Cat(Cat(A, P), W)
  <2>1. Respelt(Z, v) = Cat(Cat(SubSeq(Z, 1, v.from - 1), Made(Z, v)), SubSeq(Z, LastLine(v) + 1, Len(Z)))
    BY DEF Respelt
  <2>2. SubSeq(Z, LastLine(v) + 1, Len(Z)) = W
    BY <1>11 DEF b
  <2> QED
    BY <1>12, <1>13, <2>1, <2>2
<1>15. Cat(A, P) \in Seq(LineText)
  BY <1>4, <1>5, CatFacts
<1> DEFINE Q == Cat(A, P)
<1> HIDE DEF Q
<1>16. Cat(Q, W) = Cat(Cat(Cat(Q, M), D), E)
  <2>1. Q \in Seq(LineText)
    BY <1>15 DEF Q
  <2>2. Cat(Q, Cat(Cat(M, D), E)) = Cat(Cat(Q, Cat(M, D)), E)
    BY <1>5, <1>9, <2>1, CatThree
  <2>3. Cat(Q, Cat(M, D)) = Cat(Cat(Q, M), D)
    BY <1>3, <1>5, <2>1, CatThree
  <2> QED
    BY <2>2, <2>3 DEF W
<1> QED
  BY <1>14, <1>16 DEF A, P, M, D, E, Z, b, c, d, Q, Both

\* The texts after both splices.
LEMMA SpliceBoth ==
  ASSUME EditAssumption, NEW n \in Nat, n > Len(FirstLines), NEW lines \in Seq(RightLine),
         NEW u, NEW v, InRange(Len(lines), u), InRange(Len(lines), v), LastLine(v) < u.from
  PROVE  LET one == Splice(lines, u, Fresh(n, u))
         IN  TextsOf(Splice(one, v, Fresh(n + 1, v))) = Both(TextsOf(lines), v, u)
<1> DEFINE one == Splice(lines, u, Fresh(n, u))
           T == TextsOf(lines)
<1>1. Len(lines) \in Nat /\ T \in Seq(LineText) /\ Len(T) = Len(lines)
  BY TextsAre
<1>2. /\ LastLine(u) \in Int /\ u.from \in Int /\ LastLine(u) <= Len(lines)
      /\ Grown(u) \in Int /\ Grown(u) >= u.from - LastLine(u) - 1 /\ Removed(u) \in Nat
      /\ SpliceAt(u) + Removed(u) <= LastLine(u) + 1 /\ SpliceAt(u) \in Int
  BY <1>1, GrowthBounds
<1>3. LastLine(v) \in Int
  BY <1>1, GrowthBounds
<1>4. ~Overlong(lines, u)
  BY <1>1, <1>2 DEF Overlong
<1>5. one \in Seq(RightLine) /\ Len(one) = Len(lines) + Grown(u)
  BY <1>4, OneSplice
<1>6. TextsOf(one) = Respelt(T, u)
  BY <1>2, SpliceTexts
<1> HIDE DEF one
<1>7. LastLine(v) <= Len(one)
  <2>1. u.from - 1 <= Len(one)
    BY <1>1, <1>2, <1>5, SMTT(40)
  <2>2. Len(one) \in Int
    BY <1>1, <1>2, <1>5
  <2> QED
    BY <1>2, <1>3, <2>1, <2>2
<1>8. n + 1 \in Nat /\ n + 1 > Len(FirstLines)
  <2>1. Len(FirstLines) \in Nat
    BY LenProperties DEF EditAssumption
  <2> QED
    BY <2>1
<1>9. TextsOf(Splice(one, v, Fresh(n + 1, v))) = Respelt(TextsOf(one), v)
  BY <1>5, <1>7, <1>8, SpliceTexts
<1>10. Respelt(Respelt(T, u), v) = Both(T, v, u)
  BY <1>1, RespeltTwice
<1> QED
  BY <1>6, <1>9, <1>10 DEF one, T

-----------------------------------------------------------------------------
(* The calls of the edit tool.                                             *)

\* What apply_edits makes of resolved edits.
Applied(lines, rs, res) ==
  /\ res.lines \in Seq(RightLine)
  /\ res.ok \/ ~Separate(rs)
  /\ res.ok => Len(res.lines) = Len(lines) + Grown(rs[1]) + (IF Len(rs) = 2 THEN Grown(rs[2]) ELSE 0)
  /\ res.ok /\ Separate(rs) => TextsOf(res.lines) = Meant(lines, rs)

\* One range that lies inside the file is spliced in, and the file grows by what it adds.
LEMMA ApplyOne ==
  ASSUME EditAssumption, NEW n \in Nat, n > Len(FirstLines), NEW lines \in Seq(RightLine),
         NEW r, InRange(Len(lines), r)
  PROVE  Applied(lines, <<r>>, Apply(lines, <<r>>, n))
<1>1. BottomUp(<<r>>) = <<r>> /\ Len(<<r>>) = 1
  BY DEF BottomUp
<1>2. Len(lines) \in Nat
  BY LenProperties
<1>3. ~Overlong(lines, r)
  <2>1. /\ LastLine(r) \in Int /\ LastLine(r) <= Len(lines) /\ Removed(r) \in Nat
        /\ SpliceAt(r) + Removed(r) <= LastLine(r) + 1 /\ SpliceAt(r) \in Int
    BY <1>2, GrowthBounds
  <2> QED
    BY <1>2, <2>1 DEF Overlong
<1>4. /\ Splice(lines, r, Fresh(n, r)) \in Seq(RightLine)
      /\ Len(Splice(lines, r, Fresh(n, r))) = Len(lines) + Grown(r)
  BY <1>3, OneSplice
<1> DEFINE es == BottomUp(<<r>>)
<1>5. Apply(lines, <<r>>, n) = [ok |-> TRUE, lines |-> Splice(lines, r, Fresh(n, r))]
  <2>1. es[1] = r /\ Len(es) = 1
    BY <1>1
  <2>2. Apply(lines, <<r>>, n) =
          IF Overlong(lines, es[1]) THEN [ok |-> FALSE, lines |-> lines]
          ELSE IF Len(es) = 1 THEN [ok |-> TRUE, lines |-> Splice(lines, es[1], Fresh(n, es[1]))]
          ELSE IF Overlong(Splice(lines, es[1], Fresh(n, es[1])), es[2]) THEN [ok |-> FALSE, lines |-> lines]
          ELSE [ok |-> TRUE, lines |-> Splice(Splice(lines, es[1], Fresh(n, es[1])), es[2], Fresh(n + 1, es[2]))]
    BY DEF Apply
  <2> HIDE DEF es
  <2> QED
    BY <1>3, <2>1, <2>2
<1>6. Grown(r) \in Int
  BY <1>2, GrowthBounds
<1>7. TextsOf(Splice(lines, r, Fresh(n, r))) = Meant(lines, <<r>>)
  <2>1. LastLine(r) <= Len(lines)
    BY <1>2, GrowthBounds
  <2> QED
    BY <2>1, SpliceTexts, MeantOne
<1> QED
  BY <1>1, <1>2, <1>4, <1>5, <1>6, <1>7 DEF Applied

\* An edit that ends above a line of the file does not reach past its end.
LEMMA OverlongNot ==
  ASSUME NEW one, NEW u, NEW v, LastLine(v) \in Int, u.from \in Int, Len(one) \in Int,
         SpliceAt(v) \in Int, Removed(v) \in Int, SpliceAt(v) + Removed(v) - 1 <= LastLine(v),
         LastLine(v) <= u.from - 1, u.from - 1 <= Len(one)
  PROVE  ~Overlong(one, v)
BY DEF Overlong

\* Of two, the lower is spliced in first.
LEMMA SpliceTwo ==
  ASSUME EditAssumption, NEW n \in Nat, n > Len(FirstLines), NEW lines \in Seq(RightLine),
         NEW u, NEW v, InRange(Len(lines), u), InRange(Len(lines), v), v.from <= u.from
  PROVE  LET one == Splice(lines, u, Fresh(n, u))
             two == Splice(one, v, Fresh(n + 1, v))
         IN  /\ ~Overlong(lines, u) /\ (Apart(v, u) => ~Overlong(one, v))
             /\ ~Overlong(one, v) =>
                  two \in Seq(RightLine) /\ Len(two) = Len(lines) + Grown(u) + Grown(v)
<1> DEFINE one == Splice(lines, u, Fresh(n, u))
           two == Splice(one, v, Fresh(n + 1, v))
<1>1. Len(lines) \in Nat
  BY LenProperties
<1>2. /\ LastLine(u) \in Int /\ u.from \in Int /\ LastLine(u) <= Len(lines)
      /\ Grown(u) \in Int /\ Grown(u) >= u.from - LastLine(u) - 1 /\ Removed(u) \in Nat
      /\ SpliceAt(u) + Removed(u) <= LastLine(u) + 1 /\ SpliceAt(u) \in Int
  BY <1>1, GrowthBounds
<1>3. /\ LastLine(v) \in Int /\ v.from \in Int
      /\ Grown(v) \in Int /\ Removed(v) \in Nat
      /\ SpliceAt(v) + Removed(v) <= LastLine(v) + 1 /\ SpliceAt(v) \in Int
  BY <1>1, GrowthBounds
<1>4. ~Overlong(lines, u)
  BY <1>1, <1>2 DEF Overlong
<1>5. one \in Seq(RightLine) /\ Len(one) = Len(lines) + Grown(u)
  BY <1>4, OneSplice
<1> HIDE DEF one
<1>6. ASSUME Apart(v, u)
      PROVE  ~Overlong(one, v)
  <2>1. LastLine(v) < u.from
    BY <1>1, <1>6, ApartOrder
  <2>2. u.from - 1 <= Len(one) /\ Len(one) \in Int
    BY <1>1, <1>2, <1>5, SMTT(40)
  <2>3. LastLine(v) <= u.from - 1
    BY <1>2, <1>3, <2>1, SMTT(40)
  <2>4. SpliceAt(v) + Removed(v) - 1 <= LastLine(v) /\ SpliceAt(v) + Removed(v) - 1 \in Int
    BY <1>3
  <2>5. /\ LastLine(v) \in Int /\ u.from \in Int /\ Len(one) \in Int
        /\ SpliceAt(v) \in Int /\ Removed(v) \in Int
    BY <1>2, <1>3, <2>2
  <2> QED
    BY <2>2, <2>3, <2>4, <2>5, OverlongNot
<1>7. ASSUME ~Overlong(one, v)
      PROVE  two \in Seq(RightLine) /\ Len(two) = Len(lines) + Grown(u) + Grown(v)
  <2>1. n + 1 \in Nat /\ n + 1 > Len(FirstLines)
    <3>1. Len(FirstLines) \in Nat
      BY LenProperties DEF EditAssumption
    <3> QED
      BY <3>1
  <2>2. two \in Seq(RightLine) /\ Len(two) = Len(one) + Grown(v)
    BY <1>5, <1>7, <2>1, OneSplice
  <2> HIDE DEF two
  <2> QED
    BY <1>1, <1>2, <1>3, <1>5, <2>2
<1> QED
  BY <1>4, <1>6, <1>7 DEF one

\* And of two.
LEMMA ApplyTwo ==
  ASSUME EditAssumption, NEW n \in Nat, n > Len(FirstLines), NEW lines \in Seq(RightLine),
         NEW r, NEW s, InRange(Len(lines), r), InRange(Len(lines), s)
  PROVE  Applied(lines, <<r, s>>, Apply(lines, <<r, s>>, n))
<1> DEFINE es == BottomUp(<<r, s>>)
           res == Apply(lines, <<r, s>>, n)
<1>1. /\ Len(lines) \in Nat /\ r.from \in Int /\ s.from \in Int
      /\ Grown(r) \in Int /\ Grown(s) \in Int
  <2>1. Len(lines) \in Nat
    BY LenProperties
  <2>2. Grown(r) \in Int /\ r.from \in Int
    BY <2>1, GrowthBounds
  <2>3. Grown(s) \in Int /\ s.from \in Int
    BY <2>1, GrowthBounds
  <2> QED
    BY <2>1, <2>2, <2>3
<1> DEFINE u == IF r.from < s.from THEN s ELSE r
           v == IF r.from < s.from THEN r ELSE s
<1>2. es = <<u, v>> /\ v.from <= u.from /\ ((u = r /\ v = s) \/ (u = s /\ v = r))
  <2>1. Len(<<r, s>>) = 2 /\ <<r, s>>[1] = r /\ <<r, s>>[2] = s
    OBVIOUS
  <2>2. CASE r.from < s.from
    <3>1. es = <<s, r>> /\ u = s /\ v = r
      BY <1>1, <2>1, <2>2 DEF BottomUp
    <3>2. v.from <= u.from
      BY <1>1, <2>2
    <3> QED
      BY <3>1, <3>2
  <2>3. CASE ~(r.from < s.from)
    <3>1. es = <<r, s>> /\ u = r /\ v = s
      BY <1>1, <2>1, <2>3 DEF BottomUp
    <3>2. v.from <= u.from
      BY <1>1, <2>3
    <3> QED
      BY <3>1, <3>2
  <2> QED
    BY <2>2, <2>3
<1> HIDE DEF u, v
<1> DEFINE one == Splice(lines, u, Fresh(n, u))
           two == Splice(one, v, Fresh(n + 1, v))
<1>3. /\ ~Overlong(lines, u) /\ (Apart(v, u) => ~Overlong(one, v))
      /\ ~Overlong(one, v) =>
           two \in Seq(RightLine) /\ Len(two) = Len(lines) + Grown(u) + Grown(v)
  <2>1. InRange(Len(lines), u) /\ InRange(Len(lines), v) /\ v.from <= u.from
    BY <1>2
  <2> QED
    BY <2>1, SpliceTwo
<1>4. es[1] = u /\ es[2] = v /\ Len(es) = 2
  BY <1>2
<1>5. res = IF Overlong(lines, es[1]) THEN [ok |-> FALSE, lines |-> lines]
            ELSE IF Len(es) = 1 THEN [ok |-> TRUE, lines |-> Splice(lines, es[1], Fresh(n, es[1]))]
            ELSE IF Overlong(Splice(lines, es[1], Fresh(n, es[1])), es[2]) THEN [ok |-> FALSE, lines |-> lines]
            ELSE [ok |-> TRUE, lines |-> Splice(Splice(lines, es[1], Fresh(n, es[1])), es[2], Fresh(n + 1, es[2]))]
  BY DEF Apply
<1> HIDE DEF es, res
<1>6. res = IF Overlong(one, v) THEN [ok |-> FALSE, lines |-> lines] ELSE [ok |-> TRUE, lines |-> two]
  BY <1>3, <1>4, <1>5
<1> HIDE DEF one, two
<1>7. res.lines \in Seq(RightLine)
  BY <1>3, <1>6
<1>8. res.ok \/ ~Separate(<<r, s>>)
  <2>1. Separate(<<r, s>>) => Apart(r, s) /\ Apart(s, r)
    BY DEF Separate
  <2> QED
    BY <1>2, <1>3, <1>6, <2>1
<1>9. res.ok => Len(res.lines) = Len(lines) + Grown(r) + Grown(s)
  <2>1. res.ok => Len(res.lines) = Len(lines) + Grown(u) + Grown(v)
    BY <1>3, <1>6
  <2> QED
    BY <1>1, <1>2, <2>1
<1>10. ASSUME res.ok, Separate(<<r, s>>)
       PROVE  TextsOf(res.lines) = Meant(lines, <<r, s>>)
  <2>1. Apart(v, u) /\ res.lines = two
    <3>1. Apart(r, s) /\ Apart(s, r)
      BY <1>10 DEF Separate
    <3> QED
      BY <1>2, <1>6, <1>10, <3>1
  <2>2. InRange(Len(lines), u) /\ InRange(Len(lines), v) /\ v.from <= u.from
    BY <1>2
  <2> DEFINE rs == <<r, s>>
  <2>3. DOMAIN rs = {1, 2} /\ ((rs[1] = v /\ rs[2] = u) \/ (rs[1] = u /\ rs[2] = v)) /\ Separate(rs)
    BY <1>2, <1>10
  <2> HIDE DEF rs
  <2>4. LastLine(v) < u.from /\ Meant(lines, rs) = Both(TextsOf(lines), v, u)
    BY <2>1, <2>2, <2>3, MeantTwo
  <2>5. TextsOf(two) = Both(TextsOf(lines), v, u)
    BY <2>2, <2>4, SpliceBoth DEF one, two
  <2> QED
    BY <2>1, <2>4, <2>5 DEF rs
<1> QED
  BY <1>7, <1>8, <1>9, <1>10 DEF Applied, res

\* Of two edits, r above s, the places that are reported are in the new file.
LEMMA PlacesFit ==
  ASSUME NEW n \in Nat, NEW r, NEW s,
         LastLine(r) \in Int, r.from \in Int, 1 <= r.from, r.from <= LastLine(r), LastLine(r) <= n,
         Grown(r) \in Int, Grown(r) >= r.from - LastLine(r) - 1,
         LastLine(s) \in Int, s.from \in Int, 1 <= s.from, s.from <= LastLine(s), LastLine(s) <= n,
         Grown(s) \in Int, Grown(s) >= s.from - LastLine(s) - 1, LastLine(r) < s.from
  PROVE  /\ r.from <= (n + Grown(r) + Grown(s)) + 1 /\ s.from + Grown(r) <= (n + Grown(r) + Grown(s)) + 1
         /\ s.from + Grown(r) >= 1 /\ s.from + Grown(r) \in Int
OBVIOUS

\* The places that are reported for separate edits are in the file.
LEMMA ReportFits ==
  ASSUME NEW n \in Nat, NEW new \in Seq(RightLine), new # <<>>,
         NEW rs, Separate(rs),
         \/ \E r : rs = <<r>> /\ InRange(n, r) /\ Len(new) = n + Grown(r)
         \/ \E r, s : /\ rs = <<r, s>> /\ InRange(n, r) /\ InRange(n, s)
                      /\ Len(new) = n + Grown(r) + Grown(s)
  PROVE  ~ReportPanics(rs, new)
<1>1. Len(new) \in Nat /\ Len(new) # 0
  BY EmptySeq, LenProperties
<1> DEFINE Fits(at) == at \in Int /\ at >= 1 /\ at <= Len(new) + 1
<1>2. ASSUME \A k \in DOMAIN rs : Fits(rs[k].from + Shift(rs, rs[k])) /\ Len(Fresh(0, rs[k])) \in {0, 1}
      PROVE  ~ReportPanics(rs, new)
  <2>1. ASSUME NEW k \in DOMAIN rs
        PROVE  LET at == rs[k].from + Shift(rs, rs[k])
                   w == Len(Fresh(0, rs[k]))
                   e == at + (IF w = 0 THEN 0 ELSE w - 1)
               IN  ~(at < 1 \/ at > (IF e < Len(new) THEN e ELSE Len(new)) + 1)
    <3> DEFINE at == rs[k].from + Shift(rs, rs[k])
               w == Len(Fresh(0, rs[k]))
    <3>1. Fits(at) /\ w \in {0, 1}
      BY <1>2
    <3> HIDE DEF at, w
    <3>2. at + (IF w = 0 THEN 0 ELSE w - 1) = at
      BY <3>1
    <3>3. ~(at < 1 \/ at > (IF at < Len(new) THEN at ELSE Len(new)) + 1)
      BY <1>1, <3>1
    <3> QED
      BY <3>2, <3>3 DEF at, w
  <2> QED
    BY <1>1, <2>1 DEF ReportPanics
<1>3. CASE \E r : rs = <<r>> /\ InRange(n, r) /\ Len(new) = n + Grown(r)
  <2>1. PICK r : rs = <<r>> /\ InRange(n, r) /\ Len(new) = n + Grown(r)
    BY <1>3
  <2>2. /\ LastLine(r) \in Int /\ r.from \in Int /\ 1 <= r.from /\ r.from <= LastLine(r) /\ LastLine(r) <= n
        /\ Grown(r) \in Int
        /\ Grown(r) >= r.from - LastLine(r) - 1 /\ Len(Fresh(0, r)) \in {0, 1}
    BY <2>1, GrowthBounds
  <2>3. DOMAIN rs = {1} /\ rs[1] = r
    BY <2>1
  <2>4. Shift(rs, r) = 0
    BY <2>2, <2>3 DEF Shift
  <2>5. Fits(r.from + Shift(rs, r))
    BY <2>1, <2>2, <2>4
  <2> HIDE DEF Fits
  <2> QED
    BY <1>2, <2>2, <2>3, <2>5
<1>4. CASE \E r, s : /\ rs = <<r, s>> /\ InRange(n, r) /\ InRange(n, s)
                     /\ Len(new) = n + Grown(r) + Grown(s)
  <2>1. PICK r, s : /\ rs = <<r, s>> /\ InRange(n, r) /\ InRange(n, s)
                    /\ Len(new) = n + Grown(r) + Grown(s)
    BY <1>4
  <2>2. DOMAIN rs = {1, 2} /\ rs[1] = r /\ rs[2] = s
    BY <2>1
  <2>3. Apart(r, s) /\ Apart(s, r)
    BY <2>2 DEF Separate
  <2>4. /\ LastLine(r) \in Int /\ r.from \in Int /\ 1 <= r.from /\ r.from <= LastLine(r) /\ LastLine(r) <= n
        /\ Grown(r) \in Int
        /\ Grown(r) >= r.from - LastLine(r) - 1 /\ Len(Fresh(0, r)) \in {0, 1}
    BY <2>1, GrowthBounds
  <2>5. /\ LastLine(s) \in Int /\ s.from \in Int /\ 1 <= s.from /\ s.from <= LastLine(s) /\ LastLine(s) <= n
        /\ Grown(s) \in Int
        /\ Grown(s) >= s.from - LastLine(s) - 1 /\ Len(Fresh(0, s)) \in {0, 1}
    BY <2>1, GrowthBounds
  <2>6. Shift(rs, r) = IF s.from < r.from THEN Grown(s) ELSE 0
    BY <2>2, <2>4, <2>5 DEF Shift
  <2>7. Shift(rs, s) = IF r.from < s.from THEN Grown(r) ELSE 0
    BY <2>2, <2>4, <2>5 DEF Shift
  <2>8. CASE r.from <= s.from
    <3>1. LastLine(r) < s.from
      BY <2>1, <2>3, <2>8, ApartOrder
    <3>2. Shift(rs, r) = 0 /\ Shift(rs, s) = Grown(r)
      BY <2>4, <2>5, <2>6, <2>7, <3>1, SMTT(40)
    <3>3. /\ r.from <= (n + Grown(r) + Grown(s)) + 1 /\ s.from + Grown(r) <= (n + Grown(r) + Grown(s)) + 1
          /\ s.from + Grown(r) >= 1 /\ s.from + Grown(r) \in Int
      BY <2>4, <2>5, <3>1, PlacesFit
    <3>4. Fits(r.from + Shift(rs, r)) /\ Fits(s.from + Shift(rs, s))
      BY <2>1, <2>4, <3>2, <3>3
    <3> HIDE DEF Fits
    <3> QED
      BY <1>2, <2>2, <2>4, <2>5, <3>4
  <2>9. CASE s.from <= r.from
    <3>1. LastLine(s) < r.from
      BY <2>1, <2>3, <2>9, ApartOrder
    <3>2. Shift(rs, s) = 0 /\ Shift(rs, r) = Grown(s)
      BY <2>4, <2>5, <2>6, <2>7, <3>1
    <3>3. /\ s.from <= (n + Grown(s) + Grown(r)) + 1 /\ r.from + Grown(s) <= (n + Grown(s) + Grown(r)) + 1
          /\ r.from + Grown(s) >= 1 /\ r.from + Grown(s) \in Int
      BY <2>4, <2>5, <3>1, PlacesFit
    <3>4. n + Grown(s) + Grown(r) = n + Grown(r) + Grown(s)
      BY <2>4, <2>5
    <3>5. Fits(r.from + Shift(rs, r)) /\ Fits(s.from + Shift(rs, s))
      BY <2>1, <2>5, <3>2, <3>3, <3>4
    <3> HIDE DEF Fits
    <3> QED
      BY <1>2, <2>2, <2>4, <2>5, <3>5
  <2> QED
    BY <2>4, <2>5, <2>8, <2>9
<1> QED
  BY <1>3, <1>4

\* One or two resolved edits, in the file they were resolved in.
Work(lines, rs) ==
  \/ \E r : rs = <<r>> /\ InRange(Len(lines), r) /\ Holds(lines, r)
  \/ \E r, s : /\ rs = <<r, s>> /\ InRange(Len(lines), r) /\ Holds(lines, r)
               /\ InRange(Len(lines), s) /\ Holds(lines, s)

\* What a call works on: its edits landed, and it dies only of edits that are not separate
\* or of the file without a line.
RightPlan(p) ==
  /\ p = [phase |-> p.phase, base |-> p.base, edits |-> p.edits, new |-> p.new]
  /\ p.phase \in {"loaded", "dead"}
  /\ p.base \in Seq(RightLine) /\ p.new \in Seq(RightLine)
  /\ Work(p.base, p.edits)
  /\ p.phase = "loaded" =>
       Len(p.new) = Len(p.base) + Grown(p.edits[1])
                      + (IF Len(p.edits) = 2 THEN Grown(p.edits[2]) ELSE 0)
  /\ p.phase = "loaded" /\ Separate(p.edits) => TextsOf(p.new) = Meant(p.base, p.edits)
  /\ p.phase = "dead" => ~Separate(p.edits) \/ p.new = <<>>

EditInv ==
  /\ onDisk \in Seq(RightLine)
  /\ DOMAIN seen = Agent /\ \A a \in Agent : seen[a] \in Seq(RightLine)
  /\ DOMAIN plan = Agent /\ \A a \in Agent : plan[a] = Idle \/ RightPlan(plan[a])

\* edit_file up to its rename.
LEMMA LoadedRight ==
  ASSUME EditAssumption, EditInv, NEW a \in Agent, NEW list \in EditLists(a, seen[a]),
         LoadEdit(a, list)
  PROVE  plan'[a] = Idle \/ RightPlan(plan'[a])
<1> DEFINE rs == Resolved(onDisk, list)
           res == Apply(onDisk, rs, FreshId)
<1>1. plan'[a] = IF rs = <<>> THEN Idle
                 ELSE [phase |-> IF res.ok THEN "loaded" ELSE "dead",
                       base |-> onDisk, edits |-> rs, new |-> res.lines]
  BY DEF LoadEdit, EditInv
<1>2. onDisk \in Seq(RightLine) /\ seen[a] \in Seq(RightLine)
  BY DEF EditInv
<1>3. DOMAIN list \subseteq {1, 2} /\ \A k \in DOMAIN list : RightEdit(list[k])
  BY <1>2, EditsSeen
<1>4. rs = <<>> \/ Work(onDisk, rs)
  BY <1>2, <1>3, ResolvedInRange DEF Work
<1>5. FreshId \in Nat /\ FreshId > Len(FirstLines)
  BY FreshIsNew
<1>6. ASSUME Work(onDisk, rs)
      PROVE  Applied(onDisk, rs, res)
  <2>1. CASE \E r : rs = <<r>> /\ InRange(Len(onDisk), r) /\ Holds(onDisk, r)
    <3>1. PICK r : rs = <<r>> /\ InRange(Len(onDisk), r)
      BY <2>1
    <3>2. Applied(onDisk, <<r>>, Apply(onDisk, <<r>>, FreshId))
      BY <1>2, <1>5, <3>1, ApplyOne
    <3> QED
      BY <3>1, <3>2
  <2>2. CASE \E r, s : /\ rs = <<r, s>> /\ InRange(Len(onDisk), r) /\ Holds(onDisk, r)
                       /\ InRange(Len(onDisk), s) /\ Holds(onDisk, s)
    <3>1. PICK r, s : rs = <<r, s>> /\ InRange(Len(onDisk), r) /\ InRange(Len(onDisk), s)
      BY <2>2
    <3>2. Applied(onDisk, <<r, s>>, Apply(onDisk, <<r, s>>, FreshId))
      BY <1>2, <1>5, <3>1, ApplyTwo
    <3> QED
      BY <3>1, <3>2
  <2> HIDE DEF rs, res
  <2> QED
    BY <1>6, <2>1, <2>2 DEF Work
<1> HIDE DEF rs, res
<1>7. ASSUME Work(onDisk, rs), rs # <<>>
      PROVE  RightPlan(plan'[a])
  <2>1. Applied(onDisk, rs, res)
    BY <1>6, <1>7
  <2>2. plan'[a] = [phase |-> IF res.ok THEN "loaded" ELSE "dead",
                    base |-> onDisk, edits |-> rs, new |-> res.lines]
    BY <1>1, <1>7
  <2> DEFINE p == plan'[a]
  <2>3. /\ p.phase = IF res.ok THEN "loaded" ELSE "dead"
        /\ p.base = onDisk /\ p.edits = rs /\ p.new = res.lines
        /\ p = [phase |-> p.phase, base |-> p.base, edits |-> p.edits, new |-> p.new]
    BY <2>2
  <2> HIDE DEF p
  <2>4. p.phase \in {"loaded", "dead"} /\ (p.phase = "loaded" <=> res.ok)
    BY <2>3
  <2>5. RightPlan(p)
    BY <1>2, <1>7, <2>1, <2>3, <2>4 DEF RightPlan, Applied
  <2> QED
    BY <2>5 DEF p
<1> QED
  BY <1>1, <1>4, <1>7

\* The answer after a rename or a dry run.
LEMMA ReportedRight ==
  ASSUME NEW p, RightPlan(p), p.phase = "loaded"
  PROVE  Reported(p) = Idle \/ RightPlan(Reported(p))
<1>1. CASE ~ReportPanics(p.edits, p.new)
  BY <1>1 DEF Reported
<1>2. CASE ReportPanics(p.edits, p.new)
  <2> DEFINE q == [p EXCEPT !.phase = "dead"]
  <2>1. /\ p = [phase |-> p.phase, base |-> p.base, edits |-> p.edits, new |-> p.new]
        /\ p.base \in Seq(RightLine) /\ p.new \in Seq(RightLine)
        /\ Work(p.base, p.edits)
        /\ Len(p.new) = Len(p.base) + Grown(p.edits[1])
                          + (IF Len(p.edits) = 2 THEN Grown(p.edits[2]) ELSE 0)
    BY DEF RightPlan
  <2>2. q = [phase |-> "dead", base |-> p.base, edits |-> p.edits, new |-> p.new]
    BY <2>1
  <2>3. q.phase = "dead" /\ q.base = p.base /\ q.edits = p.edits /\ q.new = p.new
    BY <2>2
  <2> HIDE DEF q
  <2>4. Len(p.base) \in Nat
    BY <2>1, LenProperties
  <2>5. ~Separate(p.edits) \/ p.new = <<>>
    <3> SUFFICES ASSUME Separate(p.edits), p.new # <<>> PROVE FALSE
      OBVIOUS
    <3>1. CASE \E r : p.edits = <<r>> /\ InRange(Len(p.base), r) /\ Holds(p.base, r)
      <4>1. PICK r : p.edits = <<r>> /\ InRange(Len(p.base), r)
        BY <3>1
      <4>2. p.edits[1] = r /\ Len(p.edits) = 1
        BY <4>1
      <4>3. Grown(r) \in Int
        BY <2>4, <4>1, GrowthBounds
      <4>4. Len(p.new) = Len(p.base) + Grown(r)
        BY <2>1, <2>4, <4>2, <4>3
      <4> QED
        BY <1>2, <2>1, <2>4, <4>1, <4>4, ReportFits
    <3>2. CASE \E r, s : /\ p.edits = <<r, s>> /\ InRange(Len(p.base), r) /\ Holds(p.base, r)
                         /\ InRange(Len(p.base), s) /\ Holds(p.base, s)
      <4>1. PICK r, s : p.edits = <<r, s>> /\ InRange(Len(p.base), r) /\ InRange(Len(p.base), s)
        BY <3>2
      <4>2. p.edits[1] = r /\ p.edits[2] = s /\ Len(p.edits) = 2
        BY <4>1
      <4>3. Len(p.new) = Len(p.base) + Grown(r) + Grown(s)
        BY <2>1, <4>2
      <4> QED
        BY <1>2, <2>1, <2>4, <4>1, <4>3, ReportFits
    <3> QED
      BY <2>1, <3>1, <3>2 DEF Work
  <2>6. RightPlan(q)
    BY <2>1, <2>2, <2>3, <2>5 DEF RightPlan
  <2>7. Reported(p) = q
    BY <1>2 DEF Reported, q
  <2> QED
    BY <2>6, <2>7
<1> QED
  BY <1>1, <1>2

\* The file and the plans start right: no agent has seen or planned anything.
LEMMA EditStart ==
  ASSUME EditAssumption, EditInit
  PROVE  EditInv
BY NewLines DEF EditInit, EditInv

\* Every action leaves right lines on the disk and right plans behind.
LEMMA EditStep ==
  ASSUME EditAssumption, EditInv, [EditNext]_editVars
  PROVE  EditInv'
<1>1. /\ onDisk \in Seq(RightLine)
      /\ DOMAIN seen = Agent /\ \A a \in Agent : seen[a] \in Seq(RightLine)
      /\ DOMAIN plan = Agent /\ \A a \in Agent : plan[a] = Idle \/ RightPlan(plan[a])
  BY DEF EditInv
<1>2. ASSUME NEW a \in Agent, Look(a)
      PROVE  EditInv'
  BY <1>1, <1>2 DEF Look, EditInv
<1>3. ASSUME NEW a \in Agent, NEW list \in EditLists(a, seen[a]), LoadEdit(a, list)
      PROVE  EditInv'
  <2>1. plan'[a] = Idle \/ RightPlan(plan'[a])
    BY <1>3, LoadedRight
  <2>2. /\ DOMAIN plan' = Agent /\ \A b \in Agent : b # a => plan'[b] = plan[b]
        /\ UNCHANGED <<onDisk, seen>>
    BY <1>1, <1>3 DEF LoadEdit
  <2> QED
    BY <1>1, <2>1, <2>2 DEF EditInv
<1>4. ASSUME NEW a \in Agent, plan[a].phase = "loaded"
      PROVE  RightPlan(plan[a]) /\ (Reported(plan[a]) = Idle \/ RightPlan(Reported(plan[a])))
  <2>1. Idle.phase # "loaded"
    BY DEF Idle
  <2>2. RightPlan(plan[a])
    BY <1>1, <1>4, <2>1
  <2> QED
    BY <1>4, <2>2, ReportedRight
<1>5. ASSUME NEW a \in Agent, CommitEdit(a)
      PROVE  EditInv'
  <2>1. plan[a].phase = "loaded"
    BY <1>5 DEF CommitEdit
  <2>2. RightPlan(plan[a]) /\ (Reported(plan[a]) = Idle \/ RightPlan(Reported(plan[a])))
    BY <1>4, <2>1
  <2>3. plan[a].new \in Seq(RightLine)
    BY <2>2 DEF RightPlan
  <2>4. /\ onDisk' = plan[a].new /\ DOMAIN seen' = Agent /\ DOMAIN plan' = Agent
        /\ seen'[a] = plan[a].new /\ plan'[a] = Reported(plan[a])
        /\ \A b \in Agent : b # a => seen'[b] = seen[b] /\ plan'[b] = plan[b]
    BY <1>1, <1>5 DEF CommitEdit
  <2> QED
    BY <1>1, <2>2, <2>3, <2>4 DEF EditInv
<1>6. ASSUME NEW a \in Agent, FailWrite(a)
      PROVE  EditInv'
  BY <1>1, <1>6 DEF FailWrite, EditInv
<1>7. ASSUME NEW a \in Agent, DryRun(a)
      PROVE  EditInv'
  <2>1. plan[a].phase = "loaded"
    BY <1>7 DEF DryRun
  <2>2. Reported(plan[a]) = Idle \/ RightPlan(Reported(plan[a]))
    BY <1>4, <2>1
  <2>3. /\ DOMAIN plan' = Agent /\ plan'[a] = Reported(plan[a])
        /\ \A b \in Agent : b # a => plan'[b] = plan[b]
        /\ UNCHANGED <<onDisk, seen>>
    BY <1>1, <1>7 DEF DryRun
  <2> QED
    BY <1>1, <2>2, <2>3 DEF EditInv
<1>8. ASSUME NEW a \in Agent, StartWrite(a) \/ FinishWrite(a)
      PROVE  EditInv'
  <2>1. FreshId \in Nat /\ FreshId > Len(FirstLines)
    BY FreshIsNew
  <2>2. FreshId + 50 \in Nat /\ FreshId + 50 > Len(FirstLines)
    <3>1. Len(FirstLines) \in Nat
      BY LenProperties DEF EditAssumption
    <3> QED
      BY <2>1, <3>1
  <2>3. Line(0, Blank) \in RightLine /\ Line(FreshId + 50, NewText) \in RightLine
    BY <2>2, NewLines
  <2>4. onDisk' = <<Line(0, Blank)>> \/ onDisk' = <<Line(FreshId + 50, NewText)>>
    BY <1>8 DEF StartWrite, FinishWrite
  <2>5. onDisk' \in Seq(RightLine)
    <3>1. ASSUME NEW l \in RightLine
          PROVE  <<l>> \in Seq(RightLine)
      OBVIOUS
    <3> QED
      BY <2>3, <2>4, <3>1
  <2>6. UNCHANGED <<seen, plan>>
    BY <1>8 DEF StartWrite, FinishWrite
  <2> QED
    BY <1>1, <2>5, <2>6 DEF EditInv
<1>9. CASE UNCHANGED editVars
  BY <1>1, <1>9 DEF editVars, EditInv
<1> QED
  BY <1>2, <1>3, <1>5, <1>6, <1>7, <1>8, <1>9 DEF EditNext

\* An anchor lands only on a line that reads like what edit_file has kept of its text; and on
\* the very line the agent saw, if that is all of the text, no other line reads so and the
\* line is near, whatever others did to the file in between (EditFile).
THEOREM AnchorsInvariance == EditSpec => []AnchorsHold
<1>1. EditInit => EditInv
  BY EditAssumption, EditStart
<1>2. EditInv /\ [EditNext]_editVars => EditInv'
  BY EditAssumption, EditStep
<1>3. EditInv => AnchorsHold
  <2> SUFFICES ASSUME EditInv, NEW a \in Agent, plan[a].phase = "loaded", NEW k \in DOMAIN plan[a].edits
               PROVE  Holds(plan[a].base, plan[a].edits[k])
    BY DEF AnchorsHold, Holds
  <2>1. RightPlan(plan[a])
    BY DEF EditInv, Idle
  <2>2. Work(plan[a].base, plan[a].edits)
    BY <2>1 DEF RightPlan
  <2> QED
    BY <2>2 DEF Work
<1> QED
  BY <1>1, <1>2, <1>3, PTL DEF EditSpec

\* The edit tool takes its agent's task down only over edits that are not separate or that
\* leave the file without a line (EditFile).
THEOREM PanicsInvariance == EditSpec => []PanicsOnlyOnOverlap
<1>1. EditInit => EditInv
  BY EditAssumption, EditStart
<1>2. EditInv /\ [EditNext]_editVars => EditInv'
  BY EditAssumption, EditStep
<1>3. EditInv => PanicsOnlyOnOverlap
  <2> SUFFICES ASSUME EditInv, NEW a \in Agent, plan[a].phase = "dead"
               PROVE  ~Separate(plan[a].edits) \/ plan[a].new = <<>>
    BY DEF PanicsOnlyOnOverlap
  <2>1. RightPlan(plan[a])
    BY DEF EditInv, Idle
  <2> QED
    BY <2>1 DEF RightPlan
<1> QED
  BY <1>1, <1>2, <1>3, PTL DEF EditSpec

\* However the edits of one call are ordered, the file it is about to write is the one they
\* mean, as long as they are separate (EditFile).
THEOREM SplicesInvariance == EditSpec => []SplicesExact
<1>1. EditInit => EditInv
  BY EditAssumption, EditStart
<1>2. EditInv /\ [EditNext]_editVars => EditInv'
  BY EditAssumption, EditStep
<1>3. EditInv => SplicesExact
  <2> SUFFICES ASSUME EditInv, NEW a \in Agent, plan[a].phase = "loaded", Separate(plan[a].edits)
               PROVE  TextsOf(plan[a].new) = Meant(plan[a].base, plan[a].edits)
    BY DEF SplicesExact
  <2>1. RightPlan(plan[a])
    BY DEF EditInv, Idle
  <2> QED
    BY <2>1 DEF RightPlan
<1> QED
  BY <1>1, <1>2, <1>3, PTL DEF EditSpec
=============================================================================
