--------------------------- MODULE LockTrieProofs ---------------------------
(***************************************************************************)
(* Theorems about the connection table (ConnSlots), for any size of it,    *)
(* and about LockTrie and LockBroker, for every tree of paths and set of   *)
(* clients.                                                                *)
(*                                                                         *)
(* Every handler of the trie is a release of one node (Free), a grant of one node      *)
(* (Give), both, or a change of the queues alone.  The lemmas say what     *)
(* each of these does to the counts, the registries and the queues; the    *)
(* invariant then follows action by action.                                *)
(***************************************************************************)
EXTENDS LockBroker, FiniteSetTheorems, SequenceTheorems, TLAPS

-----------------------------------------------------------------------------
(* The connection table.                                                   *)

\* There are as many descriptors as epoll slots above the listener.
LEMMA FdFinite == IsFiniteSet(TableFd) /\ Cardinality(TableFd) = MaxEvents - FirstFd
  BY SizeAssumption, FS_Interval DEF TableFd

\* The empty table.
LEMMA TableInvInit == TableInit => TableInv
<1> SUFFICES ASSUME TableInit PROVE TableInv
  OBVIOUS
<1> USE SizeAssumption DEF TableInit, TableSlot, TableFd, Null, Freed
<1>1. TableTypeOK
  BY DEF TableTypeOK
<1>2. SlotsAccounted
  BY FS_EmptySet DEF SlotsAccounted
<1>3. OpenOnRecord
  BY DEF OpenOnRecord
<1>4. RecordedBack
  BY DEF RecordedBack
<1> QED BY <1>1, <1>2, <1>3, <1>4 DEF TableInv

\* accept fills the slot on top of the free stack.
LEMMA AcceptKeeps == ASSUME TableInv, NEW f \in TableFd, Accept(f) PROVE TableInv'
<1> DEFINE slot == free_slots_top - 1
<1> USE SizeAssumption DEF TableSlot, TableFd, Null, Freed, TableInv
<1>0. /\ f \notin accepted
      /\ slot \in TableSlot
      /\ accepted' = accepted \cup {f}
      /\ all_clients' = [all_clients EXCEPT ![slot] = f]
      /\ fd_to_slot' = [fd_to_slot EXCEPT ![f] = slot]
      /\ free_slots_top' = slot
  BY DEF Accept, NextFd, SlotRecorded, TableTypeOK
<1> HIDE DEF slot
<1>1. TableTypeOK'
  <2>1. slot \in 0..MaxEvents
    BY <1>0
  <2> QED BY <1>0, <2>1 DEF TableTypeOK
<1>2. SlotsAccounted'
  <2>1. IsFiniteSet(accepted)
    BY FdFinite, FS_Subset DEF TableTypeOK
  <2>2. Cardinality(accepted') = Cardinality(accepted) + 1
    BY <1>0, <2>1, FS_AddElement
  <2>3. Cardinality(accepted) \in Nat
    BY <2>1, FS_CardinalityType
  <2>4. slot = free_slots_top - 1
    BY DEF slot
  <2> QED BY <1>0, <2>2, <2>3, <2>4 DEF SlotsAccounted, TableTypeOK
<1>3. OpenOnRecord'
  BY <1>0 DEF OpenOnRecord, TableTypeOK
<1>4. RecordedBack'
  BY <1>0 DEF RecordedBack, TableTypeOK
<1> QED BY <1>1, <1>2, <1>3, <1>4

\* A disconnect pushes its slot back.
LEMMA CloseKeeps == ASSUME TableInv, NEW f \in TableFd, Close(f) PROVE TableInv'
<1> USE SizeAssumption DEF TableSlot, TableFd, Null, Freed, TableInv
<1>0. /\ f \in accepted
      /\ fd_to_slot[f] \in TableSlot
      /\ accepted' = accepted \ {f}
      /\ all_clients' = [all_clients EXCEPT ![fd_to_slot[f]] = -1]
      /\ fd_to_slot' = [fd_to_slot EXCEPT ![f] = -1]
      /\ free_slots_top' = free_slots_top + 1
  BY DEF Close, Pushed, TableTypeOK, OpenOnRecord
<1>1. SlotsAccounted' /\ free_slots_top' \in 0..MaxEvents
  <2>1. IsFiniteSet(accepted)
    BY FdFinite, FS_Subset DEF TableTypeOK
  <2>2. IsFiniteSet(accepted') /\ Cardinality(accepted') = Cardinality(accepted) - 1
    BY <1>0, <2>1, FS_RemoveElement
  <2>3. Cardinality(accepted) \in Nat /\ Cardinality(accepted') \in Nat
    BY <2>1, <2>2, FS_CardinalityType
  <2> QED BY <1>0, <2>2, <2>3 DEF SlotsAccounted, TableTypeOK
<1>2. TableTypeOK'
  BY <1>0, <1>1 DEF TableTypeOK
<1>3. OpenOnRecord'
  BY <1>0 DEF OpenOnRecord, TableTypeOK
<1>4. RecordedBack'
  BY <1>0 DEF RecordedBack, TableTypeOK, OpenOnRecord
<1> QED BY <1>1, <1>2, <1>3, <1>4

\* The two operations together.
LEMMA TableInvStep == TableInv /\ [TableNext]_tableVars => TableInv'
<1> SUFFICES ASSUME TableInv, [TableNext]_tableVars PROVE TableInv'
  OBVIOUS
<1>1. CASE AcceptTooHigh
  <2> USE SizeAssumption DEF TableSlot, Null, Freed, TableFd
  <2>1. /\ all_clients' = [all_clients EXCEPT ![free_slots_top - 1] = -2]
        /\ UNCHANGED <<accepted, fd_to_slot, free_slots_top>>
    BY <1>1 DEF AcceptTooHigh
  <2>2. TableTypeOK'
    BY <2>1 DEF TableInv, TableTypeOK
  <2>3. SlotsAccounted'
    BY <2>1 DEF TableInv, SlotsAccounted
  <2>4. OpenOnRecord'
    BY <2>1 DEF TableInv, TableTypeOK, OpenOnRecord
  <2>5. RecordedBack'
    BY <2>1 DEF TableInv, TableTypeOK, RecordedBack
  <2> QED BY <2>2, <2>3, <2>4, <2>5 DEF TableInv
<1>2. ASSUME NEW f \in TableFd, Accept(f) PROVE TableInv'
  BY <1>2, AcceptKeeps
<1>3. ASSUME NEW f \in TableFd, AcceptNotPolled(f) PROVE TableInv'
  <2> USE SizeAssumption DEF TableSlot, TableFd, Null, Freed
  <2>1. /\ f \notin accepted
        /\ all_clients' = [all_clients EXCEPT ![free_slots_top - 1] = -1]
        /\ fd_to_slot' = [fd_to_slot EXCEPT ![f] = -1]
        /\ UNCHANGED <<accepted, free_slots_top>>
    BY <1>3 DEF AcceptNotPolled, NextFd
  <2>2. TableTypeOK'
    BY <2>1 DEF TableInv, TableTypeOK
  <2>3. SlotsAccounted'
    BY <2>1 DEF TableInv, SlotsAccounted
  <2>4. OpenOnRecord'
    BY <2>1 DEF TableInv, TableTypeOK, OpenOnRecord
  <2>5. RecordedBack'
    BY <2>1 DEF TableInv, TableTypeOK, RecordedBack
  <2> QED BY <2>2, <2>3, <2>4, <2>5 DEF TableInv
<1>4. ASSUME NEW f \in TableFd, Close(f) PROVE TableInv'
  BY <1>4, CloseKeeps
<1>5. CASE UNCHANGED tableVars
  BY <1>5 DEF tableVars, TableInv, TableTypeOK, SlotsAccounted, OpenOnRecord, RecordedBack
<1> QED BY <1>1, <1>2, <1>3, <1>4, <1>5 DEF TableNext

\* In every reachable state the height of the stack matches the number of connections, a
\* descriptor is on record while its connection is accepted, and a context in the table is
\* recorded under the slot it is in; which slots are free is not known from the height.
THEOREM TableInvariance == TableSpec => []TableInv
  BY TableInvInit, TableInvStep, PTL DEF TableSpec

\* No context sits in two slots, however connections come and go: the half of the inverse
\* map that main.c keeps although it never reads free_slots[].
THEOREM RecordedBackInvariance == TableSpec => []RecordedBack
<1>1. TableInv => RecordedBack
  BY DEF TableInv
<1> QED BY <1>1, TableInvariance, PTL

\* "server busy" is never answered: descriptors run out before slots do.
THEOREM NeverBusyInvariance == TableSpec => []NeverBusy
<1>1. TableInv => NeverBusy
  <2> SUFFICES ASSUME TableInv PROVE NeverBusy
    OBVIOUS
  <2>1. IsFiniteSet(accepted) /\ Cardinality(accepted) <= MaxEvents - FirstFd
    BY FdFinite, FS_Subset DEF TableInv, TableTypeOK
  <2>2. Cardinality(accepted) \in Nat
    BY <2>1, FS_CardinalityType
  <2> QED BY <2>1, <2>2, SizeAssumption DEF TableInv, TableTypeOK, SlotsAccounted, NeverBusy
<1> QED BY <1>1, TableInvariance, PTL

\* A connection that comes while nobody has the slot it is given leaves every context where
\* it is recorded.
LEMMA AcceptKeepsOwn ==
  ASSUME TableInv, OwnSlots, NEW f \in TableFd, Accept(f) \/ AcceptNotPolled(f),
         \A g \in accepted : fd_to_slot[g] # free_slots_top - 1
  PROVE  OwnSlots'
<1> DEFINE slot == free_slots_top - 1
<1> USE SizeAssumption DEF TableSlot, TableFd, Null, Freed, TableInv
<1>1. f \notin accepted /\ slot \in TableSlot
  BY DEF Accept, AcceptNotPolled, NextFd, TableTypeOK
<1>2. CASE Accept(f)
  <2>1. /\ accepted' = accepted \cup {f} /\ all_clients' = [all_clients EXCEPT ![slot] = f]
        /\ fd_to_slot' = [fd_to_slot EXCEPT ![f] = slot]
    BY <1>2 DEF Accept, SlotRecorded
  <2> QED
    BY <1>1, <2>1 DEF OwnSlots, TableTypeOK
<1>3. CASE AcceptNotPolled(f)
  <2>1. /\ accepted' = accepted /\ all_clients' = [all_clients EXCEPT ![slot] = Null]
        /\ fd_to_slot' = [fd_to_slot EXCEPT ![f] = -1]
    BY <1>3 DEF AcceptNotPolled
  <2> QED
    BY <1>1, <2>1 DEF OwnSlots, TableTypeOK
<1> QED
  BY <1>2, <1>3

\* A connection that goes empties its own slot only.
LEMMA CloseKeepsOwn ==
  ASSUME TableInv, OwnSlots, NEW f \in TableFd, Close(f)
  PROVE  OwnSlots'
<1> USE SizeAssumption DEF TableSlot, TableFd, Null, Freed, TableInv
<1>1. /\ f \in accepted /\ accepted' = accepted \ {f}
      /\ fd_to_slot' = [fd_to_slot EXCEPT ![f] = -1]
      /\ all_clients' = [all_clients EXCEPT ![fd_to_slot[f]] = Null]
  BY DEF Close
<1>2. \A g \in accepted : fd_to_slot[g] \in TableSlot
  BY DEF TableTypeOK, OpenOnRecord
<1>3. \A g \in accepted : g # f => fd_to_slot[g] # fd_to_slot[f]
  BY <1>1 DEF OwnSlots
<1> QED
  BY <1>1, <1>2, <1>3 DEF OwnSlots, TableTypeOK

-----------------------------------------------------------------------------
(* The trie.                                                               *)

USE TreeAssumption, LockClientAssumption

\* The locks counted at n under an ownership own, while the lock of node x is still
\* counted at the nodes of up.
Counted(own, x, up, n) == {m \in Below(n) : own[m] # NoFd \/ (m = x /\ n \in up)}

CountsExact(own, intent, x, up) ==
  \A n \in Node : intent[n] = Cardinality(Counted(own, x, up, n))

\* A set of nodes is finite, and its cardinality follows insertions and removals.
LEMMA NodeSetFinite ==
  ASSUME NEW S, S \subseteq Node
  PROVE  IsFiniteSet(S) /\ Cardinality(S) \in Nat /\ (Cardinality(S) = 0 <=> S = {})
<1>1. IsFiniteSet(S)
  BY FS_Subset
<1> QED
  BY <1>1, FS_CardinalityType, FS_EmptySet

\* Marking one more node changes the marked set by that node.
LEMMA NodeSetAdd ==
  ASSUME NEW S, S \subseteq Node, NEW x \in Node, x \notin S
  PROVE  Cardinality(S \cup {x}) = Cardinality(S) + 1
BY NodeSetFinite, FS_AddElement

\* Unmarking a node takes just that node out.
LEMMA NodeSetRemove ==
  ASSUME NEW S, S \subseteq Node, NEW x \in S
  PROVE  Cardinality(S \ {x}) = Cardinality(S) - 1
BY NodeSetFinite, FS_RemoveElement

\* Owning a free node k raises the counts of exactly the ancestors of k.
LEMMA GiveCounts ==
  ASSUME NEW own \in [Node -> Fd \cup {NoFd}], NEW intent \in [Node -> Int],
         NEW x, NEW up, NEW k \in Node, NEW f \in Fd,
         own[k] = NoFd, k # x \/ up = {},
         CountsExact(own, intent, x, up)
  PROVE  CountsExact([own EXCEPT ![k] = f], Raised(intent, k), x, up)
<1> DEFINE own2 == [own EXCEPT ![k] = f]
<1> SUFFICES ASSUME NEW n \in Node
             PROVE  Raised(intent, k)[n] = Cardinality(Counted(own2, x, up, n))
  BY DEF CountsExact
<1>1. Counted(own, x, up, n) \subseteq Node
  BY DEF Counted, Below
<1>2. CASE n \in Above[k]
  <2>1. Counted(own2, x, up, n) = Counted(own, x, up, n) \cup {k}
    BY <1>2 DEF Counted, Below
  <2>2. k \notin Counted(own, x, up, n)
    BY DEF Counted
  <2>3. Cardinality(Counted(own2, x, up, n)) = Cardinality(Counted(own, x, up, n)) + 1
    BY <1>1, <2>1, <2>2, NodeSetAdd
  <2>4. Raised(intent, k)[n] = intent[n] + 1
    BY <1>2 DEF Raised
  <2>5. intent[n] = Cardinality(Counted(own, x, up, n))
    BY DEF CountsExact
  <2> QED
    BY <2>3, <2>4, <2>5
<1>3. CASE n \notin Above[k]
  <2>1. Counted(own2, x, up, n) = Counted(own, x, up, n)
    BY <1>3 DEF Counted, Below
  <2> QED
    BY <1>3, <2>1 DEF Raised, CountsExact
<1> QED
  BY <1>2, <1>3

\* Freeing an owned node k lowers the counts of exactly the ancestors of k.
LEMMA FreeCounts ==
  ASSUME NEW own \in [Node -> Fd \cup {NoFd}], NEW intent \in [Node -> Int],
         NEW x, NEW up, NEW k \in Node,
         own[k] # NoFd, k # x,
         CountsExact(own, intent, x, up)
  PROVE  CountsExact([own EXCEPT ![k] = NoFd], Lowered(intent, k), x, up)
<1> DEFINE own2 == [own EXCEPT ![k] = NoFd]
<1> SUFFICES ASSUME NEW n \in Node
             PROVE  Lowered(intent, k)[n] = Cardinality(Counted(own2, x, up, n))
  BY DEF CountsExact
<1>1. Counted(own, x, up, n) \subseteq Node
  BY DEF Counted, Below
<1>2. CASE n \in Above[k]
  <2>1. Counted(own2, x, up, n) = Counted(own, x, up, n) \ {k}
    BY <1>2 DEF Counted, Below
  <2>2. k \in Counted(own, x, up, n)
    BY <1>2 DEF Counted, Below
  <2>3. Cardinality(Counted(own2, x, up, n)) = Cardinality(Counted(own, x, up, n)) - 1
    BY <1>1, <2>1, <2>2, NodeSetRemove
  <2>4. Lowered(intent, k)[n] = intent[n] - 1
    BY <1>2 DEF Lowered
  <2>5. intent[n] = Cardinality(Counted(own, x, up, n))
    BY DEF CountsExact
  <2> QED
    BY <2>3, <2>4, <2>5
<1>3. CASE n \notin Above[k]
  <2>1. Counted(own2, x, up, n) = Counted(own, x, up, n)
    BY <1>3 DEF Counted, Below
  <2> QED
    BY <1>3, <2>1 DEF Lowered, CountsExact
<1> QED
  BY <1>2, <1>3

-----------------------------------------------------------------------------
(* Queues.                                                                 *)

Distinct(q) == \A i, j \in DOMAIN q : q[i] = q[j] => i = j

\* A client that joins a queue it is not in.
LEMMA JoinQueue ==
  ASSUME NEW q \in Seq(Fd), NEW fd \in Fd, fd \notin Range(q), Distinct(q)
  PROVE  /\ Append(q, fd) \in Seq(Fd)
         /\ Append(q, fd) # <<>>
         /\ Range(Append(q, fd)) = Range(q) \cup {fd}
         /\ Distinct(Append(q, fd))
<1>1. /\ Len(q) \in Nat
      /\ DOMAIN q = 1 .. Len(q)
      /\ Append(q, fd) \in Seq(Fd)
      /\ DOMAIN Append(q, fd) = 1 .. Len(q) + 1
      /\ \A i \in 1 .. Len(q) : Append(q, fd)[i] = q[i]
      /\ Append(q, fd)[Len(q) + 1] = fd
  OBVIOUS
<1>2. Range(Append(q, fd)) = Range(q) \cup {fd}
  BY <1>1 DEF Range
<1>3. Distinct(Append(q, fd))
  BY <1>1 DEF Range, Distinct
<1> QED
  BY <1>1, <1>2, <1>3

\* The head of a queue leaves it.
LEMMA ServeQueue ==
  ASSUME NEW q \in Seq(Fd), q # <<>>, Distinct(q)
  PROVE  /\ Head(q) \in Range(q)
         /\ Range(q) \subseteq Fd
         /\ Tail(q) \in Seq(Fd)
         /\ Range(Tail(q)) = Range(q) \ {Head(q)}
         /\ Distinct(Tail(q))
<1>1. /\ Len(q) \in Nat \ {0}
      /\ DOMAIN q = 1 .. Len(q)
      /\ Head(q) = q[1]
      /\ Tail(q) \in Seq(Fd)
      /\ DOMAIN Tail(q) = 1 .. Len(q) - 1
      /\ \A i \in 1 .. Len(q) - 1 : Tail(q)[i] = q[i + 1]
  BY HeadTailProperties
<1>2. \A i \in 2 .. Len(q) : i - 1 \in DOMAIN Tail(q) /\ Tail(q)[i - 1] = q[i]
  BY <1>1
<1>3. ASSUME NEW i \in 2 .. Len(q)
      PROVE  q[i] \in Range(Tail(q))
  BY <1>2 DEF Range
<1>4. Range(Tail(q)) = Range(q) \ {Head(q)}
  BY <1>1, <1>3 DEF Range, Distinct
<1>5. Distinct(Tail(q))
  BY <1>1 DEF Distinct
<1>6. Range(q) \subseteq Fd /\ Head(q) \in Range(q)
  BY <1>1 DEF Range
<1> QED
  BY <1>1, <1>4, <1>5, <1>6

\* A client leaves a queue it is in.
LEMMA LeaveQueue ==
  ASSUME NEW q \in Seq(Fd), NEW fd \in Range(q), Distinct(q)
  PROVE  /\ RemoveFirst(q, fd) \in Seq(Fd)
         /\ Range(RemoveFirst(q, fd)) = Range(q) \ {fd}
         /\ Distinct(RemoveFirst(q, fd))
<1>1. PICK k \in DOMAIN q : q[k] = fd
  BY DEF Range
<1> DEFINE r == RemoveAt(q, k)
<1>2. Len(q) \in Nat \ {0} /\ DOMAIN q = 1 .. Len(q) /\ k \in 1 .. Len(q)
  OBVIOUS
<1>3. \A i \in 1 .. Len(q) : q[i] = fd => i = k
  BY <1>1, <1>2 DEF Distinct
<1>4. SelectInSeq(q, LAMBDA v : v = fd) = k
  <2> DEFINE I == {i \in 1 .. Len(q) : q[i] = fd}
  <2>1. I = {k}
    BY <1>1, <1>2, <1>3
  <2>2. Min(I) = k
    BY <1>2, <2>1 DEF Min
  <2> QED
    BY <2>1, <2>2 DEF SelectInSeq
<1>5. RemoveFirst(q, fd) = r
  BY <1>1, <1>2, <1>4 DEF RemoveFirst
<1>6. /\ r \in Seq(Fd)
      /\ Len(r) = Len(q) - 1
      /\ \A i \in 1 .. Len(q) - 1 : r[i] = IF i < k THEN q[i] ELSE q[i + 1]
  <2> DEFINE s == SubSeq(q, 1, k - 1)
             t == SubSeq(q, k + 1, Len(q))
  <2>1. /\ s \in Seq(Fd)
        /\ Len(s) = k - 1
        /\ \A i \in 1 .. k - 1 : s[i] = q[i]
    BY <1>2, SubSeqProperties
  <2>2. /\ t \in Seq(Fd)
        /\ Len(t) = Len(q) - k
        /\ \A i \in 1 .. Len(q) - k : t[i] = q[i + k]
    BY <1>2, SubSeqProperties
  <2>3. r = s \o t
    BY DEF RemoveAt
  <2> HIDE DEF s, t, r
  <2>4. /\ r \in Seq(Fd)
        /\ Len(r) = Len(s) + Len(t)
        /\ \A i \in 1 .. Len(s) + Len(t) : r[i] = IF i <= Len(s) THEN s[i] ELSE t[i - Len(s)]
    BY <2>1, <2>2, <2>3, ConcatProperties
  <2>5. Len(r) = Len(q) - 1
    BY <1>2, <2>1, <2>2, <2>4
  <2>6. ASSUME NEW i \in 1 .. Len(q) - 1
        PROVE  r[i] = IF i < k THEN q[i] ELSE q[i + 1]
    <3>1. r[i] = IF i <= Len(s) THEN s[i] ELSE t[i - Len(s)]
      BY <1>2, <2>1, <2>2, <2>4
    <3>2. CASE i < k
      BY <1>2, <2>1, <3>1, <3>2
    <3>3. CASE ~(i < k)
      <4>1. r[i] = t[i - (k - 1)] /\ i - (k - 1) \in 1 .. Len(q) - k
        BY <1>2, <2>1, <3>1, <3>3
      <4>2. t[i - (k - 1)] = q[i - (k - 1) + k]
        BY <2>2, <4>1
      <4>3. i - (k - 1) + k = i + 1
        BY <1>2
      <4> QED
        BY <3>3, <4>1, <4>2, <4>3
    <3> QED
      BY <3>2, <3>3
  <2> QED
    BY <2>4, <2>5, <2>6
<1>7. DOMAIN r = 1 .. Len(q) - 1
  BY <1>2, <1>6
<1> HIDE DEF r
<1>8. ASSUME NEW i \in DOMAIN r
      PROVE  \E a \in DOMAIN q : a # k /\ r[i] = q[a] /\ a = IF i < k THEN i ELSE i + 1
  <2>1. CASE i < k
    BY <1>2, <1>6, <1>7, <2>1
  <2>2. CASE ~(i < k)
    <3>1. i + 1 \in DOMAIN q /\ i + 1 # k /\ r[i] = q[i + 1]
      BY <1>2, <1>6, <1>7, <2>2
    <3> QED
      BY <3>1, <2>2
  <2> QED
    BY <2>1, <2>2
<1>9. Range(r) = Range(q) \ {fd}
  <2>1. ASSUME NEW i \in DOMAIN q, i # k
        PROVE  q[i] \in Range(r)
    <3>1. \E l \in DOMAIN r : r[l] = q[i]
      <4>1. CASE i < k
        BY <1>2, <1>6, <1>7, <4>1
      <4>2. CASE ~(i < k)
        <5>1. i - 1 \in DOMAIN r /\ r[i - 1] = q[i]
          BY <1>2, <1>6, <1>7, <2>1, <4>2
        <5> QED
          BY <5>1
      <4> QED
        BY <4>1, <4>2
    <3> QED
      BY <3>1 DEF Range
  <2>2. ASSUME NEW i \in DOMAIN r
        PROVE  r[i] \in Range(q) /\ r[i] # fd
    <3>1. PICK a \in DOMAIN q : a # k /\ r[i] = q[a]
      BY <1>8
    <3> QED
      BY <1>2, <1>3, <3>1 DEF Range
  <2> QED
    <3>1. \A v \in Range(r) : v \in Range(q) \ {fd}
      BY <2>2 DEF Range
    <3>2. \A v \in Range(q) \ {fd} : v \in Range(r)
      BY <1>1, <2>1 DEF Range
    <3> QED
      BY <3>1, <3>2
<1>10. Distinct(r)
  <2> SUFFICES ASSUME NEW i \in DOMAIN r, NEW j \in DOMAIN r, r[i] = r[j]
               PROVE  i = j
    BY DEF Distinct
  <2>1. PICK a \in DOMAIN q : r[i] = q[a] /\ a = IF i < k THEN i ELSE i + 1
    BY <1>8
  <2>2. PICK b \in DOMAIN q : r[j] = q[b] /\ b = IF j < k THEN j ELSE j + 1
    BY <1>8
  <2>3. a = b
    BY <2>1, <2>2 DEF Distinct
  <2> QED
    BY <1>2, <1>7, <2>1, <2>2, <2>3
<1> QED
  BY <1>5, <1>6, <1>9, <1>10

-----------------------------------------------------------------------------
(* Ownership: the nodes, their counts, the owners' registry and the number *)
(* of locks, together.                                                     *)

OwnedUnder(own) == {n \in Node : own[n] # NoFd}

Consistent(own, intent, registry, locks, x, up) ==
  /\ own \in [Node -> Fd \cup {NoFd}]
  /\ intent \in [Node -> Nat]
  /\ registry \in [Fd -> SUBSET Node]
  /\ CountsExact(own, intent, x, up)
  /\ \A fd \in Fd : registry[fd] = {n \in Node : own[n] = fd}
  /\ locks = Cardinality(OwnedUnder(own))

\* Exact counts are natural numbers.
LEMMA CountsNat ==
  ASSUME NEW own, NEW intent \in [Node -> Int], NEW x, NEW up, CountsExact(own, intent, x, up)
  PROVE  intent \in [Node -> Nat]
<1> SUFFICES ASSUME NEW n \in Node PROVE intent[n] \in Nat
  OBVIOUS
<1>1. Counted(own, x, up, n) \subseteq Node
  BY DEF Counted, Below
<1>2. intent[n] = Cardinality(Counted(own, x, up, n))
  BY DEF CountsExact
<1> QED
  BY <1>1, <1>2, NodeSetFinite

\* Granting a free node keeps ownership consistent.
LEMMA GiveConsistent ==
  ASSUME NEW own, NEW intent, NEW registry, NEW locks, NEW x, NEW up,
         Consistent(own, intent, registry, locks, x, up),
         NEW k \in Node, NEW f \in Fd, own[k] = NoFd, k # x \/ up = {}
  PROVE  Consistent([own EXCEPT ![k] = f], Raised(intent, k), Registered(registry, f, k),
                    locks + 1, x, up)
<1> DEFINE own2 == [own EXCEPT ![k] = f]
           registry2 == Registered(registry, f, k)
<1>1. /\ own \in [Node -> Fd \cup {NoFd}]
      /\ intent \in [Node -> Nat]
      /\ registry \in [Fd -> SUBSET Node]
      /\ CountsExact(own, intent, x, up)
      /\ \A fd \in Fd : registry[fd] = {n \in Node : own[n] = fd}
      /\ locks = Cardinality(OwnedUnder(own))
  BY DEF Consistent
<1>2. own2 \in [Node -> Fd \cup {NoFd}] /\ registry2 \in [Fd -> SUBSET Node]
  BY <1>1 DEF Registered
<1>3. Raised(intent, k) \in [Node -> Int]
  BY <1>1 DEF Raised
<1>4. CountsExact(own2, Raised(intent, k), x, up)
  <2>1. intent \in [Node -> Int]
    BY <1>1
  <2> QED
    BY <1>1, <2>1, GiveCounts
<1>5. Raised(intent, k) \in [Node -> Nat]
  BY <1>3, <1>4, CountsNat
<1>6. ASSUME NEW fd \in Fd
      PROVE  registry2[fd] = {n \in Node : own2[n] = fd}
  BY <1>1 DEF Registered
<1>7. OwnedUnder(own2) = OwnedUnder(own) \cup {k} /\ k \notin OwnedUnder(own)
  BY <1>1 DEF OwnedUnder
<1>8. OwnedUnder(own) \subseteq Node
  BY DEF OwnedUnder
<1>9. locks + 1 = Cardinality(OwnedUnder(own2))
  BY <1>1, <1>7, <1>8, NodeSetAdd
<1> HIDE DEF own2, registry2
<1> QED
  BY <1>2, <1>4, <1>5, <1>6, <1>9 DEF Consistent, own2, registry2

\* Freeing a node keeps ownership consistent.
LEMMA FreeConsistent ==
  ASSUME NEW own, NEW intent, NEW registry, NEW locks, NEW x, NEW up,
         Consistent(own, intent, registry, locks, x, up),
         NEW k \in Node, NEW f \in Fd, own[k] = f, k # x
  PROVE  Consistent([own EXCEPT ![k] = NoFd], Lowered(intent, k), Unregistered(registry, f, k),
                    locks - 1, x, up)
<1> DEFINE own2 == [own EXCEPT ![k] = NoFd]
           registry2 == Unregistered(registry, f, k)
<1>1. /\ own \in [Node -> Fd \cup {NoFd}]
      /\ intent \in [Node -> Nat]
      /\ registry \in [Fd -> SUBSET Node]
      /\ CountsExact(own, intent, x, up)
      /\ \A fd \in Fd : registry[fd] = {n \in Node : own[n] = fd}
      /\ locks = Cardinality(OwnedUnder(own))
  BY DEF Consistent
<1>2. own2 \in [Node -> Fd \cup {NoFd}] /\ registry2 \in [Fd -> SUBSET Node]
  BY <1>1 DEF Unregistered
<1>3. Lowered(intent, k) \in [Node -> Int]
  BY <1>1 DEF Lowered
<1>4. CountsExact(own2, Lowered(intent, k), x, up)
  <2>1. intent \in [Node -> Int]
    BY <1>1
  <2>2. own[k] # NoFd
    BY LockClientAssumption
  <2> QED
    BY <1>1, <2>1, <2>2, FreeCounts
<1>5. Lowered(intent, k) \in [Node -> Nat]
  BY <1>3, <1>4, CountsNat
<1>6. ASSUME NEW fd \in Fd
      PROVE  registry2[fd] = {n \in Node : own2[n] = fd}
  BY <1>1 DEF Unregistered
<1>7. OwnedUnder(own2) = OwnedUnder(own) \ {k} /\ k \in OwnedUnder(own)
  BY <1>1 DEF OwnedUnder
<1>8. OwnedUnder(own) \subseteq Node
  BY DEF OwnedUnder
<1>9. locks - 1 = Cardinality(OwnedUnder(own2))
  BY <1>1, <1>7, <1>8, NodeSetRemove
<1> HIDE DEF own2, registry2
<1> QED
  BY <1>2, <1>4, <1>5, <1>6, <1>9 DEF Consistent, own2, registry2

\* When n is free and n's exact count is zero, the whole subtree is free and uncounted.
LEMMA QuietBelow ==
  ASSUME NEW own, NEW intent, NEW x, NEW up, CountsExact(own, intent, x, up),
         \A p \in up : Above[p] \subseteq up,
         NEW k \in Node, intent[k] = 0, NEW m \in Below(k)
  PROVE  own[m] = NoFd /\ intent[m] = 0
<1>1. Counted(own, x, up, k) \subseteq Node /\ Counted(own, x, up, m) \subseteq Node
  BY DEF Counted, Below
<1>2. m \in Node /\ k \in Above[m]
  BY DEF Below
<1>3. Cardinality(Counted(own, x, up, k)) = 0 /\ intent[m] = Cardinality(Counted(own, x, up, m))
  BY <1>2 DEF CountsExact
<1>4. Counted(own, x, up, k) = {}
  BY <1>1, <1>3, NodeSetFinite
<1>5. own[m] = NoFd
  BY <1>4 DEF Counted
<1>6. Counted(own, x, up, m) \subseteq Counted(own, x, up, k)
  BY <1>2 DEF Counted, Below
<1>7. Cardinality(Counted(own, x, up, m)) = 0
  BY <1>1, <1>4, <1>6, NodeSetFinite
<1> QED
  BY <1>3, <1>5, <1>7

-----------------------------------------------------------------------------
(* All the queues together with the clients' waiting registry; live are    *)
(* the clients that may queue.                                             *)

QueuesOk(wait, registry, live) ==
  /\ wait \in [Node -> Seq(Fd)]
  /\ registry \in [Fd -> SUBSET Node]
  /\ \A fd \in Fd : registry[fd] = {n \in Node : fd \in Range(wait[n])}
  /\ \A n \in Node : Distinct(wait[n]) /\ Range(wait[n]) \subseteq live

\* Queueing at one node.
LEMMA JoinOk ==
  ASSUME NEW wait, NEW registry, NEW live, QueuesOk(wait, registry, live),
         NEW k \in Node, NEW f \in Fd, f \in live, f \notin Range(wait[k])
  PROVE  QueuesOk([wait EXCEPT ![k] = Append(wait[k], f)], Registered(registry, f, k), live)
<1> DEFINE q == Append(wait[k], f)
           wait2 == [wait EXCEPT ![k] = q]
           registry2 == Registered(registry, f, k)
<1>1. wait[k] \in Seq(Fd) /\ Distinct(wait[k]) /\ Range(wait[k]) \subseteq live
  BY DEF QueuesOk
<1>2. q \in Seq(Fd) /\ Range(q) = Range(wait[k]) \cup {f} /\ Distinct(q)
  BY <1>1, JoinQueue
<1> HIDE DEF q
<1>3. wait2 \in [Node -> Seq(Fd)] /\ registry2 \in [Fd -> SUBSET Node]
  BY <1>2 DEF QueuesOk, Registered
<1>4. ASSUME NEW fd \in Fd
      PROVE  registry2[fd] = {n \in Node : fd \in Range(wait2[n])}
  BY <1>2 DEF QueuesOk, Registered
<1>5. ASSUME NEW n \in Node
      PROVE  Distinct(wait2[n]) /\ Range(wait2[n]) \subseteq live
  BY <1>1, <1>2 DEF QueuesOk
<1> HIDE DEF wait2, registry2
<1> QED
  BY <1>3, <1>4, <1>5 DEF QueuesOk, wait2, registry2, q

\* Taking the first client of a queue.
LEMMA ServeOk ==
  ASSUME NEW wait, NEW registry, NEW live, QueuesOk(wait, registry, live),
         NEW k \in Node, wait[k] # <<>>
  PROVE  /\ QueuesOk([wait EXCEPT ![k] = Tail(wait[k])],
                     Unregistered(registry, Head(wait[k]), k), live)
         /\ Head(wait[k]) \in Fd
         /\ Head(wait[k]) \in live
<1> DEFINE q == Tail(wait[k])
           h == Head(wait[k])
           wait2 == [wait EXCEPT ![k] = q]
           registry2 == Unregistered(registry, h, k)
<1>1. wait[k] \in Seq(Fd) /\ Distinct(wait[k]) /\ Range(wait[k]) \subseteq live
  BY DEF QueuesOk
<1>2. /\ q \in Seq(Fd) /\ Range(q) = Range(wait[k]) \ {h} /\ Distinct(q)
      /\ h \in Fd /\ h \in Range(wait[k])
  BY <1>1, ServeQueue
<1> HIDE DEF q, h
<1>3. wait2 \in [Node -> Seq(Fd)] /\ registry2 \in [Fd -> SUBSET Node]
  BY <1>2 DEF QueuesOk, Unregistered
<1>4. ASSUME NEW fd \in Fd
      PROVE  registry2[fd] = {n \in Node : fd \in Range(wait2[n])}
  BY <1>2 DEF QueuesOk, Unregistered
<1>5. ASSUME NEW n \in Node
      PROVE  Distinct(wait2[n]) /\ Range(wait2[n]) \subseteq live
  BY <1>1, <1>2 DEF QueuesOk
<1> HIDE DEF wait2, registry2
<1> QED
  BY <1>1, <1>2, <1>3, <1>4, <1>5 DEF QueuesOk, wait2, registry2, q, h

\* The queues without f, as cleanup leaves them.
Without(wait, registry, f) ==
  [n \in Node |-> IF n \in {m \in registry[f] : f \in Range(wait[m])}
                  THEN RemoveFirst(wait[n], f) ELSE wait[n]]

\* Dropping a client from every queue.
LEMMA LeaveOk ==
  ASSUME NEW wait, NEW registry, NEW live, QueuesOk(wait, registry, live), NEW f \in Fd
  PROVE  QueuesOk(Without(wait, registry, f), [registry EXCEPT ![f] = {}], live \ {f})
<1> DEFINE wait2 == Without(wait, registry, f)
           registry2 == [registry EXCEPT ![f] = {}]
<1>1. ASSUME NEW n \in Node
      PROVE  /\ wait2[n] \in Seq(Fd)
             /\ Range(wait2[n]) = Range(wait[n]) \ {f}
             /\ Distinct(wait2[n])
  <2>1. wait[n] \in Seq(Fd) /\ Distinct(wait[n])
    BY DEF QueuesOk
  <2>2. CASE f \in Range(wait[n])
    <3>1. wait2[n] = RemoveFirst(wait[n], f)
      BY <2>2 DEF QueuesOk, Without
    <3> QED
      BY <2>1, <2>2, <3>1, LeaveQueue
  <2>3. CASE f \notin Range(wait[n])
    BY <2>1, <2>3 DEF Without
  <2> QED
    BY <2>2, <2>3
<1>2. wait2 \in [Node -> Seq(Fd)]
  <2>1. wait2 = [n \in Node |-> wait2[n]]
    BY DEF Without
  <2> HIDE DEF wait2
  <2> QED
    BY <1>1, <2>1
<1> HIDE DEF wait2
<1>3. registry2 \in [Fd -> SUBSET Node]
  BY DEF QueuesOk
<1>4. ASSUME NEW fd \in Fd
      PROVE  registry2[fd] = {n \in Node : fd \in Range(wait2[n])}
  BY <1>1 DEF QueuesOk
<1>5. ASSUME NEW n \in Node
      PROVE  Distinct(wait2[n]) /\ Range(wait2[n]) \subseteq live \ {f}
  BY <1>1 DEF QueuesOk
<1> HIDE DEF registry2
<1>6. QueuesOk(wait2, registry2, live \ {f})
  BY <1>2, <1>3, <1>4, <1>5 DEF QueuesOk
<1> QED
  BY <1>6 DEF wait2, registry2

-----------------------------------------------------------------------------
(* The inductive invariant, in the terms of the lemmas.                    *)

OwnersLive == \A n \in Node : owner_fd[n] # NoFd => owner_fd[n] \in open

Facts ==
  /\ open \subseteq Fd
  /\ cleanup \in [fd : Fd \cup {NoFd}, node : Node \cup {NoNode}, up : SUBSET Node]
  /\ total_waiters \in Int
  /\ Consistent(owner_fd, intent_count, fd_registry, total_locks, cleanup.node, cleanup.up)
  /\ QueuesOk(waiters, waiting_registry, open \ {cleanup.fd})
  /\ CleanupPosition
  /\ OwnersLive
  /\ NoLostWakeup
  /\ NoQueueUnderLock
  /\ AtMostTwoOnAPath

\* The working form of the invariant gives the published one.
LEMMA FactsIndInv == Facts => IndInv
<1> SUFFICES ASSUME Facts PROVE IndInv
  OBVIOUS
<1>1. TypeOK
  <2>1. total_locks \in Nat
    <3>1. OwnedUnder(owner_fd) \subseteq Node
      BY DEF OwnedUnder
    <3> QED
      BY <3>1, NodeSetFinite DEF Facts, Consistent
  <2> QED
    BY <2>1 DEF Facts, Consistent, QueuesOk, TypeOK
<1>2. IntentExact
  <2> SUFFICES ASSUME NEW n \in Node
               PROVE  intent_count[n] = Cardinality(LocksCountedBy(n))
    BY DEF IntentExact
  <2>1. LocksCountedBy(n) = Counted(owner_fd, cleanup.node, cleanup.up, n)
    BY DEF LocksCountedBy, Counted
  <2> QED
    BY <2>1 DEF Facts, Consistent, CountsExact
<1>3. LocksExact
  BY DEF Facts, Consistent, LocksExact, OwnedUnder
<1>4. RegistriesExact
  BY DEF Facts, Consistent, QueuesOk, RegistriesExact
<1>5. QueuesDistinct
  BY DEF Facts, QueuesOk, QueuesDistinct, Distinct
<1>6. OnlyLiveClients
  BY DEF Facts, QueuesOk, OwnersLive, OnlyLiveClients
<1> QED
  BY <1>1, <1>2, <1>3, <1>4, <1>5, <1>6 DEF IndInv, Facts

\* trie_create: an empty trie satisfies all the facts.
LEMMA InitFacts == Init => Facts
<1> SUFFICES ASSUME Init PROVE Facts
  OBVIOUS
<1>1. cleanup.fd = NoFd /\ cleanup.node = NoNode /\ cleanup.up = {}
  BY DEF Init, NotCleaning
<1>2. Consistent(owner_fd, intent_count, fd_registry, total_locks, cleanup.node, cleanup.up)
  <2>1. ASSUME NEW n \in Node
        PROVE  Counted(owner_fd, cleanup.node, cleanup.up, n) = {}
    BY <1>1 DEF Init, Counted, Below
  <2>2. OwnedUnder(owner_fd) = {}
    BY DEF Init, OwnedUnder
  <2>3. Cardinality({}) = 0
    BY FS_EmptySet
  <2>4. CountsExact(owner_fd, intent_count, cleanup.node, cleanup.up)
    BY <2>1, <2>3 DEF CountsExact, Init
  <2>5. ASSUME NEW fd \in Fd
        PROVE  fd_registry[fd] = {n \in Node : owner_fd[n] = fd}
    BY DEF Init
  <2> QED
    BY <2>2, <2>3, <2>4, <2>5 DEF Consistent, Init
<1>3. QueuesOk(waiters, waiting_registry, open \ {cleanup.fd})
  <2>1. <<>> \in Seq(Fd) /\ Range(<<>>) = {} /\ Distinct(<<>>)
    BY DEF Range, Distinct
  <2> QED
    BY <2>1 DEF QueuesOk, Init
<1>4. CleanupPosition
  BY <1>1 DEF CleanupPosition, Init
<1> QED
  BY <1>1, <1>2, <1>3, <1>4
  DEF Facts, Init, NotCleaning, OwnersLive, NoLostWakeup, NoQueueUnderLock, AtMostTwoOnAPath, Taken

-----------------------------------------------------------------------------
(* NoLostWakeup, NoQueueUnderLock and AtMostTwoOnAPath of any assignment.  *)

LockedUnder(own, n) == \E a \in Above[n] : own[a] # NoFd
TakenUnder(own, x, n) == own[n] # NoFd \/ n = x

Woken(own, intent, wait, x, n) == wait[n] # <<>> => own[n] # NoFd \/ intent[n] > 0 \/ n = x
Covered(own, wait, x, n) == wait[n] # <<>> /\ LockedUnder(own, n) => own[n] # NoFd \/ n = x
NoTwoAbove(own, x, n) ==
  \A a \in Above[n] : TakenUnder(own, x, a) => \A b \in Above[a] : ~TakenUnder(own, x, b)

\* Granting k, with nothing counted below it, to the head of its queue: k and its ancestors
\* need not have been awake, and only x can be taken below k.
LEMMA GrantKeepsQueues ==
  ASSUME NEW own, NEW intent, NEW registry, NEW locks, NEW x, NEW up,
         Consistent(own, intent, registry, locks, x, up),
         \A p \in up : Above[p] \subseteq up,
         NEW wait \in [Node -> Seq(Fd)],
         NEW k \in Node, own[k] = NoFd, intent[k] = 0,
         NEW f \in Fd,
         \A m \in Node \ ({k} \cup Above[k]) : Woken(own, intent, wait, x, m),
         \A m \in Node \ {k} : Covered(own, wait, x, m)
  PROVE  \A m \in Node :
           /\ Woken([own EXCEPT ![k] = f], Raised(intent, k), [wait EXCEPT ![k] = Tail(wait[k])], x, m)
           /\ Covered([own EXCEPT ![k] = f], [wait EXCEPT ![k] = Tail(wait[k])], x, m)
<1> DEFINE own2 == [own EXCEPT ![k] = f]
           wait2 == [wait EXCEPT ![k] = Tail(wait[k])]
<1>1. own \in [Node -> Fd \cup {NoFd}] /\ intent \in [Node -> Nat] /\ CountsExact(own, intent, x, up)
  BY DEF Consistent
<1>2. ASSUME NEW z \in Below(k)
      PROVE  own[z] = NoFd /\ intent[z] = 0
  <2> HIDE DEF own2, wait2
  <2>1. own[z] = NoFd
    BY <1>1, QuietBelow, SMTT(30)
  <2>2. intent[z] = 0
    BY <1>1, QuietBelow, SMTT(30)
  <2> QED
    BY <2>1, <2>2
<1> SUFFICES ASSUME NEW m \in Node
             PROVE  /\ Woken(own2, Raised(intent, k), wait2, x, m)
                    /\ Covered(own2, wait2, x, m)
  OBVIOUS
<1>3. CASE m = k
  BY <1>1, <1>3 DEF Woken, Covered
<1>4. CASE m # k
  <2>1. own2[m] = own[m] /\ wait2[m] = wait[m]
    BY <1>1, <1>4
  <2>2. Woken(own2, Raised(intent, k), wait2, x, m)
    <3>1. CASE m \in Above[k]
      BY <1>1, <3>1 DEF Woken, Raised
    <3>2. CASE m \notin Above[k]
      <4>1. Raised(intent, k)[m] = intent[m]
        BY <3>2 DEF Raised
      <4>2. Woken(own, intent, wait, x, m)
        BY <1>4, <3>2
      <4> QED
        BY <2>1, <4>1, <4>2 DEF Woken
    <3> QED
      BY <3>1, <3>2
  <2>3. Covered(own2, wait2, x, m)
    <3>1. CASE k \in Above[m]
      <4>1. m \in Below(k)
        BY <3>1 DEF Below
      <4>2. own[m] = NoFd /\ intent[m] = 0
        BY <1>2, <4>1
      <4>3. m \notin {k} \cup Above[k]
        BY <1>4, <3>1
      <4>4. Woken(own, intent, wait, x, m)
        BY <4>3
      <4> QED
        BY <2>1, <4>2, <4>4 DEF Covered, Woken
    <3>2. CASE k \notin Above[m]
      <4>1. LockedUnder(own2, m) => LockedUnder(own, m)
        BY <1>1, <3>2 DEF LockedUnder
      <4>2. Covered(own, wait, x, m)
        BY <1>4
      <4> QED
        BY <2>1, <4>1, <4>2 DEF Covered
    <3> QED
      BY <3>1, <3>2
  <2> QED
    BY <2>2, <2>3
<1> QED
  BY <1>3, <1>4

\* A grant on a node without owners below keeps every path at two owned nodes.
LEMMA GrantKeepsTwo ==
  ASSUME NEW own, NEW intent, NEW registry, NEW locks, NEW x, NEW up,
         Consistent(own, intent, registry, locks, x, up),
         \A p \in up : Above[p] \subseteq up,
         NEW k \in Node, intent[k] = 0, NEW f \in Fd,
         \A m \in Node : TakenUnder(own, x, m) => NoTwoAbove(own, x, m),
         NoTwoAbove(own, x, k),
         x \in Below(k) => ~ LockedUnder(own, k)
  PROVE  \A m \in Node : TakenUnder([own EXCEPT ![k] = f], x, m) => NoTwoAbove([own EXCEPT ![k] = f], x, m)
<1> DEFINE own2 == [own EXCEPT ![k] = f]
<1>1. own \in [Node -> Fd \cup {NoFd}] /\ CountsExact(own, intent, x, up)
  BY DEF Consistent
<1>2. \A m \in Node : m # k => (TakenUnder(own2, x, m) <=> TakenUnder(own, x, m))
  BY <1>1 DEF TakenUnder
<1>3. \A m \in Below(k) : own[m] = NoFd
  BY <1>1, QuietBelow
<1> SUFFICES ASSUME NEW m \in Node, TakenUnder(own2, x, m),
                    NEW a \in Above[m], TakenUnder(own2, x, a),
                    NEW b \in Above[a], TakenUnder(own2, x, b)
             PROVE  FALSE
  BY DEF NoTwoAbove
<1>4. a \in Node /\ b \in Node /\ b \in Above[m] /\ a # b /\ b # m /\ a # m
  OBVIOUS
<1>5. CASE m = k
  BY <1>2, <1>4, <1>5 DEF NoTwoAbove
<1>6. CASE a = k
  <2>1. m \in Below(k) /\ m # k /\ b # k
    BY <1>4, <1>6 DEF Below
  <2>2. m = x
    BY <1>2, <1>3, <2>1 DEF TakenUnder
  <2>3. own[b] # NoFd
    BY <1>2, <1>4, <2>1, <2>2 DEF TakenUnder
  <2> QED
    BY <1>6, <2>1, <2>2, <2>3 DEF LockedUnder
<1>7. CASE b = k
  <2>1. m \in Below(k) /\ a \in Below(k) /\ m # k /\ a # k
    BY <1>4, <1>7 DEF Below
  <2> QED
    BY <1>2, <1>3, <1>4, <2>1 DEF TakenUnder
<1>8. CASE m # k /\ a # k /\ b # k
  BY <1>2, <1>4, <1>8 DEF NoTwoAbove
<1> QED
  BY <1>5, <1>6, <1>7, <1>8

-----------------------------------------------------------------------------
(* Every action preserves the facts.                                       *)

\* trie_client_create.
LEMMA ConnectFacts ==
  ASSUME Facts, NEW fd \in Fd, Connect(fd)
  PROVE  Facts'
<1>1. QueuesOk(waiters, waiting_registry, open' \ {cleanup.fd})
  BY DEF Facts, QueuesOk, Connect
<1>2. UNCHANGED <<lockVars, cleanup>> /\ open' = open \cup {fd}
  BY DEF Connect
<1> QED
  BY <1>1, <1>2 DEF Facts, lockVars, CleanupPosition, OwnersLive, NoLostWakeup, Busy,
     NoQueueUnderLock, UnderLock, AtMostTwoOnAPath, Taken

\* trie_acquire of a free path.
LEMMA AcquireFreeFacts ==
  ASSUME Facts, NEW fd \in Fd, NEW n \in Node, AcquireFree(fd, n)
  PROVE  Facts'
<1>1. /\ cleanup.fd = NoFd /\ cleanup.node = NoNode /\ cleanup.up = {} /\ cleanup' = cleanup
      /\ owner_fd \in [Node -> Fd \cup {NoFd}] /\ intent_count \in [Node -> Nat]
      /\ owner_fd' = [owner_fd EXCEPT ![n] = fd]
      /\ intent_count' = Raised(intent_count, n)
      /\ owner_fd[n] = NoFd /\ intent_count[n] = 0
      /\ UNCHANGED <<open, waiters, waiting_registry, total_waiters>>
  BY DEF Facts, AcquireFree, NotCleaning, Busy, Consistent
<1>2. Consistent(owner_fd, intent_count, fd_registry, total_locks, cleanup.node, cleanup.up)
  BY DEF Facts
<1>3. Consistent(owner_fd', intent_count', fd_registry', total_locks', cleanup'.node, cleanup'.up)
  <2>1. Consistent([owner_fd EXCEPT ![n] = fd], Raised(intent_count, n),
                   Registered(fd_registry, fd, n), total_locks + 1, cleanup.node, cleanup.up)
    BY <1>1, <1>2, GiveConsistent
  <2> QED
    BY <1>1, <2>1 DEF AcquireFree
<1>4. \A m \in Below(n) : owner_fd[m] = NoFd /\ intent_count[m] = 0
  <2>1. CountsExact(owner_fd, intent_count, NoNode, {})
    BY <1>1, <1>2 DEF Consistent
  <2> QED
    BY <1>1, <2>1, QuietBelow
<1>5. NoLostWakeup'
  BY <1>1 DEF Facts, NoLostWakeup, Busy, Raised
<1>6. NoQueueUnderLock'
  <2> SUFFICES ASSUME NEW m \in Node, waiters[m] # <<>>, NEW a \in Above[m], owner_fd'[a] # NoFd
               PROVE  owner_fd'[m] # NoFd
    BY <1>1 DEF NoQueueUnderLock, UnderLock
  <2>1. a # n
    BY <1>1, <1>4 DEF Below, Facts, NoLostWakeup, Busy
  <2>2. owner_fd[m] # NoFd
    BY <1>1, <2>1 DEF Facts, NoQueueUnderLock, UnderLock
  <2> QED
    BY <1>1, <2>2
<1>7. AtMostTwoOnAPath'
  <2>1. \A m \in Node : TakenUnder(owner_fd, NoNode, m) => NoTwoAbove(owner_fd, NoNode, m)
    BY <1>1 DEF Facts, AtMostTwoOnAPath, Taken, TakenUnder, NoTwoAbove
  <2>2. NoTwoAbove(owner_fd, NoNode, n)
    BY <1>1 DEF NoTwoAbove, TakenUnder, AcquireFree, AncestorLocked
  <2>3. NoNode \notin Below(n)
    BY DEF Below
  <2>4. Consistent(owner_fd, intent_count, fd_registry, total_locks, NoNode, {})
    BY <1>1, <1>2
  <2>5. \A m \in Node : TakenUnder(owner_fd', NoNode, m) => NoTwoAbove(owner_fd', NoNode, m)
    BY <1>1, <2>1, <2>2, <2>3, <2>4, GrantKeepsTwo
  <2> QED
    BY <1>1, <2>5 DEF AtMostTwoOnAPath, Taken, TakenUnder, NoTwoAbove
<1>8. CleanupPosition'
  BY <1>1 DEF Facts, CleanupPosition
<1>9. OwnersLive'
  BY <1>1 DEF Facts, OwnersLive, AcquireFree
<1> QED
  BY <1>1, <1>3, <1>5, <1>6, <1>7, <1>8, <1>9 DEF Facts

\* trie_acquire of a path that is not free.
LEMMA AcquireQueueFacts ==
  ASSUME Facts, NEW fd \in Fd, NEW n \in Node, AcquireQueue(fd, n)
  PROVE  Facts'
<1>1. /\ cleanup.fd = NoFd
      /\ UNCHANGED <<open, owner_fd, intent_count, fd_registry, total_locks, cleanup>>
      /\ waiters' = [waiters EXCEPT ![n] = Append(waiters[n], fd)]
      /\ waiting_registry' = Registered(waiting_registry, fd, n)
      /\ total_waiters' = total_waiters + 1
      /\ Busy(n)
  BY DEF AcquireQueue, NotCleaning
<1>2. fd \in open \ {cleanup.fd} /\ fd \notin Range(waiters[n])
  BY <1>1 DEF AcquireQueue, AlreadyWaiting
<1>3. QueuesOk(waiters', waiting_registry', open' \ {cleanup'.fd})
  BY <1>1, <1>2, JoinOk DEF Facts
<1>4. \A m \in Node : m # n => waiters'[m] = waiters[m]
  BY <1>1 DEF Facts, QueuesOk
<1>5. NoLostWakeup'
  BY <1>1, <1>4 DEF Facts, NoLostWakeup, Busy
<1>6. NoQueueUnderLock'
  BY <1>1, <1>4 DEF Facts, NoQueueUnderLock, AncestorLocked, UnderLock, AcquireQueue
<1> QED
  BY <1>1, <1>3, <1>5, <1>6
  DEF Facts, CleanupPosition, OwnersLive, AtMostTwoOnAPath, Taken

\* The beginning of trie_client_cleanup.
LEMMA DisconnectFacts ==
  ASSUME Facts, NEW fd \in Fd, Disconnect(fd)
  PROVE  Facts'
<1>1. /\ cleanup.fd = NoFd /\ cleanup.node = NoNode /\ cleanup.up = {}
      /\ cleanup' = [fd |-> fd, node |-> NoNode, up |-> {}]
      /\ UNCHANGED <<open, owner_fd, intent_count, fd_registry, total_locks>>
      /\ fd \in open
  BY DEF Disconnect, NotCleaning
<1>2. QueuesOk(waiters', waiting_registry', (open \ {cleanup.fd}) \ {fd})
  <2>1. waiters' = Without(waiters, waiting_registry, fd)
    BY DEF Disconnect, QueuesOf, AlreadyWaiting, Without
  <2>2. waiting_registry' = [waiting_registry EXCEPT ![fd] = {}]
    BY DEF Disconnect
  <2>3. QueuesOk(waiters, waiting_registry, open \ {cleanup.fd})
    BY DEF Facts
  <2> QED
    BY <2>1, <2>2, <2>3, LeaveOk
<1>3. (open \ {cleanup.fd}) \ {fd} = open' \ {cleanup'.fd}
  BY <1>1 DEF Facts
<1>4. total_waiters' \in Int
  <2>1. QueuesOf(fd) \subseteq Node
    BY DEF QueuesOf, Facts, QueuesOk
  <2> QED
    BY <2>1, NodeSetFinite DEF Disconnect, Facts
<1>5. \A m \in Node : waiters'[m] # <<>> => waiters[m] # <<>>
  <2> SUFFICES ASSUME NEW m \in Node, waiters[m] = <<>> PROVE waiters'[m] = <<>>
    OBVIOUS
  <2>1. Range(waiters[m]) = {}
    BY DEF Range
  <2> QED
    BY <2>1 DEF Disconnect, QueuesOf, AlreadyWaiting
<1>6. CleanupPosition'
  BY <1>1 DEF CleanupPosition
<1>7. NoLostWakeup' /\ NoQueueUnderLock'
  BY <1>1, <1>5 DEF Facts, NoLostWakeup, Busy, NoQueueUnderLock, UnderLock
<1> QED
  BY <1>1, <1>2, <1>3, <1>4, <1>6, <1>7
  DEF Facts, OwnersLive, AtMostTwoOnAPath, Taken

\* The end of trie_client_cleanup.
LEMMA CleanupDoneFacts ==
  ASSUME Facts, CleanupDone
  PROVE  Facts'
<1>1. /\ cleanup.fd # NoFd /\ cleanup.node = NoNode /\ cleanup.up = {}
      /\ cleanup' = [fd |-> NoFd, node |-> NoNode, up |-> {}]
      /\ open' = open \ {cleanup.fd} /\ UNCHANGED lockVars
      /\ fd_registry[cleanup.fd] = {}
  BY DEF CleanupDone, NotCleaning, Facts, CleanupPosition
<1>2. \A m \in Node : owner_fd[m] # cleanup.fd
  BY <1>1 DEF Facts, Consistent
<1>3. open' \ {cleanup'.fd} = open \ {cleanup.fd}
  BY <1>1 DEF Facts
<1>4. OwnersLive'
  BY <1>1, <1>2 DEF Facts, OwnersLive, lockVars
<1> QED
  BY <1>1, <1>3, <1>4 DEF Facts, lockVars, CleanupPosition, NoLostWakeup, Busy,
     NoQueueUnderLock, UnderLock, AtMostTwoOnAPath, Taken, NotCleaning

\* A positive exact count has a lock below it to show.
LEMMA CountWitness ==
  ASSUME NEW own, NEW intent, NEW x, NEW up, CountsExact(own, intent, x, up),
         NEW k \in Node, intent[k] # 0
  PROVE  \E m \in Below(k) : own[m] # NoFd \/ (m = x /\ k \in up)
<1>1. intent[k] = Cardinality(Counted(own, x, up, k))
  BY DEF CountsExact
<1>2. Counted(own, x, up, k) \subseteq Node
  BY DEF Counted, Below
<1>3. Counted(own, x, up, k) # {}
  BY <1>1, <1>2, NodeSetFinite
<1> QED
  BY <1>3 DEF Counted

\* A state that is in order, apart from where cleanup stands and from k and its ancestors,
\* and where k can be granted.
Grantable(own, intent, registry, locks, x, up, k) ==
  /\ Consistent(own, intent, registry, locks, x, up)
  /\ \A p \in up : Above[p] \subseteq up
  /\ QueuesOk(waiters, waiting_registry, open \ {cleanup.fd})
  /\ CanGrant(own, intent, k)
  /\ k # x \/ up = {}
  /\ \A m \in Node \ ({k} \cup Above[k]) : Woken(own, intent, waiters, x, m)
  /\ \A m \in Node \ {k} : Covered(own, waiters, x, m)
  /\ \A m \in Node : TakenUnder(own, x, m) => NoTwoAbove(own, x, m)
  /\ NoTwoAbove(own, x, k)
  /\ x \in Below(k) => ~ LockedUnder(own, k)
  /\ \A m \in Node : own[m] # NoFd => own[m] \in open

\* What is in order once k is granted.
InOrder(own, intent, registry, locks, wait, waitingFor, x, up) ==
  /\ Consistent(own, intent, registry, locks, x, up)
  /\ QueuesOk(wait, waitingFor, open \ {cleanup.fd})
  /\ \A m \in Node : own[m] # NoFd => own[m] \in open
  /\ \A m \in Node : Woken(own, intent, wait, x, m) /\ Covered(own, wait, x, m)
  /\ \A m \in Node : TakenUnder(own, x, m) => NoTwoAbove(own, x, m)

\* A grant, whoever makes it: the node and its ancestors change together.
LEMMA GrantFacts ==
  ASSUME NEW own, NEW intent, NEW registry, NEW locks, NEW x, NEW up, NEW k \in Node,
         Grantable(own, intent, registry, locks, x, up, k),
         GrantToNextWaiter(k, own, intent, registry, locks)
  PROVE  /\ InOrder(owner_fd', intent_count', fd_registry', total_locks', waiters', waiting_registry', x, up)
         /\ \E f \in Fd : owner_fd' = [own EXCEPT ![k] = f]
<1> DEFINE f == Head(waiters[k])
<1>0. /\ Consistent(own, intent, registry, locks, x, up)
      /\ \A p \in up : Above[p] \subseteq up
      /\ QueuesOk(waiters, waiting_registry, open \ {cleanup.fd})
      /\ k # x \/ up = {}
      /\ \A m \in Node \ ({k} \cup Above[k]) : Woken(own, intent, waiters, x, m)
      /\ \A m \in Node \ {k} : Covered(own, waiters, x, m)
      /\ \A m \in Node : TakenUnder(own, x, m) => NoTwoAbove(own, x, m)
      /\ NoTwoAbove(own, x, k)
      /\ x \in Below(k) => ~ LockedUnder(own, k)
      /\ \A m \in Node : own[m] # NoFd => own[m] \in open
  BY DEF Grantable
<1>1. waiters[k] # <<>> /\ intent[k] = 0 /\ own[k] = NoFd
  BY DEF Grantable, CanGrant
<1>2. /\ waiters' = [waiters EXCEPT ![k] = Tail(waiters[k])]
      /\ waiting_registry' = Unregistered(waiting_registry, f, k)
      /\ owner_fd' = [own EXCEPT ![k] = f]
      /\ intent_count' = Raised(intent, k)
      /\ fd_registry' = Registered(registry, f, k)
      /\ total_locks' = locks + 1
  BY DEF GrantToNextWaiter
<1>3. /\ QueuesOk([waiters EXCEPT ![k] = Tail(waiters[k])],
                  Unregistered(waiting_registry, f, k), open \ {cleanup.fd})
      /\ f \in Fd /\ f \in open \ {cleanup.fd}
  BY <1>0, <1>1, ServeOk
<1> HIDE DEF f
<1>4. Consistent([own EXCEPT ![k] = f], Raised(intent, k), Registered(registry, f, k),
                 locks + 1, x, up)
  BY <1>0, <1>1, <1>3, GiveConsistent
<1>5. waiters \in [Node -> Seq(Fd)] /\ own \in [Node -> Fd \cup {NoFd}]
  BY <1>0 DEF QueuesOk, Consistent
<1>6. \A m \in Node :
        /\ Woken([own EXCEPT ![k] = f], Raised(intent, k), [waiters EXCEPT ![k] = Tail(waiters[k])], x, m)
        /\ Covered([own EXCEPT ![k] = f], [waiters EXCEPT ![k] = Tail(waiters[k])], x, m)
  BY <1>0, <1>1, <1>3, <1>5, GrantKeepsQueues
<1>7. \A m \in Node : TakenUnder([own EXCEPT ![k] = f], x, m) => NoTwoAbove([own EXCEPT ![k] = f], x, m)
  BY <1>0, <1>1, <1>3, GrantKeepsTwo
<1>8. \A m \in Node : owner_fd'[m] # NoFd => owner_fd'[m] \in open
  BY <1>0, <1>2, <1>3, <1>5
<1> QED
  BY <1>2, <1>3, <1>4, <1>6, <1>7, <1>8 DEF InOrder

\* The facts after a step that leaves everything in order.
LEMMA InOrderFacts ==
  ASSUME Facts, open' = open, cleanup'.fd = cleanup.fd,
         cleanup' \in [fd : Fd \cup {NoFd}, node : Node \cup {NoNode}, up : SUBSET Node],
         total_waiters' \in Int,
         CleanupPosition',
         InOrder(owner_fd', intent_count', fd_registry', total_locks', waiters', waiting_registry',
                 cleanup'.node, cleanup'.up)
  PROVE  Facts'
<1>1. OwnersLive'
  BY DEF InOrder, OwnersLive
<1>2. NoLostWakeup' /\ NoQueueUnderLock'
  BY DEF InOrder, NoLostWakeup, Busy, Woken, NoQueueUnderLock, UnderLock, Covered, LockedUnder
<1>3. AtMostTwoOnAPath'
  BY DEF InOrder, AtMostTwoOnAPath, Taken, TakenUnder, NoTwoAbove
<1> QED
  BY <1>1, <1>2, <1>3 DEF Facts, InOrder

\* trie_release with the grants that follow it.
LEMMA ReleaseFacts ==
  ASSUME Facts, NEW fd \in Fd, NEW n \in Node, Release(fd, n)
  PROVE  Facts'
<1> DEFINE own      == [owner_fd EXCEPT ![n] = NoFd]
           intent   == Lowered(intent_count, n)
           registry == Unregistered(fd_registry, fd, n)
           locks    == total_locks - 1
           next     == ReleaseCandidates(n)
<1>1. /\ cleanup.fd = NoFd /\ cleanup.node = NoNode /\ cleanup.up = {}
      /\ cleanup' = cleanup /\ open' = open
      /\ owner_fd[n] = fd
  BY DEF Release, NotCleaning
<1>2. \/ next = {} /\ GrantNobody(own, intent, registry, locks)
      \/ \E m \in next : next \ {m} \subseteq Above[m] /\ GrantToNextWaiter(m, own, intent, registry, locks)
  BY DEF Release
<1>3. next = {m \in {n} \cup Above[n] : CanGrant(own, intent, m)}
  BY DEF ReleaseCandidates
<1>4. /\ Consistent(owner_fd, intent_count, fd_registry, total_locks, NoNode, {})
      /\ owner_fd \in [Node -> Fd \cup {NoFd}] /\ intent_count \in [Node -> Nat]
  BY <1>1 DEF Facts, Consistent
<1>5. Consistent(own, intent, registry, locks, NoNode, {})
  BY <1>1, <1>4, FreeConsistent
<1>6. /\ own[n] = NoFd
      /\ \A m \in Node \ {n} : own[m] = owner_fd[m]
      /\ \A m \in Node \ Above[n] : intent[m] = intent_count[m]
  BY <1>4 DEF Lowered
<1>7. intent \in [Node -> Nat] /\ CountsExact(own, intent, NoNode, {})
  BY <1>5 DEF Consistent
<1> HIDE DEF own, intent, registry, locks, next
<1>8. ASSUME NEW m \in Node \ next
      PROVE  Woken(own, intent, waiters, NoNode, m)
  <2>1. CASE m \in {n} \cup Above[n]
    BY <1>3, <1>7, <2>1 DEF Woken, CanGrant
  <2>2. CASE m \notin {n} \cup Above[n]
    BY <1>1, <1>6, <2>2 DEF Woken, Facts, NoLostWakeup, Busy
  <2> QED
    BY <2>1, <2>2
<1>9. ASSUME NEW m \in Node, m # n \/ n \notin next
      PROVE  Covered(own, waiters, NoNode, m)
  <2> SUFFICES ASSUME waiters[m] # <<>>, NEW a \in Above[m], own[a] # NoFd
               PROVE  own[m] # NoFd
    BY DEF Covered, LockedUnder
  <2>1. a \in Node /\ owner_fd[a] # NoFd
    BY <1>6
  <2>2. CASE m # n
    BY <1>1, <1>6, <2>1, <2>2 DEF Facts, NoQueueUnderLock, UnderLock
  <2>3. CASE m = n
    <3>1. n \notin next
      BY <1>9, <2>3
    <3>2. intent[n] # 0
      BY <1>6, <1>8, <2>3, <3>1 DEF Woken
    <3>3. PICK z \in Below(n) : own[z] # NoFd
      BY <1>7, <3>2, CountWitness
    <3>4. z \in Node /\ n \in Above[z] /\ owner_fd[z] # NoFd
      BY <1>6, <3>3 DEF Below
    <3>5. owner_fd[n] # NoFd
      BY <1>1
    <3> QED
      BY <2>1, <2>3, <3>4, <3>5 DEF Facts, AtMostTwoOnAPath, Taken
  <2> QED
    BY <2>2, <2>3
<1>10. ASSUME NEW m \in Node
       PROVE  TakenUnder(own, NoNode, m) => NoTwoAbove(own, NoNode, m)
  BY <1>1, <1>6 DEF Facts, AtMostTwoOnAPath, Taken, TakenUnder, NoTwoAbove
<1>11. \A m \in Node : own[m] # NoFd => own[m] \in open
  BY <1>6 DEF Facts, OwnersLive
<1>12. ASSUME InOrder(owner_fd', intent_count', fd_registry', total_locks', waiters', waiting_registry', NoNode, {}),
              total_waiters' \in Int
       PROVE  Facts'
  <2>1. CleanupPosition'
    BY <1>1, <1>12 DEF Facts, CleanupPosition, InOrder, Consistent
  <2>2. cleanup' \in [fd : Fd \cup {NoFd}, node : Node \cup {NoNode}, up : SUBSET Node]
    BY <1>1 DEF Facts
  <2> QED
    BY <1>1, <1>12, <2>1, <2>2, InOrderFacts
<1>13. CASE next = {} /\ GrantNobody(own, intent, registry, locks)
  <2>1. /\ owner_fd' = own /\ intent_count' = intent /\ fd_registry' = registry
        /\ total_locks' = locks /\ UNCHANGED <<waiters, waiting_registry, total_waiters>>
    BY <1>13 DEF GrantNobody
  <2>2. QueuesOk(waiters', waiting_registry', open \ {cleanup.fd}) /\ total_waiters' \in Int
    BY <2>1 DEF Facts
  <2>3. InOrder(owner_fd', intent_count', fd_registry', total_locks', waiters', waiting_registry', NoNode, {})
    BY <1>5, <1>8, <1>9, <1>10, <1>11, <1>13, <2>1, <2>2 DEF InOrder
  <2> QED
    BY <1>12, <2>2, <2>3
<1>14. ASSUME NEW k \in next, next \ {k} \subseteq Above[k],
              GrantToNextWaiter(k, own, intent, registry, locks)
       PROVE  Facts'
  <2>1. k \in Node /\ CanGrant(own, intent, k) /\ k \in {n} \cup Above[n]
    BY <1>3
  <2>2. \A m \in Node \ ({k} \cup Above[k]) : Woken(own, intent, waiters, NoNode, m)
    BY <1>8, <1>14
  <2>3. \A m \in Node \ {k} : Covered(own, waiters, NoNode, m)
    <3>1. k # n => n \notin next
      BY <1>14, <2>1
    <3> QED
      BY <1>9, <3>1
  <2>4. NoTwoAbove(own, NoNode, k)
    <3> SUFFICES ASSUME NEW a \in Above[k], own[a] # NoFd, NEW b \in Above[a], own[b] # NoFd
                 PROVE  FALSE
      BY <2>1 DEF NoTwoAbove, TakenUnder
    <3>1. a \in Above[n] /\ owner_fd[a] # NoFd /\ owner_fd[b] # NoFd /\ owner_fd[n] # NoFd
      BY <1>1, <1>6, <2>1
    <3> QED
      BY <3>1 DEF Facts, AtMostTwoOnAPath, Taken
  <2>5. QueuesOk(waiters, waiting_registry, open \ {cleanup.fd})
    BY DEF Facts
  <2>6. NoNode \notin Below(k) /\ k # NoNode
    BY <2>1 DEF Below
  <2>7. Grantable(own, intent, registry, locks, NoNode, {}, k)
    BY <1>5, <1>10, <1>11, <2>1, <2>2, <2>3, <2>4, <2>5, <2>6 DEF Grantable
  <2>8. total_waiters' \in Int
    BY <1>14 DEF GrantToNextWaiter, Facts
  <2> QED
    BY <1>12, <1>14, <2>1, <2>7, <2>8, GrantFacts
<1> QED
  BY <1>2, <1>13, <1>14

\* trie_client_cleanup gives up one node.
LEMMA CleanupReleaseFacts ==
  ASSUME Facts, NEW n \in Node, CleanupRelease(n)
  PROVE  Facts'
<1> DEFINE own == [owner_fd EXCEPT ![n] = NoFd]
           registry == Unregistered(fd_registry, cleanup.fd, n)
<1>1. /\ cleanup.fd # NoFd /\ cleanup.fd \in Fd /\ cleanup.node = NoNode /\ cleanup.up = {}
      /\ cleanup' = [fd |-> cleanup.fd, node |-> n, up |-> Above[n]]
      /\ owner_fd' = own /\ total_locks' = total_locks - 1 /\ fd_registry' = registry
      /\ UNCHANGED <<open, intent_count, waiters, waiting_registry, total_waiters>>
  BY DEF CleanupRelease, Facts, CleanupPosition
<1>2. /\ owner_fd \in [Node -> Fd \cup {NoFd}] /\ intent_count \in [Node -> Nat]
      /\ CountsExact(owner_fd, intent_count, NoNode, {})
      /\ Consistent(owner_fd, intent_count, fd_registry, total_locks, NoNode, {})
  BY <1>1 DEF Facts, Consistent
<1>3. owner_fd[n] = cleanup.fd
  BY <1>1 DEF CleanupRelease, Facts, Consistent
<1>4. Consistent(own, Lowered(intent_count, n), registry, total_locks - 1, NoNode, {})
  BY <1>1, <1>2, <1>3, FreeConsistent
<1>5. CountsExact(own, intent_count, n, Above[n])
  <2> SUFFICES ASSUME NEW m \in Node
               PROVE  Counted(own, n, Above[n], m) = Counted(owner_fd, NoNode, {}, m)
    BY <1>2 DEF CountsExact
  <2> QED
    BY <1>1, <1>2, <1>3 DEF Counted, Below
<1>6. Consistent(owner_fd', intent_count', fd_registry', total_locks', cleanup'.node, cleanup'.up)
  BY <1>1, <1>2, <1>4, <1>5 DEF Consistent
<1>7. /\ own[n] = NoFd
      /\ \A m \in Node \ {n} : own[m] = owner_fd[m]
  BY <1>2
<1> HIDE DEF own, registry
<1>8. CleanupPosition'
  BY <1>1, <1>7 DEF CleanupPosition, Facts
<1>9. OwnersLive' /\ NoLostWakeup'
  BY <1>1, <1>7 DEF Facts, OwnersLive, NoLostWakeup, Busy
<1>10. NoQueueUnderLock'
  <2>1. \A m \in Node : UnderLock(m)' => UnderLock(m)
    BY <1>1, <1>7 DEF UnderLock
  <2> QED
    BY <1>1, <1>7, <2>1 DEF Facts, NoQueueUnderLock
<1>11. AtMostTwoOnAPath'
  <2>1. \A m \in Node : Taken(m)' <=> Taken(m)
    BY <1>1, <1>3, <1>7 DEF Taken
  <2> QED
    BY <2>1 DEF Facts, AtMostTwoOnAPath
<1>12. cleanup' \in [fd : Fd \cup {NoFd}, node : Node \cup {NoNode}, up : SUBSET Node]
  BY <1>1
<1> QED
  BY <1>1, <1>6, <1>8, <1>9, <1>10, <1>11, <1>12 DEF Facts

\* One step of cleanup's climb lowers exactly the count that still held the released lock.
LEMMA ClimbConsistent ==
  ASSUME Facts, NEW p \in cleanup.up, cleanup.up \ {p} \subseteq Above[p]
  PROVE  /\ Consistent(owner_fd, [intent_count EXCEPT ![p] = @ - 1], fd_registry, total_locks,
                       cleanup.node, cleanup.up \ {p})
         /\ \A q \in cleanup.up \ {p} : Above[q] \subseteq cleanup.up \ {p}
         /\ cleanup.node \in Node /\ owner_fd[cleanup.node] = NoFd
         /\ p \in Above[cleanup.node] /\ cleanup.up \subseteq Above[cleanup.node]
<1> DEFINE intent == [intent_count EXCEPT ![p] = @ - 1]
           x == cleanup.node
           up == cleanup.up \ {p}
<1>1. up \subseteq Above[p]
  OBVIOUS
<1>2. /\ x \in Node /\ owner_fd[x] = NoFd /\ cleanup.up \subseteq Above[x] /\ p # x
      /\ p \in Above[x] /\ p \in Node
  BY DEF Facts, CleanupPosition
<1>3. \A q \in up : Above[q] \subseteq up
  <2> SUFFICES ASSUME NEW q \in up, NEW a \in Above[q] PROVE a \in up
    OBVIOUS
  <2>1. a \in cleanup.up
    BY <1>1 DEF Facts, CleanupPosition
  <2>2. a # p
    BY <1>1, <1>2
  <2> QED
    BY <2>1, <2>2
<1>4. /\ owner_fd \in [Node -> Fd \cup {NoFd}] /\ intent_count \in [Node -> Nat]
      /\ CountsExact(owner_fd, intent_count, x, cleanup.up)
  BY DEF Facts, Consistent
<1>5. CountsExact(owner_fd, intent, x, up)
  <2> SUFFICES ASSUME NEW m \in Node
               PROVE  intent[m] = Cardinality(Counted(owner_fd, x, up, m))
    BY DEF CountsExact
  <2>1. Counted(owner_fd, x, cleanup.up, m) \subseteq Node
    BY DEF Counted, Below
  <2>2. intent_count[m] = Cardinality(Counted(owner_fd, x, cleanup.up, m))
    BY <1>4 DEF CountsExact
  <2>3. CASE m = p
    <3>1. x \in Counted(owner_fd, x, cleanup.up, m)
      BY <1>1, <1>2, <2>3 DEF Counted, Below
    <3>2. Counted(owner_fd, x, up, m) = Counted(owner_fd, x, cleanup.up, m) \ {x}
      BY <1>2, <2>3 DEF Counted
    <3>3. Cardinality(Counted(owner_fd, x, up, m)) = Cardinality(Counted(owner_fd, x, cleanup.up, m)) - 1
      BY <2>1, <3>1, <3>2, NodeSetRemove
    <3> QED
      BY <1>4, <2>2, <2>3, <3>3
  <2>4. CASE m # p
    <3>1. Counted(owner_fd, x, up, m) = Counted(owner_fd, x, cleanup.up, m)
      BY <2>4 DEF Counted
    <3> QED
      BY <1>4, <2>2, <2>4, <3>1
  <2> QED
    BY <2>3, <2>4
<1>6. intent \in [Node -> Nat]
  <2>1. intent \in [Node -> Int]
    BY <1>2, <1>4
  <2> HIDE DEF intent
  <2> QED
    BY <1>5, <2>1, CountsNat
<1>7. Consistent(owner_fd, intent, fd_registry, total_locks, x, up)
  BY <1>5, <1>6 DEF Facts, Consistent
<1> QED
  BY <1>2, <1>3, <1>7

\* trie_client_cleanup goes up one ancestor.
LEMMA CleanupClimbFacts ==
  ASSUME Facts, NEW p \in Node, CleanupClimb(p)
  PROVE  Facts'
<1> DEFINE intent == [intent_count EXCEPT ![p] = @ - 1]
           x == cleanup.node
           up == cleanup.up \ {p}
<1>1. /\ p \in cleanup.up /\ up \subseteq Above[p]
      /\ cleanup' = [cleanup EXCEPT !.up = up] /\ open' = open
      /\ \/ CanGrant(owner_fd, intent, p) /\ GrantToNextWaiter(p, owner_fd, intent, fd_registry, total_locks)
         \/ ~CanGrant(owner_fd, intent, p) /\ GrantNobody(owner_fd, intent, fd_registry, total_locks)
  BY DEF CleanupClimb
<1>2. /\ x \in Node /\ owner_fd[x] = NoFd /\ cleanup.up \subseteq Above[x] /\ p # x /\ cleanup.fd # NoFd
      /\ p \in Above[x]
  BY <1>1, ClimbConsistent DEF Facts, CleanupPosition, NotCleaning
<1>3. Consistent(owner_fd, intent, fd_registry, total_locks, x, up)
  BY <1>1, ClimbConsistent
<1>4. (\A q \in up : Above[q] \subseteq up) /\ owner_fd \in [Node -> Fd \cup {NoFd}]
  BY <1>1, ClimbConsistent DEF Facts, Consistent
<1>5. intent \in [Node -> Nat] /\ \A m \in Node \ {p} : intent[m] = intent_count[m]
  BY <1>3 DEF Facts, Consistent
<1>6. /\ cleanup'.node = x /\ cleanup'.up = up /\ cleanup'.fd = cleanup.fd
      /\ cleanup' \in [fd : Fd \cup {NoFd}, node : Node \cup {NoNode}, up : SUBSET Node]
  BY <1>1 DEF Facts
<1> HIDE DEF intent, x, up
<1>7. \A m \in Node \ {p} : Woken(owner_fd, intent, waiters, x, m)
  BY <1>5 DEF Facts, NoLostWakeup, Busy, Woken, x
<1>8. \A m \in Node : Covered(owner_fd, waiters, x, m)
  BY DEF Facts, NoQueueUnderLock, UnderLock, Covered, LockedUnder, x
<1>9. \A m \in Node : TakenUnder(owner_fd, x, m) => NoTwoAbove(owner_fd, x, m)
  BY DEF Facts, AtMostTwoOnAPath, Taken, TakenUnder, NoTwoAbove, x
<1>10. QueuesOk(waiters, waiting_registry, open \ {cleanup.fd})
  BY DEF Facts
<1>11. \A m \in Node : owner_fd[m] # NoFd => owner_fd[m] \in open
  BY DEF Facts, OwnersLive
<1>12. ASSUME owner_fd'[x] = NoFd PROVE CleanupPosition'
  BY <1>1, <1>2, <1>4, <1>6, <1>12 DEF CleanupPosition, Facts, x, up
<1>13. CASE CanGrant(owner_fd, intent, p) /\ GrantToNextWaiter(p, owner_fd, intent, fd_registry, total_locks)
  <2>1. ~ LockedUnder(owner_fd, p)
    BY <1>2, <1>8, <1>13 DEF CanGrant, Covered
  <2>2. NoTwoAbove(owner_fd, x, p)
    <3>1. \A a \in Above[p] : a # x
      BY <1>2
    <3> QED
      BY <2>1, <3>1 DEF NoTwoAbove, LockedUnder, TakenUnder
  <2>3. Grantable(owner_fd, intent, fd_registry, total_locks, x, up, p)
    BY <1>2, <1>3, <1>4, <1>7, <1>8, <1>9, <1>10, <1>11, <1>13, <2>1, <2>2 DEF Grantable
  <2>4. /\ InOrder(owner_fd', intent_count', fd_registry', total_locks', waiters', waiting_registry', x, up)
        /\ \E f \in Fd : owner_fd' = [owner_fd EXCEPT ![p] = f]
    BY <1>13, <2>3, GrantFacts
  <2>5. owner_fd'[x] = NoFd
    BY <1>2, <1>4, <2>4
  <2>6. total_waiters' \in Int
    BY <1>13 DEF GrantToNextWaiter, Facts
  <2> QED
    BY <1>1, <1>6, <1>12, <2>4, <2>5, <2>6, InOrderFacts
<1>14. CASE ~CanGrant(owner_fd, intent, p) /\ GrantNobody(owner_fd, intent, fd_registry, total_locks)
  <2>1. /\ owner_fd' = owner_fd /\ intent_count' = intent /\ fd_registry' = fd_registry
        /\ total_locks' = total_locks /\ UNCHANGED <<waiters, waiting_registry, total_waiters>>
    BY <1>14 DEF GrantNobody
  <2>2. Woken(owner_fd, intent, waiters, x, p)
    BY <1>5, <1>14 DEF Woken, CanGrant
  <2>3. \A m \in Node : Woken(owner_fd, intent, waiters, x, m)
    BY <1>7, <2>2
  <2>4. InOrder(owner_fd', intent_count', fd_registry', total_locks', waiters', waiting_registry', x, up)
    BY <1>3, <1>8, <1>9, <1>10, <1>11, <2>1, <2>3 DEF InOrder
  <2>5. total_waiters' \in Int /\ owner_fd'[x] = NoFd
    BY <1>2, <2>1 DEF Facts
  <2> QED
    BY <1>1, <1>6, <1>12, <2>4, <2>5, InOrderFacts
<1> QED
  BY <1>1, <1>13, <1>14

\* trie_client_cleanup serves a queue on its way up.
LEMMA CleanupGrantFacts ==
  ASSUME Facts, NEW n \in Node, CleanupGrant(n)
  PROVE  Facts'
<1>1. /\ cleanup.node = n /\ cleanup.up = {} /\ owner_fd[n] = NoFd /\ n # NoNode /\ cleanup.fd # NoFd
      /\ cleanup' = [cleanup EXCEPT !.node = NoNode] /\ open' = open
      /\ \/ /\ CanGrant(owner_fd, intent_count, n)
            /\ GrantToNextWaiter(n, owner_fd, intent_count, fd_registry, total_locks)
         \/ ~CanGrant(owner_fd, intent_count, n) /\ UNCHANGED lockVars
  BY DEF CleanupGrant, Facts, CleanupPosition, NotCleaning
<1>2. /\ Consistent(owner_fd, intent_count, fd_registry, total_locks, n, {})
      /\ owner_fd \in [Node -> Fd \cup {NoFd}] /\ intent_count \in [Node -> Nat]
      /\ CountsExact(owner_fd, intent_count, n, {})
  BY <1>1 DEF Facts, Consistent
<1>3. \A m \in Node : /\ m # n => Woken(owner_fd, intent_count, waiters, n, m)
                      /\ Covered(owner_fd, waiters, n, m)
                      /\ TakenUnder(owner_fd, n, m) => NoTwoAbove(owner_fd, n, m)
  BY <1>1 DEF Facts, NoLostWakeup, Busy, Woken, NoQueueUnderLock, UnderLock, Covered,
     LockedUnder, AtMostTwoOnAPath, Taken, TakenUnder, NoTwoAbove
<1>4. QueuesOk(waiters, waiting_registry, open \ {cleanup.fd})
  BY DEF Facts
<1>5. \A m \in Node : owner_fd[m] # NoFd => owner_fd[m] \in open
  BY DEF Facts, OwnersLive
<1>6. /\ cleanup'.node = NoNode /\ cleanup'.up = {} /\ cleanup'.fd = cleanup.fd
      /\ cleanup' \in [fd : Fd \cup {NoFd}, node : Node \cup {NoNode}, up : SUBSET Node]
  BY <1>1 DEF Facts
<1>7. CleanupPosition'
  BY <1>1, <1>6 DEF CleanupPosition, Facts
<1>8. ASSUME NEW own, NEW intent, NEW registry, NEW locks, NEW wait, NEW waitingFor,
             InOrder(own, intent, registry, locks, wait, waitingFor, n, {}),
             wait[n] # <<>> => own[n] # NoFd \/ (intent[n] > 0 /\ ~LockedUnder(own, n))
      PROVE  InOrder(own, intent, registry, locks, wait, waitingFor, NoNode, {})
  <2>1. CountsExact(own, intent, NoNode, {})
    <3>1. \A m \in Node : Counted(own, NoNode, {}, m) = Counted(own, n, {}, m)
      BY DEF Counted
    <3> QED
      BY <1>8, <3>1 DEF InOrder, Consistent, CountsExact
  <2>2. Consistent(own, intent, registry, locks, NoNode, {})
    BY <1>8, <2>1 DEF InOrder, Consistent
  <2>3. ASSUME NEW m \in Node
        PROVE  Woken(own, intent, wait, NoNode, m) /\ Covered(own, wait, NoNode, m)
    <3>1. Woken(own, intent, wait, n, m) /\ Covered(own, wait, n, m)
      BY <1>8 DEF InOrder
    <3> QED
      BY <1>8, <3>1 DEF Woken, Covered
  <2>4. \A m \in Node : TakenUnder(own, NoNode, m) => TakenUnder(own, n, m)
    BY DEF TakenUnder
  <2>5. \A m \in Node : TakenUnder(own, NoNode, m) => NoTwoAbove(own, NoNode, m)
    BY <1>8, <2>4 DEF InOrder, NoTwoAbove
  <2> QED
    BY <1>8, <2>2, <2>3, <2>5 DEF InOrder
<1>9. CASE CanGrant(owner_fd, intent_count, n) /\ GrantToNextWaiter(n, owner_fd, intent_count, fd_registry, total_locks)
  <2>1. n \notin Below(n)
    BY DEF Below
  <2>2. NoTwoAbove(owner_fd, n, n)
    BY <1>3 DEF TakenUnder
  <2>3. Grantable(owner_fd, intent_count, fd_registry, total_locks, n, {}, n)
    BY <1>2, <1>3, <1>4, <1>5, <1>9, <2>1, <2>2 DEF Grantable
  <2>4. /\ InOrder(owner_fd', intent_count', fd_registry', total_locks', waiters', waiting_registry', n, {})
        /\ \E f \in Fd : owner_fd' = [owner_fd EXCEPT ![n] = f]
    BY <1>9, <2>3, GrantFacts
  <2>5. owner_fd'[n] # NoFd
    BY <1>2, <2>4
  <2>6. InOrder(owner_fd', intent_count', fd_registry', total_locks', waiters', waiting_registry', NoNode, {})
    BY <1>8, <2>4, <2>5
  <2>7. total_waiters' \in Int
    BY <1>9 DEF GrantToNextWaiter, Facts
  <2> QED
    BY <1>1, <1>6, <1>7, <2>6, <2>7, InOrderFacts
<1>10. CASE ~CanGrant(owner_fd, intent_count, n) /\ UNCHANGED lockVars
  <2>1. waiters[n] # <<>> => intent_count[n] > 0
    BY <1>1, <1>2, <1>10 DEF CanGrant
  <2>2. ASSUME intent_count[n] > 0 PROVE ~LockedUnder(owner_fd, n)
    <3>1. PICK z \in Below(n) : owner_fd[z] # NoFd
      BY <1>2, <2>2, CountWitness
    <3>2. z \in Node /\ n \in Above[z]
      BY DEF Below
    <3>3. NoTwoAbove(owner_fd, n, z)
      BY <1>3, <3>1, <3>2 DEF TakenUnder
    <3> QED
      BY <3>2, <3>3 DEF NoTwoAbove, TakenUnder, LockedUnder
  <2>3. \A m \in Node : Woken(owner_fd, intent_count, waiters, n, m)
    BY <1>3 DEF Woken
  <2>4. InOrder(owner_fd, intent_count, fd_registry, total_locks, waiters, waiting_registry, n, {})
    BY <1>2, <1>3, <1>4, <1>5, <2>3 DEF InOrder
  <2>5. InOrder(owner_fd, intent_count, fd_registry, total_locks, waiters, waiting_registry, NoNode, {})
    BY <1>8, <2>1, <2>2, <2>4
  <2>6. InOrder(owner_fd', intent_count', fd_registry', total_locks', waiters', waiting_registry', NoNode, {})
    BY <1>10, <2>5 DEF lockVars
  <2>7. total_waiters' \in Int
    BY <1>10 DEF lockVars, Facts
  <2> QED
    BY <1>1, <1>6, <1>7, <2>6, <2>7, InOrderFacts
<1> QED
  BY <1>1, <1>9, <1>10

-----------------------------------------------------------------------------
(* The theorems.                                                           *)

\* The facts are about the trie only.
LEMMA StutterFacts == Facts /\ UNCHANGED vars => Facts'
BY DEF Facts, vars, lockVars, CleanupPosition, OwnersLive, NoLostWakeup, Busy,
   NoQueueUnderLock, UnderLock, AtMostTwoOnAPath, Taken

\* One lemma above per operation of the trie.
LEMMA NextFacts == Facts /\ [Next]_vars => Facts'
<1> SUFFICES ASSUME Facts, [Next]_vars PROVE Facts'
  OBVIOUS
<1>1. ASSUME NEW fd \in Fd, Connect(fd) \/ Disconnect(fd) PROVE Facts'
  BY <1>1, ConnectFacts, DisconnectFacts
<1>2. ASSUME NEW fd \in Fd, NEW n \in Node, LockRequest(fd, n) PROVE Facts'
  BY <1>2, AcquireFreeFacts, AcquireQueueFacts, ReleaseFacts DEF LockRequest
<1>3. ASSUME CleanupStep PROVE Facts'
  BY <1>3, CleanupReleaseFacts, CleanupClimbFacts, CleanupGrantFacts, CleanupDoneFacts DEF CleanupStep
<1> QED
  BY <1>1, <1>2, <1>3, StutterFacts DEF Next

\* Every operation, and every step of cleanup, keeps the facts.
THEOREM FactsInvariant == Spec => []Facts
BY InitFacts, NextFacts, PTL DEF Spec

\* In every reachable state, between and during cleanups: counts, registries and number of
\* locks agree with the owners and the queues, queues hold only live clients, each once, and
\* nobody queues on a path that trie.c would grant.
THEOREM Invariance == Spec => []IndInv
BY FactsInvariant, FactsIndInv, PTL

\* trie.h's description of intent_count, at every iteration of every loop.
THEOREM CountsInvariance == Spec => []IntentExact
<1>1. IndInv => IntentExact
  BY DEF IndInv
<1> QED
  BY <1>1, Invariance, PTL

\* The registries that trie_cleanup_fd reads mirror the nodes.
THEOREM RegistriesInvariance == Spec => []RegistriesExact
<1>1. IndInv => RegistriesExact
  BY DEF IndInv
<1> QED
  BY <1>1, Invariance, PTL

\* No node is granted to, or queued for by, a client whose connection is gone.
THEOREM LiveClientsInvariance == Spec => []OnlyLiveClients
<1>1. IndInv => OnlyLiveClients
  BY DEF IndInv
<1> QED
  BY <1>1, Invariance, PTL

\* A release and a cleanup leave no queue that could be served.
THEOREM NoLostWakeupInvariance == Spec => [](NoLostWakeup /\ NoQueueUnderLock)
<1>1. IndInv => NoLostWakeup /\ NoQueueUnderLock
  BY DEF IndInv
<1> QED
  BY <1>1, Invariance, PTL

\* Whatever connections are lost, no path has three owned nodes on it.
THEOREM AtMostTwoInvariance == Spec => []AtMostTwoOnAPath
<1>1. IndInv => AtMostTwoOnAPath
  BY DEF IndInv
<1> QED
  BY <1>1, Invariance, PTL

-----------------------------------------------------------------------------
(* Exclusion.                                                              *)

UpClosed(up) == \A p \in up : Above[p] \subseteq up

ExclusiveUnder(own) == \A m \in Node : own[m] # NoFd => ~LockedUnder(own, m)

\* A node with nothing owned above it and nothing counted below it can be given away.
LEMMA GrantKeepsExclusion ==
  ASSUME NEW own \in [Node -> Fd \cup {NoFd}], NEW intent, NEW x, NEW up,
         CountsExact(own, intent, x, up), UpClosed(up), ExclusiveUnder(own),
         NEW k \in Node, intent[k] = 0, ~LockedUnder(own, k), NEW f \in Fd
  PROVE  ExclusiveUnder([own EXCEPT ![k] = f])
<1>1. \A m \in Below(k) : own[m] = NoFd
  BY QuietBelow DEF UpClosed
<1> SUFFICES ASSUME NEW m \in Node, [own EXCEPT ![k] = f][m] # NoFd,
                    NEW a \in Above[m], [own EXCEPT ![k] = f][a] # NoFd
             PROVE  FALSE
  BY DEF ExclusiveUnder, LockedUnder
<1>2. CASE m = k
  BY <1>2 DEF LockedUnder
<1>3. CASE a = k
  BY <1>1, <1>3 DEF Below
<1>4. CASE m # k /\ a # k
  BY <1>4 DEF ExclusiveUnder, LockedUnder
<1> QED
  BY <1>2, <1>3, <1>4

\* What a release leaves behind before it serves a queue.
LEMMA ReleaseFreed ==
  ASSUME Facts, NEW fd \in Fd, NEW n \in Node, cleanup = NotCleaning, owner_fd[n] = fd
  PROVE  /\ CountsExact([owner_fd EXCEPT ![n] = NoFd], Lowered(intent_count, n), NoNode, {})
         /\ [owner_fd EXCEPT ![n] = NoFd] \in [Node -> Fd \cup {NoFd}]
<1>1. Consistent(owner_fd, intent_count, fd_registry, total_locks, NoNode, {})
  BY DEF Facts, NotCleaning
<1>2. Consistent([owner_fd EXCEPT ![n] = NoFd], Lowered(intent_count, n),
                 Unregistered(fd_registry, fd, n), total_locks - 1, NoNode, {})
  BY <1>1, FreeConsistent
<1> QED
  BY <1>2 DEF Consistent

\* trie_acquire looks at ancestors and descendants.
LEMMA AcquireFreeExclusive ==
  ASSUME Facts, SubtreeExclusion, NEW fd \in Fd, NEW n \in Node, AcquireFree(fd, n)
  PROVE  SubtreeExclusion'
<1>1. /\ owner_fd \in [Node -> Fd \cup {NoFd}]
      /\ CountsExact(owner_fd, intent_count, NoNode, {})
      /\ owner_fd' = [owner_fd EXCEPT ![n] = fd]
      /\ intent_count[n] = 0 /\ ~LockedUnder(owner_fd, n)
  BY DEF Facts, AcquireFree, NotCleaning, Busy, Consistent, AncestorLocked, LockedUnder
<1>2. ExclusiveUnder(owner_fd)
  BY DEF SubtreeExclusion, UnderLock, ExclusiveUnder, LockedUnder
<1>3. ExclusiveUnder([owner_fd EXCEPT ![n] = fd])
  <2>1. UpClosed({})
    BY DEF UpClosed
  <2> QED
    BY <1>1, <1>2, <2>1, GrantKeepsExclusion
<1> QED
  BY <1>1, <1>3 DEF SubtreeExclusion, UnderLock, ExclusiveUnder, LockedUnder

\* trie_release gives away at most one path, in a subtree that nobody holds.
LEMMA ReleaseExclusive ==
  ASSUME Facts, SubtreeExclusion, NEW fd \in Fd, NEW n \in Node, Release(fd, n)
  PROVE  SubtreeExclusion'
<1> DEFINE own    == [owner_fd EXCEPT ![n] = NoFd]
           intent == Lowered(intent_count, n)
<1>1. CountsExact(own, intent, NoNode, {}) /\ own \in [Node -> Fd \cup {NoFd}]
  BY ReleaseFreed DEF Release
<1>2. owner_fd[n] # NoFd /\ owner_fd \in [Node -> Fd \cup {NoFd}]
  BY DEF Release, Facts, Consistent
<1>3. \A m \in Node : own[m] # NoFd => owner_fd[m] # NoFd
  BY <1>2
<1>4. \/ owner_fd' = own
      \/ \E k \in ReleaseCandidates(n) :
           owner_fd' = [own EXCEPT ![k] = Head(waiters[k])]
  BY DEF Release, GrantNobody, GrantToNextWaiter
<1>5. \A k \in ReleaseCandidates(n) :
        k \in {n} \cup Above[n] /\ intent[k] = 0 /\ waiters[k] # <<>>
  BY DEF ReleaseCandidates, CanGrant
<1> HIDE DEF own, intent
<1>6. ExclusiveUnder(own)
  BY <1>3 DEF SubtreeExclusion, UnderLock, ExclusiveUnder, LockedUnder
<1>7. ASSUME NEW k \in ReleaseCandidates(n)
      PROVE  ExclusiveUnder([own EXCEPT ![k] = Head(waiters[k])])
  <2>1. k \in Node /\ intent[k] = 0 /\ waiters[k] # <<>>
    BY <1>5
  <2>2. ~LockedUnder(own, k)
    BY <1>2, <1>3, <1>5 DEF SubtreeExclusion, UnderLock, LockedUnder
  <2>3. Head(waiters[k]) \in Fd
    BY <2>1, ServeOk DEF Facts
  <2>4. UpClosed({})
    BY DEF UpClosed
  <2> QED
    BY <1>1, <1>6, <2>1, <2>2, <2>3, <2>4, GrantKeepsExclusion
<1>8. ExclusiveUnder(owner_fd')
  BY <1>4, <1>6, <1>7
<1> QED
  BY <1>8 DEF SubtreeExclusion, UnderLock, ExclusiveUnder, LockedUnder

\* Going up one ancestor in cleanup, with or without a grant.
LEMMA ClimbExclusive ==
  ASSUME Facts, SubtreeExclusion, NEW p \in Node, CleanupClimb(p)
  PROVE  SubtreeExclusion'
<1> DEFINE intent == [intent_count EXCEPT ![p] = @ - 1]
           up == cleanup.up \ {p}
<1>1. /\ p \in cleanup.up /\ up \subseteq Above[p]
      /\ \/ owner_fd' = owner_fd
         \/ CanGrant(owner_fd, intent, p) /\ owner_fd' = [owner_fd EXCEPT ![p] = Head(waiters[p])]
  BY DEF CleanupClimb, GrantNobody, GrantToNextWaiter
<1>2. /\ CountsExact(owner_fd, intent, cleanup.node, up)
      /\ UpClosed(up)
      /\ owner_fd \in [Node -> Fd \cup {NoFd}]
      /\ p # cleanup.node
  BY <1>1, ClimbConsistent DEF Consistent, UpClosed
<1>3. ExclusiveUnder(owner_fd)
  BY DEF SubtreeExclusion, UnderLock, ExclusiveUnder, LockedUnder
<1> HIDE DEF intent, up
<1>4. CASE CanGrant(owner_fd, intent, p) /\ owner_fd' = [owner_fd EXCEPT ![p] = Head(waiters[p])]
  <2>1. waiters[p] # <<>> /\ intent[p] = 0 /\ owner_fd[p] = NoFd
    BY <1>4 DEF CanGrant
  <2>2. ~LockedUnder(owner_fd, p)
    BY <1>2, <2>1 DEF Facts, NoQueueUnderLock, UnderLock, LockedUnder
  <2>3. Head(waiters[p]) \in Fd
    BY <2>1, ServeOk DEF Facts
  <2>4. ExclusiveUnder([owner_fd EXCEPT ![p] = Head(waiters[p])])
    BY <1>2, <1>3, <2>1, <2>2, <2>3, GrantKeepsExclusion
  <2> QED
    BY <1>4, <2>4 DEF SubtreeExclusion, UnderLock, ExclusiveUnder, LockedUnder
<1>5. CASE owner_fd' = owner_fd
  BY <1>5 DEF SubtreeExclusion, UnderLock
<1> QED
  BY <1>1, <1>4, <1>5

\* Every step but cleanup's last grant keeps two locks from lying on one path.
LEMMA StepExclusive ==
  ASSUME Facts, SubtreeExclusion, [Next]_vars, \A n \in Node : ~CleanupGrant(n)
  PROVE  SubtreeExclusion'
<1>1. ASSUME owner_fd' = owner_fd PROVE SubtreeExclusion'
  BY <1>1 DEF SubtreeExclusion, UnderLock
<1>2. ASSUME NEW fd \in Fd, Connect(fd) \/ Disconnect(fd) PROVE SubtreeExclusion'
  BY <1>1, <1>2 DEF Connect, Disconnect, lockVars
<1>3. ASSUME NEW fd \in Fd, NEW n \in Node, LockRequest(fd, n) PROVE SubtreeExclusion'
  <2>1. ASSUME AcquireQueue(fd, n) PROVE SubtreeExclusion'
    BY <1>1, <2>1 DEF AcquireQueue
  <2> QED
    BY <1>3, <2>1, AcquireFreeExclusive, ReleaseExclusive DEF LockRequest
<1>4. ASSUME NEW n \in Node, CleanupRelease(n) PROVE SubtreeExclusion'
  <2>1. owner_fd \in [Node -> Fd \cup {NoFd}] /\ owner_fd' = [owner_fd EXCEPT ![n] = NoFd]
    BY <1>4 DEF CleanupRelease, Facts, Consistent
  <2> QED
    BY <2>1 DEF SubtreeExclusion, UnderLock
<1>5. ASSUME CleanupDone PROVE SubtreeExclusion'
  BY <1>1, <1>5 DEF CleanupDone, lockVars
<1>6. ASSUME CleanupStep PROVE SubtreeExclusion'
  BY <1>4, <1>5, <1>6, ClimbExclusive DEF CleanupStep
<1>7. ASSUME UNCHANGED vars PROVE SubtreeExclusion'
  BY <1>1, <1>7 DEF vars, lockVars
<1> QED
  BY <1>2, <1>3, <1>6, <1>7 DEF Next

\* Requests in any order keep the subtrees of locks disjoint; only the grant at the end of
\* a cleaned-up node's climb can put a lock under another one.
THEOREM ExclusionOfRequests == Spec => RequestsKeepExclusion
<1>1. Facts /\ [Next]_vars =>
        [SubtreeExclusion => SubtreeExclusion' \/ \E n \in Node : CleanupGrant(n)]_vars
  BY StepExclusive
<1> QED
  BY <1>1, FactsInvariant, PTL DEF Spec, RequestsKeepExclusion

-----------------------------------------------------------------------------
(* Clients that let go of their locks before they leave.                   *)

\* Such clients keep cleanup away from the nodes.
GracefulInv ==
  /\ Facts
  /\ SubtreeExclusion
  /\ cleanup.node = NoNode
  /\ cleanup.fd # NoFd => fd_registry[cleanup.fd] = {}

\* A client that has released everything leaves no queue to serve.
LEMMA NoGrantInCleanup ==
  ASSUME GracefulInv, NEW n \in Node
  PROVE  ~CleanupRelease(n) /\ ~CleanupClimb(n) /\ ~CleanupGrant(n)
BY DEF GracefulInv, Facts, CleanupPosition, CleanupRelease, CleanupClimb, CleanupGrant

\* Every step of the clients that release before they leave keeps subtrees exclusive.
LEMMA GracefulStep ==
  ASSUME GracefulInv, [GracefulNext]_vars
  PROVE  GracefulInv'
<1>1. [Next]_vars
  BY DEF GracefulNext, Next
<1>2. Facts' /\ SubtreeExclusion'
  BY <1>1, NextFacts, StepExclusive, NoGrantInCleanup DEF GracefulInv
<1>3. cleanup'.node = NoNode /\ (cleanup'.fd # NoFd => fd_registry'[cleanup'.fd] = {})
  <2>1. ASSUME UNCHANGED <<cleanup, fd_registry>> \/ cleanup' = NotCleaning
        PROVE  cleanup'.node = NoNode /\ (cleanup'.fd # NoFd => fd_registry'[cleanup'.fd] = {})
    BY <2>1 DEF GracefulInv, NotCleaning
  <2>2. ASSUME NEW fd \in Fd, Connect(fd)
        PROVE  UNCHANGED <<cleanup, fd_registry>>
    BY <2>2 DEF Connect, lockVars
  <2>3. ASSUME NEW fd \in Fd, fd_registry[fd] = {}, Disconnect(fd)
        PROVE  cleanup'.node = NoNode /\ fd_registry'[cleanup'.fd] = {}
    BY <2>3 DEF Disconnect, NotCleaning
  <2>4. ASSUME NEW fd \in Fd, NEW n \in Node, LockRequest(fd, n)
        PROVE  cleanup' = NotCleaning
    BY <2>4 DEF LockRequest, AcquireFree, AcquireQueue, Release
  <2>5. ASSUME CleanupStep
        PROVE  cleanup' = NotCleaning
    BY <2>5, NoGrantInCleanup DEF CleanupStep, CleanupDone
  <2>6. ASSUME UNCHANGED vars
        PROVE  UNCHANGED <<cleanup, fd_registry>>
    BY <2>6 DEF vars, lockVars
  <2> QED
    BY <2>1, <2>2, <2>3, <2>4, <2>5, <2>6 DEF GracefulNext
<1> QED
  BY <1>2, <1>3 DEF GracefulInv

\* No path is owned in an empty trie.
LEMMA GracefulInit == Init => GracefulInv
<1>1. Init => SubtreeExclusion /\ cleanup.node = NoNode /\ cleanup.fd = NoFd
  BY DEF Init, NotCleaning, SubtreeExclusion
<1> QED
  BY <1>1, InitFacts DEF GracefulInv

\* Among clients that release before they leave, a lock covers its subtree.
THEOREM GracefulExclusion == GracefulSpec => []SubtreeExclusion
<1>1. GracefulInv => SubtreeExclusion
  BY DEF GracefulInv
<1> QED
  BY <1>1, GracefulInit, GracefulStep, PTL DEF GracefulSpec

-----------------------------------------------------------------------------
(* The trie implements HierLock for such clients.                          *)

\* A node is free in HierLock's sense when nothing above it is owned and its own count
\* says that nothing below it is.
LEMMA FreeInTrie ==
  ASSUME NEW own \in [Node -> Fd \cup {NoFd}], NEW intent, CountsExact(own, intent, NoNode, {}),
         NEW k \in Node, own[k] = NoFd, ~LockedUnder(own, k), intent[k] = 0
  PROVE  Promise!FreeIn(own, k)
<1>1. UpClosed({})
  BY DEF UpClosed
<1>2. \A m \in Below(k) : own[m] = NoFd
  BY <1>1, QuietBelow DEF UpClosed
<1> SUFFICES ASSUME NEW q \in Node, Promise!Overlaps(k, q) PROVE own[q] = NoFd
  BY DEF Promise!FreeIn
<1>3. k = q \/ q \in Below(k) \/ q \in Above[k]
  BY DEF Promise!Overlaps, Below
<1> QED
  BY <1>2, <1>3 DEF LockedUnder

\* A busy node is not free.
LEMMA BusyInTrie ==
  ASSUME NEW own, NEW intent, CountsExact(own, intent, NoNode, {}),
         NEW k \in Node, own[k] # NoFd \/ intent[k] # 0
  PROVE  ~Promise!FreeIn(own, k)
<1>1. CASE own[k] # NoFd
  BY <1>1 DEF Promise!FreeIn, Promise!Overlaps
<1>2. CASE intent[k] # 0
  <2>1. PICK m \in Below(k) : own[m] # NoFd
    BY <1>2, CountWitness DEF Below
  <2>2. m \in Node /\ Promise!Overlaps(k, m)
    BY DEF Below, Promise!Overlaps
  <2> QED
    BY <2>1, <2>2 DEF Promise!FreeIn
<1> QED
  BY <1>1, <1>2

\* A grant at once is a take of the abstract lock.
LEMMA TakeStep ==
  ASSUME GracefulInv, NEW fd \in Fd, NEW n \in Node, AcquireFree(fd, n)
  PROVE  Promise!Take(fd, n)
<1>1. /\ owner_fd \in [Node -> Fd \cup {NoFd}]
      /\ CountsExact(owner_fd, intent_count, NoNode, {})
      /\ owner_fd[n] = NoFd /\ intent_count[n] = 0 /\ ~LockedUnder(owner_fd, n)
  BY DEF GracefulInv, Facts, AcquireFree, NotCleaning, Busy, Consistent, AncestorLocked, LockedUnder
<1>2. Promise!FreeIn(owner_fd, n)
  BY <1>1, FreeInTrie
<1> QED
  BY <1>2 DEF AcquireFree, Promise!Take

\* Queueing there is queueing here: the path is not free.
LEMMA WaitStep ==
  ASSUME GracefulInv, NEW fd \in Fd, NEW n \in Node, AcquireQueue(fd, n)
  PROVE  Promise!Wait(fd, n)
<1>1. CountsExact(owner_fd, intent_count, NoNode, {}) /\ intent_count \in [Node -> Nat]
  BY DEF GracefulInv, Facts, AcquireQueue, NotCleaning, Consistent
<1>2. owner_fd[n] # NoFd \/ intent_count[n] # 0
  BY <1>1 DEF AcquireQueue, Busy
<1>3. ~Promise!FreeIn(owner_fd, n)
  BY <1>1, <1>2, BusyInTrie
<1>4. \A i \in DOMAIN waiters[n] : waiters[n][i] # fd
  BY DEF AcquireQueue, AlreadyWaiting, Range
<1> QED
  BY <1>3, <1>4 DEF AcquireQueue, Promise!Wait

\* A release, with or without a grant behind it.
LEMMA LetGoStep ==
  ASSUME GracefulInv, GracefulInv', NEW fd \in Fd, NEW n \in Node, Release(fd, n)
  PROVE  Promise!LetGo(fd, n)
<1> DEFINE own    == [owner_fd EXCEPT ![n] = NoFd]
           intent == Lowered(intent_count, n)
<1>1. /\ CountsExact(own, intent, NoNode, {}) /\ own \in [Node -> Fd \cup {NoFd}]
      /\ owner_fd \in [Node -> Fd \cup {NoFd}]
  BY ReleaseFreed DEF Release, GracefulInv, Facts, Consistent
<1>2. owner_fd[n] = fd /\ fd # NoFd
  BY DEF Release
<1>3. \/ owner_fd' = own /\ waiters' = waiters
      \/ \E k \in {n} \cup Above[n] :
           /\ CanGrant(own, intent, k)
           /\ owner_fd' = [own EXCEPT ![k] = Head(waiters[k])]
           /\ waiters' = [waiters EXCEPT ![k] = Tail(@)]
  BY DEF Release, ReleaseCandidates, GrantNobody, GrantToNextWaiter
<1> HIDE DEF intent
<1>4. ASSUME NEW k \in {n} \cup Above[n], CanGrant(own, intent, k)
      PROVE  Promise!FreeIn(own, k) /\ waiters[k] # <<>>
  <2>1. ~LockedUnder(owner_fd, n)
    BY <1>2 DEF GracefulInv, SubtreeExclusion, UnderLock, LockedUnder
  <2>2. ~LockedUnder(own, k)
    BY <1>1, <2>1 DEF LockedUnder
  <2> QED
    BY <1>1, <1>4, <2>2, FreeInTrie DEF CanGrant
<1>5. Promise!Settled(owner_fd', waiters')
  <2> SUFFICES ASSUME NEW p \in Node, Promise!FreeIn(owner_fd', p) PROVE waiters'[p] = <<>>
    BY DEF Promise!Settled
  <2>1. /\ CountsExact(owner_fd', intent_count', NoNode, {}) /\ intent_count' \in [Node -> Nat]
        /\ cleanup'.node = NoNode
    BY DEF GracefulInv, Facts, Release, NotCleaning, Consistent
  <2>2. owner_fd'[p] = NoFd /\ intent_count'[p] = 0
    BY <2>1, BusyInTrie
  <2> QED
    BY <2>1, <2>2 DEF GracefulInv, Facts, NoLostWakeup, Busy
<1> QED
  BY <1>2, <1>3, <1>4, <1>5 DEF Promise!LetGo

\* Cleanup of a client that holds nothing.
LEMMA LeaveStep ==
  ASSUME GracefulInv, NEW fd \in Fd, fd_registry[fd] = {}, Disconnect(fd)
  PROVE  Promise!Leave(fd)
<1>1. \A p \in Node : owner_fd[p] # fd
  BY DEF GracefulInv, Facts, Consistent
<1>2. ASSUME NEW p \in Node
      PROVE  (IF p \in QueuesOf(fd) THEN RemoveFirst(waiters[p], fd) ELSE waiters[p])
               = RemoveFirst(waiters[p], fd)
  <2>1. waiters[p] \in Seq(Fd)
    BY DEF GracefulInv, Facts, QueuesOk
  <2>2. CASE p \notin QueuesOf(fd)
    <3>1. fd \notin Range(waiters[p])
      BY <2>2 DEF GracefulInv, Facts, QueuesOk, QueuesOf, AlreadyWaiting
    <3>2. ~ \E i \in 1 .. Len(waiters[p]) : waiters[p][i] = fd
      BY <2>1, <3>1 DEF Range
    <3> QED
      BY <2>2, <3>2 DEF RemoveFirst
  <2> QED
    BY <2>2
<1>3. waiters' = [p \in Node |-> RemoveFirst(waiters[p], fd)]
  BY <1>2 DEF Disconnect
<1>4. \A q : Promise!RemoveFirst(q, fd) = RemoveFirst(q, fd)
  BY DEF RemoveFirst, Promise!RemoveFirst, RemoveAt, Promise!RemoveAt,
     SelectInSeq, Promise!SelectInSeq, Min, Promise!Min
<1> QED
  BY <1>1, <1>3, <1>4 DEF Disconnect, Promise!Leave

\* Every request of a client, and its departure, is the step of HierLock that its name
\* says; connecting, and the end of cleanup, are invisible there.
THEOREM TrieImplementsHierLock == GracefulSpec => KeepsPromise
<1>1. Init => Promise!Init
  BY DEF Init, Promise!Init
<1>2. GracefulInv /\ GracefulInv' /\ [GracefulNext]_vars => [Promise!Next]_(Promise!absVars)
  <2> SUFFICES ASSUME GracefulInv, GracefulInv', [GracefulNext]_vars
               PROVE  [Promise!Next]_(Promise!absVars)
    OBVIOUS
  <2>1. ASSUME UNCHANGED <<owner_fd, waiters>> PROVE UNCHANGED Promise!absVars
    BY <2>1 DEF Promise!absVars
  <2>2. ASSUME NEW fd \in Fd, Connect(fd) PROVE UNCHANGED Promise!absVars
    BY <2>1, <2>2 DEF Connect, lockVars
  <2>3. ASSUME NEW fd \in Fd, fd_registry[fd] = {}, Disconnect(fd) PROVE Promise!Next
    BY <2>3, LeaveStep DEF Promise!Next
  <2>4. ASSUME NEW fd \in Fd, NEW n \in Node, LockRequest(fd, n) PROVE Promise!Next
    BY <2>4, TakeStep, WaitStep, LetGoStep DEF LockRequest, Promise!Next
  <2>5. ASSUME CleanupStep PROVE UNCHANGED Promise!absVars
    BY <2>1, <2>5, NoGrantInCleanup DEF CleanupStep, CleanupDone, lockVars
  <2>6. ASSUME UNCHANGED vars PROVE UNCHANGED Promise!absVars
    BY <2>1, <2>6 DEF vars, lockVars
  <2> QED
    BY <2>2, <2>3, <2>4, <2>5, <2>6 DEF GracefulNext
<1> QED
  BY <1>1, <1>2, GracefulInit, GracefulStep, PTL DEF GracefulSpec, KeepsPromise, Promise!Spec

-----------------------------------------------------------------------------
(* The lock protocol.                                                      *)

\* Nobody waits for a path that has another one below it that is asked for.
Unnested == \A m \in Waited, n \in Requested : m \notin Above[n]

\* Only for a path of Waited does anybody wait.
Req == {r \in [op : Op, path : Requested] : r.op = "acquire" => r.path \in Waited}
         \cup {NoRequest}

\* What a request may be answered.
Replies == {"ok", "waiting", "denied"}

Msg == [status : {"granted"}, path : Requested]
         \cup [status : Replies, path : {NoNode}]

IsGrant(m) == m.status = "granted"

\* What client c has been told, is being told and asks fits what it owns: h are the paths it
\* was told it holds, q the messages on their way, req the request on its way and aw the one
\* whose answer it has not read.
Fits(c, own, h, q, req, aw) ==
  /\ \A n \in h : own[n] = c
  /\ req # NoRequest => req = aw
  /\ \A i \in DOMAIN q : IsGrant(q[i]) =>
       /\ own[q[i].path] = c
       /\ q[i].path \notin h
       /\ req.op = "release" => q[i].path # req.path
  /\ \A i, j \in DOMAIN q : IsGrant(q[i]) /\ IsGrant(q[j]) /\ i # j => q[i].path # q[j].path
  /\ \A i, j \in DOMAIN q : ~IsGrant(q[i]) /\ ~IsGrant(q[j]) => i = j
  /\ \A i \in DOMAIN q : ~IsGrant(q[i]) => req = NoRequest /\ aw # NoRequest
  /\ \A i \in DOMAIN q : q[i].status = "ok" /\ aw.op # "release" =>
       /\ own[aw.path] = c
       /\ \A j \in DOMAIN q : IsGrant(q[j]) /\ j > i => q[j].path # aw.path
  /\ req.op = "release" => own[req.path] = c /\ req.path \notin h

BrokerTypes ==
  /\ request \in [Fd -> Req] /\ awaiting \in [Fd -> Req]
  /\ inbox \in [Fd -> Seq(Msg)]
  /\ held \in [Fd -> SUBSET Requested]

\* Only what was asked for is owned or queued for.
OnRequest ==
  \A n \in Node : /\ owner_fd[n] # NoFd => n \in Requested
                  /\ waiters[n] # <<>> => n \in Waited

\* A client that is being cleaned up hears nothing more.
GoneSilent ==
  cleanup.fd # NoFd =>
    /\ request[cleanup.fd] = NoRequest /\ awaiting[cleanup.fd] = NoRequest
    /\ inbox[cleanup.fd] = <<>> /\ held[cleanup.fd] = {}

AllFit == \A fd \in Fd : Fits(fd, owner_fd, held[fd], inbox[fd], request[fd], awaiting[fd])

BrokerInv == BrokerTypes /\ OnRequest /\ GoneSilent /\ AllFit

\* Reading, in a queue of messages.
LEMMA MsgAppend ==
  ASSUME NEW q \in Seq(Msg), NEW m \in Msg
  PROVE  /\ Append(q, m) \in Seq(Msg)
         /\ DOMAIN Append(q, m) = DOMAIN q \cup {Len(q) + 1}
         /\ \A i \in DOMAIN q : Append(q, m)[i] = q[i] /\ i \in Nat /\ i < Len(q) + 1
         /\ Append(q, m)[Len(q) + 1] = m /\ Len(q) + 1 \notin DOMAIN q /\ Len(q) + 1 \in Nat
<1>1. /\ Append(q, m) \in Seq(Msg) /\ Len(Append(q, m)) = Len(q) + 1
      /\ \A i \in 1 .. Len(q) : Append(q, m)[i] = q[i]
      /\ Append(q, m)[Len(q) + 1] = m
  BY AppendProperties
<1>2. DOMAIN Append(q, m) = 1 .. Len(q) + 1 /\ DOMAIN q = 1 .. Len(q) /\ Len(q) \in Nat
  BY <1>1, LenProperties
<1> QED
  BY <1>1, <1>2

\* What is left of a queue of messages after its head is read.
LEMMA MsgTail ==
  ASSUME NEW q \in Seq(Msg), q # <<>>
  PROVE  /\ Tail(q) \in Seq(Msg) /\ Head(q) = q[1] /\ 1 \in DOMAIN q /\ Head(q) \in Msg
         /\ \A i \in DOMAIN Tail(q) :
              i + 1 \in DOMAIN q /\ Tail(q)[i] = q[i + 1] /\ i \in Nat /\ i + 1 > 1
<1>1. /\ Head(q) \in Msg /\ Tail(q) \in Seq(Msg) /\ Len(Tail(q)) = Len(q) - 1
      /\ \A i \in 1 .. Len(Tail(q)) : Tail(q)[i] = q[i + 1]
      /\ Head(q) = q[1]
  BY HeadTailProperties
<1>2. /\ DOMAIN q = 1 .. Len(q) /\ DOMAIN Tail(q) = 1 .. Len(Tail(q)) /\ Len(q) \in Nat
      /\ Len(q) # 0
  BY <1>1, LenProperties, EmptySeq
<1> QED
  BY <1>1, <1>2

-----------------------------------------------------------------------------
(* What keeps a client's belief fitting.                                   *)

\* Nothing is told, and what the client owns it keeps.
LEMMA FitsKept ==
  ASSUME NEW c, NEW own, NEW own2, NEW h \in SUBSET Requested, NEW q \in Seq(Msg),
         NEW req \in Req, NEW aw \in Req, Fits(c, own, h, q, req, aw),
         \A n \in Requested : own[n] = c => own2[n] = c
  PROVE  Fits(c, own2, h, q, req, aw)
<1>1. \A i \in DOMAIN q : q[i] \in Msg /\ (IsGrant(q[i]) => q[i].path \in Requested)
  <2>1. \A i \in DOMAIN q : q[i] \in Msg
    BY LenProperties
  <2> QED
    BY <2>1 DEF Msg, IsGrant, Replies
<1>2. /\ aw # NoRequest => aw.path \in Requested
      /\ req # NoRequest => req.path \in Requested
      /\ NoRequest.op = "none"
  BY DEF Req, NoRequest
<1>3. \A i \in DOMAIN q : q[i].status = "ok" => ~IsGrant(q[i])
  BY DEF IsGrant
<1> QED
  BY <1>1, <1>2, <1>3 DEF Fits

\* A node is handed to the client, and it is told which.
LEMMA FitsGranted ==
  ASSUME NEW c, NEW own, NEW own2, NEW h \in SUBSET Requested, NEW q \in Seq(Msg),
         NEW req \in Req, NEW aw \in Req,
         Fits(c, own, h, q, req, aw), \A n \in Requested : own[n] = c => own2[n] = c,
         NEW p \in Requested, own[p] # c, own2[p] = c
  PROVE  Fits(c, own2, h, Append(q, Granted(p)), req, aw)
<1> DEFINE m == Granted(p)
           q2 == Append(q, m)
<1>0. Fits(c, own2, h, q, req, aw)
  BY FitsKept
<1>1. m \in Msg /\ IsGrant(m) /\ m.path = p
  BY DEF Granted, Msg, IsGrant
<1>2. /\ q2 \in Seq(Msg) /\ DOMAIN q2 = DOMAIN q \cup {Len(q) + 1}
      /\ \A i \in DOMAIN q : q2[i] = q[i]
      /\ q2[Len(q) + 1] = m
  BY <1>1, MsgAppend
<1>3. \A i \in DOMAIN q : IsGrant(q[i]) => q[i].path # p
  BY DEF Fits
<1>4. p \notin h /\ (req.op = "release" => req.path # p)
  BY DEF Fits
<1>5. \A i \in DOMAIN q : q[i].status = "ok" /\ aw.op # "release" => aw.path # p
  BY DEF Fits
<1>6. m.status = "granted"
  BY DEF Granted
<1> HIDE DEF m, q2
<1>7. \A n \in h : own2[n] = c
  BY <1>0 DEF Fits
<1>8. \A i \in DOMAIN q2 : IsGrant(q2[i]) =>
        own2[q2[i].path] = c /\ q2[i].path \notin h /\ (req.op = "release" => q2[i].path # req.path)
  BY <1>0, <1>1, <1>2, <1>4 DEF Fits
<1>9. \A i, j \in DOMAIN q2 : IsGrant(q2[i]) /\ IsGrant(q2[j]) /\ i # j => q2[i].path # q2[j].path
  BY <1>1, <1>2, <1>3 DEF Fits
<1>10. /\ \A i, j \in DOMAIN q2 : ~IsGrant(q2[i]) /\ ~IsGrant(q2[j]) => i = j
       /\ \A i \in DOMAIN q2 : ~IsGrant(q2[i]) => req = NoRequest /\ aw # NoRequest
  BY <1>1, <1>2 DEF Fits
<1>11. \A i \in DOMAIN q2 : q2[i].status = "ok" /\ aw.op # "release" =>
         /\ own2[aw.path] = c
         /\ \A j \in DOMAIN q2 : IsGrant(q2[j]) /\ j > i => q2[j].path # aw.path
  <2> SUFFICES ASSUME NEW i \in DOMAIN q2, q2[i].status = "ok", aw.op # "release"
               PROVE  /\ own2[aw.path] = c
                      /\ \A j \in DOMAIN q2 : IsGrant(q2[j]) /\ j > i => q2[j].path # aw.path
    OBVIOUS
  <2>1. i \in DOMAIN q /\ q[i].status = "ok"
    BY <1>2, <1>6
  <2>2. own2[aw.path] = c /\ \A j \in DOMAIN q : IsGrant(q[j]) /\ j > i => q[j].path # aw.path
    BY <1>0, <2>1 DEF Fits
  <2> QED
    BY <1>1, <1>2, <1>5, <2>1, <2>2
<1>12. /\ req # NoRequest => req = aw
       /\ req.op = "release" => own2[req.path] = c /\ req.path \notin h
  BY <1>0 DEF Fits
<1> QED
  BY <1>7, <1>8, <1>9, <1>10, <1>11, <1>12 DEF Fits, q2, m

\* Its request is answered: a release may end what it owns, nothing else does.
LEMMA FitsAnswered ==
  ASSUME NEW c, NEW own, NEW own2, NEW h \in SUBSET Requested, NEW q \in Seq(Msg),
         NEW req \in Req, NEW aw \in Req,
         Fits(c, own, h, q, req, aw), req # NoRequest,
         \A n \in Requested : own[n] = c /\ ~(req.op = "release" /\ n = req.path) => own2[n] = c,
         NEW status \in Replies,
         status = "ok" /\ req.op # "release" => own2[req.path] = c
  PROVE  Fits(c, own2, h, Append(q, AnswerOf(status)), NoRequest, aw)
<1> DEFINE m == AnswerOf(status)
           q2 == Append(q, m)
<1>1. m \in Msg /\ ~IsGrant(m) /\ m.status = status
  BY DEF AnswerOf, Msg, IsGrant, Replies
<1>2. /\ q2 \in Seq(Msg) /\ DOMAIN q2 = DOMAIN q \cup {Len(q) + 1}
      /\ \A i \in DOMAIN q : q2[i] = q[i] /\ i \in Nat /\ i < Len(q) + 1
      /\ q2[Len(q) + 1] = m /\ Len(q) + 1 \in Nat
  BY <1>1, MsgAppend
<1>3. req = aw /\ \A i \in DOMAIN q : IsGrant(q[i])
  BY DEF Fits
<1>4. NoRequest.op # "release"
  BY DEF NoRequest
<1>20. \A i \in DOMAIN q : q[i].path \in Requested
  <2>1. \A i \in DOMAIN q : q[i] \in Msg
    BY LenProperties
  <2> QED
    BY <1>3, <2>1 DEF Msg, IsGrant, Replies
<1> HIDE DEF m, q2
<1>5. \A n \in h : own2[n] = c
  BY DEF Fits
<1>6. \A i \in DOMAIN q2 : IsGrant(q2[i]) => own2[q2[i].path] = c /\ q2[i].path \notin h
  BY <1>1, <1>2, <1>20 DEF Fits
<1>7. \A i, j \in DOMAIN q2 : IsGrant(q2[i]) /\ IsGrant(q2[j]) /\ i # j => q2[i].path # q2[j].path
  BY <1>1, <1>2 DEF Fits
<1>8. \A i, j \in DOMAIN q2 : ~IsGrant(q2[i]) /\ ~IsGrant(q2[j]) => i = j
  BY <1>2, <1>3
<1>9. \A i \in DOMAIN q2 : q2[i].status = "ok" /\ aw.op # "release" =>
         /\ own2[aw.path] = c
         /\ \A j \in DOMAIN q2 : IsGrant(q2[j]) /\ j > i => q2[j].path # aw.path
  <2> SUFFICES ASSUME NEW i \in DOMAIN q2, q2[i].status = "ok", aw.op # "release"
               PROVE  /\ own2[aw.path] = c
                      /\ \A j \in DOMAIN q2 : ~ (j > i)
    OBVIOUS
  <2>1. i = Len(q) + 1
    BY <1>2, <1>3 DEF IsGrant
  <2>2. status = "ok"
    BY <1>1, <1>2, <2>1
  <2>3. own2[aw.path] = c
    BY <1>3, <2>2
  <2> QED
    BY <1>2, <2>1, <2>3
<1> QED
  BY <1>3, <1>4, <1>5, <1>6, <1>7, <1>8, <1>9 DEF Fits, q2, m

\* It reads that it was granted a path.
LEMMA FitsReadsGrant ==
  ASSUME NEW c, NEW own, NEW h, NEW q \in Seq(Msg), NEW req \in Req, NEW aw \in Req,
         Fits(c, own, h, q, req, aw), q # <<>>, IsGrant(Head(q))
  PROVE  Fits(c, own, h \cup {Head(q).path}, Tail(q), req, aw)
<1> DEFINE p == Head(q).path
           t == Tail(q)
<1>1. /\ Head(q) = q[1] /\ 1 \in DOMAIN q
      /\ \A i \in DOMAIN t : i + 1 \in DOMAIN q /\ t[i] = q[i + 1] /\ i \in Nat /\ i + 1 > 1
  BY MsgTail
<1>2. own[p] = c /\ (req.op = "release" => p # req.path)
  BY <1>1 DEF Fits
<1>3. \A i \in DOMAIN t : IsGrant(t[i]) => t[i].path # p
  <2> SUFFICES ASSUME NEW i \in DOMAIN t, IsGrant(t[i])
               PROVE  t[i].path # p
    OBVIOUS
  <2>1. i + 1 # 1 /\ i + 1 \in DOMAIN q /\ IsGrant(q[i + 1]) /\ IsGrant(q[1])
    BY <1>1
  <2> QED
    BY <1>1, <2>1 DEF Fits
<1> HIDE DEF p, t
<1>4. \A n \in h \cup {p} : own[n] = c
  BY <1>2 DEF Fits
<1>5. \A i \in DOMAIN t : IsGrant(t[i]) =>
        own[t[i].path] = c /\ t[i].path \notin h \cup {p} /\ (req.op = "release" => t[i].path # req.path)
  BY <1>1, <1>3 DEF Fits
<1>6. \A i, j \in DOMAIN t : i # j => i + 1 # j + 1
  BY <1>1
<1>7. /\ \A i, j \in DOMAIN t : IsGrant(t[i]) /\ IsGrant(t[j]) /\ i # j => t[i].path # t[j].path
      /\ \A i, j \in DOMAIN t : ~IsGrant(t[i]) /\ ~IsGrant(t[j]) => i = j
      /\ \A i \in DOMAIN t : ~IsGrant(t[i]) => req = NoRequest /\ aw # NoRequest
  BY <1>1, <1>6 DEF Fits
<1>8. \A i \in DOMAIN t : t[i].status = "ok" /\ aw.op # "release" =>
        /\ own[aw.path] = c
        /\ \A j \in DOMAIN t : IsGrant(t[j]) /\ j > i => t[j].path # aw.path
  <2>1. \A i, j \in DOMAIN t : j > i => j + 1 > i + 1
    BY <1>1
  <2> QED
    BY <1>1, <2>1 DEF Fits
<1>9. /\ req # NoRequest => req = aw
      /\ req.op = "release" => own[req.path] = c /\ req.path \notin h \cup {p}
  BY <1>2 DEF Fits
<1> QED
  BY <1>4, <1>5, <1>7, <1>8, <1>9 DEF Fits, t, p

\* What it holds once it has read an answer to aw.
Added(h, m, aw) == IF m.status = "ok" /\ aw.op # "release" THEN h \cup {aw.path} ELSE h

\* It reads the answer to its request.
LEMMA FitsReadsAnswer ==
  ASSUME NEW c, NEW own, NEW h, NEW q \in Seq(Msg), NEW req \in Req, NEW aw \in Req,
         Fits(c, own, h, q, req, aw), q # <<>>, ~IsGrant(Head(q))
  PROVE  /\ Fits(c, own, Added(h, Head(q), aw), Tail(q), req, NoRequest)
         /\ aw # NoRequest
<1> DEFINE t == Tail(q)
           h2 == Added(h, Head(q), aw)
<1>1. /\ Head(q) = q[1] /\ 1 \in DOMAIN q
      /\ \A i \in DOMAIN t : i + 1 \in DOMAIN q /\ t[i] = q[i + 1] /\ i \in Nat /\ i + 1 > 1
  BY MsgTail
<1>2. req = NoRequest /\ aw # NoRequest
  BY <1>1 DEF Fits
<1>3. \A i \in DOMAIN t : IsGrant(t[i])
  <2> SUFFICES ASSUME NEW i \in DOMAIN t, ~IsGrant(t[i])
               PROVE  FALSE
    OBVIOUS
  <2>1. i + 1 # 1 /\ i + 1 \in DOMAIN q /\ ~IsGrant(q[i + 1]) /\ ~IsGrant(q[1])
    BY <1>1
  <2> QED
    BY <1>1, <2>1 DEF Fits
<1>4. Head(q).status = "ok" /\ aw.op # "release" =>
        own[aw.path] = c /\ \A i \in DOMAIN t : t[i].path # aw.path
  BY <1>1, <1>3 DEF Fits
<1>5. NoRequest.op # "release"
  BY DEF NoRequest
<1> HIDE DEF t
<1>6. \A n \in h2 : own[n] = c
  BY <1>4 DEF Fits, Added
<1>7. \A i \in DOMAIN t : own[t[i].path] = c /\ t[i].path \notin h2
  BY <1>1, <1>3, <1>4 DEF Fits, Added
<1>8. \A i, j \in DOMAIN t : i # j => i + 1 # j + 1
  BY <1>1
<1>9. \A i, j \in DOMAIN t : i # j => t[i].path # t[j].path
  BY <1>1, <1>3, <1>8 DEF Fits
<1>10. \A i \in DOMAIN t : t[i].status # "ok"
  BY <1>3 DEF IsGrant
<1> QED
  BY <1>2, <1>3, <1>5, <1>6, <1>7, <1>9, <1>10 DEF Fits, t, h2

\* It asks for something, or gives up what it holds.
LEMMA FitsSent ==
  ASSUME NEW c, NEW own, NEW h, NEW q \in Seq(Msg), NEW req \in Req,
         Fits(c, own, h, q, req, NoRequest), NEW r \in Req, r # NoRequest,
         r.op = "release" => r.path \in h,
         NEW h2, h2 = IF r.op = "release" THEN h \ {r.path} ELSE h
  PROVE  Fits(c, own, h2, q, r, r)
<1>1. \A i \in DOMAIN q : IsGrant(q[i])
  BY DEF Fits
<1>2. \A i \in DOMAIN q : q[i].status # "ok"
  BY <1>1 DEF IsGrant
<1> QED
  BY <1>1, <1>2 DEF Fits

-----------------------------------------------------------------------------
(* What the trie does under it.                                            *)

\* The paths are in the trie, nobody waits above a path that is asked for, and no two
\* connections share a slot.
BrokerAssumes == Requested \subseteq Node /\ Unnested /\ ~SharesSlots

\* A release hands over the released node or none.
LEMMA ReleaseHandsOver ==
  ASSUME BrokerAssumes, Facts, OnRequest, NEW fd \in Fd, NEW n \in Requested, Release(fd, n)
  PROVE  /\ owner_fd[n] = fd /\ OnRequest'
         /\ \A m \in Node : m # n => owner_fd'[m] = owner_fd[m]
         /\ owner_fd' \in [Node -> Fd \cup {NoFd}]
<1>0. owner_fd \in [Node -> Fd \cup {NoFd}] /\ waiters \in [Node -> Seq(Fd)]
  BY FactsIndInv DEF IndInv, TypeOK
<1>1. n \in Node /\ owner_fd[n] = fd
  BY DEF BrokerAssumes, Release
<1>2. \A m \in Above[n] : waiters[m] = <<>>
  <2>1. Above[n] \subseteq Node
    BY <1>1
  <2> QED
    BY <2>1 DEF BrokerAssumes, Unnested, OnRequest
<1>3. ReleaseCandidates(n) \subseteq {n}
  BY <1>2 DEF ReleaseCandidates, CanGrant
<1>4. CASE GrantNobody([owner_fd EXCEPT ![n] = NoFd], Lowered(intent_count, n),
                       Unregistered(fd_registry, fd, n), total_locks - 1)
  <2>1. owner_fd' = [owner_fd EXCEPT ![n] = NoFd] /\ waiters' = waiters
    BY <1>4 DEF GrantNobody
  <2> QED
    BY <1>0, <1>1, <2>1 DEF OnRequest
<1>5. CASE /\ n \in ReleaseCandidates(n)
           /\ GrantToNextWaiter(n, [owner_fd EXCEPT ![n] = NoFd], Lowered(intent_count, n),
                                Unregistered(fd_registry, fd, n), total_locks - 1)
  <2>1. waiters[n] # <<>> /\ Head(waiters[n]) \in Fd
    BY <1>0, <1>1, <1>5, HeadTailProperties DEF ReleaseCandidates, CanGrant
  <2>2. /\ owner_fd' = [[owner_fd EXCEPT ![n] = NoFd] EXCEPT ![n] = Head(waiters[n])]
        /\ waiters' = [waiters EXCEPT ![n] = Tail(@)]
    BY <1>5 DEF GrantToNextWaiter
  <2> QED
    BY <1>0, <1>1, <2>1, <2>2 DEF OnRequest
<1> QED
  BY <1>3, <1>4, <1>5 DEF Release

\* A step of cleanup takes nodes from the client that is gone only, and gives them to
\* clients that queue.
LEMMA CleanupHandsOver ==
  ASSUME Facts, OnRequest, CleanupStep
  PROVE  /\ OnRequest' /\ owner_fd' \in [Node -> Fd \cup {NoFd}] /\ cleanup.fd # NoFd
         /\ cleanup' = NotCleaning \/ cleanup'.fd = cleanup.fd
         /\ \A m \in Node : owner_fd'[m] # owner_fd[m] =>
              owner_fd[m] \in {NoFd, cleanup.fd} /\ owner_fd'[m] # cleanup.fd
<1>1. TypeOK /\ CleanupPosition /\ RegistriesExact /\ OnlyLiveClients
  BY FactsIndInv DEF IndInv
<1>2. owner_fd \in [Node -> Fd \cup {NoFd}] /\ waiters \in [Node -> Seq(Fd)]
  BY <1>1 DEF TypeOK
<1>3. ASSUME NEW p \in Node, NEW intent, CanGrant(owner_fd, intent, p), cleanup.fd # NoFd,
             owner_fd' = [owner_fd EXCEPT ![p] = Head(waiters[p])],
             waiters' = [waiters EXCEPT ![p] = Tail(@)]
      PROVE  /\ OnRequest' /\ owner_fd' \in [Node -> Fd \cup {NoFd}]
             /\ \A m \in Node : owner_fd'[m] # owner_fd[m] =>
                  owner_fd[m] \in {NoFd, cleanup.fd} /\ owner_fd'[m] # cleanup.fd
  <2>1. waiters[p] # <<>> /\ owner_fd[p] = NoFd
    BY <1>3 DEF CanGrant
  <2>2. Head(waiters[p]) \in Fd /\ Head(waiters[p]) = waiters[p][1] /\ 1 \in DOMAIN waiters[p]
    BY <1>2, <2>1, HeadTailProperties, LenProperties, EmptySeq
  <2>3. Head(waiters[p]) # cleanup.fd
    BY <1>1, <2>2 DEF OnlyLiveClients, Range
  <2>4. p \in Requested /\ p \in Waited
    BY <2>1, BrokerAssumption DEF OnRequest
  <2> QED
    BY <1>2, <1>3, <2>1, <2>2, <2>3, <2>4 DEF OnRequest
<1>4. ASSUME NEW n \in Node, CleanupRelease(n)
      PROVE  /\ OnRequest' /\ owner_fd' \in [Node -> Fd \cup {NoFd}]
             /\ cleanup.fd # NoFd /\ cleanup'.fd = cleanup.fd
             /\ \A m \in Node : owner_fd'[m] # owner_fd[m] =>
                  owner_fd[m] \in {NoFd, cleanup.fd} /\ owner_fd'[m] # cleanup.fd
  <2>1. /\ cleanup.fd # NoFd /\ n \in fd_registry[cleanup.fd]
        /\ owner_fd' = [owner_fd EXCEPT ![n] = NoFd] /\ waiters' = waiters
        /\ cleanup' = [cleanup EXCEPT !.node = n, !.up = Above[n]]
    BY <1>4 DEF CleanupRelease
  <2>2. cleanup.fd \in Fd /\ cleanup'.fd = cleanup.fd
    BY <1>1, <2>1 DEF TypeOK
  <2>3. owner_fd[n] = cleanup.fd
    BY <1>1, <2>1, <2>2 DEF RegistriesExact
  <2> QED
    BY <1>2, <2>1, <2>2, <2>3 DEF OnRequest
<1>5. ASSUME NEW p \in Node, CleanupClimb(p)
      PROVE  /\ OnRequest' /\ owner_fd' \in [Node -> Fd \cup {NoFd}]
             /\ cleanup.fd # NoFd /\ cleanup'.fd = cleanup.fd
             /\ \A m \in Node : owner_fd'[m] # owner_fd[m] =>
                  owner_fd[m] \in {NoFd, cleanup.fd} /\ owner_fd'[m] # cleanup.fd
  <2>1. cleanup' = [cleanup EXCEPT !.up = @ \ {p}] /\ p \in cleanup.up
    BY <1>5 DEF CleanupClimb
  <2>2. cleanup.fd # NoFd /\ cleanup'.fd = cleanup.fd
    BY <1>1, <2>1 DEF TypeOK, CleanupPosition, NotCleaning
  <2> DEFINE intent == [intent_count EXCEPT ![p] = @ - 1]
  <2>3. CASE CanGrant(owner_fd, intent, p) /\ GrantToNextWaiter(p, owner_fd, intent, fd_registry, total_locks)
    BY <1>3, <2>2, <2>3 DEF GrantToNextWaiter
  <2>4. CASE GrantNobody(owner_fd, intent, fd_registry, total_locks)
    BY <1>2, <2>2, <2>4 DEF GrantNobody, OnRequest
  <2> QED
    BY <1>5, <2>3, <2>4 DEF CleanupClimb
<1>6. ASSUME NEW n \in Node, CleanupGrant(n)
      PROVE  /\ OnRequest' /\ owner_fd' \in [Node -> Fd \cup {NoFd}]
             /\ cleanup.fd # NoFd /\ cleanup'.fd = cleanup.fd
             /\ \A m \in Node : owner_fd'[m] # owner_fd[m] =>
                  owner_fd[m] \in {NoFd, cleanup.fd} /\ owner_fd'[m] # cleanup.fd
  <2>1. cleanup' = [cleanup EXCEPT !.node = NoNode] /\ cleanup.node = n /\ n # NoNode
    BY <1>6 DEF CleanupGrant
  <2>2. cleanup.fd # NoFd /\ cleanup'.fd = cleanup.fd
    BY <1>1, <2>1 DEF TypeOK, CleanupPosition, NotCleaning
  <2>3. CASE CanGrant(owner_fd, intent_count, n) /\ GrantToNextWaiter(n, owner_fd, intent_count, fd_registry, total_locks)
    BY <1>3, <2>2, <2>3 DEF GrantToNextWaiter
  <2>4. CASE UNCHANGED lockVars
    BY <1>2, <2>2, <2>4 DEF lockVars, OnRequest
  <2> QED
    BY <1>6, <2>3, <2>4 DEF CleanupGrant
<1>7. CASE CleanupDone
  <2>1. cleanup.fd # NoFd /\ cleanup' = NotCleaning /\ UNCHANGED <<owner_fd, waiters>>
    BY <1>7 DEF CleanupDone, lockVars
  <2> QED
    BY <1>2, <2>1 DEF OnRequest
<1> QED
  BY <1>4, <1>5, <1>6, <1>7 DEF CleanupStep

-----------------------------------------------------------------------------
(* The steps of the protocol.                                              *)

\* Every step of the protocol is one of the trie, or leaves it alone.
LEMMA BrokerStepsTrie ==
  ASSUME BrokerAssumes, BrokerTypes, [BrokerNext]_brokerVars
  PROVE  [Next]_vars
<1>1. ASSUME NEW fd \in Fd, request[fd].op \in Op
      PROVE  request[fd].path \in Node
  BY <1>1, SMTT(40) DEF BrokerAssumes, BrokerTypes, Req, NoRequest, Op
<1>2. ASSUME NEW fd \in Fd, HandleAcquire(fd) PROVE [Next]_vars
  <2>1. request[fd].path \in Node
    BY <1>1, <1>2 DEF HandleAcquire, Op
  <2>2. \/ AcquireFree(fd, request[fd].path) \/ AcquireQueue(fd, request[fd].path)
        \/ UNCHANGED vars
    BY <1>2 DEF HandleAcquire
  <2> QED
    BY <2>1, <2>2 DEF Next, LockRequest
<1>3. ASSUME NEW fd \in Fd, HandleRelease(fd) PROVE [Next]_vars
  BY <1>1, <1>3 DEF HandleRelease, Op, Next, LockRequest
<1>4. ASSUME NEW fd \in Fd, Receive(fd) \/ \E op \in Op, n \in Requested : Send(fd, op, n)
      PROVE  UNCHANGED vars
  BY <1>4 DEF Receive, Send
<1>5. ASSUME NEW fd \in Fd, Come(fd) PROVE [Next]_vars
  BY <1>5 DEF Come, Next
<1> QED
  BY <1>2, <1>3, <1>4, <1>5 DEF BrokerNext, BrokerCleanup, Next, brokerVars

\* Nothing told, nothing believed.
LEMMA FitsNothing == ASSUME NEW c, NEW own PROVE Fits(c, own, {}, <<>>, NoRequest, NoRequest)
BY DEF Fits, NoRequest

\* Everything starts fitting.
LEMMA BrokerInitInv == BrokerInit => BrokerInv
<1> SUFFICES ASSUME BrokerInit PROVE BrokerInv
  OBVIOUS
<1>1. <<>> \in Seq(Msg) /\ NoRequest \in Req
  BY DEF Req
<1>2. BrokerTypes
  BY <1>1 DEF BrokerInit, BrokerTypes
<1>3. OnRequest /\ GoneSilent
  BY DEF BrokerInit, Init, OnRequest, GoneSilent, NotCleaning
<1>4. AllFit
  BY FitsNothing DEF BrokerInit, AllFit
<1> QED
  BY <1>2, <1>3, <1>4 DEF BrokerInv

\* A client that connects has been told nothing.
LEMMA BrokerConnectInv ==
  ASSUME BrokerInv, NEW fd \in Fd, Come(fd)
  PROVE  BrokerInv'
<1>1. UNCHANGED <<owner_fd, waiters, cleanup, request, awaiting, inbox, held>>
  BY DEF Come, Connect, vars, lockVars, lockClientVars
<1> QED
  BY <1>1 DEF BrokerInv, BrokerTypes, OnRequest, GoneSilent, AllFit, Fits

\* A client that is lost is told nothing more.
LEMMA BrokerDisconnectInv ==
  ASSUME BrokerInv, Facts, NEW fd \in Fd, Disconnect(fd), Lost(fd)
  PROVE  BrokerInv'
<1>1. owner_fd' = owner_fd /\ cleanup'.fd = fd
  BY DEF Disconnect, NotCleaning
<1>2. BrokerTypes'
  <2>1. <<>> \in Seq(Msg) /\ NoRequest \in Req
    BY DEF Req
  <2> QED
    BY <2>1 DEF BrokerInv, BrokerTypes, Lost
<1>3. OnRequest'
  <2>1. \A n \in Node : waiters'[n] # <<>> => waiters[n] # <<>>
    <3>1. \A n \in QueuesOf(fd) : waiters[n] # <<>>
      BY DEF QueuesOf, AlreadyWaiting, Range
    <3> QED
      BY <3>1 DEF Disconnect
  <2> QED
    BY <1>1, <2>1 DEF BrokerInv, OnRequest
<1>4. /\ request'[fd] = NoRequest /\ awaiting'[fd] = NoRequest
      /\ inbox'[fd] = <<>> /\ held'[fd] = {}
      /\ \A c \in Fd : c # fd => /\ request'[c] = request[c] /\ awaiting'[c] = awaiting[c]
                                 /\ inbox'[c] = inbox[c] /\ held'[c] = held[c]
  BY DEF BrokerInv, BrokerTypes, Lost
<1>5. GoneSilent'
  BY <1>1, <1>4 DEF GoneSilent
<1>6. AllFit'
  <2>1. ASSUME NEW c \in Fd
        PROVE  Fits(c, owner_fd', held'[c], inbox'[c], request'[c], awaiting'[c])
    <3>1. CASE c = fd
      <4>1. Fits(c, owner_fd', {}, <<>>, NoRequest, NoRequest)
        BY FitsNothing
      <4> QED
        BY <1>4, <3>1, <4>1
    <3>2. CASE c # fd
      BY <1>1, <1>4, <3>2 DEF BrokerInv, AllFit
    <3> QED
      BY <3>1, <3>2
  <2> QED
    BY <2>1 DEF AllFit
<1> QED
  BY <1>2, <1>3, <1>5, <1>6 DEF BrokerInv

\* A client releases only what it was told it holds, and asks one thing at a time.
LEMMA SendInv ==
  ASSUME BrokerInv, BrokerAssumes, NEW fd \in Fd, NEW op \in Op, NEW n \in Requested, Send(fd, op, n)
  PROVE  BrokerInv'
<1> DEFINE r == [op |-> op, path |-> n]
           h2 == IF r.op = "release" THEN held[fd] \ {r.path} ELSE held[fd]
<1>1. r \in Req /\ r # NoRequest
  BY DEF Req, NoRequest, Op, Send
<1>2. /\ UNCHANGED <<owner_fd, waiters, cleanup, inbox>> /\ cleanup.fd # fd
      /\ request' = [request EXCEPT ![fd] = r] /\ awaiting' = [awaiting EXCEPT ![fd] = r]
      /\ awaiting[fd] = NoRequest /\ (r.op = "release" => r.path \in held[fd])
  BY DEF Send, vars, lockVars
<1>3. held' = [held EXCEPT ![fd] = h2]
  BY DEF Send, BrokerInv, BrokerTypes
<1>4. h2 \in SUBSET Requested
  BY DEF BrokerInv, BrokerTypes
<1> HIDE DEF r
<1>5. Fits(fd, owner_fd, h2, inbox[fd], r, r)
  <2>1. Fits(fd, owner_fd, held[fd], inbox[fd], request[fd], NoRequest)
    BY <1>2 DEF BrokerInv, AllFit
  <2>2. inbox[fd] \in Seq(Msg) /\ request[fd] \in Req
    BY DEF BrokerInv, BrokerTypes
  <2> QED
    BY <1>1, <1>2, <2>1, <2>2, FitsSent
<1> HIDE DEF h2
<1>6. BrokerTypes'
  BY <1>1, <1>2, <1>3, <1>4 DEF BrokerInv, BrokerTypes
<1>7. /\ request'[fd] = r /\ awaiting'[fd] = r /\ held'[fd] = h2 /\ inbox' = inbox
      /\ \A c \in Fd : c # fd => request'[c] = request[c] /\ awaiting'[c] = awaiting[c] /\ held'[c] = held[c]
  BY <1>2, <1>3 DEF BrokerInv, BrokerTypes
<1>8. AllFit'
  BY <1>2, <1>5, <1>7 DEF BrokerInv, AllFit
<1>9. OnRequest'
  BY <1>2 DEF BrokerInv, OnRequest
<1>10. GoneSilent'
  <2>1. cleanup' = cleanup /\ cleanup.fd # fd /\ inbox' = inbox
    BY <1>2
  <2>2. cleanup.fd # NoFd => cleanup.fd \in Fd \/ ~(cleanup.fd \in Fd)
    OBVIOUS
  <2>3. cleanup.fd # fd => /\ request'[cleanup.fd] = request[cleanup.fd]
                           /\ awaiting'[cleanup.fd] = awaiting[cleanup.fd]
                           /\ held'[cleanup.fd] = held[cleanup.fd]
    BY <1>2, <1>3
  <2> QED
    BY <2>1, <2>3 DEF BrokerInv, GoneSilent
<1> QED
  BY <1>6, <1>8, <1>9, <1>10 DEF BrokerInv

\* What a client reads adds to what it holds, and nothing else.
LEMMA ReceiveInv ==
  ASSUME BrokerInv, NEW fd \in Fd, Receive(fd)
  PROVE  BrokerInv'
<1> DEFINE m == Head(inbox[fd])
           q2 == Tail(inbox[fd])
<1>1. /\ inbox[fd] \in Seq(Msg) /\ inbox[fd] # <<>> /\ request[fd] \in Req /\ awaiting[fd] \in Req
      /\ held[fd] \in SUBSET Requested
      /\ Fits(fd, owner_fd, held[fd], inbox[fd], request[fd], awaiting[fd])
  BY DEF Receive, BrokerInv, BrokerTypes, AllFit
<1>2. q2 \in Seq(Msg) /\ m \in Msg
  BY <1>1, MsgTail
<1>3. /\ UNCHANGED <<owner_fd, waiters, cleanup, request>> /\ cleanup.fd # fd
      /\ inbox' = [inbox EXCEPT ![fd] = q2]
  BY DEF Receive, vars, lockVars, BrokerInv, BrokerTypes
<1>4. \E h2 \in SUBSET Requested, aw2 \in Req :
        /\ held' = [held EXCEPT ![fd] = h2] /\ awaiting' = [awaiting EXCEPT ![fd] = aw2]
        /\ Fits(fd, owner_fd, h2, q2, request[fd], aw2)
  <2>1. CASE IsGrant(m)
    <3>1. m.path \in Requested
      BY <1>2, <2>1 DEF Msg, IsGrant, Replies
    <3>2. Fits(fd, owner_fd, held[fd] \cup {m.path}, q2, request[fd], awaiting[fd])
      BY <1>1, <2>1, FitsReadsGrant
    <3>3. held' = [held EXCEPT ![fd] = held[fd] \cup {m.path}] /\ awaiting' = awaiting
      BY <2>1 DEF Receive, IsGrant, BrokerInv, BrokerTypes
    <3>4. awaiting' = [awaiting EXCEPT ![fd] = awaiting[fd]]
      BY <3>3 DEF BrokerInv, BrokerTypes
    <3> QED
      BY <1>1, <3>1, <3>2, <3>3, <3>4
  <2>2. CASE ~IsGrant(m)
    <3> DEFINE h2 == Added(held[fd], m, awaiting[fd])
    <3>1. Fits(fd, owner_fd, h2, q2, request[fd], NoRequest) /\ awaiting[fd] # NoRequest
      BY <1>1, <2>2, FitsReadsAnswer
    <3>2. h2 \in SUBSET Requested
      BY <1>1, <3>1 DEF Req, Added
    <3>3. held' = [held EXCEPT ![fd] = h2]
      BY <2>2 DEF Receive, IsGrant, BrokerInv, BrokerTypes, Added
    <3>4. awaiting' = [awaiting EXCEPT ![fd] = NoRequest] /\ NoRequest \in Req
      BY <2>2 DEF Receive, IsGrant, Req
    <3> QED
      BY <3>1, <3>2, <3>3, <3>4
  <2> QED
    BY <2>1, <2>2
<1>5. PICK h2 \in SUBSET Requested, aw2 \in Req :
        /\ held' = [held EXCEPT ![fd] = h2] /\ awaiting' = [awaiting EXCEPT ![fd] = aw2]
        /\ Fits(fd, owner_fd, h2, q2, request[fd], aw2)
  BY <1>4
<1> HIDE DEF q2, m
<1>6. BrokerTypes'
  BY <1>2, <1>3, <1>5 DEF BrokerInv, BrokerTypes
<1>7. /\ inbox'[fd] = q2 /\ awaiting'[fd] = aw2 /\ held'[fd] = h2 /\ request' = request
      /\ \A c \in Fd : c # fd => inbox'[c] = inbox[c] /\ awaiting'[c] = awaiting[c] /\ held'[c] = held[c]
  BY <1>3, <1>5 DEF BrokerInv, BrokerTypes
<1>8. AllFit'
  BY <1>3, <1>5, <1>7 DEF BrokerInv, AllFit
<1>9. OnRequest'
  BY <1>3 DEF BrokerInv, OnRequest
<1>10. GoneSilent'
  <2>1. cleanup' = cleanup /\ cleanup.fd # fd /\ request' = request
    BY <1>3
  <2>2. cleanup.fd # fd => /\ inbox'[cleanup.fd] = inbox[cleanup.fd]
                           /\ awaiting'[cleanup.fd] = awaiting[cleanup.fd]
                           /\ held'[cleanup.fd] = held[cleanup.fd]
    BY <1>3, <1>5
  <2> QED
    BY <2>1, <2>2 DEF BrokerInv, GoneSilent
<1> QED
  BY <1>6, <1>8, <1>9, <1>10 DEF BrokerInv

\* The daemon answers an acquire; only a free node changes hands, to the one that asks.
LEMMA HandleAcquireInv ==
  ASSUME BrokerInv, BrokerAssumes, Facts, NEW fd \in Fd, HandleAcquire(fd)
  PROVE  BrokerInv'
<1> DEFINE n == request[fd].path
<1>1. /\ request[fd] \in Req /\ awaiting[fd] \in Req /\ inbox[fd] \in Seq(Msg)
      /\ held[fd] \in SUBSET Requested
      /\ request[fd] # NoRequest /\ request[fd].op # "release"
  BY DEF HandleAcquire, NoRequest, BrokerInv, BrokerTypes
<1>2. n \in Requested /\ n \in Node
  BY <1>1, BrokerAssumption DEF Req, BrokerAssumes
<1>3. owner_fd \in [Node -> Fd \cup {NoFd}] /\ waiters \in [Node -> Seq(Fd)]
  BY FactsIndInv DEF IndInv, TypeOK
<1>4. cleanup = NotCleaning /\ cleanup' = cleanup /\ Handled(fd)
  BY DEF HandleAcquire, AcquireFree, AcquireQueue, vars
<1>5. \E status \in Replies :
        /\ inbox' = [inbox EXCEPT ![fd] = Append(@, AnswerOf(status))]
        /\ status = "ok" => owner_fd'[n] = fd
        /\ \A m \in Node : owner_fd[m] # NoFd => owner_fd'[m] = owner_fd[m]
        /\ OnRequest'
  <2>1. OnRequest
    BY DEF BrokerInv
  <2>2. CASE AcquireFree(fd, n) /\ inbox' = [inbox EXCEPT ![fd] = Append(@, AnswerOf(Status(0)))]
    <3>1. owner_fd' = [owner_fd EXCEPT ![n] = fd] /\ waiters' = waiters /\ owner_fd[n] = NoFd
      BY <2>2 DEF AcquireFree, Busy
    <3>2. Status(0) = "ok" /\ "ok" \in Replies
      BY DEF Status, Replies
    <3>3. OnRequest'
      BY <1>2, <1>3, <2>1, <3>1 DEF OnRequest
    <3> QED
      BY <1>2, <1>3, <2>2, <3>1, <3>2, <3>3
  <2>3. CASE /\ request[fd].op = "acquire" /\ AcquireQueue(fd, n)
             /\ inbox' = [inbox EXCEPT ![fd] = Append(@, AnswerOf(Status(1)))]
    <3>1. /\ owner_fd' = owner_fd /\ waiters' = [waiters EXCEPT ![n] = Append(@, fd)]
          /\ n \in Waited
      BY <1>1, <2>3 DEF AcquireQueue, Req
    <3>2. Status(1) = "waiting" /\ "waiting" \in Replies
      BY DEF Status, Replies
    <3>3. OnRequest'
      BY <1>2, <1>3, <2>1, <3>1 DEF OnRequest
    <3> QED
      BY <2>3, <3>1, <3>2, <3>3
  <2>4. CASE UNCHANGED vars /\ inbox' = [inbox EXCEPT ![fd] = Append(@, AnswerOf(Status(-1)))]
    <3>1. owner_fd' = owner_fd /\ waiters' = waiters
      BY <2>4 DEF vars, lockVars
    <3>2. Status(-1) = "denied" /\ "denied" \in Replies
      BY DEF Status, Replies
    <3> QED
      BY <2>1, <2>4, <3>1, <3>2 DEF OnRequest
  <2>5. CASE /\ UNCHANGED vars /\ owner_fd[n] = fd
             /\ inbox' = [inbox EXCEPT ![fd] = Append(@, AnswerOf(Status(0)))]
    <3>1. owner_fd' = owner_fd /\ waiters' = waiters
      BY <2>5 DEF vars, lockVars
    <3>2. Status(0) = "ok" /\ "ok" \in Replies
      BY DEF Status, Replies
    <3> QED
      BY <2>1, <2>5, <3>1, <3>2 DEF OnRequest
  <2>6. CASE UNCHANGED vars /\ inbox' = [inbox EXCEPT ![fd] = Append(@, AnswerOf(Status(1)))]
    <3>1. owner_fd' = owner_fd /\ waiters' = waiters
      BY <2>6 DEF vars, lockVars
    <3>2. Status(1) = "waiting" /\ "waiting" \in Replies
      BY DEF Status, Replies
    <3> QED
      BY <2>1, <2>6, <3>1, <3>2 DEF OnRequest
  <2> QED
    BY <2>2, <2>3, <2>4, <2>5, <2>6 DEF HandleAcquire
<1>6. PICK status \in Replies :
        /\ inbox' = [inbox EXCEPT ![fd] = Append(@, AnswerOf(status))]
        /\ status = "ok" => owner_fd'[n] = fd
        /\ \A m \in Node : owner_fd[m] # NoFd => owner_fd'[m] = owner_fd[m]
        /\ OnRequest'
  BY <1>5
<1>7. AnswerOf(status) \in Msg
  BY DEF AnswerOf, Msg, Replies
<1>8. NoRequest \in Req /\ Append(inbox[fd], AnswerOf(status)) \in Seq(Msg)
  BY <1>1, <1>7, MsgAppend DEF Req
<1>9. BrokerTypes'
  BY <1>4, <1>6, <1>8 DEF Handled, BrokerInv, BrokerTypes
<1>10. GoneSilent'
  BY <1>4 DEF GoneSilent, NotCleaning
<1>11. \A c \in Fd : \A m \in Requested : owner_fd[m] = c => owner_fd'[m] = c
  BY <1>6 DEF BrokerAssumes
<1>12. ASSUME NEW c \in Fd
       PROVE  Fits(c, owner_fd', held'[c], inbox'[c], request'[c], awaiting'[c])
  <2>1. /\ Fits(c, owner_fd, held[c], inbox[c], request[c], awaiting[c])
        /\ held[c] \in SUBSET Requested /\ inbox[c] \in Seq(Msg)
        /\ request[c] \in Req /\ awaiting[c] \in Req
    BY DEF BrokerInv, BrokerTypes, AllFit
  <2>2. held' = held /\ awaiting' = awaiting
    BY <1>4 DEF Handled
  <2>3. CASE c = fd
    <3>1. inbox'[c] = Append(inbox[c], AnswerOf(status)) /\ request'[c] = NoRequest
      BY <1>4, <1>6, <2>3 DEF Handled, BrokerInv, BrokerTypes
    <3>2. /\ request[c] # NoRequest /\ request[c].op # "release"
          /\ status = "ok" /\ request[c].op # "release" => owner_fd'[request[c].path] = c
          /\ \A m \in Requested :
               owner_fd[m] = c /\ ~(request[c].op = "release" /\ m = request[c].path) => owner_fd'[m] = c
      BY <1>1, <1>6, <1>11, <2>3
    <3>3. Fits(c, owner_fd', held[c], Append(inbox[c], AnswerOf(status)), NoRequest, awaiting[c])
      <4>1. status \in Replies
        BY <1>6
      <4>2. status = "ok" /\ request[c].op # "release" => owner_fd'[request[c].path] = c
        BY <3>2
      <4> QED
        BY <2>1, <3>2, <4>1, <4>2, FitsAnswered
    <3> QED
      BY <2>2, <3>1, <3>3
  <2>4. CASE c # fd
    <3>1. inbox'[c] = inbox[c] /\ request'[c] = request[c]
      BY <1>4, <1>6, <2>4 DEF Handled, BrokerInv, BrokerTypes
    <3> QED
      BY <1>11, <2>1, <2>2, <3>1, FitsKept
  <2> QED
    BY <2>3, <2>4
<1> QED
  BY <1>6, <1>9, <1>10, <1>12 DEF BrokerInv, AllFit

\* The connections' contexts are where they are recorded.
Seats == TableInv /\ OwnSlots /\ open = accepted

\* A node that a step hands over, by a handler that opens and closes nothing, goes to a
\* client whose context is found.
LEMMA FoundContext ==
  ASSUME Seats, Facts', open' = open, NEW m \in HandedOver
  PROVE  ContextOf(owner_fd'[m]) = owner_fd'[m]
<1>1. m \in Node /\ owner_fd'[m] # NoFd
  BY DEF HandedOver
<1>2. owner_fd'[m] \in accepted
  BY <1>1 DEF Facts, OwnersLive, Seats
<1>3. ASSUME NEW c \in accepted PROVE ContextOf(c) = c
  <2>1. fd_to_slot[c] >= 0 /\ all_clients[fd_to_slot[c]] = c
    BY DEF Seats, TableInv, OpenOnRecord, OwnSlots
  <2>2. fd_to_slot[c] \in Int
    BY SizeAssumption DEF Seats, TableInv, TableTypeOK, TableSlot
  <2> QED
    BY <2>1, <2>2 DEF ContextOf
<1> QED
  BY <1>2, <1>3

\* What a step tells a client: its answer if it asked, and the path it was handed, if any.
LEMMA ToldOne ==
  ASSUME \A m \in HandedOver : ContextOf(owner_fd'[m]) = owner_fd'[m],
         NEW fd, NEW answer, NEW pathOf, NEW c \in Fd
  PROVE  LET own == IF c = fd THEN Append(inbox[c], answer) ELSE inbox[c]
         IN \/ /\ ~\E m \in HandedOver : owner_fd'[m] = c
               /\ Told(fd, answer, pathOf)[c] = own
            \/ \E m \in HandedOver :
                 /\ owner_fd'[m] = c
                 /\ Told(fd, answer, pathOf)[c] = Append(own, Granted(pathOf[m]))
<1> DEFINE own == IF c = fd THEN Append(inbox[c], answer) ELSE inbox[c]
           mine == {m \in HandedOver : owner_fd'[m] = c}
           found == {m \in HandedOver : ContextOf(owner_fd'[m]) = c}
<1>0. mine = found
  OBVIOUS
<1>4. Told(fd, answer, pathOf)[c] =
        IF found = {} THEN own ELSE Append(own, Granted(pathOf[CHOOSE m \in found : TRUE]))
  BY DEF Told
<1>1. Told(fd, answer, pathOf)[c] =
        IF mine = {} THEN own ELSE Append(own, Granted(pathOf[CHOOSE m \in mine : TRUE]))
  BY <1>0, <1>4
<1>2. CASE mine = {}
  BY <1>1, <1>2
<1>3. CASE mine # {}
  <2>1. (CHOOSE m \in mine : TRUE) \in mine
    BY <1>3
  <2> QED
    BY <1>1, <1>3, <2>1
<1> QED
  BY <1>2, <1>3

\* A release is answered, and the client the path goes to is told that path.
LEMMA HandleReleaseInv ==
  ASSUME BrokerInv, BrokerAssumes, Facts, Facts', Seats, NEW fd \in Fd, HandleRelease(fd)
  PROVE  BrokerInv'
<1> DEFINE n == request[fd].path
           paths == [m \in Node |-> n]
<1>1. /\ request[fd] \in Req /\ awaiting[fd] \in Req /\ inbox[fd] \in Seq(Msg)
      /\ held[fd] \in SUBSET Requested
      /\ request[fd] # NoRequest /\ request[fd].op = "release"
  BY DEF HandleRelease, NoRequest, BrokerInv, BrokerTypes
<1>2. n \in Requested /\ n \in Node
  BY <1>1, BrokerAssumption DEF Req, BrokerAssumes
<1>3. owner_fd \in [Node -> Fd \cup {NoFd}] /\ owner_fd[n] = fd /\ OnRequest
  <2>1. owner_fd \in [Node -> Fd \cup {NoFd}]
    BY FactsIndInv DEF IndInv, TypeOK
  <2> QED
    BY <1>1, <2>1 DEF BrokerInv, AllFit, Fits
<1>4. /\ cleanup = NotCleaning /\ Handled(fd) /\ inbox' = Told(fd, AnswerOf("ok"), paths) /\ Release(fd, n)
  BY <1>3 DEF HandleRelease
<1>5. /\ OnRequest' /\ owner_fd' \in [Node -> Fd \cup {NoFd}]
      /\ \A m \in Node : m # n => owner_fd'[m] = owner_fd[m]
  BY <1>2, <1>3, <1>4, ReleaseHandsOver
<1>6. cleanup' = NotCleaning /\ open' = open
  BY <1>4 DEF Release
<1>12. \A m \in HandedOver : ContextOf(owner_fd'[m]) = owner_fd'[m]
  BY <1>6, FoundContext
<1>7. \A m \in HandedOver : m = n /\ owner_fd'[m] # fd /\ paths[m] = n
  BY <1>3, <1>5, <1>2 DEF HandedOver
<1> HIDE DEF paths
<1>8. /\ AnswerOf("ok") \in Msg /\ Granted(n) \in Msg /\ NoRequest \in Req
  BY <1>2 DEF AnswerOf, Granted, Msg, Req, Replies
<1>9. ASSUME NEW c \in Fd
      PROVE  /\ inbox'[c] \in Seq(Msg)
             /\ Fits(c, owner_fd', held'[c], inbox'[c], request'[c], awaiting'[c])
  <2>1. /\ Fits(c, owner_fd, held[c], inbox[c], request[c], awaiting[c])
        /\ held[c] \in SUBSET Requested /\ inbox[c] \in Seq(Msg)
        /\ request[c] \in Req /\ awaiting[c] \in Req
    BY DEF BrokerInv, BrokerTypes, AllFit
  <2>2. held' = held /\ awaiting' = awaiting
    BY <1>4 DEF Handled
  <2>3. CASE c = fd
    <3>1. inbox'[c] = Append(inbox[c], AnswerOf("ok"))
      <4>1. ~\E m \in HandedOver : owner_fd'[m] = c
        BY <1>7, <2>3
      <4>2. Told(fd, AnswerOf("ok"), paths)[c] =
              IF c = fd THEN Append(inbox[c], AnswerOf("ok")) ELSE inbox[c]
        BY <1>12, <4>1, ToldOne
      <4> QED
        BY <1>4, <2>3, <4>2
    <3>2. request'[c] = NoRequest
      BY <1>4, <2>3 DEF Handled, BrokerInv, BrokerTypes
    <3>3. /\ request[c] # NoRequest /\ request[c].op = "release"
          /\ \A m \in Requested :
               owner_fd[m] = c /\ ~(request[c].op = "release" /\ m = request[c].path) => owner_fd'[m] = c
          /\ "ok" \in Replies
      BY <1>1, <1>5, <2>3 DEF BrokerAssumes, Replies
    <3>4. Fits(c, owner_fd', held[c], Append(inbox[c], AnswerOf("ok")), NoRequest, awaiting[c])
      BY <2>1, <3>3, FitsAnswered
    <3> QED
      BY <1>8, <2>1, <2>2, <3>1, <3>2, <3>4, MsgAppend
  <2>4. CASE c # fd
    <3>1. request'[c] = request[c]
      BY <1>4, <2>4 DEF Handled, BrokerInv, BrokerTypes
    <3>2. \A m \in Requested : owner_fd[m] = c => owner_fd'[m] = c
      BY <1>3, <1>5, <2>4 DEF BrokerAssumes
    <3>3. CASE inbox'[c] = inbox[c]
      BY <2>1, <2>2, <3>1, <3>2, <3>3, FitsKept
    <3>4. CASE inbox'[c] = Append(inbox[c], Granted(n)) /\ owner_fd'[n] = c
      <4>1. owner_fd[n] # c
        BY <1>3, <2>4
      <4>2. Fits(c, owner_fd', held[c], Append(inbox[c], Granted(n)), request[c], awaiting[c])
        BY <1>2, <2>1, <3>2, <3>4, <4>1, FitsGranted
      <4> QED
        BY <1>8, <2>1, <2>2, <3>1, <3>4, <4>2, MsgAppend
    <3>5. \/ inbox'[c] = inbox[c]
          \/ inbox'[c] = Append(inbox[c], Granted(n)) /\ owner_fd'[n] = c
      BY <1>4, <1>7, <1>12, <2>4, ToldOne
    <3> QED
      BY <3>3, <3>4, <3>5
  <2> QED
    BY <2>3, <2>4
<1>10. BrokerTypes'
  <2>1. inbox' = [c \in Fd |-> inbox'[c]]
    BY <1>4 DEF Told
  <2>2. inbox' \in [Fd -> Seq(Msg)]
    BY <1>9, <2>1
  <2> QED
    BY <1>4, <1>8, <2>2 DEF Handled, BrokerInv, BrokerTypes
<1>11. GoneSilent'
  BY <1>6 DEF GoneSilent, NotCleaning
<1> QED
  BY <1>5, <1>9, <1>10, <1>11 DEF BrokerInv, AllFit

\* Cleanup tells every client it serves the path that client queued for.
LEMMA BrokerCleanupInv ==
  ASSUME BrokerInv, BrokerAssumes, Facts, Facts', Seats, BrokerCleanup
  PROVE  BrokerInv'
<1> DEFINE paths == [m \in Node |-> m]
<1>1. /\ OnRequest' /\ owner_fd' \in [Node -> Fd \cup {NoFd}] /\ cleanup.fd # NoFd
      /\ cleanup' = NotCleaning \/ cleanup'.fd = cleanup.fd
      /\ \A m \in Node : owner_fd'[m] # owner_fd[m] =>
           owner_fd[m] \in {NoFd, cleanup.fd} /\ owner_fd'[m] # cleanup.fd
  BY CleanupHandsOver DEF BrokerInv, BrokerCleanup
<1>2. /\ inbox' = Told(NoFd, AnswerOf("ok"), paths)
      /\ request' = request /\ awaiting' = awaiting /\ held' = held
  BY DEF BrokerCleanup, AnnouncedByCleanup
<1>3. \A m \in HandedOver : /\ m \in Requested /\ paths[m] = m
                            /\ owner_fd'[m] # owner_fd[m] /\ owner_fd'[m] # cleanup.fd
  BY <1>1 DEF HandedOver, OnRequest
<1>8. \A m \in HandedOver : ContextOf(owner_fd'[m]) = owner_fd'[m]
  <2>1. CASE CleanupDone
    BY <2>1 DEF CleanupDone, lockVars, HandedOver
  <2>2. CASE open' = open
    BY <2>2, FoundContext
  <2> QED
    BY <2>1, <2>2 DEF BrokerCleanup, CleanupStep, CleanupRelease, CleanupClimb, CleanupGrant
<1> HIDE DEF paths
<1>4. ASSUME NEW c \in Fd, ~\E m \in HandedOver : owner_fd'[m] = c
      PROVE  inbox'[c] = inbox[c]
  <2>1. NoFd # c
    OBVIOUS
  <2> QED
    BY <1>2, <1>4, <1>8, <2>1, ToldOne
<1>5. ASSUME NEW c \in Fd
      PROVE  /\ inbox'[c] \in Seq(Msg)
             /\ Fits(c, owner_fd', held[c], inbox'[c], request[c], awaiting[c])
  <2>1. /\ Fits(c, owner_fd, held[c], inbox[c], request[c], awaiting[c])
        /\ held[c] \in SUBSET Requested /\ inbox[c] \in Seq(Msg)
        /\ request[c] \in Req /\ awaiting[c] \in Req
    BY DEF BrokerInv, BrokerTypes, AllFit
  <2>2. CASE c = cleanup.fd
    <3>1. inbox'[c] = inbox[c]
      BY <1>3, <1>4, <2>2
    <3>2. request[c] = NoRequest /\ awaiting[c] = NoRequest /\ inbox[c] = <<>> /\ held[c] = {}
      BY <1>1, <2>2 DEF BrokerInv, GoneSilent
    <3>3. Fits(c, owner_fd', {}, <<>>, NoRequest, NoRequest)
      BY FitsNothing
    <3> QED
      BY <2>1, <3>1, <3>2, <3>3
  <2>3. CASE c # cleanup.fd
    <3>1. \A m \in Requested : owner_fd[m] = c => owner_fd'[m] = c
      BY <1>1, <2>3 DEF BrokerAssumes
    <3>2. CASE inbox'[c] = inbox[c]
      BY <2>1, <3>1, <3>2, FitsKept
    <3>3. ASSUME NEW m \in HandedOver, owner_fd'[m] = c, inbox'[c] = Append(inbox[c], Granted(m))
          PROVE  /\ inbox'[c] \in Seq(Msg)
                 /\ Fits(c, owner_fd', held[c], inbox'[c], request[c], awaiting[c])
      <4>1. m \in Requested /\ owner_fd[m] # c /\ Granted(m) \in Msg
        BY <1>3, <3>3 DEF Granted, Msg
      <4>2. Fits(c, owner_fd', held[c], Append(inbox[c], Granted(m)), request[c], awaiting[c])
        BY <2>1, <3>1, <3>3, <4>1, FitsGranted
      <4> QED
        BY <2>1, <3>3, <4>1, <4>2, MsgAppend
    <3>4. \/ inbox'[c] = inbox[c]
          \/ \E m \in HandedOver : owner_fd'[m] = c /\ inbox'[c] = Append(inbox[c], Granted(m))
      <4>1. NoFd # c
        OBVIOUS
      <4> QED
        BY <1>2, <1>3, <1>8, <4>1, ToldOne
    <3> QED
      BY <3>2, <3>3, <3>4
  <2> QED
    BY <2>2, <2>3
<1>6. BrokerTypes'
  <2>1. inbox' = [c \in Fd |-> inbox'[c]]
    BY <1>2 DEF Told
  <2>2. inbox' \in [Fd -> Seq(Msg)]
    BY <1>5, <2>1
  <2> QED
    BY <1>2, <2>2 DEF BrokerInv, BrokerTypes
<1>7. GoneSilent'
  <2>1. CASE cleanup' = NotCleaning
    BY <2>1 DEF GoneSilent, NotCleaning
  <2>2. CASE cleanup'.fd = cleanup.fd
    <3>1. cleanup.fd \in Fd
      BY <1>1, FactsIndInv DEF IndInv, TypeOK
    <3>2. inbox'[cleanup.fd] = inbox[cleanup.fd]
      BY <1>3, <1>4, <3>1
    <3> QED
      BY <1>2, <2>2, <3>2 DEF GoneSilent, BrokerInv
  <2> QED
    BY <1>1, <2>1, <2>2
<1> QED
  BY <1>1, <1>2, <1>5, <1>6, <1>7 DEF BrokerInv, AllFit

\* A client's step that is not its arrival.
Moves(fd) ==
  \/ Disconnect(fd) /\ Lost(fd)
  \/ \E op \in Op, n \in Requested : Send(fd, op, n)
  \/ Receive(fd) \/ HandleAcquire(fd) \/ HandleRelease(fd)

\* Every step of the protocol leaves every context where it is recorded.
LEMMA SeatsStep ==
  ASSUME BrokerAssumes, Facts, Seats, BrokerInv, [BrokerNext]_brokerVars
  PROVE  Seats'
<1>1. ASSUME UNCHANGED tableVars, open' = open PROVE Seats'
  BY <1>1 DEF tableVars, Seats, TableInv, TableTypeOK, SlotsAccounted, OpenOnRecord, RecordedBack, OwnSlots
<1>2. ASSUME NEW fd \in Fd, Come(fd) PROVE Seats'
  <2>1. fd \in TableFd /\ (Accept(fd) \/ AcceptNotPolled(fd))
        /\ \A g \in accepted : fd_to_slot[g] # free_slots_top - 1
    BY <1>2, BrokerAssumption DEF Come, MayCome, BrokerAssumes
  <2>2. TableInv' /\ OwnSlots'
    BY <2>1, AcceptKeepsOwn, TableInvStep DEF Seats, TableNext
  <2>3. open' = accepted'
    BY <1>2 DEF Come, Connect, Accept, AcceptNotPolled, vars, Seats
  <2> QED
    BY <2>2, <2>3 DEF Seats
<1>3. CASE BrokerCleanup
  <2>1. cleanup.fd # NoFd /\ cleanup \in [fd : Fd \cup {NoFd}, node : Node \cup {NoNode}, up : SUBSET Node]
    BY <1>3, CleanupHandsOver DEF BrokerInv, BrokerCleanup, Facts
  <2>2. \/ open' = open /\ cleanup'.fd = cleanup.fd
        \/ open' = open \ {cleanup.fd} /\ cleanup' = NotCleaning
    <3>1. ASSUME NEW n \in Node, CleanupRelease(n) \/ CleanupClimb(n) \/ CleanupGrant(n)
          PROVE  open' = open /\ cleanup'.fd = cleanup.fd
      BY <2>1, <3>1 DEF CleanupRelease, CleanupClimb, CleanupGrant
    <3> QED
      BY <1>3, <3>1 DEF BrokerCleanup, CleanupStep, CleanupDone
  <2>3. CASE cleanup'.fd = NoFd /\ Close(cleanup.fd)
    <3>1. cleanup.fd \in TableFd
      BY <2>3 DEF Close, Seats, TableInv, TableTypeOK
    <3>2. TableInv' /\ OwnSlots'
      BY <2>3, <3>1, CloseKeepsOwn, TableInvStep DEF Seats, TableNext
    <3> QED
      BY <2>1, <2>2, <2>3, <3>2 DEF Close, Seats
  <2>4. CASE cleanup'.fd # NoFd /\ UNCHANGED tableVars
    BY <1>1, <2>2, <2>4 DEF NotCleaning
  <2> QED
    BY <1>3, <2>3, <2>4 DEF BrokerCleanup
<1>4. ASSUME NEW fd \in Fd, Moves(fd)
      PROVE  UNCHANGED tableVars /\ open' = open
  <2>1. CASE Disconnect(fd) /\ Lost(fd)
    BY <2>1 DEF Disconnect, Lost
  <2>2. CASE (\E op \in Op, n \in Requested : Send(fd, op, n)) \/ Receive(fd)
    BY <2>2 DEF Send, Receive, vars
  <2>3. CASE HandleAcquire(fd)
    BY <2>3 DEF HandleAcquire, Handled, AcquireFree, AcquireQueue, vars
  <2>4. CASE HandleRelease(fd)
    BY <2>4 DEF HandleRelease, Handled, Release, vars
  <2> QED
    BY <1>4, <2>1, <2>2, <2>3, <2>4 DEF Moves
<1>5. CASE UNCHANGED brokerVars
  BY <1>1, <1>5 DEF brokerVars, vars
<1>6. CASE BrokerNext
  <2>1. (\E fd \in Fd : Come(fd)) \/ (\E fd \in Fd : Moves(fd)) \/ BrokerCleanup
    BY <1>6 DEF BrokerNext, Moves
  <2>2. ASSUME NEW fd \in Fd, Moves(fd) PROVE Seats'
    BY <1>1, <1>4, <2>2
  <2> QED
    BY <1>2, <1>3, <2>1, <2>2
<1> QED
  BY <1>5, <1>6

\* Every step of the protocol keeps the beliefs fitting.
LEMMA BrokerStepInv ==
  BrokerAssumes /\ Facts /\ Seats /\ BrokerInv /\ [BrokerNext]_brokerVars
    => Facts' /\ Seats' /\ BrokerInv'
<1> SUFFICES ASSUME BrokerAssumes, Facts, Seats, BrokerInv, [BrokerNext]_brokerVars
             PROVE  Facts' /\ Seats' /\ BrokerInv'
  OBVIOUS
<1>1. Facts' /\ Seats'
  BY BrokerStepsTrie, SeatsStep, NextFacts DEF BrokerInv
<1>2. CASE UNCHANGED brokerVars
  <2>1. UNCHANGED <<owner_fd, waiters, cleanup, request, awaiting, inbox, held>>
    BY <1>2 DEF brokerVars, vars, lockVars, lockClientVars
  <2> QED
    BY <1>1, <2>1 DEF BrokerInv, BrokerTypes, OnRequest, GoneSilent, AllFit
<1>3. CASE BrokerNext
  BY <1>1, <1>3, BrokerConnectInv, BrokerDisconnectInv, SendInv, ReceiveInv, HandleAcquireInv,
     HandleReleaseInv, BrokerCleanupInv DEF BrokerNext
<1> QED
  BY <1>2, <1>3

\* While no two connections share a slot and nobody waits above a path that is asked for,
\* what a client was told it holds is its own in the trie, however many clients there are,
\* however they come and go and whatever is on its way: "granted" is sent to whoever
\* ctx_by_fd finds (send_granted_cb, main.c).  Without the first condition it is sent to
\* another client (the run daemon_slots); without the second main.c:427 names the released
\* path to a client that queued above it.
THEOREM BeliefInvariance == ASSUME BrokerAssumes PROVE BrokerSpec => []BeliefSound
<1>1. BrokerInit => Facts /\ Seats
  <2>1. BrokerInit => TableInv /\ OwnSlots /\ open = accepted
    BY TableInvInit DEF BrokerInit, TableInit, Init, OwnSlots
  <2> QED
    BY <2>1, InitFacts DEF BrokerInit, Seats
<1>2. BrokerInv => BeliefSound
  BY DEF BrokerInv, AllFit, Fits, BeliefSound
<1>3. Facts /\ Seats /\ BrokerInv /\ [BrokerNext]_brokerVars => (Facts /\ Seats /\ BrokerInv)'
  BY BrokerStepInv
<1> QED
  BY <1>1, <1>2, <1>3, BrokerInitInv, PTL DEF BrokerSpec

=============================================================================
