------------------------------ MODULE HierLock ------------------------------
(***************************************************************************)
(* What a hierarchical lock with queues promises its clients, without      *)
(* counts, registries or loops: who owns which path, who queues where.     *)
(*   - a path is given out only while nothing above or below it is owned;  *)
(*   - a queue is served in order, and its head leaves it only by getting  *)
(*     the lock or by going away;                                          *)
(*   - when an owner lets go, nobody stays queued on a path that could be  *)
(*     given out.                                                          *)
(***************************************************************************)
EXTENDS Naturals, Sequences, SequencesExt

CONSTANTS Path, Above, Client, NoClient

VARIABLES owner, queue

absVars == <<owner, queue>>

Overlaps(p, q) == p = q \/ p \in Above[q] \/ q \in Above[p]

\* Nothing on p, above it or below it is owned under the assignment own.
FreeIn(own, p) == \A q \in Path : Overlaps(p, q) => own[q] = NoClient

Init ==
  /\ owner = [p \in Path |-> NoClient]
  /\ queue = [p \in Path |-> <<>>]

Take(c, p) ==
  /\ FreeIn(owner, p)
  /\ owner' = [owner EXCEPT ![p] = c]
  /\ UNCHANGED queue

Wait(c, p) ==
  /\ ~FreeIn(owner, p)
  /\ \A i \in DOMAIN queue[p] : queue[p][i] # c
  /\ queue' = [queue EXCEPT ![p] = Append(@, c)]
  /\ UNCHANGED owner

\* Nobody queues on a free path.
Settled(own, que) == \A p \in Path : FreeIn(own, p) => que[p] = <<>>

\* Letting go of p hands at most one path over, to the head of its queue.
LetGo(c, p) ==
  LET freed == [owner EXCEPT ![p] = NoClient] IN
  /\ owner[p] = c
  /\ c # NoClient
  /\ \/ owner' = freed /\ queue' = queue
     \/ \E q \in {p} \cup Above[p] :
          /\ FreeIn(freed, q)
          /\ queue[q] # <<>>
          /\ owner' = [freed EXCEPT ![q] = Head(queue[q])]
          /\ queue' = [queue EXCEPT ![q] = Tail(@)]
  /\ Settled(owner', queue')

\* A client that owns nothing goes away: it leaves its queues, the others keep their order.
Leave(c) ==
  /\ \A p \in Path : owner[p] # c
  /\ queue' = [p \in Path |-> RemoveFirst(queue[p], c)]
  /\ UNCHANGED owner

Next ==
  \E c \in Client :
    \/ Leave(c)
    \/ \E p \in Path : Take(c, p) \/ Wait(c, p) \/ LetGo(c, p)

Spec == Init /\ [][Next]_absVars

=============================================================================
