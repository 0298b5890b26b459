------------------------------ MODULE LockTrie ------------------------------
(***************************************************************************)
(* The path lock table of the central daemon (central-daemon/src/trie.c).  *)
(*                                                                         *)
(* Clients, named by the descriptor of their connection, lock nodes of a   *)
(* tree of paths.  A lock on a node covers its subtree: the node cannot be *)
(* locked while an ancestor is, and every ancestor counts the locks below  *)
(* it (intent_count) so that it is not locked over them.  A client may     *)
(* queue on a busy node; releasing a lock, or losing the connection that   *)
(* holds it, hands nodes over to queued clients.                           *)
(*                                                                         *)
(* The daemon is one thread around epoll_wait, so a request is one step.   *)
(* trie_cleanup_fd grants several nodes in the middle of its own loops;    *)
(* it is followed loop iteration by loop iteration, and no other operation *)
(* starts until it has returned (cleanup = NotCleaning).                   *)
(*                                                                         *)
(* Abstractions: nodes exist from the start (a node without owner, queue   *)
(* or settings behaves as an absent one); the two registries are sets, so  *)
(* cleanup visits the owned nodes in any order; allocation succeeds.       *)
(***************************************************************************)
EXTENDS Integers, FiniteSets, Sequences, SequencesExt

CONSTANTS
  Node,                 \* the nodes of the trie, one per normalised path
  Above,                \* Above[n]: the strict ancestors of n
  NoNode,
  Fd,                   \* descriptors a connection can be given
  NoFd,                 \* the -1 of owner_fd
  MaxWaitersPerNode     \* MAX_WAITERS_PER_NODE

\* Above is the ancestor relation of a finite tree: the ancestors of a node form a chain.
ASSUME TreeAssumption ==
  /\ IsFiniteSet(Node)
  /\ NoNode \notin Node
  /\ Above \in [Node -> SUBSET Node]
  /\ \A n \in Node : n \notin Above[n]
  /\ \A n \in Node : \A m \in Above[n] : Above[m] \subseteq Above[n]
  /\ \A n \in Node : \A a, b \in Above[n] : a = b \/ a \in Above[b] \/ b \in Above[a]

ASSUME LockClientAssumption == /\ NoFd \notin Fd
                               /\ MaxWaitersPerNode \in Nat

VARIABLES
  open,               \* descriptors of the connected clients
  owner_fd,
  intent_count,
  waiters,
  fd_registry,        \* per client, the nodes it owns
  waiting_registry,   \* per client, the nodes it queues on
  total_locks,
  total_waiters,
  cleanup             \* progress of trie_cleanup_fd: client, node being released, ancestors left

lockVars == <<owner_fd, intent_count, waiters, fd_registry, waiting_registry,
              total_locks, total_waiters>>
vars == <<open, lockVars, cleanup>>

NotCleaning == [fd |-> NoFd, node |-> NoNode, up |-> {}]

Init ==
  /\ open = {}
  /\ owner_fd = [n \in Node |-> NoFd]
  /\ intent_count = [n \in Node |-> 0]
  /\ waiters = [n \in Node |-> <<>>]
  /\ fd_registry = [fd \in Fd |-> {}]
  /\ waiting_registry = [fd \in Fd |-> {}]
  /\ total_locks = 0
  /\ total_waiters = 0
  /\ cleanup = NotCleaning

-----------------------------------------------------------------------------
(* Helpers.                                                                *)

Below(n) == {m \in Node : n \in Above[m]}

AncestorLocked_ParentOnly(n) ==
  \E a \in Above[n] : Above[n] \ {a} \subseteq Above[a] /\ owner_fd[a] # NoFd

\* trie_traverse stops at the first owned node strictly above the target.
AncestorLocked(n) == \E a \in Above[n] : owner_fd[a] # NoFd

Busy(n) == owner_fd[n] # NoFd \/ intent_count[n] > 0

AlreadyWaiting(fd, n) == fd \in Range(waiters[n])

Registered(registry, fd, n)   == [registry EXCEPT ![fd] = @ \cup {n}]
Unregistered(registry, fd, n) == [registry EXCEPT ![fd] = @ \ {n}]

Lowered(intent, n) == [m \in Node |-> IF m \in Above[n] THEN intent[m] - 1 ELSE intent[m]]
Raised(intent, n)  == [m \in Node |-> IF m \in Above[n] THEN intent[m] + 1 ELSE intent[m]]

CanGrant(owner, intent, n) ==
  /\ waiters[n] # <<>>
  /\ intent[n] = 0
  /\ owner[n] = NoFd

\* node_grant_to_next_waiter on a node it can grant, after the caller has made
\* owner, intent, registry and locks of the four variables a release changes.
GrantToNextWaiter(n, owner, intent, registry, locks) ==
  LET next == Head(waiters[n]) IN
  /\ waiters' = [waiters EXCEPT ![n] = Tail(@)]
  /\ total_waiters' = total_waiters - 1
  /\ waiting_registry' = Unregistered(waiting_registry, next, n)
  /\ owner_fd' = [owner EXCEPT ![n] = next]
  /\ total_locks' = locks + 1
  /\ fd_registry' = Registered(registry, next, n)
  /\ intent_count' = Raised(intent, n)

GrantNobody(owner, intent, registry, locks) ==
  /\ owner_fd' = owner
  /\ intent_count' = intent
  /\ fd_registry' = registry
  /\ total_locks' = locks
  /\ UNCHANGED <<waiters, waiting_registry, total_waiters>>

-----------------------------------------------------------------------------
(* Requests.  A request that is refused, repeated or unmatched changes     *)
(* nothing here; LockBroker answers it.                                    *)

Connect(fd) ==
  /\ cleanup = NotCleaning
  /\ fd \notin open
  /\ open' = open \cup {fd}
  /\ UNCHANGED <<lockVars, cleanup>>

\* trie_acquire_lock on a node nobody owns and with no lock below it.
AcquireFree(fd, n) ==
  /\ cleanup = NotCleaning
  /\ fd \in open
  /\ ~AncestorLocked(n)
  /\ ~Busy(n)
  /\ owner_fd' = [owner_fd EXCEPT ![n] = fd]
  /\ total_locks' = total_locks + 1
  /\ fd_registry' = Registered(fd_registry, fd, n)
  /\ intent_count' = Raised(intent_count, n)
  /\ UNCHANGED <<open, waiters, waiting_registry, total_waiters, cleanup>>

\* trie_acquire_lock with wait = true on a busy node the client neither owns nor queues on.
AcquireQueue(fd, n) ==
  /\ cleanup = NotCleaning
  /\ fd \in open
  /\ ~AncestorLocked(n)
  /\ owner_fd[n] # fd
  /\ Busy(n)
  /\ ~AlreadyWaiting(fd, n)
  /\ Len(waiters[n]) < MaxWaitersPerNode
  /\ waiters' = [waiters EXCEPT ![n] = Append(@, fd)]
  /\ total_waiters' = total_waiters + 1
  /\ waiting_registry' = Registered(waiting_registry, fd, n)
  /\ UNCHANGED <<open, owner_fd, intent_count, fd_registry, total_locks, cleanup>>

ReleaseCandidates_NodeOnly(n) ==
  {m \in {n} : CanGrant([owner_fd EXCEPT ![n] = NoFd], Lowered(intent_count, n), m)}

\* The nodes trie_release_lock could hand over once n is free: n, then its ancestors.
ReleaseCandidates(n) ==
  {m \in {n} \cup Above[n] :
     CanGrant([owner_fd EXCEPT ![n] = NoFd], Lowered(intent_count, n), m)}

\* trie_release_lock by the owner: the first candidate from n upwards gets its lock.
Release(fd, n) ==
  LET owner    == [owner_fd EXCEPT ![n] = NoFd]
      intent   == Lowered(intent_count, n)
      registry == Unregistered(fd_registry, fd, n)
      locks    == total_locks - 1
      next     == ReleaseCandidates(n)
  IN
  /\ cleanup = NotCleaning
  /\ fd \in open
  /\ owner_fd[n] = fd
  /\ \/ next = {} /\ GrantNobody(owner, intent, registry, locks)
     \/ \E m \in next : /\ next \ {m} \subseteq Above[m]
                        /\ GrantToNextWaiter(m, owner, intent, registry, locks)
  /\ UNCHANGED <<open, cleanup>>

-----------------------------------------------------------------------------
(* Loss of a connection: trie_cleanup_fd.                                  *)

\* The queues cleanup takes the client out of.
QueuesOf(fd) == {n \in waiting_registry[fd] : AlreadyWaiting(fd, n)}

\* First the client leaves every queue, so that its own locks are not granted back to it.
Disconnect(fd) ==
  /\ cleanup = NotCleaning
  /\ fd \in open
  /\ waiters' = [n \in Node |->
                   IF n \in QueuesOf(fd) THEN RemoveFirst(waiters[n], fd) ELSE waiters[n]]
  /\ total_waiters' = total_waiters - Cardinality(QueuesOf(fd))
  /\ waiting_registry' = [waiting_registry EXCEPT ![fd] = {}]
  /\ cleanup' = [NotCleaning EXCEPT !.fd = fd]
  /\ UNCHANGED <<open, owner_fd, intent_count, fd_registry, total_locks>>

\* Next owned node: it loses its owner.
CleanupRelease(n) ==
  /\ cleanup.fd # NoFd
  /\ cleanup.node = NoNode
  /\ n \in fd_registry[cleanup.fd]
  /\ owner_fd' = [owner_fd EXCEPT ![n] = NoFd]
  /\ total_locks' = total_locks - 1
  /\ fd_registry' = Unregistered(fd_registry, cleanup.fd, n)
  /\ cleanup' = [cleanup EXCEPT !.node = n, !.up = Above[n]]
  /\ UNCHANGED <<open, intent_count, waiters, waiting_registry, total_waiters>>

\* One ancestor p on the way up: its count drops and its own queue is served at once.
CleanupClimb(p) ==
  LET intent == [intent_count EXCEPT ![p] = @ - 1] IN
  /\ p \in cleanup.up
  /\ cleanup.up \ {p} \subseteq Above[p]
  /\ \/ /\ CanGrant(owner_fd, intent, p)
        /\ GrantToNextWaiter(p, owner_fd, intent, fd_registry, total_locks)
     \/ /\ ~CanGrant(owner_fd, intent, p)
        /\ GrantNobody(owner_fd, intent, fd_registry, total_locks)
  /\ cleanup' = [cleanup EXCEPT !.up = @ \ {p}]
  /\ UNCHANGED open

\* At the root: the queue of the released node itself is served.
CleanupGrant(n) ==
  /\ cleanup.node = n
  /\ n # NoNode
  /\ cleanup.up = {}
  /\ \/ /\ CanGrant(owner_fd, intent_count, n)
        /\ GrantToNextWaiter(n, owner_fd, intent_count, fd_registry, total_locks)
     \/ ~CanGrant(owner_fd, intent_count, n) /\ UNCHANGED lockVars
  /\ cleanup' = [cleanup EXCEPT !.node = NoNode]
  /\ UNCHANGED open

\* No owned node left: main.c closes the descriptor, which a new client may then get.
CleanupDone ==
  /\ cleanup.fd # NoFd
  /\ cleanup.node = NoNode
  /\ fd_registry[cleanup.fd] = {}
  /\ open' = open \ {cleanup.fd}
  /\ cleanup' = NotCleaning
  /\ UNCHANGED lockVars

LockRequest(fd, n) == AcquireFree(fd, n) \/ AcquireQueue(fd, n) \/ Release(fd, n)

CleanupStep ==
  \/ \E n \in Node : CleanupRelease(n) \/ CleanupClimb(n) \/ CleanupGrant(n)
  \/ CleanupDone

Next ==
  \/ \E fd \in Fd : Connect(fd) \/ Disconnect(fd)
  \/ \E fd \in Fd, n \in Node : LockRequest(fd, n)
  \/ CleanupStep

Spec == Init /\ [][Next]_vars

\* Clients that let go of their locks before they leave: no connection is lost while it
\* owns a node, so cleanup only takes the client out of its queues.
GracefulNext ==
  \/ \E fd \in Fd : \/ Connect(fd)
                    \/ fd_registry[fd] = {} /\ Disconnect(fd)
  \/ \E fd \in Fd, n \in Node : LockRequest(fd, n)
  \/ CleanupStep

GracefulSpec == Init /\ [][GracefulNext]_vars

-----------------------------------------------------------------------------
(* Properties.                                                             *)

\* Types of the trie's fields and of cleanup's loop position.
TypeOK ==
  /\ open \subseteq Fd
  /\ owner_fd \in [Node -> Fd \cup {NoFd}]
  /\ intent_count \in [Node -> Nat]
  /\ waiters \in [Node -> Seq(Fd)]
  /\ fd_registry \in [Fd -> SUBSET Node]
  /\ waiting_registry \in [Fd -> SUBSET Node]
  /\ total_locks \in Nat
  /\ total_waiters \in Int
  /\ cleanup \in [fd : Fd \cup {NoFd}, node : Node \cup {NoNode}, up : SUBSET Node]

\* The locks that n's intent_count stands for: those below n, and the lock cleanup
\* has taken away but whose decrement has not climbed to n yet.
LocksCountedBy(n) ==
  {m \in Below(n) : owner_fd[m] # NoFd \/ (m = cleanup.node /\ n \in cleanup.up)}

\* intent_count is the number of locks in the subtree below the node (trie.h), after
\* every request and at every iteration of cleanup: acquire, release, both grants and
\* cleanup raise and lower it along different loops, and a count that is off by one
\* either locks an ancestor for ever or lets it be locked over a live lock.
IntentExact == \A n \in Node : intent_count[n] = Cardinality(LocksCountedBy(n))

\* The registries mirror the nodes: cleanup frees exactly what the client owns and
\* leaves exactly the queues it is in, because it looks only at the registries.
RegistriesExact ==
  /\ \A fd \in Fd : fd_registry[fd] = {n \in Node : owner_fd[n] = fd}
  /\ \A fd \in Fd : waiting_registry[fd] = {n \in Node : fd \in Range(waiters[n])}

\* No queue holds a client twice: a second entry would outlive the client's cleanup.
QueuesDistinct ==
  \A n \in Node : \A i, j \in DOMAIN waiters[n] : waiters[n][i] = waiters[n][j] => i = j

\* Only connected clients own nodes or queue for them, and a client in cleanup queues
\* nowhere: a grant to a closed descriptor would be inherited by the next client that
\* is given that descriptor.
OnlyLiveClients ==
  \A n \in Node :
    /\ owner_fd[n] # NoFd => owner_fd[n] \in open
    /\ Range(waiters[n]) \subseteq open \ {cleanup.fd}

\* Nobody queues on a node that could be granted: whoever frees the last obstacle
\* (a release below, a release of the node, a cleanup) serves the queue.  A release
\* grants at most one node, so this relates every queue on its path.
NoLostWakeup ==
  \A n \in Node : waiters[n] # <<>> => Busy(n) \/ n = cleanup.node

UnderLock(n) == \E a \in Above[n] : owner_fd[a] # NoFd

\* Nobody queues inside a locked subtree, where no release would serve the queue: the
\* only queue there is that of a node which is itself owned (or being cleaned up).
NoQueueUnderLock ==
  \A n \in Node : waiters[n] # <<>> /\ UnderLock(n) => owner_fd[n] # NoFd \/ n = cleanup.node

\* However cleanups follow each other, at most two nodes on one path are owned or being
\* cleaned up.
Taken(n) == owner_fd[n] # NoFd \/ n = cleanup.node

AtMostTwoOnAPath ==
  \A n \in Node : Taken(n) => \A a \in Above[n] : Taken(a) => \A b \in Above[a] : ~Taken(b)

\* Where trie_cleanup_fd can stand: the node it works on is free, and the ancestors left
\* are those above the ones it has passed.
CleanupPosition ==
  /\ cleanup.fd = NoFd => cleanup = NotCleaning
  /\ cleanup.fd # NoFd => cleanup.fd \in open
  /\ cleanup.node = NoNode => cleanup.up = {}
  /\ cleanup.node # NoNode => owner_fd[cleanup.node] = NoFd /\ cleanup.up \subseteq Above[cleanup.node]
  /\ \A p \in cleanup.up : Above[p] \subseteq cleanup.up

LocksExact == total_locks = Cardinality({n \in Node : owner_fd[n] # NoFd})

\* What a step of the trie relies on.  The counts decide which node may be granted, so
\* NoLostWakeup needs IntentExact, which needs to know how far a cleanup has climbed; a
\* grant takes the head of a queue, so the registries need queues without repetition.
IndInv ==
  /\ TypeOK
  /\ CleanupPosition
  /\ IntentExact
  /\ LocksExact
  /\ RegistriesExact
  /\ QueuesDistinct
  /\ OnlyLiveClients
  /\ NoLostWakeup
  /\ NoQueueUnderLock
  /\ AtMostTwoOnAPath

\* The exclusive lock covers the subtree: no two locks on one path from the root.
SubtreeExclusion ==
  \A n \in Node : owner_fd[n] # NoFd => ~UnderLock(n)

\* Requests alone keep the subtrees exclusive, whatever they are and in any order;
\* only trie_cleanup_fd's last grant, on the node it released, can break it.
RequestsKeepExclusion ==
  [][SubtreeExclusion => SubtreeExclusion' \/ \E n \in Node : CleanupGrant(n)]_vars

\* The same between clients: nobody else owns a node inside a locked subtree.
ExclusiveSubtrees ==
  \A n \in Node : owner_fd[n] # NoFd => \A a \in Above[n] : owner_fd[a] \in {NoFd, owner_fd[n]}

\* While no connection is lost under a lock, the trie does what HierLock promises.
Promise == INSTANCE HierLock WITH
  Path <- Node, Client <- Fd, NoClient <- NoFd, owner <- owner_fd, queue <- waiters

KeepsPromise == Promise!Spec

=============================================================================
