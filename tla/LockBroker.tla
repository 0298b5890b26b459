----------------------------- MODULE LockBroker -----------------------------
(***************************************************************************)
(* The lock protocol between the central daemon and its clients            *)
(* (central-daemon/src/main.c: process_single_object, send_granted_cb).    *)
(*                                                                         *)
(* A client sends one request at a time over its connection, the daemon    *)
(* handles requests one by one against the trie (LockTrie), and answers    *)
(* with "ok", "waiting" or "denied"; a client that queued is told          *)
(* "granted" with a path later, between or before the answers to its other *)
(* requests.  What the daemon knows and what the client has been told is   *)
(* compared here.                                                          *)
(*                                                                         *)
(* A "granted" goes to the context that the connection table (ConnSlots)   *)
(* holds in the slot on record for the new owner's descriptor, which is    *)
(* another client's once two connections share a slot.  SharesSlots says   *)
(* whether the daemon gets into that: a connection comes while the slot it *)
(* will be given is still another's.                                       *)
(*                                                                         *)
(* Connections are reliable and ordered as long as they last; OutBuffer    *)
(* says when main.c keeps that.  The clients are not in the repository:    *)
(* they release only what they were told they hold.                        *)
(***************************************************************************)
EXTENDS LockTrie, ConnSlots

CONSTANTS
  Requested,       \* the paths clients ask for
  Waited,          \* those they ask for with "wait": true
  SharesSlots,     \* whether connections come while their slot is another's
  MaxInbox         \* bound: no request is sent while this many messages are unread

ASSUME BrokerAssumption == /\ Fd \subseteq TableFd
                           /\ Waited \subseteq Requested
                           /\ SharesSlots \in BOOLEAN

VARIABLES
  request,   \* per client, the request the daemon has not handled yet
  awaiting,  \* per client, the request whose answer it has not read yet
  inbox,     \* per client, the messages on their way to it
  held       \* per client, the paths it was told it holds

lockClientVars == <<request, awaiting, inbox, held>>
brokerVars == <<vars, tableVars, lockClientVars>>

\* acquire with "wait": true, acquire without it, release
Op == {"acquire", "try", "release"}

NoRequest == [op |-> "none", path |-> NoNode]

BrokerInit ==
  /\ Init
  /\ TableInit
  /\ request = [fd \in Fd |-> NoRequest]
  /\ awaiting = [fd \in Fd |-> NoRequest]
  /\ inbox = [fd \in Fd |-> <<>>]
  /\ held = [fd \in Fd |-> {}]

-----------------------------------------------------------------------------
(* The clients.                                                            *)

Send(fd, op, n) ==
  /\ fd \in open
  /\ cleanup.fd # fd
  /\ awaiting[fd] = NoRequest
  /\ Len(inbox[fd]) < MaxInbox
  /\ op = "release" => n \in held[fd]
  /\ op = "acquire" => n \in Waited
  /\ request' = [request EXCEPT ![fd] = [op |-> op, path |-> n]]
  /\ awaiting' = [awaiting EXCEPT ![fd] = [op |-> op, path |-> n]]
  /\ held' = IF op = "release" THEN [held EXCEPT ![fd] = @ \ {n}] ELSE held
  /\ UNCHANGED <<vars, tableVars, inbox>>

\* A message is read: "granted" names its path, an answer belongs to the request.
Receive(fd) ==
  /\ fd \in open
  /\ cleanup.fd # fd
  /\ inbox[fd] # <<>>
  /\ LET m == Head(inbox[fd]) IN
       /\ inbox' = [inbox EXCEPT ![fd] = Tail(@)]
       /\ \/ /\ m.status = "granted"
             /\ held' = [held EXCEPT ![fd] = @ \cup {m.path}]
             /\ UNCHANGED awaiting
          \/ /\ m.status # "granted"
             /\ awaiting' = [awaiting EXCEPT ![fd] = NoRequest]
             /\ held' = IF m.status = "ok" /\ awaiting[fd].op # "release"
                          THEN [held EXCEPT ![fd] = @ \cup {awaiting[fd].path}]
                          ELSE held
  /\ UNCHANGED <<vars, tableVars, request>>

-----------------------------------------------------------------------------
(* The daemon.                                                             *)

AnswerOf(status) == [status |-> status, path |-> NoNode]
Granted(n)     == [status |-> "granted", path |-> n]

\* The node this step hands to a client that queued for it, if any.
HandedOver == {m \in Node : owner_fd'[m] # NoFd /\ owner_fd'[m] # owner_fd[m]}

\* ctx_by_fd: whoever has the slot on record for the descriptor.
ContextOf(c) == IF fd_to_slot[c] < 0 THEN Null ELSE all_clients[fd_to_slot[c]]

\* Messages of a step: the answer to fd, then "granted" with a path to the context found
\* for the new owner.
Told(fd, answer, pathOf) ==
  [c \in Fd |->
     LET own  == IF c = fd THEN Append(inbox[c], answer) ELSE inbox[c]
         mine == {m \in HandedOver : ContextOf(owner_fd'[m]) = c}
     IN IF mine = {} THEN own ELSE Append(own, Granted(pathOf[CHOOSE m \in mine : TRUE]))]

Handled(fd) ==
  /\ request' = [request EXCEPT ![fd] = NoRequest]
  /\ UNCHANGED <<tableVars, awaiting, held>>

Status_QueuedIsOk(res) == IF res >= 0 THEN "ok" ELSE "denied"
Status(res) == IF res = 0 THEN "ok" ELSE IF res = 1 THEN "waiting" ELSE "denied"

\* When trie_acquire_lock returns -1.
Denied(fd, n, wait) ==
  \/ AncestorLocked(n)
  \/ /\ owner_fd[n] # fd
     /\ Busy(n)
     /\ ~wait \/ (~AlreadyWaiting(fd, n) /\ Len(waiters[n]) >= MaxWaitersPerNode)

\* acquire, answered by the result of trie_acquire_lock.
HandleAcquire(fd) ==
  LET n == request[fd].path
      wait == request[fd].op = "acquire"
      Reply(res) == inbox' = [inbox EXCEPT ![fd] = Append(@, AnswerOf(Status(res)))]
  IN
  /\ cleanup = NotCleaning
  /\ request[fd].op \in {"acquire", "try"}
  /\ \/ AcquireFree(fd, n) /\ Reply(0)
     \/ wait /\ AcquireQueue(fd, n) /\ Reply(1)
     \/ Denied(fd, n, wait) /\ Reply(-1) /\ UNCHANGED vars
     \/ /\ ~AncestorLocked(n)
        /\ owner_fd[n] = fd
        /\ Reply(0)
        /\ UNCHANGED vars
     \/ /\ ~AncestorLocked(n)
        /\ owner_fd[n] # fd
        /\ Busy(n)
        /\ wait
        /\ AlreadyWaiting(fd, n)
        /\ Reply(1)
        /\ UNCHANGED vars
  /\ Handled(fd)

\* release: the answer is "ok" in any case, and a new owner is told the path in the
\* request, whichever queue trie_release_lock has served.
HandleRelease(fd) ==
  LET n == request[fd].path IN
  /\ cleanup = NotCleaning
  /\ request[fd].op = "release"
  /\ \/ Release(fd, n)
     \/ owner_fd[n] # fd /\ UNCHANGED vars
  /\ inbox' = Told(fd, AnswerOf("ok"), [m \in Node |-> n])
  /\ Handled(fd)

\* accept, of a connection that takes its slot or that epoll refuses; the table has room
\* for every client.
MayCome == SharesSlots \/ \A g \in accepted : fd_to_slot[g] # free_slots_top - 1

Come(fd) ==
  /\ MayCome
  /\ \/ Connect(fd) /\ Accept(fd)
     \/ cleanup = NotCleaning /\ AcceptNotPolled(fd) /\ UNCHANGED vars
  /\ UNCHANGED lockClientVars

Lost(fd) ==
  /\ request' = [request EXCEPT ![fd] = NoRequest]
  /\ awaiting' = [awaiting EXCEPT ![fd] = NoRequest]
  /\ inbox' = [inbox EXCEPT ![fd] = <<>>]
  /\ held' = [held EXCEPT ![fd] = {}]
  /\ UNCHANGED tableVars

AnnouncedByCleanup_Silent == UNCHANGED lockClientVars

\* send_granted_cb is called with the node's own path.
AnnouncedByCleanup ==
  /\ inbox' = Told(NoFd, AnswerOf("ok"), [m \in Node |-> m])
  /\ UNCHANGED <<request, awaiting, held>>

\* The client is out of the trie before it is out of the table.
BrokerCleanup ==
  /\ CleanupStep
  /\ AnnouncedByCleanup
  /\ \/ cleanup'.fd = NoFd /\ Close(cleanup.fd)
     \/ cleanup'.fd # NoFd /\ UNCHANGED tableVars

BrokerNext ==
  \/ \E fd \in Fd :
       \/ Come(fd)
       \/ Disconnect(fd) /\ Lost(fd)
       \/ \E op \in Op, n \in Requested : Send(fd, op, n)
       \/ Receive(fd)
       \/ HandleAcquire(fd)
       \/ HandleRelease(fd)
  \/ BrokerCleanup

BrokerSpec == BrokerInit /\ [][BrokerNext]_brokerVars

\* The daemon gets around to every request, clients read, and a client releases what it
\* holds; other clients' disconnections may delay a handler, never prevent it.
BrokerFairness ==
  /\ WF_brokerVars(BrokerCleanup)
  /\ \A fd \in Fd :
       /\ WF_brokerVars(Receive(fd))
       /\ SF_brokerVars(HandleAcquire(fd) \/ HandleRelease(fd))
       /\ \A n \in Requested : SF_brokerVars(Send(fd, "release", n))

-----------------------------------------------------------------------------
(* Properties.                                                             *)

\* What a client was told it holds is its own in the trie: nobody else owns it, whatever
\* is still on its way.  A "granted" that reaches another client, one under another path,
\* or a late one after a release, would make two clients work on one path.
\*   It holds while no two connections share a slot and nobody waits for a path above
\* another one that is asked for; otherwise main.c:427 names the released path to a client
\* that queued above it, and ctx_by_fd finds the wrong client.
BeliefSound ==
  \A fd \in Fd : \A n \in held[fd] : owner_fd[n] = fd

\* A client that queued for a path is eventually told it holds it, or has gone (on the
\* same conditions): a grant made by a release or by trie_cleanup_fd reaches it.
WaiterInformed ==
  \A fd \in Fd, n \in Waited :
    fd \in Range(waiters[n]) ~> (n \in held[fd] \/ fd \notin open)

=============================================================================
