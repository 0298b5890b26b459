------------------------------ MODULE ConnSlots ------------------------------
(***************************************************************************)
(* The connection table of the central daemon (central-daemon/src/main.c): *)
(* which slot of all_clients holds the context of which descriptor.        *)
(*                                                                         *)
(* The kernel numbers a new connection with the lowest free descriptor.    *)
(* accept takes the slot --free_slots_top: the stack index itself.  The    *)
(* array free_slots[] is written whenever a connection goes and read       *)
(* nowhere, so it is no state of this module; only its top is.             *)
(*                                                                         *)
(* A context is named by its descriptor while it is allocated; a pointer   *)
(* to a context that has been freed is Freed.  fcntl and allocation        *)
(* succeed; epoll_ctl may fail.                                            *)
(***************************************************************************)
EXTENDS Integers, FiniteSets

CONSTANTS
  MaxEvents,   \* MAX_EVENTS: size of all_clients and of fd_to_slot
  FirstFd      \* descriptors below it are taken: standard streams, listener, epoll

ASSUME SizeAssumption == /\ MaxEvents \in Nat
                         /\ FirstFd \in 1..MaxEvents

VARIABLES
  accepted,         \* descriptors of the accepted connections
  all_clients,
  fd_to_slot,
  free_slots_top

tableVars == <<accepted, all_clients, fd_to_slot, free_slots_top>>

TableSlot == 0..MaxEvents - 1
TableFd   == FirstFd..MaxEvents - 1     \* the descriptors fd_to_slot can index
Null  == -1
Freed == -2

TableInit ==
  /\ accepted = {}
  /\ all_clients = [s \in TableSlot |-> Null]
  /\ fd_to_slot = [f \in TableFd |-> -1]
  /\ free_slots_top = MaxEvents

-----------------------------------------------------------------------------

\* The kernel's choice for accept: every lower descriptor is taken.
NextFd(f) == f \notin accepted /\ \A g \in FirstFd..f - 1 : g \in accepted

SlotRecorded(f, s) == [fd_to_slot EXCEPT ![f] = s]

\* accept of a connection the table has room for.
Accept(f) ==
  LET slot == free_slots_top - 1 IN
  /\ f \in TableFd
  /\ NextFd(f)
  /\ slot >= 0
  /\ accepted' = accepted \cup {f}
  /\ all_clients' = [all_clients EXCEPT ![slot] = f]
  /\ fd_to_slot' = SlotRecorded(f, slot)
  /\ free_slots_top' = slot

AcceptTooHigh_SlotKept ==
  LET slot == free_slots_top - 1 IN
  /\ NextFd(MaxEvents)
  /\ slot >= 0
  /\ all_clients' = [all_clients EXCEPT ![slot] = Freed]
  /\ free_slots_top' = slot
  /\ UNCHANGED <<accepted, fd_to_slot>>

\* accept of a connection whose descriptor fd_to_slot cannot index: its context has
\* already been put into the slot and is freed there.
AcceptTooHigh ==
  LET slot == free_slots_top - 1 IN
  /\ NextFd(MaxEvents)
  /\ slot >= 0
  /\ all_clients' = [all_clients EXCEPT ![slot] = Freed]
  /\ UNCHANGED <<accepted, fd_to_slot, free_slots_top>>

\* accept of a connection that epoll_ctl refuses: everything is taken back.
AcceptNotPolled(f) ==
  LET slot == free_slots_top - 1 IN
  /\ f \in TableFd
  /\ NextFd(f)
  /\ slot >= 0
  /\ all_clients' = [all_clients EXCEPT ![slot] = Null]
  /\ fd_to_slot' = [fd_to_slot EXCEPT ![f] = -1]
  /\ UNCHANGED <<accepted, free_slots_top>>

Pushed(top) == top + 1

\* The connection is lost: the slot on record is emptied, whoever is in it.
Close(f) ==
  /\ f \in accepted
  /\ accepted' = accepted \ {f}
  /\ fd_to_slot' = [fd_to_slot EXCEPT ![f] = -1]
  /\ all_clients' = [all_clients EXCEPT ![fd_to_slot[f]] = Null]
  /\ free_slots_top' = Pushed(free_slots_top)

TableNext ==
  \/ AcceptTooHigh
  \/ \E f \in TableFd : Accept(f) \/ AcceptNotPolled(f) \/ Close(f)

TableSpec == TableInit /\ [][TableNext]_tableVars

-----------------------------------------------------------------------------
(* Properties.                                                             *)

\* The tables hold slots, descriptors and the marks for none and freed.
TableTypeOK ==
  /\ accepted \subseteq TableFd
  /\ all_clients \in [TableSlot -> TableFd \cup {Null, Freed}]
  /\ fd_to_slot \in [TableFd -> TableSlot \cup {-1}]
  /\ free_slots_top \in 0..MaxEvents

\* The stack of free slots is as high as there are connections missing: every path through
\* accept and every loss of a connection moves its top by as much as the connections change.
\* It is the height alone that is accounted for, not which slots are free: a slot that two
\* connections share is pushed for each of them.
SlotsAccounted == free_slots_top + Cardinality(accepted) = MaxEvents

\* A descriptor is on record exactly while its connection is accepted.
OpenOnRecord == accepted = {f \in TableFd : fd_to_slot[f] >= 0}

\* Half of the inverse map "fd -> slot index": a context in the table is that of an accepted
\* connection whose record points back at this slot, so a broadcast meets no client twice.
\* The other half (OwnSlots) is false once a connection that is not the newest has gone:
\* accept takes the stack's height, which may be the slot of another connection.
RecordedBack ==
  \A s \in TableSlot : all_clients[s] \in TableFd =>
    all_clients[s] \in accepted /\ fd_to_slot[all_clients[s]] = s

\* The branch that answers "server busy" is never reached: the descriptors below FirstFd
\* make the numbers run out first, and the daemon refuses clients in AcceptTooHigh only.
NeverBusy == free_slots_top >= FirstFd

\* The other half of the inverse map: the slot on record for a connection holds its own
\* context.
OwnSlots == \A f \in accepted : all_clients[fd_to_slot[f]] = f

\* What a step of the table relies on, and all it keeps when slots are shared: the height of
\* the stack matches the connections, the record exists for every accepted connection (a
\* slot is emptied through it), and no context is in two slots.
TableInv == TableTypeOK /\ SlotsAccounted /\ OpenOnRecord /\ RecordedBack

=============================================================================
