------------------------------ MODULE OutBuffer ------------------------------
(***************************************************************************)
(* What the central daemon writes to one client (central-daemon/src/       *)
(* main.c: send_json, drain_output).                                       *)
(*                                                                         *)
(* send_json appends a message to the client's output buffer when it fits  *)
(* and asks epoll for EPOLLOUT; drain_output, called when the socket is    *)
(* writable, writes from the front of the buffer.  A message that does not *)
(* fit behind what is pending is written to the socket at once, and the    *)
(* part the socket does not take goes to the buffer.                       *)
(*                                                                         *)
(* A message is the sequence of its bytes <<message, position>>.  A write  *)
(* takes any non-empty prefix, or fails.  epoll_ctl succeeds.  The module  *)
(* follows a connection as long as it lasts: a failing drain ends it.      *)
(***************************************************************************)
EXTENDS Integers, FiniteSets, Sequences, SequencesExt

CONSTANTS
  OutCap,         \* out_cap, 4096 bytes
  MessageLengths, \* the lengths of messages
  MaxOutgoing     \* bound: messages sent

ASSUME BufferAssumption == OutCap \in Nat /\ MaxOutgoing \in Nat /\ MessageLengths \subseteq Nat \ {0}

VARIABLES
  outbuf,
  out_epoll_registered,
  socket,     \* bytes the socket has taken, in order
  sent,       \* lengths of the messages handed to send_json
  lost        \* bytes given up

streamVars == <<outbuf, out_epoll_registered, socket, sent, lost>>

StreamInit ==
  /\ outbuf = <<>>
  /\ out_epoll_registered = FALSE
  /\ socket = <<>>
  /\ sent = <<>>
  /\ lost = {}

-----------------------------------------------------------------------------

Bytes(m, len) == [i \in 1..len |-> <<m, i>>]

Fits(bytes) == Len(outbuf) + Len(bytes) <= OutCap

\* The bytes go to the end of the buffer and EPOLLOUT is asked for.
Buffered(bytes) ==
  /\ outbuf' = outbuf \o bytes
  /\ out_epoll_registered' = TRUE

\* write returns k: the socket has a prefix, the buffer gets the rest if there is room.
RestBuffered_Whole(bytes, k) ==
  /\ socket' = socket \o SubSeq(bytes, 1, k)
  /\ \/ k = Len(bytes) /\ UNCHANGED <<outbuf, out_epoll_registered, lost>>
     \/ /\ k < Len(bytes)
        /\ Fits(SubSeq(bytes, k + 1, Len(bytes)))
        /\ Buffered(bytes)
        /\ UNCHANGED lost
     \/ /\ k < Len(bytes)
        /\ ~Fits(SubSeq(bytes, k + 1, Len(bytes)))
        /\ lost' = lost \cup ToSet(SubSeq(bytes, k + 1, Len(bytes)))
        /\ UNCHANGED <<outbuf, out_epoll_registered>>

RestBuffered(bytes, k) ==
  LET rest == SubSeq(bytes, k + 1, Len(bytes)) IN
  /\ socket' = socket \o SubSeq(bytes, 1, k)
  /\ \/ rest = <<>> /\ UNCHANGED <<outbuf, out_epoll_registered, lost>>
     \/ /\ rest # <<>>
        /\ Fits(rest)
        /\ Buffered(rest)
        /\ UNCHANGED lost
     \/ /\ ~Fits(rest)
        /\ lost' = lost \cup ToSet(rest)
        /\ UNCHANGED <<outbuf, out_epoll_registered>>

\* send_json.  After EAGAIN it tries the buffer again, which still has no room, and
\* drops the message as after any other error.
SendJson(len) ==
  LET bytes == Bytes(Len(sent) + 1, len) IN
  /\ Len(sent) < MaxOutgoing
  /\ sent' = Append(sent, len)
  /\ \/ /\ Fits(bytes)
        /\ Buffered(bytes)
        /\ UNCHANGED <<socket, lost>>
     \/ /\ ~Fits(bytes)
        /\ \E k \in 1..len : RestBuffered(bytes, k)
     \/ /\ ~Fits(bytes)
        /\ lost' = lost \cup ToSet(bytes)
        /\ UNCHANGED <<outbuf, out_epoll_registered, socket>>

StillRegistered(rest) == rest # <<>>

\* drain_output: the socket takes k bytes; with nothing left EPOLLOUT is no longer wanted.
DrainOutput ==
  /\ out_epoll_registered
  /\ outbuf # <<>>
  /\ \E k \in 1..Len(outbuf) :
       /\ socket' = socket \o SubSeq(outbuf, 1, k)
       /\ outbuf' = SubSeq(outbuf, k + 1, Len(outbuf))
  /\ out_epoll_registered' = StillRegistered(outbuf')
  /\ UNCHANGED <<sent, lost>>

StreamNext == DrainOutput \/ \E len \in MessageLengths : SendJson(len)

StreamSpec == StreamInit /\ [][StreamNext]_streamVars

\* The client reads, so that its socket becomes writable again, and epoll_wait says so.
StreamFairSpec == StreamSpec /\ WF_streamVars(DrainOutput)

-----------------------------------------------------------------------------
(* Properties.                                                             *)

\* Types, and the capacity of the buffer, which memcpy relies on.
StreamTypeOK ==
  /\ Len(outbuf) <= OutCap
  /\ out_epoll_registered \in BOOLEAN
  /\ sent \in Seq(MessageLengths)

\* Nothing is lost or repeated on the quiet: every byte handed to send_json is exactly
\* once on the socket or in the buffer, or has been given up with a line in the log.
Conserved ==
  LET all == UNION {ToSet(Bytes(m, sent[m])) : m \in DOMAIN sent}
  IN /\ ToSet(socket) \cup ToSet(outbuf) \cup lost = all
     /\ Len(socket) + Len(outbuf) + Cardinality(lost) = Cardinality(all)

\* The flag follows the buffer: epoll is asked for EPOLLOUT exactly while bytes wait.
\* Asked too little, the bytes stay until the next message; too much, the loop spins.
Watched == out_epoll_registered = (outbuf # <<>>)

InBuffer(m) == \E j \in DOMAIN outbuf : outbuf[j][1] = m

=============================================================================
