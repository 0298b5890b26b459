---------------------------- MODULE DaemonPipes ----------------------------
(***************************************************************************)
(* What di-core and a tool daemon share: the process it spawned and the    *)
(* two pipes to it (di-core/src/daemons/mod.rs, CommandDaemon::spawn).     *)
(*                                                                         *)
(* A request line carries an id.  Every line the process has written is    *)
(* kept in order, with the number of those its client has read.  "call" is *)
(* the call a request was made for; it is not on the wire and only the     *)
(* properties look at it.                                                  *)
(***************************************************************************)
EXTENDS Integers, FiniteSets, Sequences, SequencesExt

VARIABLES
  proc,     \* the process: "up", "hung" or "down"
  stdin,    \* requests it has not taken
  out,      \* messages it has written
  nread     \* how many of them the client has read

pipeVars == <<proc, stdin, out, nread>>

\* run: a command or query; refused: answered without running anything;
\* long: a line that does not fit the daemon's line buffer
Kind == {"run", "refused", "long"}
Message == [type : {"ack", "progress", "result", "error"}, id : Nat]

Says(type, r) == [type |-> type, id |-> r.id, call |-> r.call]
Unread == SubSeq(out, nread + 1, Len(out))

\* A process that has answered nothing yet.
FreshPipes ==
  /\ proc' = "up"
  /\ stdin' = <<>>
  /\ out' = <<>>
  /\ nread' = 0

PipesInit == proc = "up" /\ stdin = <<>> /\ out = <<>> /\ nread = 0

\* A request taken from stdin, and what is written because of it.
Takes(r) == proc = "up" /\ stdin # <<>> /\ r = Head(stdin) /\ stdin' = Tail(stdin)
Writes(messages) == out' = out \o messages
=============================================================================
