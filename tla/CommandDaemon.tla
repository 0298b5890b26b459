--------------------------- MODULE CommandDaemon ---------------------------
(***************************************************************************)
(* The command daemon (command-daemon/src): one event loop that reads      *)
(* request lines, forks bash for each command into a table of slots, and   *)
(* reports the command's end, or kills it at its timeout.                  *)
(*                                                                         *)
(* The captured output, the safety patterns and sessions are left out; so  *)
(* are directory walks and recent files.  A loop turn that does several of *)
(* the steps below does them in some order; nothing else runs meanwhile.   *)
(***************************************************************************)
EXTENDS DaemonPipes

CONSTANTS
  MaxChildren,     \* EXEC_MAX_CHILDREN
  ForkMayFail

ASSUME CommandAssumption == MaxChildren \in Nat \ {0} /\ ForkMayFail \in BOOLEAN

VARIABLE child     \* slots: the request whose command runs in each, or Free

Slot == 1 .. MaxChildren
Free == [id |-> 0]
NoChildren == [s \in Slot |-> Free]
Active == {s \in Slot : child[s] # Free}

CommandInit == child = NoChildren

\* Lines longer than the buffer never complete: read() is asked for no bytes from then on.
Complete(r) == r.kind # "long"

\* "Missing required field", or a result that says the command is blocked.
Refuse(r) ==
  /\ Takes(r)
  /\ r.kind = "refused"
  /\ \E type \in {"error", "result"} : Writes(<<Says(type, r)>>)
  /\ UNCHANGED <<proc, nread, child>>

\* No slot, or no process for the command.
Reject(r) ==
  /\ Takes(r)
  /\ r.kind = "run"
  /\ Active = Slot \/ ForkMayFail
  /\ Writes(<<Says("error", r)>>)
  /\ UNCHANGED <<proc, nread, child>>

FirstFree == CHOOSE s \in Slot \ Active : \A t \in Slot \ Active : s <= t

\* handle_execute: fork into the first free slot, then the ack.  The child keeps the
\* daemon's stdin; no command here reads the request lines from it.
Run(r) ==
  /\ Takes(r)
  /\ r.kind = "run"
  /\ Active # Slot
  /\ child' = [child EXCEPT ![FirstFree] = r]
  /\ Writes(<<Says("ack", r)>>)
  /\ UNCHANGED <<proc, nread>>

\* Bound: one progress event per command.
Progress(s) ==
  /\ proc = "up"
  /\ s \in Active
  /\ Says("progress", child[s]) \notin ToSet(out)
  /\ Writes(<<Says("progress", child[s])>>)
  /\ UNCHANGED <<proc, nread, stdin, child>>

Finished_Kept(s) == child
Finished(s) == [child EXCEPT ![s] = Free]

\* The command has exited, or has been killed at its timeout: the result, and the slot is
\* free again.  A command that never exits ends this way too.
Finish(s) ==
  /\ proc = "up"
  /\ s \in Active
  /\ Writes(<<Says("result", child[s])>>)
  /\ child' = Finished(s)
  /\ UNCHANGED <<proc, nread, stdin>>

TakeCommand == \E r \in ToSet(stdin) : Complete(r) /\ (Refuse(r) \/ Reject(r) \/ Run(r))

CommandNext == TakeCommand \/ \E s \in Slot : Progress(s) \/ Finish(s)

=============================================================================
