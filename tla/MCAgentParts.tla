---------------------------- MODULE MCAgentParts ----------------------------
(* What lets an agent go on, one part in each behaviour: the locks of four *)
(* clients of the central daemon on "/", "/a", "/a/b" and "/a/c", the      *)
(* calls of an agent's replies, and its hooks.                             *)
EXTENDS MCLockTrie, ToolRuns, MCHooks

\* A file, a lock file and two questions; the calls a reply can hold.
CONSTANTS f, lockfile, q1, q2

MCFile == {f, lockfile}
MCQuestion == {q1, q2}
MCProtected == {lockfile}
Made(tool, form, arg) == [tool |-> tool, form |-> form, arg |-> arg, lazy |-> FALSE]
MCCalls ==
  {Made("edit", "fields", f),
   [Made("write", "fields", lockfile) EXCEPT !.lazy = TRUE],
   Made("bash", "line", NoCall), Made("done", "line", NoCall),
   Made("search", "line", q1), Made("search", "line", q2)}

-----------------------------------------------------------------------------
VARIABLE part

partsVars == <<part, vars, repliesVars, hooksVars>>

Locks == part = "locks" /\ Next /\ UNCHANGED <<part, repliesVars, hooksVars>>
Replies == part = "calls" /\ RepliesNext /\ UNCHANGED <<part, vars, hooksVars>>
Rules == part = "hooks" /\ HooksNext /\ UNCHANGED <<part, vars, repliesVars>>

PartsInit ==
  /\ part \in {"locks", "calls", "hooks"}
  /\ Init /\ RepliesInit /\ HooksInit
  /\ part # "hooks" => disk = AskingDisk /\ overlay = NoFile
PartsNext == Locks \/ Replies \/ Rules

PartsSpec == PartsInit /\ [][PartsNext]_partsVars
=============================================================================
