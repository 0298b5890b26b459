---------------------------- MODULE MCKeptParts ----------------------------
(* What is kept from one call to the next, one kind in each behaviour: in  *)
(* the central daemon the locks of three clients that are never lost while *)
(* they own a path, on "/", "/a", "/a/b" and "/a/c", and the settings of   *)
(* two clients on "/", "/a" and "/a/b", and one client's output with a     *)
(* buffer of four bytes; in an agent the trajectory that requests are made *)
(* of (with the files it reads and edits, or with the words of the user)   *)
(* and its observer; and a file that two agents edit.                      *)
EXTENDS LockTrie, ConfigStore, OutBuffer, Context, Observer, EditFile

Fork == {<<>>, <<"a">>, <<"a", "b">>, <<"a", "c">>}
Chain == Fork \ {<<"a", "c">>}
PathsAbove(Paths) == [n \in Paths |-> {m \in Paths : IsStrictPrefix(m, n)}]
ForkAbove == PathsAbove(Fork)
ChainAbove == PathsAbove(Chain)
RootPath == <<>>
Symmetric == Permutations(Conn) \cup Permutations(Value)

-----------------------------------------------------------------------------

\* A file that is too long to be shown whole, and a user who corrects and changes the
\* goal.  Files and talk have a part each.
Dont == [class |-> "correction", lead |-> TRUE, long |-> FALSE]
Pivot == [class |-> "goal", lead |-> FALSE, long |-> FALSE]
MCTexts == {Dont, Pivot}

ReadsAndEdits == FrameNext(Size) \/ FileNext({2}) \/ CompactNext({File}, {2})
Talk == \/ FrameNext(Size)
        \/ (Len(msgs) = 4 /\ AnswerFails(Max(Size), FALSE))
        \/ /\ Len(msgs) < 4
           /\ TalkNext(Texts, {Min(Size)}) \/ AnswerNext(Size) \/ CompactNext({{}}, Size)
           /\ Len(history') < 2

-----------------------------------------------------------------------------
\* One thing that is fixed, mentioned again and broken; turns without and with trouble of
\* each kind.
CONSTANT s1, MaxStoring, MaxStored

Fine == [fixed |-> Nothing, mentions |-> {}, error |-> FALSE, syntax |-> FALSE, size |-> 1]
MCSign == {Fine, [Fine EXCEPT !.fixed = s1], [Fine EXCEPT !.error = TRUE, !.mentions = {s1}],
           [Fine EXCEPT !.error = TRUE, !.syntax = TRUE, !.size = 6]}

Quiet == [tier |-> "CodeWithAnalysis", score |-> "fair", files |-> 1, repeated |-> FALSE,
          names |-> 0, error |-> "none", long |-> FALSE]
MCSight == {Quiet, [Quiet EXCEPT !.score = "low", !.names = 2], [Quiet EXCEPT !.long = TRUE],
            [Quiet EXCEPT !.tier = "TestDriven", !.score = "low", !.repeated = TRUE],
            [Quiet EXCEPT !.score = "high", !.files = 2, !.error = "syntax"]}

MCSubgoal == {s1}
\* Six turns judged from their tools alone; fewer with the model's observations.
Judging == Judged({s \in Sight : ~s.long}, {FALSE}) \/ Sent({FALSE}) \/ Got(Sign)
Storing ==
  \/ (turnNo < MaxStoring /\ Judged(Sight, UseLlm))
  \/ Condensed \/ Sent(BOOLEAN) \/ Got({Fine}) \/ Compacted
  \/ (count < MaxStored /\ UserWrites)
MCWeight == [Summary |-> 1, Watcher |-> 1, Critic |-> 1, Skeleton |-> 2, Reflection |-> 1]

-----------------------------------------------------------------------------
\* Two agents over a file of three lines, two of them alike and one ("p") that begins like
\* an anchor: what is kept of it reads like another.  The text that edits bring in has the
\* hash of the twins.  The hash of a blank line is digits only.
MCAgent == {"a1", "a2"}
MCBatcher == {"a1"}
MCText == {"x", "y", "z", "p", ""}
MCHashOf == "x" :> 1 @@ "y" :> 2 @@ "z" :> 1 @@ "p" :> 4 @@ "" :> 3
MCDigitHash == {3}
MCCarried == [t \in MCText |-> IF t = "p" THEN "y" ELSE t]
MCNoAnchor == [hash |-> 0, nth |-> 0, text |-> ""]
MCAsAnchor == [t \in MCText |-> MCNoAnchor]
MCNorm == [t \in MCText |-> t]
MCNear == {<<"x", "y">>, <<"y", "x">>, <<"x", "z">>, <<"z", "x">>}
MCFirstLines == <<"x", "p", "x">>

-----------------------------------------------------------------------------
VARIABLE part

centralVars == <<vars, configVars, streamVars>>
workVars == <<contextVars, observerVars, editVars>>
partsVars == <<part, centralVars, workVars>>

Locks == part = "locks" /\ GracefulNext /\ UNCHANGED <<part, configVars, streamVars, workVars>>
Config == part = "settings" /\ ConfigNext /\ UNCHANGED <<part, vars, streamVars, workVars>>
Stream == part = "stream" /\ StreamNext /\ UNCHANGED <<part, vars, configVars, workVars>>
Requests == /\ \/ part = "files" /\ ReadsAndEdits
               \/ part = "talk" /\ Talk
            /\ UNCHANGED <<part, centralVars, observerVars, editVars>>
Observes == /\ \/ part = "judging" /\ Judging
               \/ part = "storing" /\ Storing
            /\ UNCHANGED <<part, centralVars, contextVars, editVars>>
Edits == part = "edits" /\ EditNext /\ UNCHANGED <<part, centralVars, contextVars, observerVars>>

PartsInit ==
  /\ part \in {"locks", "settings", "stream", "files", "talk", "judging", "storing", "edits"}
  /\ Init /\ ConfigInit /\ StreamInit
  /\ ContextInit /\ ObserverInit /\ EditInit
  /\ part \notin {"files", "talk"} => msgs = <<Said(Dont, 1, Min(Size))>>
PartsNext == Locks \/ Config \/ Stream \/ Requests \/ Observes \/ Edits

PartsSpec == PartsInit /\ [][PartsNext]_partsVars
=============================================================================
