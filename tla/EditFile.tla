------------------------------ MODULE EditFile ------------------------------
(***************************************************************************)
(* The edit and write tools of di-core (tools/edit_file.rs, write_file of  *)
(* tools/mod.rs) on one file that several agents share.  A line is a text  *)
(* and an identity of its own (a ghost: two lines may have the same text). *)
(* An agent addresses lines by the anchors it saw when it last read the    *)
(* file; edit_file reads the file, resolves the anchors, splices the edits *)
(* bottom to top, writes a temporary file and renames it, and then reports *)
(* the changed places.  Between its read and its rename nothing keeps      *)
(* another agent's call out.  write_file opens the file with O_TRUNC and   *)
(* then writes, two steps another call can fall between.                   *)
(***************************************************************************)
EXTENDS Integers, Sequences, FiniteSets, SequencesExt

CONSTANTS Agent,      \* agents, each on a thread of its own
          Batcher,    \* bound: the agents that send two edits in a call
          LineText,       \* the texts a line can have
          HashOf,     \* the three-character hash of a text
          DigitHash,  \* the hashes that are digits only
          Carried,    \* what edit_file keeps of a text that an anchor carries: the
                      \* end trimmed, and without a word and "|" at the start
          AsAnchor,   \* what a text says if it is taken for an anchor itself
          NoAnchor,   \* or that it says none
          Norm,       \* a text as it is compared (tabs, blanks at the end)
          Near,       \* pairs of compared texts at least 90 % alike
          Radius,     \* FUZZY_SEARCH_RADIUS
          NewText,    \* the text an edit or a write brings in (hashes stripped)
          Blank,      \* the empty text
          FirstLines, \* the texts of the file at first
          MaxEditCalls    \* bound: edit and write calls of one agent

ASSUME EditAssumption ==
  /\ IsFiniteSet(Agent) /\ Batcher \subseteq Agent /\ MaxEditCalls \in Nat
  /\ FirstLines \in Seq(LineText) /\ {NewText, Blank} \subseteq LineText
  /\ NewText # Blank
  /\ Carried \in [LineText -> LineText] /\ Carried[Blank] = Blank
  /\ Radius \in Nat

VARIABLES onDisk,   \* the lines of the file
          torn,   \* agents between O_TRUNC and the write
          seen,   \* the lines an agent saw when it last read the file
          plan,   \* what an edit call works on between read and rename
          begun   \* calls each agent has started

editVars == <<onDisk, torn, seen, plan, begun>>

Line(n, t) == [id |-> n, text |-> t]
Idle == [phase |-> "idle"]

-----------------------------------------------------------------------------
(* Anchors *)

(* FileAnchorIndex::new: lines whose hash is unique get the bare hash, the *)
(* others are numbered in file order.                                      *)
Twins(lines, i) == {j \in DOMAIN lines : HashOf[lines[j].text] = HashOf[lines[i].text]}

AnchorAt(lines, i) ==
  [hash |-> HashOf[lines[i].text],
   nth  |-> IF Twins(lines, i) = {i} THEN 0
            ELSE Cardinality({j \in Twins(lines, i) : j <= i})]

LineOf(lines, anchor) ==
  {i \in DOMAIN lines : AnchorAt(lines, i) = [hash |-> anchor.hash, nth |-> anchor.nth]}

Alike(t, u) ==
  IF Norm[t] = Norm[u] THEN 2 ELSE IF <<Norm[t], Norm[u]>> \in Near THEN 1 ELSE 0

Around(lines, at) == {i \in DOMAIN lines : i - at <= Radius /\ at - i <= Radius}

(* fuzzy_match_content: the first best line around the one named.          *)
BestMatch(lines, at, t) ==
  CHOOSE i \in Around(lines, at) :
    \A j \in Around(lines, at) :
      \/ Alike(t, lines[j].text) < Alike(t, lines[i].text)
      \/ Alike(t, lines[j].text) = Alike(t, lines[i].text) /\ i <= j

(* parse_anchor_from_line, and the echo that resolve_anchor strips.  A     *)
(* hash of digits with its "|" passes for the line number of a listing,    *)
(* and what follows it is read as the anchor.                              *)
Parsed(anchor) ==
  IF anchor.hash \in DigitHash /\ anchor.nth = 0 /\ ~anchor.bare
  THEN AsAnchor[anchor.text]
  ELSE [hash |-> anchor.hash, nth |-> anchor.nth,
        text |-> IF anchor.bare THEN Blank ELSE Carried[anchor.text]]

Named(lines, p) == CHOOSE i \in LineOf(lines, p) : TRUE

(* resolve_anchor: without a text the hash is trusted; a text that does    *)
(* not fit is looked for nearby; 0 is an anchor that cannot be resolved.   *)
Resolve_HashIsEnough(lines, anchor) ==
  LET p == Parsed(anchor)
  IN  IF p = NoAnchor \/ LineOf(lines, p) = {} THEN 0 ELSE Named(lines, p)
Resolve(lines, anchor) ==
  LET p == Parsed(anchor)
      at == Named(lines, p)
      best == BestMatch(lines, at, p.text)
  IN  IF p = NoAnchor \/ LineOf(lines, p) = {} THEN 0
      ELSE IF p.text = Blank \/ Norm[lines[at].text] = Norm[p.text] THEN at
      ELSE IF Alike(p.text, lines[best].text) >= 1 THEN best ELSE 0

(* resolve_edits: an edit is dropped when an anchor is unknown or the end  *)
(* comes before the start.                                                 *)
Resolved(lines, edits) ==
  LET At(e) == [kind |-> e.kind, text |-> e.text, asked |-> <<e.start, e.end>>,
                from |-> Resolve(lines, e.start),
                to   |-> IF e.kind = "replace" THEN Resolve(lines, e.end)
                         ELSE Resolve(lines, e.start)]
      Good(r) == r.from > 0 /\ r.to >= r.from
      Of(k) == LET r == At(edits[k]) IN
               IF k \in DOMAIN edits /\ Good(r) THEN <<r>> ELSE <<>>
  IN  Of(1) \o Of(2)

-----------------------------------------------------------------------------
(* Splicing *)

(* sort_by on the line index, descending; the sort is stable.              *)
BottomUp_TopDown(rs) ==
  IF Len(rs) = 2 /\ rs[1].from > rs[2].from THEN <<rs[2], rs[1]>> ELSE rs
BottomUp(rs) ==
  IF Len(rs) = 2 /\ rs[1].from < rs[2].from THEN <<rs[2], rs[1]>> ELSE rs

(* Where an edit is spliced in and how many lines it takes out.            *)
SpliceAt(r) == IF r.kind = "after" THEN r.from + 1 ELSE r.from
Removed(r)  == IF r.kind = "replace" THEN r.to - r.from + 1 ELSE 0
Overlong(lines, r) == SpliceAt(r) + Removed(r) - 1 > Len(lines)

Splice(lines, r, new) ==
  SubSeq(lines, 1, SpliceAt(r) - 1) \o new
    \o SubSeq(lines, SpliceAt(r) + Removed(r), Len(lines))

(* The lines an edit brings in: none when its text is empty.               *)
Fresh(n, r) == IF r.text = Blank THEN <<>> ELSE <<Line(n, r.text)>>

(* apply_edits: Vec::splice panics when the range reaches past the end.    *)
Apply(lines, rs, n) ==
  LET es == BottomUp(rs)
      one == Splice(lines, es[1], Fresh(n, es[1]))
  IN  IF Overlong(lines, es[1]) THEN [ok |-> FALSE, lines |-> lines]
      ELSE IF Len(es) = 1 THEN [ok |-> TRUE, lines |-> one]
      ELSE IF Overlong(one, es[2]) THEN [ok |-> FALSE, lines |-> lines]
      ELSE [ok |-> TRUE, lines |-> Splice(one, es[2], Fresh(n + 1, es[2]))]

(* The place apply_edits reports for an edit: its own line, shifted by the *)
(* edits above it.                                                         *)
Grown(r) == Len(Fresh(0, r)) - Removed(r)
Shift_None(rs, r) == 0
Shift(rs, r) ==
  LET GrownAbove(k) == IF k \in DOMAIN rs /\ rs[k].from < r.from THEN Grown(rs[k]) ELSE 0
  IN  GrownAbove(1) + GrownAbove(2)

(* create_results_response slices the new hashes from the reported start   *)
(* to the reported end, cut at the last line: an empty file or a start     *)
(* past the end plus one panics.                                           *)
ReportPanics(rs, new) ==
  \/ Len(new) = 0
  \/ \E k \in DOMAIN rs :
       LET s == rs[k].from + Shift(rs, rs[k])
           w == Len(Fresh(0, rs[k]))
           e == s + (IF w = 0 THEN 0 ELSE w - 1)
       IN  s < 1 \/ s > (IF e < Len(new) THEN e ELSE Len(new)) + 1

-----------------------------------------------------------------------------
(* What an agent can ask for *)

AnchorsOf(lines) ==
  {[hash |-> AnchorAt(lines, i).hash, nth |-> AnchorAt(lines, i).nth,
    text |-> lines[i].text, id |-> lines[i].id, bare |-> b] :
     i \in DOMAIN lines, b \in BOOLEAN}

EditsOf(lines) ==
  {[kind |-> "replace", start |-> s, end |-> e, text |-> t] :
     s \in AnchorsOf(lines), e \in AnchorsOf(lines), t \in {NewText, Blank}}
  \cup {[kind |-> k, start |-> s, end |-> s, text |-> NewText] :
     k \in {"before", "after"}, s \in AnchorsOf(lines)}

(* One edit, or two with their lines' texts and (a bound) their anchors in *)
(* the order of the file.                                                  *)
Bare(e) == e.start.bare /\ e.end.bare
Full(e) == ~e.start.bare /\ ~e.end.bare
Forward(e, lines) ==
  \E i, j \in DOMAIN lines : i <= j /\ lines[i].id = e.start.id /\ lines[j].id = e.end.id
EditLists(a, lines) ==
  {<<e>> : e \in {d \in EditsOf(lines) : Bare(d) \/ Full(d)}}
  \cup (IF a \in Batcher
        THEN LET Pairable == {e \in EditsOf(lines) : Full(e) /\ Forward(e, lines)}
             IN  Pairable \X Pairable
        ELSE {})

(* Identities no line has had.                                             *)
Started == Cardinality({p \in Agent \X (1 .. MaxEditCalls) : p[2] <= begun[p[1]]})
FreshId == Len(FirstLines) + 100 * (Started + 1)

EditInit ==
  /\ onDisk = [i \in DOMAIN FirstLines |-> Line(i, FirstLines[i])]
  /\ torn = {}
  /\ seen = [a \in Agent |-> onDisk]
  /\ plan = [a \in Agent |-> Idle]
  /\ begun = [a \in Agent |-> 0]

(* The agent may start a call.                                             *)
Free(a) == plan[a] = Idle /\ a \notin torn /\ begun[a] < MaxEditCalls

(* A read of the whole file.  A file cut by O_TRUNC has one blank line.    *)
Look(a) ==
  /\ plan[a] = Idle /\ a \notin torn
  /\ seen[a] # onDisk
  /\ seen' = [seen EXCEPT ![a] = onDisk]
  /\ UNCHANGED <<onDisk, torn, plan, begun>>

(* edit_file up to its rename: read_to_string, resolve, splice.  All edits *)
(* unresolved is an error answer; a panic ends the agent's task.           *)
LoadEdit(a, edits) ==
  LET rs == Resolved(onDisk, edits)
      res == Apply(onDisk, rs, FreshId)
  IN  /\ Free(a)
      /\ begun' = [begun EXCEPT ![a] = @ + 1]
      /\ plan' = [plan EXCEPT ![a] =
           IF rs = <<>> THEN Idle
           ELSE [phase |-> IF res.ok THEN "loaded" ELSE "dead",
                 base |-> onDisk, edits |-> rs, new |-> res.lines]]
      /\ UNCHANGED <<onDisk, torn, seen>>

(* create_results_response runs after the rename, and after a dry run.     *)
Reported(p) == IF ReportPanics(p.edits, p.new) THEN [p EXCEPT !.phase = "dead"] ELSE Idle

(* The rename, and the answer with the new anchors; reporting can panic    *)
(* when the file has already changed.                                      *)
CommitEdit(a) ==
  /\ plan[a].phase = "loaded"
  /\ onDisk' = plan[a].new
  /\ seen' = [seen EXCEPT ![a] = plan[a].new]
  /\ plan' = [plan EXCEPT ![a] = Reported(plan[a])]
  /\ UNCHANGED <<torn, begun>>

(* No temporary name, or a failed write or rename: an error answer, and    *)
(* the file stays as it is.                                                *)
FailWrite(a) ==
  /\ plan[a].phase = "loaded"
  /\ plan' = [plan EXCEPT ![a] = Idle]
  /\ UNCHANGED <<onDisk, torn, seen, begun>>

(* A dry run reports and writes nothing.                                   *)
DryRun(a) ==
  /\ plan[a].phase = "loaded"
  /\ plan' = [plan EXCEPT ![a] = Reported(plan[a])]
  /\ UNCHANGED <<onDisk, torn, seen, begun>>

(* write_file: tokio::fs::write opens with O_TRUNC, then writes.           *)
StartWrite(a) ==
  /\ Free(a)
  /\ begun' = [begun EXCEPT ![a] = @ + 1]
  /\ onDisk' = <<Line(0, Blank)>>
  /\ torn' = torn \cup {a}
  /\ UNCHANGED <<seen, plan>>

FinishWrite(a) ==
  /\ a \in torn
  /\ onDisk' = <<Line(FreshId + 50, NewText)>>
  /\ torn' = torn \ {a}
  /\ UNCHANGED <<seen, plan, begun>>

EditNext == \E a \in Agent :
          \/ Look(a)
          \/ Free(a) /\ \E edits \in EditLists(a, seen[a]) : LoadEdit(a, edits)
          \/ CommitEdit(a) \/ FailWrite(a) \/ DryRun(a)
          \/ StartWrite(a) \/ FinishWrite(a)

EditSpec == EditInit /\ [][EditNext]_editVars

-----------------------------------------------------------------------------
(* Properties *)

Kept(r) == IF r.kind = "replace" THEN {} ELSE {r.from}
Cut(r)  == IF r.kind = "replace" THEN r.from .. r.to ELSE {}

(* Edits of different lines: no line is replaced twice, or replaced and    *)
(* the anchor of an insertion, or the anchor of two.  (Two insertions at   *)
(* one line do not keep their order, and one before and one after a line   *)
(* both come out before it when they are sent in that order.)              *)
Apart(r, s) == (Cut(r) \cup Kept(r)) \cap (Cut(s) \cup Kept(s)) = {}
Separate(rs) == \A j, k \in DOMAIN rs : j # k => Apart(rs[j], rs[k])

(* What a list of separate edits means, line by line from the top.         *)
Meant(lines, rs) ==
  LET TextsAt(kind, i) ==
        IF \E k \in DOMAIN rs : rs[k].kind = kind /\ rs[k].from = i /\ rs[k].text # Blank
        THEN <<rs[CHOOSE k \in DOMAIN rs : rs[k].kind = kind /\ rs[k].from = i].text>>
        ELSE <<>>
      Own(i) == IF \E k \in DOMAIN rs : i \in Cut(rs[k]) THEN <<>> ELSE <<lines[i].text>>
  IN  FlattenSeq([i \in DOMAIN lines |->
        TextsAt("before", i) \o TextsAt("replace", i) \o Own(i) \o TextsAt("after", i)])

TextsOf(lines) == [i \in DOMAIN lines |-> lines[i].text]

(* However the edits of one call are ordered, the file it is about to      *)
(* write is the one they mean, as long as they are separate (apply_edits   *)
(* splices in place, from the bottom up, with indices of the old file).    *)
SplicesExact ==
  \A a \in Agent :
    plan[a].phase = "loaded" /\ Separate(plan[a].edits)
      => TextsOf(plan[a].new) = Meant(plan[a].base, plan[a].edits)

(* Where an anchor has landed.                                             *)
Lands(lines, i, anchor) ==
  LET p == Parsed(anchor) IN
  p.text # Blank =>
    /\ Alike(p.text, lines[i].text) >= 1
    /\ \A j \in Around(lines, Named(lines, p)) :
         /\ lines[j].id = anchor.id
         /\ Norm[p.text] = Norm[anchor.text]
         /\ \A h \in DOMAIN lines : Norm[lines[h].text] = Norm[anchor.text] => h = j
         => i = j

(* An anchor with a text lands only on a line that reads like what         *)
(* edit_file has kept of that text.  Where it has kept all of it, the      *)
(* anchor is on the very line the agent saw if that line is still there,   *)
(* near the line that now has its hash, and no other reads the same,       *)
(* whatever others did to the file in between and whatever hashes collide. *)
(*   It has not kept all of a text that begins like an anchor ("a|b" is    *)
(* looked for as "b"), nor of one after a hash of digits: such an anchor   *)
(* may land on another line than the one it was read from, or on none.     *)
AnchorsHold ==
  \A a \in Agent : plan[a].phase = "loaded" =>
    \A k \in DOMAIN plan[a].edits :
      LET e == plan[a].edits[k]
      IN  ~e.asked[1].bare => /\ Lands(plan[a].base, e.from, e.asked[1])
                              /\ Lands(plan[a].base, e.to, e.asked[2])

(* The edit tool takes its agent's task down (an index or a splice out of  *)
(* range) only over edits that are not separate or that leave the file     *)
(* without a line; separate edits that leave a line never panic, in the    *)
(* splice or in the report that follows the rename.                        *)
PanicsOnlyOnOverlap ==
  \A a \in Agent :
    plan[a].phase = "dead" => ~Separate(plan[a].edits) \/ plan[a].new = <<>>
=============================================================================
