------------------------------ MODULE Editors ------------------------------
(***************************************************************************)
(* The frontend's four text editors (divrr/src/input.rs, hooks_editor.rs,  *)
(* settings.rs, app.rs): the input box with its history, the editor of a   *)
(* session's hooks, the secret of the settings dialog, and the path of the *)
(* dialog that saves a block.  A text is a sequence of characters; the     *)
(* cursors of the first three count BYTES, as Rust strings are cut, so a   *)
(* cursor inside a character ends the program.                             *)
(***************************************************************************)
EXTENDS Integers, SequencesExt

CONSTANTS
  Char,          \* for each editor the characters that are typed into it
  Pastes,        \* for each editor the texts that are pasted into it
  MaxInput,      \* MAX_INPUT_BYTES
  MaxHistory,    \* how many submitted texts the input box keeps
  HookFiles,     \* the session's hook file as the editor may find it
  MaxSource,     \* bound: characters of a text that is typed into or saved
  MaxPath        \* bound: characters of a path

ASSUME EditorsAssumption ==
  /\ MaxInput \in Nat
  /\ \A s \in HookFiles \cup UNION {Pastes[x] : x \in {"input", "hooks", "secret", "path"}} :
       s \in Seq(ToSet(s))

VARIABLES
  open,     \* the editor that has the keys: "input", "hooks", "secret", "path", or "none"
  uses,     \* bound: the one editor the user opens
  edit,     \* its text and cursor
  input,    \* the input box: multi_line, history, and the entry shown (0: none)
  hooks,    \* the hooks editor: agent_id given, saved, error, diagnostics
  warned,   \* the save dialog: exists_warned
  exists,   \* the files that exist among those the dialog can name
  crashed   \* a string was cut inside a character

editorVars == <<open, uses, edit, input, hooks, warned, exists, crashed>>

\* "x", a word that is no statement; "hint", a statement; "@", an annotation; "wide", a
\* letter of two bytes; "..", a path component.
Width(c) == IF c = "wide" THEN 2 ELSE IF c = "hint" THEN 4 ELSE 1
Space == " "
NewLine == "nl"
Quote == "quote"
Backslash == "backslash"
Letters == {"x", "wide", "hint"}
Statements == {<<"hint">>}

-----------------------------------------------------------------------------
(* A text with a cursor.                                                   *)

\* The bytes of the first n characters.
BytesTo(t, n) ==
  LET sum[k \in 0 .. Len(t)] == IF k = 0 THEN 0 ELSE sum[k - 1] + Width(t[k]) IN sum[n]
Bytes(t) == BytesTo(t, Len(t))
Boundaries(t) == {BytesTo(t, n) : n \in 0 .. Len(t)}
At(e) == CHOOSE n \in 0 .. Len(e.text) : BytesTo(e.text, n) = e.cur
Before(e) == SubSeq(e.text, 1, At(e))
After(e) == SubSeq(e.text, At(e) + 1, Len(e.text))
Buffer(t, cur) == [text |-> t, cur |-> cur]

\* insert, insert_str
Inserted(e, s) == Buffer(Before(e) \o s \o After(e), e.cur + Bytes(s))

Backspaced(e) ==
  IF e.cur = 0 THEN e
  ELSE Buffer(Front(Before(e)) \o After(e), e.cur - Width(Last(Before(e))))

Deleted(e) == IF After(e) = <<>> THEN e ELSE Buffer(Before(e) \o Tail(After(e)), e.cur)

MovedLeft(e) == IF e.cur = 0 THEN e ELSE [e EXCEPT !.cur = @ - Width(Last(Before(e)))]

MovedRight(e) == IF After(e) = <<>> THEN e ELSE [e EXCEPT !.cur = @ + Width(Head(After(e)))]

AtHome(e) == [e EXCEPT !.cur = 0]

AtEnd(e) == [e EXCEPT !.cur = Bytes(e.text)]

\* The keys that all of the editors have.
Plain(e) == {Backspaced(e), Deleted(e), MovedLeft(e), MovedRight(e), AtHome(e), AtEnd(e)}

-----------------------------------------------------------------------------
(* The input box.                                                          *)

Blank == Buffer(<<>>, 0)
NewHooks == [agent |-> FALSE, saved |-> TRUE, error |-> FALSE, errors |-> {}]

\* The longest prefix of whole characters that fits.
Fitting(s, room) == SubSeq(s, 1, Max({n \in 0 .. Len(s) : BytesTo(s, n) <= room}))

BoxTyped(c) ==
  IF Bytes(edit.text) + Width(c) > MaxInput THEN edit ELSE Inserted(edit, <<c>>)

BoxPasted(s) ==
  IF Bytes(edit.text) >= MaxInput THEN edit
  ELSE Inserted(edit, Fitting(s, MaxInput - Bytes(edit.text)))

\* Enter outside the multi-line mode: the text is kept in the history, the draft is gone.
Submitted ==
  /\ edit' = Blank
  /\ input' = [input EXCEPT
       !.at = 0,
       !.history = IF edit.text = <<>> THEN @
                   ELSE LET h == Append(@, edit.text)
                        IN  IF Len(h) > MaxHistory THEN Tail(h) ELSE h]

\* An entry of the history replaces the draft.
Recalled(n) ==
  LET t == input.history[n]
  IN  /\ edit' = AtEnd(Buffer(t, 0))
      /\ input' = [input EXCEPT !.at = n, !.multi = @ \/ NewLine \in ToSet(t)]

HistoryUp ==
  /\ input.history # <<>>
  /\ LET n == IF input.at = 0 THEN Len(input.history) ELSE input.at - 1
     IN  n > 0 /\ Recalled(n)

HistoryDown ==
  /\ input.at # 0
  /\ IF input.at < Len(input.history) THEN Recalled(input.at + 1)
     ELSE edit' = Blank /\ input' = [input EXCEPT !.at = 0]

InputKey ==
  /\ open = "input"
  /\ \/ /\ \/ edit' \in Plain(edit)
           \/ \E c \in Char["input"] : edit' = BoxTyped(c)
           \/ \E s \in Pastes["input"] : edit' = BoxPasted(s)
           \/ input.multi /\ edit' = BoxTyped(NewLine)
        /\ UNCHANGED input
     \/ ~input.multi /\ Submitted
     \/ HistoryUp
     \/ HistoryDown
     \/ input' = [input EXCEPT !.multi = ~@] /\ UNCHANGED edit
  /\ UNCHANGED <<open, hooks, warned, crashed>>

-----------------------------------------------------------------------------
(* The editor of a session's hooks.                                        *)

\* move_up searches the text before the cursor less its last BYTE.
CutsCharacter(e) == e.cur > 0 /\ e.cur - 1 \notin Boundaries(e.text)

LineStarts(t) == {0} \cup {BytesTo(t, n) : n \in {m \in 1 .. Len(t) : t[m] = NewLine}}

MovedUp(e) ==
  [e EXCEPT !.cur = IF e.cur = 0 THEN 0 ELSE Max({b \in LineStarts(e.text) : b < e.cur})]

MovedDown(e) ==
  [e EXCEPT !.cur = LET below == {b \in LineStarts(e.text) : b > e.cur}
                    IN  IF below = {} THEN Bytes(e.text) ELSE Min(below)]

Leading(t, set) == SubSeq(t, 1, Max({n \in 0 .. Len(t) : ToSet(SubSeq(t, 1, n)) \subseteq set}))
Rest(t, u) == SubSeq(t, Len(u) + 1, Len(t))

\* Of the spaces that begin a line only the first counts.
LineIndent(t) == IF t # <<>> /\ Head(t) = Space THEN 1 ELSE 0

\* A closing parenthesis, the spaces and the word behind it, before next: a statement or
\* an annotation starts a line, and any other word is written here and again with next.
AtParen(spaces, word, next) ==
  IF next # <<>> /\ (Head(next) = "@" \/ word \in Statements)
  THEN <<")", NewLine>>
  ELSE <<")">> \o spaces \o word

\* normalize_source at character k: the text written, the next character to look at, the
\* indentation of the line, in a string literal or not, behind a backslash or not.
NormalAt(t, k, s) ==
  LET c == t[k]
      spaces == Leading(SubSeq(t, k + 1, Len(t)), {Space})
      rest == SubSeq(t, k + 1 + Len(spaces), Len(t))
      breaks == rest # <<>> /\ spaces # <<>> /\ Head(rest) # NewLine
      Writes(u, n) == [s EXCEPT !.text = @ \o u, !.next = k + 1 + n]
  IN  CASE k < s.next -> s
        [] k >= s.next /\ s.literal ->
             [Writes(<<c>>, 0) EXCEPT !.literal = c # Quote \/ s.escape,
                                      !.escape = c = Backslash /\ ~s.escape]
        [] k >= s.next /\ ~s.literal /\ c = ")" ->
             Writes(AtParen(spaces, Leading(rest, Letters), rest), Len(spaces))
        [] k >= s.next /\ ~s.literal /\ c = ":" ->
             IF breaks
             THEN [Writes(<<c, NewLine>> \o [i \in 1 .. s.indent + 4 |-> Space], Len(spaces))
                   EXCEPT !.indent = @ + 4]
             ELSE Writes(<<c>> \o spaces, Len(spaces))
        [] k >= s.next /\ ~s.literal /\ c \notin {")", ":"} ->
             [Writes(<<c>>, 0) EXCEPT
                !.indent = IF c = NewLine THEN LineIndent(SubSeq(t, k + 1, Len(t))) ELSE @,
                !.literal = c = Quote]

Normalized(t) ==
  LET start == [text |-> <<>>, next |-> 1, indent |-> LineIndent(t), literal |-> FALSE, escape |-> FALSE]
      upTo[k \in 0 .. Len(t)] == IF k = 0 THEN start ELSE NormalAt(t, k, upTo[k - 1])
  IN  upTo[Len(t)].text

\* validate: a backslash is passed over, and the character behind it is not.
Validated(t) ==
  LET Scan(s, c) ==
        IF s.literal THEN [s EXCEPT !.literal = c # Quote]
        ELSE [literal |-> c = Quote,
              parens |-> s.parens + (IF c = "(" THEN 1 ELSE IF c = ")" THEN -1 ELSE 0)]
      end == FoldLeft(Scan, [literal |-> FALSE, parens |-> 0], t)
  IN  IF ToSet(t) \subseteq {Space, NewLine} THEN {"empty"}
      ELSE {e \in {"literal", "parens"} : IF e = "literal" THEN end.literal ELSE end.parens # 0}

\* An edit that changes the text.
HooksEdited(e) ==
  /\ edit' = e
  /\ hooks' = [hooks EXCEPT !.saved = @ /\ e.text = edit.text]

\* Up: the slice may end inside a character.
GoUp ==
  IF CutsCharacter(edit) THEN crashed' = TRUE /\ UNCHANGED edit
  ELSE edit' = MovedUp(edit) /\ UNCHANGED crashed

Written(t, ok) ==
  /\ edit' = t
  /\ hooks' = IF ok THEN [hooks EXCEPT !.saved = TRUE, !.error = FALSE]
              ELSE [hooks EXCEPT !.error = TRUE]

\* Ctrl+S: the normalised text to the session's file, when an agent is active.
SaveSession ==
  IF hooks.agent
  THEN \E ok \in BOOLEAN : Written(AtEnd(Buffer(Normalized(edit.text), 0)), ok)
  ELSE hooks' = [hooks EXCEPT !.error = TRUE] /\ UNCHANGED edit

\* Ctrl+R: the text as it is to the repository's file.
SaveRepo == \E ok \in BOOLEAN : Written(edit, ok)

HooksKey ==
  /\ open = "hooks"
  /\ \/ /\ \/ \E e \in Plain(edit) \cup {MovedDown(edit)} : HooksEdited(e)
           \/ \E s \in {<<c>> : c \in Char["hooks"] \cup {NewLine}} \cup Pastes["hooks"] :
                Len(edit.text) + Len(s) <= MaxSource /\ HooksEdited(Inserted(edit, s))
           \/ Len(edit.text) <= MaxSource /\ (SaveSession \/ SaveRepo)
           \/ hooks' = [hooks EXCEPT !.errors = Validated(edit.text)] /\ UNCHANGED edit
        /\ UNCHANGED crashed
     \/ GoUp /\ UNCHANGED hooks
  /\ UNCHANGED <<open, input, warned>>

-----------------------------------------------------------------------------
(* The secret of the settings dialog: only ASCII is typed into it.         *)

Printable(s) ==
  LET upTo[k \in 0 .. Len(s)] ==
        IF k = 0 THEN <<>>
        ELSE IF s[k] = NewLine THEN upTo[k - 1] ELSE Append(upTo[k - 1], s[k])
  IN  upTo[Len(s)]

SecretTyped_AnyChar(c) == [Inserted(edit, <<c>>) EXCEPT !.cur = edit.cur + 1]

SecretTyped(c) == IF Width(c) > 1 THEN edit ELSE [Inserted(edit, <<c>>) EXCEPT !.cur = edit.cur + 1]

SecretInput ==
  /\ open = "secret"
  /\ \/ edit' \in Plain(edit)
     \/ /\ Len(edit.text) < MaxPath
        /\ \/ \E c \in Char["secret"] : edit' = SecretTyped(c)
           \/ \E s \in Pastes["secret"] : edit' = Inserted(edit, Printable(s))
  /\ UNCHANGED <<open, input, hooks, warned, crashed>>

-----------------------------------------------------------------------------
(* The path of the dialog that saves a block: its cursor counts CHARACTERS.*)

CharsIn(e, s) == Buffer(SubSeq(e.text, 1, e.cur) \o s \o SubSeq(e.text, e.cur + 1, Len(e.text)),
                        e.cur + Len(s))
CharOut(e) == Buffer(RemoveAt(e.text, e.cur + 1), e.cur)
CharsLeft(e) == [e EXCEPT !.cur = Max({0, @ - 1})]

\* The keys that change the path forget the warning.
PathEdits ==
  {CharsIn(edit, <<c>>) : c \in Char["path"]} \cup {CharsIn(edit, s) : s \in Pastes["path"]}
    \cup (IF edit.cur > 0 THEN {CharOut(CharsLeft(edit))} ELSE {})
    \cup (IF edit.cur < Len(edit.text) THEN {CharOut(edit)} ELSE {})

PathMoves ==
  {CharsLeft(edit), [edit EXCEPT !.cur = Min({@ + 1, Len(edit.text)})],
   [edit EXCEPT !.cur = 0], [edit EXCEPT !.cur = Len(edit.text)]}

Trimmed(t) ==
  LET Bare(s) == Rest(s, Leading(s, {Space, NewLine})) IN Reverse(Bare(Reverse(Bare(t))))

Leave == open' = "none" /\ edit' = Blank

SaveBlock ==
  LET p == Trimmed(edit.text)
      asks == p \in exists /\ ~warned
  IN  /\ p # <<>>
      /\ \/ ".." \in ToSet(p) /\ Leave /\ UNCHANGED <<warned, exists>>
         \/ /\ ".." \notin ToSet(p) /\ asks
            /\ warned' = TRUE
            /\ UNCHANGED <<open, edit, exists>>
         \/ /\ ".." \notin ToSet(p) /\ ~asks
            /\ Leave
            /\ exists' \in {exists, exists \cup {p}}
            /\ UNCHANGED warned

PathKey ==
  /\ open = "path"
  /\ \/ /\ edit' \in PathEdits /\ Len(edit'.text) <= MaxPath
        /\ warned' = FALSE
        /\ UNCHANGED <<open, exists>>
     \/ edit' \in PathMoves /\ UNCHANGED <<open, warned, exists>>
     \/ SaveBlock
  /\ UNCHANGED <<input, hooks, crashed>>

-----------------------------------------------------------------------------
(* The editors open and close.                                             *)

\* The input box keeps its text while it has no keys; the others start anew, the hooks
\* editor with the session's file, the secret with its value.
OpenEditor ==
  /\ open = "none"
  /\ open' = uses
  /\ CASE uses = "input" -> UNCHANGED <<edit, hooks, warned>>
       [] uses = "hooks" ->
            \E f \in HookFiles, agent \in BOOLEAN :
              /\ edit' = Buffer(IF agent THEN f ELSE <<>>, 0)
              /\ hooks' = [NewHooks EXCEPT !.agent = agent]
              /\ UNCHANGED warned
       [] uses = "secret" ->
            /\ \E s \in Pastes["secret"] : edit' = AtEnd(Buffer(Printable(s), 0))
            /\ UNCHANGED <<hooks, warned>>
       [] uses = "path" ->
            /\ edit' = Buffer(<<"x">>, 1)
            /\ warned' = FALSE
            /\ UNCHANGED hooks
  /\ UNCHANGED input

\* Esc.
CloseEditor ==
  /\ open # "none"
  /\ open' = "none"
  /\ edit' = IF open = "input" THEN edit ELSE Blank
  /\ UNCHANGED <<input, hooks, warned>>

\* Another process makes a file or removes it.
FileChanges ==
  /\ open = "path"
  /\ \E p \in {<<"x">>, <<"x", "x">>} : exists' = SymDiff(exists, {p})

EditorsInit ==
  /\ open = "none"
  /\ uses \in {"input", "hooks", "secret", "path"}
  /\ edit = Blank
  /\ input = [multi |-> FALSE, history |-> <<>>, at |-> 0]
  /\ hooks = NewHooks
  /\ warned = FALSE
  /\ exists = {}
  /\ crashed = FALSE

EditorsNext ==
  /\ ~crashed
  /\ UNCHANGED uses
  /\ \/ (InputKey \/ HooksKey \/ SecretInput) /\ UNCHANGED exists
     \/ PathKey
     \/ (OpenEditor \/ CloseEditor) /\ UNCHANGED <<exists, crashed>>
     \/ FileChanges /\ UNCHANGED <<open, edit, input, hooks, warned, crashed>>

EditorsSpec == EditorsInit /\ [][EditorsNext]_editorVars

-----------------------------------------------------------------------------
(* Properties.                                                             *)

\* Through typing, pasting, erasing, moving and recalling, a cursor that counts bytes stays
\* between two characters and one that counts characters within the text, and the input
\* box within its limit: every key but Up in the hooks editor can cut the text where its
\* cursor is.
CursorsHold ==
  /\ edit.cur \in IF open = "path" THEN 0 .. Len(edit.text) ELSE Boundaries(edit.text)
  /\ uses = "input" => Bytes(edit.text) <= MaxInput

=============================================================================
