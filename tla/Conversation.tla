---------------------------- MODULE Conversation ----------------------------
(***************************************************************************)
(* What the frontend shows of an agent's conversation (divrr/src/agent.rs, *)
(* app.rs, line_cache.rs, ui/conversation.rs): one tab per agent with its  *)
(* log of blocks, the cursor over the blocks, the palette of actions on a  *)
(* block, and the scrolling.  Rendered lines and their counts are kept in  *)
(* a cache that the loop of main.rs brings up to date before it draws,     *)
(* once after every event and every key.                                   *)
(*   A text is how many lines it has; each is too wide for a narrow        *)
(* screen.  Prompts and the agents' states are the subject of Frontend.    *)
(***************************************************************************)
EXTENDS Integers, Sequences, FiniteSets, SequencesExt

CONSTANTS
  Height,        \* rows of the screen for the conversation and the queue
  MaxTabs,       \* bound: agents
  Lengths,       \* how many lines a text may have
  OffsetLimit,   \* rows that the offset handed to the widget can count (2^16)
  MaxNews,       \* bound: changes of the agents' logs
  MaxMoves       \* bound: keys of the user, and resizes

ASSUME ConversationAssumption ==
  /\ {Height, MaxTabs, MaxNews, MaxMoves} \subseteq Nat /\ Lengths \subseteq Nat \ {0}
  /\ OffsetLimit \in Nat \ {0}

VARIABLES
  tabs,      \* agents, in the order of their tabs
  active,    \* active_tab
  chosen,    \* selected_block
  scroll,    \* scroll_offset
  follow,    \* auto_scroll
  approves,  \* auto_approve
  palette,   \* "none", "actions" (Mode::Action), "save" (Mode::SaveDialog)
  before,    \* saved_expanded and saved_wrapped, while the palette is open
  width,     \* of the screen: "narrow" or "wide"
  cache,     \* line_cache, or NoCache
  placed,    \* the cursor was moved by the last key
  born, news, keys \* bounded: tabs opened, changes made, keys pressed (but those that end a dialog)

talkVars == <<tabs, active, chosen, scroll, follow, approves, palette, before, width, cache,
              placed, born, news, keys>>

NoCache == [width |-> "none"]
Unseen == [width |-> "none"]

-----------------------------------------------------------------------------
(* A tab: the log and how its blocks are shown.                            *)

NewTab(n) == [born |-> n, log |-> <<>>, streaming |-> "none", generation |-> 0,
              expanded |-> {}, wrapped |-> {}, pending |-> "none", ended |-> FALSE]

Block(t, kind, size) ==
  [at |-> <<t.born, Len(t.log) + 1>>, kind |-> kind, size |-> size, result |-> 0]

Changed(t) == [t EXCEPT !.generation = @ + 1]
Logged(t, kind, size) == [Changed(t) EXCEPT !.log = Append(@, Block(t, kind, size))]

\* finalize_streaming: a blank text leaves no block.
Sizes(t) == IF t.streaming = "none" THEN {0} ELSE {0} \cup Lengths
Finalized(t, size) ==
  IF t.streaming = "none" THEN t
  ELSE [(IF size = 0 THEN Changed(t) ELSE Logged(t, "text", size)) EXCEPT !.streaming = "none"]

\* set_tool_result: the generation is all that tells the cache.
Resulted(t, i, size) == [Changed(t) EXCEPT !.log[i].result = size]

Toggled(s, i) == IF i \in s THEN s \ {i} ELSE s \cup {i}

-----------------------------------------------------------------------------
(* Rendering a block, with all that the lines depend on.                   *)

\* A collapsed call shows how many lines its result has when they are several.
Look(t, i, w) ==
  LET b == t.log[i]
      isOpen == i \in t.expanded
  IN  [block |-> IF isOpen \/ b.result > 1 THEN b ELSE [b EXCEPT !.result = 0],
       isOpen |-> isOpen, wraps |-> i \in t.wrapped, width |-> w]

Rows(l) ==
  LET Wide(n, wraps) == IF wraps /\ l.width = "narrow" THEN 2 * n ELSE n
  IN  CASE l.block.kind = "finish" -> 1 + Wide(1, TRUE)
        [] l.block.kind # "finish" /\ ~l.isOpen -> 1
        [] l.block.kind = "tool" /\ l.isOpen ->
             1 + IF l.block.result = 0 THEN 1 ELSE Wide(l.block.result, l.wraps)
        [] l.block.kind = "text" /\ l.isOpen -> Wide(l.block.size, l.wraps)

RowsAbove(rows, i) ==
  LET sum[k \in 1 .. Len(rows) + 1] == IF k = 1 THEN 0 ELSE sum[k - 1] + rows[k - 1] IN sum[i]
Total(rows) == RowsAbove(rows, Len(rows) + 1)
Monus(a, b) == IF a > b THEN a - b ELSE 0

\* The block is on the screen that starts at top, or at most slack rows off it.
Near(rows, i, top, screen, slack) ==
  /\ Monus(RowsAbove(rows, i) + rows[i], 1) >= Monus(top, slack)
  /\ RowsAbove(rows, i) <= top + screen + slack

-----------------------------------------------------------------------------
(* The cache.                                                              *)

Valid(c, t, w) ==
  /\ c # NoCache
  /\ c.width = w /\ c.generation = t.generation
  /\ c.expanded = t.expanded /\ c.wrapped = t.wrapped

\* ensure_visible_blocks_cached: lines near the screen are rendered, and when too many
\* are kept those far from it are let go.
Seen(c, t, top, screen) ==
  LET Kept == {i \in DOMAIN c.lines : c.lines[i] # Unseen}
      Far(i) == Cardinality(Kept) > 3 * screen /\ ~Near(c.rows, i, top, screen, 2 * screen)
  IN  [c EXCEPT !.lines = [i \in DOMAIN c.lines |->
         IF i \in Kept THEN IF Far(i) THEN Unseen ELSE c.lines[i]
         ELSE IF Near(c.rows, i, top, screen, screen) THEN Look(t, i, c.width) ELSE Unseen]]

\* With as many blocks as before only the last one is rendered anew.
Reusable(c, t, w) ==
  /\ c # NoCache
  /\ c.width = w /\ c.expanded = t.expanded /\ c.wrapped = t.wrapped
  /\ Len(c.rows) = Len(t.log)
LastAnew(c, t, w) ==
  LET n == Len(t.log)
  IN  [c EXCEPT !.generation = t.generation, !.rows[n] = Rows(Look(t, n, w)),
                !.lines[n] = Look(t, n, w)]

AllAnew(t, w) ==
  LET looks == [i \in DOMAIN t.log |-> Look(t, i, w)]
  IN  [width |-> w, generation |-> t.generation, expanded |-> t.expanded,
       wrapped |-> t.wrapped, lines |-> looks, rows |-> [i \in DOMAIN looks |-> Rows(looks[i])]]

\* ensure_line_cache
Ensured(c, t, w, top, screen) ==
  CASE Valid(c, t, w) -> Seen(c, t, top, screen)
    [] ~Valid(c, t, w) /\ t.log = <<>> -> c
    [] ~Valid(c, t, w) /\ t.log # <<>> /\ Reusable(c, t, w) -> LastAnew(c, t, w)
    [] ~Valid(c, t, w) /\ t.log # <<>> /\ ~Reusable(c, t, w) -> AllAnew(t, w)

\* count_rendered_lines
Content(c, t) ==
  (IF c = NoCache THEN 0 ELSE Total(c.rows))
    + (IF t.streaming = "none" THEN 0 ELSE 1) + (IF t.pending = "none" THEN 0 ELSE 1)

-----------------------------------------------------------------------------
(* The screen: the queue takes a row for each prompt, and when nothing is  *)
(* left the loop reckons with 24 rows.                                     *)

Queued(ts) == Cardinality({n \in DOMAIN ts : ts[n].pending # "none"})
Screen(ts) == IF Height > Queued(ts) THEN Height - Queued(ts) ELSE 24

\* clamp_scroll
ClampedTop(top, content, screen, follows) ==
  LET most == Monus(content, screen)
  IN  IF follows \/ top > most THEN most ELSE top

\* The top of main's loop, with the new state.
Redraw(c, top) ==
  IF tabs' = <<>> THEN cache' = NoCache /\ scroll' = 0
  ELSE LET t == tabs'[active']
           now == Ensured(c, t, width', top, Screen(tabs'))
       IN  /\ cache' = now
           /\ scroll' = ClampedTop(top, Content(now, t), Screen(tabs'), follow')

\* build_all_lines: the selected block is always rendered anew.
Drawn(i) ==
  LET t == tabs[active]
  IN  IF i = chosen \/ cache = NoCache THEN Look(t, i, width)
      ELSE IF Len(cache.lines) # Len(t.log) \/ cache.lines[i] = Unseen THEN Look(t, i, width)
      ELSE cache.lines[i]

\* The first row on the screen: the offset is cast to 16 bits.
Top == scroll % OffsetLimit

TalkInit ==
  /\ tabs = <<>> /\ active = 1 /\ chosen = 1
  /\ scroll = 0 /\ follow = TRUE /\ approves = FALSE
  /\ palette = "none" /\ before = [expanded |-> {}, wrapped |-> {}]
  /\ width \in {"narrow", "wide"}
  /\ cache = NoCache /\ placed = FALSE /\ born = 0 /\ news = 0 /\ keys = 0

-----------------------------------------------------------------------------
(* The events of the core (handle_core_event).                             *)

Room == news < MaxNews

Hears(n, t) ==
  /\ tabs' = [tabs EXCEPT ![n] = t]
  /\ news' = news + 1
  /\ placed' = FALSE
  /\ UNCHANGED <<active, chosen, follow, approves, palette, before, width, born>>
  /\ Redraw(cache, scroll)

\* TaskInitialized: the line that greets the new agent goes to the active tab's log.
TabOpens ==
  /\ born < MaxTabs /\ Room
  /\ LET more == Append(tabs, NewTab(born + 1))
     IN  tabs' = [more EXCEPT ![active] = Logged(@, "text", 1)]
  /\ born' = born + 1
  /\ news' = news + 1
  /\ placed' = FALSE
  /\ UNCHANGED <<active, chosen, follow, approves, palette, before, width>>
  /\ Redraw(cache, scroll)

\* ThoughtDelta, with the text of an answer or of a thought.
Delta(n, kind) ==
  /\ Room
  /\ LET t == tabs[n]
     IN  \/ t.streaming = "none"
            /\ Hears(n, [Changed(t) EXCEPT !.streaming = kind, !.ended = FALSE])
         \/ t.streaming = kind /\ Hears(n, Changed(t))
         \/ /\ t.streaming \notin {"none", kind}
            /\ \E size \in Sizes(t) :
                 Hears(n, [Changed(Finalized(t, size)) EXCEPT !.streaming = kind])

\* ThoughtFinished
ThoughtEnds(n) ==
  /\ Room
  /\ tabs[n].streaming # "none"
  /\ \E size \in Sizes(tabs[n]) : Hears(n, Finalized(tabs[n], size))

\* ToolCallStarted, ToolCallFinished
CallStarts(n) ==
  /\ Room
  /\ \E size \in Sizes(tabs[n]) :
       Hears(n, [Logged(Finalized(tabs[n], size), "tool", 1) EXCEPT !.ended = FALSE])

CallEnds(n) ==
  /\ Room
  /\ \E i \in DOMAIN tabs[n].log, size \in Sizes(tabs[n]), lines \in Lengths :
       /\ tabs[n].log[i].kind = "tool" /\ tabs[n].log[i].result = 0
       /\ Hears(n, Resulted(Finalized(tabs[n], size), i, lines))

\* ApprovalNeeded, FollowupQuestion; with auto_approve on, nothing shows.
Asks(n, what) ==
  /\ Room
  /\ \E size \in Sizes(tabs[n]) :
       LET t == [Finalized(tabs[n], size) EXCEPT !.pending = what, !.ended = FALSE]
       IN  CASE what = "approval" /\ approves -> Hears(n, [tabs[n] EXCEPT !.pending = "none"])
             [] what = "approval" /\ ~approves -> Hears(n, t)
             [] what = "followup" -> \E lines \in Lengths : Hears(n, Logged(t, "text", lines))

\* TaskFinished, TaskPresented: once.
Finishes(n) ==
  /\ Room
  /\ ~tabs[n].ended
  /\ LET t == [tabs[n] EXCEPT !.pending = "none", !.ended = TRUE]
     IN  \/ LET quiet == IF t.streaming = "none" THEN t
                         ELSE [Changed(t) EXCEPT !.streaming = "none"]
            IN  Hears(n, Logged(quiet, "finish", 1))
         \/ \E size \in Sizes(t) : Hears(n, Logged(Finalized(t, size), "text", 1))

\* A system message: some events end the streaming first, some take the prompt back.
Notice(n) ==
  /\ Room
  /\ \/ Hears(n, Logged(tabs[n], "text", 1))
     \/ \E size \in Sizes(tabs[n]) : Hears(n, Logged(Finalized(tabs[n], size), "text", 1))
     \/ Hears(n, [Logged(tabs[n], "text", 1) EXCEPT !.pending = "none"])

CoreEvent(n) ==
  \/ \E kind \in {"answer", "thought"} : Delta(n, kind)
  \/ ThoughtEnds(n)
  \/ CallStarts(n)
  \/ CallEnds(n)
  \/ \E what \in {"approval", "followup"} : Asks(n, what)
  \/ Finishes(n)
  \/ Notice(n)

-----------------------------------------------------------------------------
(* The keys (handle_normal_mode).                                          *)

Idle == palette = "none"

\* j, k, PageDown, PageUp, Home and End; what scrolls down is clamped before the redraw.
Scrolls ==
  /\ Idle
  /\ LET screen == Screen(tabs)
         page == IF screen > 3 THEN screen - 2 ELSE 1
         content == IF tabs = <<>> THEN 0 ELSE Content(cache, tabs[active])
     IN  \/ \E d \in {1, page} :
              follow' = FALSE /\ Redraw(cache, ClampedTop(scroll + d, content, screen, FALSE))
         \/ \E d \in {1, page} : follow' = FALSE /\ Redraw(cache, Monus(scroll, d))
         \/ follow' = FALSE /\ Redraw(cache, 0)
         \/ follow' = TRUE /\ Redraw(cache, ClampedTop(scroll, content, screen, TRUE))
  /\ placed' = FALSE

\* move_block_cursor
Moves(d) ==
  /\ Idle
  /\ tabs # <<>>
  /\ tabs[active].log # <<>>
  /\ LET t == tabs[active]
         screen == Screen(tabs)
         warm == Ensured(cache, t, width, scroll, screen)
         to == IF d > 0 THEN IF chosen < Len(t.log) THEN chosen + 1 ELSE chosen
               ELSE IF chosen > 1 THEN chosen - 1 ELSE 1
         start == RowsAbove(warm.rows, to)
         tall == warm.rows[to]
         top == IF start < scroll THEN start
                ELSE IF start + tall > scroll + screen THEN start + Monus(tall, screen)
                ELSE scroll
     IN  /\ chosen' = to
         /\ follow' = FALSE
         /\ placed' = TRUE
         /\ Redraw(warm, top)

ViewKey ==
  /\ UNCHANGED <<tabs, active, approves, palette, before, width, born, news>>
  /\ \/ Scrolls /\ UNCHANGED chosen
     \/ \E d \in {-1, 1} : Moves(d)

\* The tab's state changes, and the conversation is drawn again.
Alters(t, c) ==
  /\ tabs' = [tabs EXCEPT ![active] = t]
  /\ placed' = FALSE
  /\ UNCHANGED <<active, chosen, approves, width, born>>
  /\ Redraw(c, scroll)

\* e
ExpandKey ==
  /\ Idle
  /\ tabs # <<>>
  /\ chosen <= Len(tabs[active].log)
  /\ UNCHANGED <<follow, palette, before, news>>
  /\ Alters([tabs[active] EXCEPT !.expanded = Toggled(@, chosen)], cache)

\* Tab, and the command that closes the active tab.
NextTab_KeepsCache ==
  /\ Idle
  /\ tabs # <<>>
  /\ active' = (active % Len(tabs)) + 1
  /\ chosen' = 1 /\ placed' = FALSE
  /\ UNCHANGED <<tabs, follow, approves, palette, before, width, born, news>>
  /\ Redraw(cache, 0)

NextTab ==
  /\ Idle
  /\ tabs # <<>>
  /\ active' = (active % Len(tabs)) + 1
  /\ chosen' = 1 /\ placed' = FALSE
  /\ UNCHANGED <<tabs, follow, approves, palette, before, width, born, news>>
  /\ Redraw(NoCache, 0)

TabCloses ==
  /\ Idle
  /\ tabs # <<>>
  /\ tabs' = RemoveAt(tabs, active)
  /\ active' = IF Len(tabs) > 1 /\ active = Len(tabs) THEN active - 1 ELSE active
  /\ chosen' = 1 /\ placed' = FALSE
  /\ UNCHANGED <<follow, approves, palette, before, width, born, news>>
  /\ Redraw(NoCache, 0)

\* BackTab
ApproveKey ==
  /\ Idle
  /\ tabs # <<>> => Room
  /\ approves' = ~approves
  /\ tabs' = IF tabs = <<>> THEN tabs ELSE [tabs EXCEPT ![active] = Logged(@, "text", 1)]
  /\ news' = IF tabs = <<>> THEN news ELSE news + 1
  /\ placed' = FALSE
  /\ UNCHANGED <<active, chosen, follow, palette, before, width, born>>
  /\ Redraw(cache, scroll)

\* y, n, a text that is sent, or one that answers the prompt the queue holds first.
PromptAnswered ==
  /\ Idle
  /\ \E n \in DOMAIN tabs :
       /\ tabs[n].pending # "none"
       /\ tabs' = [tabs EXCEPT ![n].pending = "none"]
       /\ follow' \in IF tabs[n].pending = "approval" /\ n = active THEN {follow, TRUE} ELSE {TRUE}
  /\ placed' = FALSE
  /\ UNCHANGED <<active, chosen, approves, palette, before, width, born, news>>
  /\ Redraw(cache, scroll)
SendsText ==
  /\ Idle
  /\ tabs # <<>>
  /\ tabs[active].pending # "followup"
  /\ follow' = TRUE
  /\ IF tabs[active].pending = "approval"
     THEN Alters(tabs[active], cache) /\ UNCHANGED news
     ELSE /\ Room
          /\ \E lines \in Lengths : Alters(Logged(tabs[active], "text", lines), cache)
          /\ news' = news + 1
  /\ UNCHANGED <<palette, before>>

\* A resize, and the end of a settings dialog that has saved: the lines are rendered anew.
Resized ==
  /\ width' = IF width = "wide" THEN "narrow" ELSE "wide"
  /\ placed' = FALSE
  /\ UNCHANGED <<tabs, active, chosen, follow, approves, palette, before, born, news>>
  /\ Redraw(cache, scroll)
Themed ==
  /\ Idle
  /\ placed' = FALSE
  /\ UNCHANGED <<tabs, active, chosen, follow, approves, palette, before, width, born, news>>
  /\ Redraw(NoCache, scroll)

-----------------------------------------------------------------------------
(* The palette (handle_action_mode): the block is expanded while it is     *)
(* open, and what the user cancels is put back.                            *)

OpenPalette ==
  /\ Idle
  /\ tabs # <<>>
  /\ tabs[active].log # <<>>
  /\ palette' = "actions"
  /\ before' = [expanded |-> tabs[active].expanded, wrapped |-> tabs[active].wrapped]
  /\ UNCHANGED <<follow, news>>
  /\ Alters([tabs[active] EXCEPT !.expanded = @ \cup {chosen}], cache)

Cancels ==
  /\ palette = "actions"
  /\ palette' = "none"
  /\ UNCHANGED <<follow, before, news>>
  /\ Alters([tabs[active] EXCEPT !.expanded = before.expanded, !.wrapped = before.wrapped], cache)

\* Expand or collapse, wrap or unwrap, copy; saving opens a dialog.
Acts ==
  /\ palette = "actions"
  /\ UNCHANGED <<follow, before, news>>
  /\ LET t == tabs[active]
     IN  \/ palette' = "none" /\ Alters([t EXCEPT !.expanded = Toggled(@, chosen)], cache)
         \/ palette' = "none" /\ Alters([t EXCEPT !.wrapped = Toggled(@, chosen)], cache)
         \/ palette' \in {"none", "save"} /\ Alters(t, cache)

SaveCloses ==
  /\ palette = "save"
  /\ palette' = "none"
  /\ UNCHANGED <<follow, before, news>>
  /\ Alters(tabs[active], cache)

UserKey ==
  \/ ViewKey \/ ExpandKey \/ NextTab \/ TabCloses \/ ApproveKey \/ PromptAnswered \/ SendsText
  \/ Resized \/ Themed
  \/ OpenPalette \/ Cancels \/ Acts

TalkNext ==
  \/ keys < MaxMoves /\ UserKey /\ keys' = keys + 1
  \/ (TabOpens \/ SaveCloses \/ \E n \in DOMAIN tabs : CoreEvent(n)) /\ UNCHANGED keys

TalkSpec == TalkInit /\ [][TalkNext]_talkVars

-----------------------------------------------------------------------------
(* Properties.                                                             *)

AsNow(i) == Look(tabs[active], i, width)

\* The same block before its result came.
Awaiting(i) ==
  LET t == tabs[active] IN Look([t EXCEPT !.log[i].result = 0], i, width)

\* What the screen shows of a block is what the block is now, in the tab, the width and
\* the fold it has now; at most the result of a call is missing, when a call ends that is
\* not the last block (DrawnIsCurrent).  The block the cursor was just moved to is on the
\* screen, as long as no count of rows lags behind in that way and the offset fits the
\* widget's 16 bits.
ShowsTheLog ==
  tabs # <<>> =>
    LET t == tabs[active]
        Lags == \E i \in DOMAIN t.log : cache.rows[i] # Rows(AsNow(i))
        rows == [i \in DOMAIN t.log |-> Rows(Drawn(i))]
        bottom == Top + Screen(tabs)
    IN  /\ t.log # <<>> => cache # NoCache /\ Len(cache.rows) = Len(t.log)
        /\ \A i \in DOMAIN t.log :
             /\ Drawn(i) \in {AsNow(i), Awaiting(i)}
             /\ cache.rows[i] \in {Rows(AsNow(i)), Rows(Awaiting(i))}
        /\ placed /\ ~Lags /\ Height > Queued(tabs) /\ scroll < OffsetLimit =>
             \/ RowsAbove(rows, chosen) >= Top /\ RowsAbove(rows, chosen + 1) <= bottom
             \/ RowsAbove(rows, chosen) <= Top /\ RowsAbove(rows, chosen + 1) >= bottom

\* Every block is drawn as it is now: the cached lines are "invalidated when width,
\* generation, expand state, or wrap state changes" (line_cache.rs:5).  When only the
\* generation has changed, ensure_line_cache renders the last block alone.
DrawnIsCurrent ==
  tabs # <<>> => \A i \in DOMAIN tabs[active].log : Drawn(i) = AsNow(i)
=============================================================================
