------------------------------ MODULE Context ------------------------------
(***************************************************************************)
(* What the model is shown: the trajectory of an agent in di-core, the     *)
(* prompt run_turn selects from it within a token budget, the lifecycle    *)
(* that decides when it is compacted, and what is remembered of the        *)
(* user's words and of the files read and edited.                          *)
(*                                                                         *)
(* A user's text is what the keyword lists of task_state.rs see of it: the *)
(* class of the keyword, whether it stands only at the start ("lead"), and *)
(* whether the text has more than five words.  Contents of files are       *)
(* version numbers.  What the observer did before a frame is an input: it  *)
(* may have moved its index, and it may have a block to show (Observer     *)
(* models how it decides).                                                 *)
(***************************************************************************)
EXTENDS Integers, Sequences, FiniteSets, SequencesExt, FiniteSetsExt, Functions, TLC

CONSTANTS File,       \* files of the project
          Big,        \* files whose full text exceeds MAX_OUTPUT_CHARS
          Texts,      \* what users say
          Size,       \* tokens a message can have
          Limit,      \* token_limit (32 000)
          System,     \* system prompt, tools and reserves without constraints
          WordSize,   \* what a constraint adds to the system prompt
          Notice,     \* tokens of a stale notice (20)
          RetrySoft, RetryHard,   \* 3 and 5
          Recent, LastTools,      \* 5 pairs and 3 tool results
          Forms,      \* forms of the model's calls: "fields", or the command "line"
          MaxMsgs,    \* bound: messages in the trajectory
          MaxRecorded,   \* bound: turns that are recorded
          MaxSaid,    \* bound: texts of the user after the task
          MaxVersion, \* bound: versions of a file
          None

Class == {"correction", "goal", "constraint", "approval", "casual", "plain"}
UserText  == [class : Class, lead : BOOLEAN, long : BOOLEAN]

ASSUME ContextAssumption ==
  /\ Big \subseteq File /\ Texts \subseteq UserText /\ Forms \subseteq {"fields", "line"}
  /\ Size \subseteq Nat /\ Limit \in Nat \ {0} /\ System \in Nat
  /\ WordSize \in Nat /\ Notice \in Nat
  /\ RetrySoft \in Nat /\ RetryHard \in Nat /\ RetrySoft <= RetryHard
  /\ MaxRecorded \in Nat /\ MaxSaid \in Nat /\ MaxMsgs \in Nat /\ MaxVersion \in Nat
  /\ IsFiniteSet(File) /\ None \notin File \cup {"full", "preview"}

VARIABLES
  msgs,      \* trajectory.messages
  total,     \* trajectory.total_tokens
  life,      \* lifecycle.state
  history,   \* lifecycle.metrics
  summary,   \* there is a pending_compact_summary
  required,  \* pending_compact_required_files
  goal,      \* current_goal: its place among the user's texts
  duties,    \* active_constraints
  spoken,      \* ghost: the user's texts
  filesRead, \* keys of files_read
  flagged,   \* the files with edited_since_read
  edited,    \* files_edited
  readCache, \* read_file_cache: what a read was last given, by file and detail
  current,      \* the files
  mine,      \* ghost: the version the agent's own last edit left
  observed,  \* observer.last_observed_message_index
  shown,    \* the messages of the last request
  turn       \* "idle", or "asked" while the model answers

talk  == <<goal, duties, spoken>>
files == <<filesRead, flagged, edited, readCache>>
pending == <<summary, required>>
trajectoryVars == <<msgs, total>>
contextVars == <<trajectoryVars, life, history, pending, talk, files, current, mine, observed,
                 shown, turn>>

-----------------------------------------------------------------------------
(* Messages *)

Message(role, tokens) ==
  [role |-> role, tok |-> tokens, text |-> None, word |-> 0, calls |-> 0,
   file |-> None, about |-> None, shows |-> None, ver |-> 0]

\* A note of the engine; each has more than five words and no keyword.
Note(tokens) == [Message("user", tokens) EXCEPT
  !.text = [class |-> "plain", lead |-> FALSE, long |-> TRUE]]
\* continuation_prompt says "Do not ask the user for direction".
Continuation(tokens) == [Message("user", tokens) EXCEPT
  !.text = [class |-> "correction", lead |-> FALSE, long |-> TRUE]]
Said(text, word, tokens) ==
  [Message("user", tokens) EXCEPT !.text = text, !.word = word]

SumTokens(ms) == FoldSeq(LAMBDA m, sum : sum + m.tok, 0, ms)

-----------------------------------------------------------------------------
(* TaskStateReducer *)

\* classify; the text of a message is quoted JSON, which hides a keyword that
\* stands only at the start.
Classify(text, quoted) ==
  LET seen == ~(quoted /\ text.lead) IN
  IF text.class \in {"correction", "goal", "constraint"} /\ seen THEN text.class
  ELSE IF text.class \in {"approval", "casual"} /\ ~text.long /\ ~quoted THEN text.class
  ELSE IF text.long THEN "constraint" ELSE "clarification"

PriorityForKind(kind) ==
  CASE kind \in {"correction", "constraint", "goal"} -> 4
    [] kind = "clarification" -> 2
    [] kind = "approval" -> 1
    [] kind = "casual" -> 0

Process_NewGoalClears(text) ==
  /\ spoken' = Append(spoken, text)
  /\ LET kind == Classify(text, FALSE) IN
     IF kind = "goal" THEN goal' = Len(spoken) + 1 /\ duties' = {}
     ELSE /\ goal' = goal
          /\ duties' = IF kind \in {"correction", "constraint"}
                       THEN duties \cup {Len(spoken) + 1} ELSE duties

\* process, for every text but the first.
Process(text) ==
  LET kind == Classify(text, FALSE)
      word == Len(spoken) + 1 IN
  /\ spoken' = Append(spoken, text)
  /\ goal' = IF kind = "goal" THEN word ELSE goal
  /\ duties' = IF kind \in {"correction", "constraint"} THEN duties \cup {word} ELSE duties

\* to_critical_summary, part of every system prompt.
CriticalSummary == [goal |-> goal, duties |-> duties]

-----------------------------------------------------------------------------
(* LifecycleMetricsCollector and AdaptiveTriggerEvaluator *)

LastOf(h) == h[Len(h)]
LastN(h, n) == SubSeq(h, IF Len(h) > n THEN Len(h) - n + 1 ELSE 1, Len(h))

AtLeast(part, whole, percent) == whole > 0 /\ 100 * part >= percent * whole

ToolBloat(h, percent) ==
  LET last == LastN(h, 5)
      Add(F(_)) == FoldSeq(LAMBDA t, sum : sum + F(t), 0, last) IN
  AtLeast(Add(LAMBDA t : t.tool), Add(LAMBDA t : t.total), percent)

StaleRatio(h, percent) ==
  h # <<>> /\ AtLeast(LastOf(h).stale, LastOf(h).msgs, percent)

\* The longest run of equal calls; a turn has at most one call here.
RetryAccumulation(h) ==
  LET made == SelectSeq(h, LAMBDA t : t.call # None) IN
  Max({0} \cup {n \in 1..Len(made) : \E i \in 0..(Len(made) - n) :
                  \A k \in 1..n : made[i + k].call = made[i + 1].call})

GrowthRate(h, percent) ==
  /\ Len(h) >= 2
  /\ LET prev == h[Len(h) - 1].total IN
     AtLeast(LastOf(h).total - prev, prev, percent)

\* Some trigger has fired; a hard one also counts against the soft bound.
Triggered(tokens, h, pct, retries) ==
  \/ AtLeast(tokens, Limit, pct[1])
  \/ ToolBloat(h, pct[2])
  \/ StaleRatio(h, pct[3])
  \/ RetryAccumulation(h) >= retries
  \/ GrowthRate(h, pct[4])
HasHard(tokens, h) == Triggered(tokens, h, <<85, 80, 85, 25>>, RetryHard)
\* check_* report one severity each, the hard one first
HasSoft(tokens, h) ==
  \/ AtLeast(tokens, Limit, 75) /\ ~AtLeast(tokens, Limit, 85)
  \/ ToolBloat(h, 60) /\ ~ToolBloat(h, 80)
  \/ StaleRatio(h, 70) /\ ~StaleRatio(h, 85)
  \/ RetryAccumulation(h) \in RetrySoft..(RetryHard - 1)
  \/ GrowthRate(h, 15) /\ ~GrowthRate(h, 25)

UsedOver(tokens, percent) == 100 * tokens > percent * Limit

\* ContextLifecycleManager.evaluate
Evaluate(tokens) ==
  CASE life = "PostCompaction" -> "Normal"
    [] life = "Normal" /\ UsedOver(tokens, 50) -> "Growing"
    [] life = "Growing" /\ (UsedOver(tokens, 75) \/ HasSoft(tokens, history)) -> "NearLimit"
    [] life = "Growing" /\ ~UsedOver(tokens, 40) /\ ~HasSoft(tokens, history) -> "Normal"
    [] life = "NearLimit" /\ (UsedOver(tokens, 85) \/ HasHard(tokens, history)) -> "CompactionDue"
    [] life = "NearLimit" /\ ~UsedOver(tokens, 50) /\ ~HasHard(tokens, history) -> "Growing"
    [] OTHER -> life

\* evaluate_compact_advisory: is a summary of the model accepted now?
CompactAllowed(tokens) == \/ life = "NearLimit"
                          \/ life = "Growing" /\ UsedOver(tokens, 50)

-----------------------------------------------------------------------------
(* build_prompt_with_stale_check *)

Budget == Max({0, Limit - System - WordSize * Cardinality(duties)})

Indices(ms, role) == {i \in DOMAIN ms : ms[i].role = role}
FirstUser(ms) == Min(Indices(ms, "user"))
\* How many messages of a role there are from the i-th on.
From(ms, role, i) == Cardinality({j \in Indices(ms, role) : j >= i})

Priority(ms, i) ==
  LET m == ms[i]
      base == CASE m.role = "user" -> PriorityForKind(Classify(m.text, TRUE))
                [] m.role = "assistant" /\ From(ms, "assistant", i) = 1 -> 4
                [] m.role = "tool" /\ From(ms, "tool", i) <= LastTools -> 3
                [] OTHER -> 0 IN
  IF From(ms, "assistant", i) <= Recent THEN Max({base, 2}) ELSE base

Positions(ms) == [i \in DOMAIN ms |-> i]

\* By priority, and the oldest first within one.
Order(ms) ==
  LET priority == [i \in DOMAIN ms |-> Priority(ms, i)] IN
  SortSeq(Positions(ms), LAMBDA i, j : \/ priority[i] > priority[j]
                                       \/ priority[i] = priority[j] /\ i < j)

Tokens(ms, chosen) == FoldSet(LAMBDA i, sum : sum + ms[i].tok, 0, chosen)

\* The fill: what does not fit is passed over, not the end of it.
Filled(ms, order) == FoldSeq(LAMBDA i, chosen :
  IF Tokens(ms, chosen) + ms[i].tok <= Budget THEN chosen \cup {i} ELSE chosen,
  {}, order)

\* The newest of the lowest priority make room, one after the other, until the
\* rest fits; the first is passed over.
MakeRoom(ms, filled, order, first) ==
  LET n == Len(order)
      Without(k) == filled \ ({order[j] : j \in (n - k + 1)..n} \ {first})
      enough == {k \in 0..n : Tokens(ms, Without(k)) <= Budget} IN
  Without(IF enough = {} THEN n ELSE Min(enough))

Chosen_NotForced(ms) == Filled(ms, Order(ms))
\* The first message of the user is forced in: others make room, or it is cut
\* to an excerpt.
Oversized(ms) == ms[FirstUser(ms)].tok > Budget
Chosen(ms) ==
  LET first == FirstUser(ms)
      filled == Filled(ms, Order(ms)) \cup {first} IN
  IF Oversized(ms) THEN filled ELSE MakeRoom(ms, filled, Order(ms), first)

\* Reads of files that were edited become notices.
Rendered(ms, i) ==
  IF i = FirstUser(ms) /\ Oversized(ms)
  THEN [ms[i] EXCEPT !.tok = Min({Budget, 500}), !.shows = "excerpt"]
  ELSE IF ms[i].file \in edited THEN [ms[i] EXCEPT !.tok = Notice, !.shows = "stale"]
  ELSE ms[i]

\* The view that stands in for what the observer summarised.
ViewOf(ms, index, block) ==
  IF block /\ index > 2 /\ index < Len(ms)
  THEN SubSeq(ms, 1, 2) \o SubSeq(ms, index + 1, Len(ms)) ELSE ms

\* The chosen messages, at their old places.
Prompt(ms) ==
  LET chosen == Chosen(ms) IN [i \in {i \in DOMAIN ms : i \in chosen} |-> Rendered(ms, i)]

-----------------------------------------------------------------------------
(* Starting, and what happens between turns *)

ContextInit ==
  /\ \E text \in Texts, tokens \in Size : 
       msgs = <<Said(text, 1, tokens)>> /\ total = tokens /\ spoken = <<text>>
  /\ goal = 1 /\ duties = {}
  /\ life = "Normal" /\ history = <<>>
  /\ summary = FALSE /\ required = {}
  /\ filesRead = {} /\ flagged = {} /\ edited = {}
  /\ readCache = [key \in {} |-> 0]
  /\ current = [f \in File |-> 0] /\ mine = current
  /\ observed = 0 /\ shown = <<>>
  /\ turn = "idle"

\* drain_user_responses
UserSays(text, tokens) ==
  /\ turn = "idle" /\ Len(spoken) <= MaxSaid /\ Len(msgs) < MaxMsgs
  /\ Process(text)
  /\ msgs' = Append(msgs, Said(text, Len(spoken) + 1, tokens)) /\ total' = total + tokens
  /\ UNCHANGED <<life, history, pending, files, current, mine, observed, shown, turn>>

\* A command, or somebody else, changes a file.
FileChanges(f) ==
  /\ current[f] < MaxVersion
  /\ current' = [current EXCEPT ![f] = @ + 1]
  /\ UNCHANGED <<trajectoryVars, life, history, pending, talk, files, mine, observed, shown, turn>>

-----------------------------------------------------------------------------
(* A frame: run_turn up to the request *)

ReadAnswer(f, form, shows, tokens) == [Message("tool", tokens) EXCEPT
  !.about = f, !.file = IF form = "fields" THEN f ELSE None, !.shows = shows, !.ver = current[f]]

\* Required files are read back behind the continuation.
Reloaded(tokens) ==
  LET wanted == SetToSeq(required) IN
  [k \in 1..(2 * Cardinality(required)) |->
     IF k % 2 = 1 THEN Note(tokens)
     ELSE ReadAnswer(wanted[k \div 2], "fields", "full", tokens)]

\* The observer may look at everything there is, and may have a block to show.
RequestOf(ms, from, looks, block) ==
  LET index == IF looks THEN Len(ms) ELSE from IN
  /\ observed' = index
  /\ shown' = Prompt(ViewOf(ms, index, block))
  /\ turn' = "asked"

Frame(looks, block) ==
  LET next == Evaluate(total) IN
  /\ turn = "idle" /\ next # "CompactionDue"
  /\ life' = next
  /\ RequestOf(msgs, observed, looks, block)
  /\ UNCHANGED <<trajectoryVars, history, pending, talk, files, current, mine>>

\* perform_compaction with the pending summary, or perform_runtime_compaction.
Compact(tokens, looks, block) ==
  LET ms == <<Continuation(tokens)>> \o Reloaded(tokens) IN
  /\ turn = "idle" /\ Evaluate(total) = "CompactionDue"
  /\ msgs' = ms /\ total' = tokens + 2 * tokens * Cardinality(required)
  /\ life' = "PostCompaction"
  /\ summary' = FALSE /\ required' = {}
  /\ RequestOf(ms, 1, looks, block)
  /\ UNCHANGED <<history, talk, files, current, mine>>

-----------------------------------------------------------------------------
(* The model's answer *)

Appended(ms, tokens) ==
  /\ msgs' = msgs \o ms /\ total' = total + tokens
  /\ turn' = "idle" /\ shown' = <<>>
Assistant(tokens, calls) == [Message("assistant", tokens) EXCEPT !.calls = calls]

\* record_turn, of a turn that ended with these messages.
Recorded(call, ms, tokens) ==
  /\ Len(history) < MaxRecorded
  /\ history' = LastN(Append(history,
       [total |-> tokens, msgs |-> Len(ms), call |-> call,
        tool |-> SumTokens(SelectSeq(ms, LAMBDA m : m.role = "tool")),
        stale |-> Cardinality(flagged')]), 20)

\* No tool call: the engine asks for one.
AnswerText(tokens) ==
  /\ turn = "asked" /\ Len(msgs) + 2 <= MaxMsgs
  /\ Appended(<<Assistant(tokens, 0), Note(tokens)>>, 2 * tokens)
  /\ UNCHANGED <<life, pending, talk, files, current, mine, observed>>
  /\ Recorded(None, Append(msgs, Assistant(tokens, 0)), total + tokens)

\* The stream breaks, perhaps after some text.
AnswerFails(tokens, partial) ==
  /\ turn = "asked" /\ Len(msgs) + 2 <= MaxMsgs
  /\ IF partial THEN Appended(<<Assistant(tokens, 0), Note(tokens)>>, 2 * tokens)
     ELSE Appended(<<Note(tokens)>>, tokens)
  /\ UNCHANGED <<life, history, pending, talk, files, current, mine, observed>>

\* CONTEXT_EXCEEDED: compaction at once; a pending summary stays pending.
AnswerExceeded(tokens) ==
  /\ turn = "asked"
  /\ msgs' = <<Continuation(tokens), Note(tokens)>> /\ total' = 2 * tokens
  /\ life' = "PostCompaction" /\ observed' = 1
  /\ turn' = "idle" /\ shown' = <<>>
  /\ UNCHANGED <<history, pending, talk, files, current, mine>>

\* One tool call and its result.
ToolTurn(call, tokens, result) ==
  LET added == <<Assistant(tokens, 1), result>> IN
  /\ turn = "asked" /\ Len(msgs) + 2 <= MaxMsgs
  /\ Appended(added, 2 * tokens)
  /\ Recorded(call, msgs \o added, total + 2 * tokens)
  /\ UNCHANGED <<life, talk, observed>>

\* format_single_read: at the detail asked for, "unchanged" if that is what the
\* cache has, and a lower detail if the text is too long.
Degraded(f, detail) == f \in Big /\ detail = "full"
CallRead(f, form, detail, tokens) ==
  LET known(d) == <<f, d>> \in DOMAIN readCache /\ readCache[<<f, d>>] = current[f]
      given == IF known(detail) THEN "unchanged"
               ELSE IF ~Degraded(f, detail) THEN detail
               ELSE IF known("preview") THEN "unchanged" ELSE "preview"
      tried == {detail} \cup {d \in {"preview"} : ~known(detail) /\ Degraded(f, detail)} IN
  /\ filesRead' = filesRead \cup {f}
  /\ readCache' = [key \in {<<f, d>> : d \in tried} |-> current[f]] @@ readCache
  /\ UNCHANGED <<flagged, edited, current, mine, pending>>
  /\ ToolTurn(<<"read", f, form, detail>>, tokens,
              ReadAnswer(f, form, given, tokens))

\* The paths of a change are noted whether it worked or not, if the call has one.
CallEdit(f, form, works, tokens) ==
  /\ works => current[f] < MaxVersion
  /\ current' = IF works THEN [current EXCEPT ![f] = @ + 1] ELSE current
  /\ IF form = "fields"
     THEN /\ edited' = edited \cup {f}
          /\ flagged' = flagged \cup ({f} \cap filesRead)
          /\ readCache' = Restrict(readCache, {key \in DOMAIN readCache : key[1] # f})
     ELSE UNCHANGED <<edited, flagged, readCache>>
  /\ mine' = IF works THEN [mine EXCEPT ![f] = current'[f]] ELSE mine
  /\ UNCHANGED <<filesRead, pending>>
  /\ ToolTurn(<<"edit", f, form, works>>, tokens, Message("tool", tokens))

\* The compact tool: a summary is kept if the pressure is high enough.
CallCompact(wants, tokens) ==
  LET ok == CompactAllowed(total + tokens) IN
  /\ summary' = (summary \/ ok)
  /\ required' = IF ok /\ wants # {} THEN wants ELSE required
  /\ UNCHANGED <<files, current, mine>>
  /\ ToolTurn(<<"compact">>, tokens, Message("tool", tokens))

TalkNext(texts, sizes) == \E text \in texts, tokens \in sizes : UserSays(text, tokens)
FrameNext(sizes) == \E looks, block \in BOOLEAN :
  Frame(looks, block) \/ \E tokens \in sizes : Compact(tokens, looks, block)
AnswerNext(sizes) == \E tokens \in sizes :
  \/ AnswerText(tokens)
  \/ \E partial \in BOOLEAN : AnswerFails(tokens, partial)
  \/ AnswerExceeded(tokens)
CompactNext(wishes, sizes) == \E wants \in wishes, tokens \in sizes : CallCompact(wants, tokens)
FileNext(sizes) == \E f \in File :
  \/ FileChanges(f)
  \/ \E form \in Forms, tokens \in sizes :
       \/ \E detail \in {"full", "preview"} : CallRead(f, form, detail, tokens)
       \/ \E works \in BOOLEAN : CallEdit(f, form, works, tokens)

ContextNext == \/ TalkNext(Texts, Size) \/ FrameNext(Size) \/ AnswerNext(Size)
        \/ CompactNext(SUBSET File, Size) \/ FileNext(Size)

ContextSpec == ContextInit /\ [][ContextNext]_contextVars

-----------------------------------------------------------------------------
(* Properties *)

\* Every request holds the first message of its trajectory, whole or as an excerpt, however
\* full the budget is: "Initial task always survives" (context-report.md:497) as long as
\* that message is the task; after a compaction it is the engine's continuation note.
TaskSurvives == turn = "asked" =>
  \E k \in DOMAIN shown :
    \/ shown[k] = msgs[1]
    \/ shown[k] = [msgs[1] EXCEPT !.tok = shown[k].tok, !.shows = "excerpt"]

\* What a user corrected or demanded is in the system prompt, and the goal is the last one
\* named, whatever was compacted since.  (What a user says in answer to a question of the
\* agent is no text of his here: engine.rs:2262 gives it to no reducer.)
WordsOutlive == \A w \in 2..Len(spoken) : LET kind == Classify(spoken[w], FALSE) IN
  /\ kind \in {"correction", "constraint"} => w \in CriticalSummary.duties
  /\ kind = "goal" => CriticalSummary.goal >= w

\* "Stale reads are never sent" (context-report.md:498): no request shows a text older than
\* the agent's own last change of the file.  It would hold if every call had its path in a
\* field of its own; tool_defs.rs declares none, and path_arg (engine.rs:1902) finds none in
\* a command line.
StaleNeverSent == \A k \in DOMAIN shown : LET m == shown[k] IN
  m.shows \in {"full", "preview"} => m.ver >= mine[m.about]

=============================================================================
