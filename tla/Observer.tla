------------------------------ MODULE Observer ------------------------------
(***************************************************************************)
(* The observer of an agent in di-core: before every request it judges the *)
(* trajectory, stores observations, condenses them, decides whether to     *)
(* interrupt the model, and moves the index up to which messages are       *)
(* replaced by the block of its observations.                              *)
(*                                                                         *)
(* The texts it reads are abstracted to what it looks for in them: a tool  *)
(* result is the words found in it and its length in fifties of            *)
(* characters.  The quality score, a weighted mean of five measures of the *)
(* last ten answers, is an input by its distance to the thresholds.  The   *)
(* engine keeps the store in memory (new_with_task).                       *)
(***************************************************************************)
EXTENDS Integers, Sequences, FiniteSets, SequencesExt, FiniteSetsExt

CONSTANTS Sign,            \* what is seen in a tool result
          Sight,            \* what the observer sees of a turn's answers
          Subgoal,         \* things said to be fixed
          WatcherFrequency, CriticFrequency, ReflectAfter, ReflectionCooldown,
          RestartAfter,    \* restart_after_reflects (2)
          Weight,          \* tokens of an observation, by its type
          ReflectionTokens, MemoryCap,  \* 10 000 and 15 000
          Stored,          \* MAX_STORED_OBSERVATIONS (200)
          Window,          \* messages a summary is made of (20)
          Activation,      \* buffer_activation (3)
          UseLlm,          \* what use_llm_observations may be set to
          MaxEdits,        \* recent_edits (20)
          MaxJudged,        \* bound: turns
          MaxMessages,     \* bound: messages in the trajectory
          Nothing

Kind   == {"Summary", "Watcher", "Critic", "Skeleton", "Reflection"}
Action == {"Continue", "Reflect", "Restart"}
Score  == {"low", "near", "fair", "good", "high"}
Tier   == [TestDriven |-> 0, DocLint |-> 1, CodeWithAnalysis |-> 2]

ASSUME ObserverAssumption ==
  /\ Nothing \notin Subgoal
  /\ Sign \subseteq [fixed : Subgoal \cup {Nothing}, mentions : SUBSET Subgoal,
                     error : BOOLEAN, syntax : BOOLEAN, size : Nat]
  /\ Sight \subseteq [tier : DOMAIN Tier, score : Score, files : Nat, repeated : BOOLEAN,
                     names : Nat, error : {"none", "other", "syntax"}, long : BOOLEAN]
  /\ Weight \in [Kind -> Nat] /\ UseLlm \subseteq BOOLEAN
  /\ {RestartAfter, WatcherFrequency, CriticFrequency} \subseteq Nat \ {0}
  /\ Stored \in Nat /\ Stored >= 2
  /\ {ReflectAfter, ReflectionCooldown, ReflectionTokens, MemoryCap, Window, Activation,
      MaxEdits, MaxJudged, MaxMessages} \subseteq Nat

VARIABLES
  store,        \* the observations
  turnNo,       \* current_turn
  sinceWatch,   \* turns_since_last_observation
  sinceReflect, \* turns_since_last_reflection
  consecutive,  \* consecutive_reflects
  tier,         \* current_tier
  edits,        \* how many recent_edits there are
  lastError,    \* recent_errors: "none", or what the last one is, "other" or "syntax"
  resolved, forgotten,  \* resolved_subgoals and forgotten_subgoals
  tools,        \* the last three tool results
  count,        \* messages in the trajectory
  index,        \* last_observed_message_index
  asks,         \* LLM observations still to be made
  needsSync,    \* needs_sync_summary
  stage,        \* "turn", "llm", "sync", "send", "model"
  directive,    \* the interrupt of this turn
  dropped,      \* the messages the last request left out
  summarised,   \* ghost: messages some summary was made of
  cut,          \* ghost: a summary stands for more than the Window messages it took
  reflected     \* ghost: there has been a reflection

judgement == <<turnNo, sinceWatch, consecutive, tier, edits, lastError, resolved, forgotten, directive>>
reach == <<count, index, dropped, summarised, cut>>
observerVars == <<store, judgement, sinceReflect, tools, reach, asks, needsSync, stage, reflected>>

-----------------------------------------------------------------------------
(* The store *)

Observation(kind, action, sure) ==
  [kind |-> kind, action |-> action, sure |-> sure, turn |-> turnNo + 1]

AppendTo_EvictsOldest(observations, o) ==
  Append(IF Len(observations) >= Stored THEN Tail(observations) ELSE observations, o)

\* append: at the limit the oldest that is not a reflection goes.
AppendTo(observations, o) ==
  LET others == {i \in DOMAIN observations : observations[i].kind # "Reflection"}
      victim == IF others = {} THEN 1 ELSE Min(others) IN
  Append(IF Len(observations) >= Stored THEN RemoveAt(observations, victim) ELSE observations, o)

Added(observations, when, o) == IF when THEN AppendTo(observations, o) ELSE observations

TokenCount(observations) == FoldSeq(LAMBDA o, sum : sum + Weight[o.kind], 0, observations)

Latest(observations, kind) ==
  LET places == {i \in DOMAIN observations : observations[i].kind = kind} IN
  IF places = {} THEN {} ELSE {observations[Max(places)]}

\* decayed_confidence against a bound: for how many turns an observation made
\* with this confidence counts.
Lasts(bound, sure, healthy) ==
  CASE sure = "certain" -> IF healthy THEN IF bound = "gate" THEN 10 ELSE 15
                           ELSE IF bound = "gate" THEN 2 ELSE 3
    [] sure = "heuristic" -> IF bound = "gate" /\ tier' # "TestDriven" THEN -1 ELSE 0

-----------------------------------------------------------------------------
(* Judging *)

Fixing == {i \in DOMAIN tools : tools[i].fixed # Nothing}
SyntaxErrors == {i \in DOMAIN tools : tools[i].syntax}

\* classify_loop_pattern, from the last three tool results, newest first, and
\* the files of the last three answers; "repeated": three on one file and
\* operation.  (The AST test for reverted work is never true: the newest
\* answer carries no delta.)
ClassifyLoop(files, repeated) ==
  LET errors == SelectSeq(tools, LAMBDA s : s.error)
      sizes == {errors[i].size : i \in DOMAIN errors}
      first == errors[1].size
      last == errors[Len(errors)].size IN
  CASE Len(tools) < 3 -> "Unknown"
    [] Fixing # {} /\ errors # <<>> -> "StuckWithForgetting"
    [] Cardinality(SyntaxErrors) >= 2 /\ files <= 1 -> "SyntaxLoop"
    [] Cardinality(sizes) = 1 -> IF files > 1 THEN "Widening" ELSE "Stuck"
    [] Len(errors) >= 2 ->
         IF first > 0 /\ 10 * (Max({first, last}) - Min({first, last})) < 3 * first
         THEN "Oscillating" ELSE "Stuck"
    [] repeated -> "RepeatedFileOp"
    [] OTHER -> "Productive"

Bad == {"StuckWithForgetting", "Oscillating", "RepeatedFileOp", "SyntaxLoop"}

\* At least this percentage of the resolved subgoals is forgotten again.
Forgets(percent) ==
  resolved # {} /\ 100 * Cardinality(forgotten) >= percent * Cardinality(resolved)

\* Of ten answers the other four measures make at least 0.2857, so a score is
\* under its threshold (0.30, 0.32, 0.35) only when much was forgotten, and
\* never under four fifths of it.
Possible(seen) == seen.score = "low" =>
  Forgets(CASE seen.tier = "TestDriven" -> 86 [] seen.tier = "DocLint" -> 66
            [] seen.tier = "CodeWithAnalysis" -> 36)

CriticCooldown(n, error) ==
  LET spread == IF n >= 4 THEN 2 ELSE IF n >= 2 THEN 1 ELSE 0 IN
  Max({CriticFrequency - spread - (IF error # "none" THEN 1 ELSE 0), 2})

ReflectionCooldownTurns(n, error, score) ==
  LET base == IF n > 3 THEN ReflectionCooldown + 2
              ELSE IF n <= 1 THEN Max({ReflectionCooldown - 2, 2}) ELSE ReflectionCooldown
      more == IF score = "high" THEN base + 1 ELSE base IN
  IF error = "syntax" THEN Max({more - 1, 2}) ELSE more

\* determine_interrupt: a critic's advice that counts, or else the pattern.  It runs after
\* update_subgoal_tracking.  The model's own advice is made with confidence 1; what it is
\* less sure of than the gate asks (0.5 where it says nothing) counts like "Continue".
Gated(o, score) ==
  /\ o.action # "Continue"
  /\ turnNo' - o.turn <= Lasts("gate", o.sure, score \in {"good", "high"})
  /\ score \in {"low", "near"} \/ Forgets(16)'
InterruptOf(observations, pattern, score, since) ==
  LET critics  == {o \in Latest(observations, "Critic") : Gated(o, score)}
      looping  == pattern \in {"StuckWithForgetting", "Oscillating"}
      counts   == looping \/ score = "low"
      reflects == looping \/ (score = "low" /\ since >= ReflectAfter) \/ pattern = "Widening" IN
  IF critics # {} THEN [action |-> (CHOOSE o \in critics : TRUE).action,
                        consecutive |-> consecutive]
  ELSE IF counts /\ consecutive + 1 >= RestartAfter
  THEN [action |-> "Restart", consecutive |-> 0]
  ELSE IF reflects THEN [action |-> "Reflect",
                         consecutive |-> consecutive + IF counts THEN 1 ELSE 0]
  ELSE [action |-> "Continue", consecutive |-> 0]

-----------------------------------------------------------------------------
(* A turn *)

ObserverInit ==
  /\ store = <<>> /\ turnNo = 0 /\ sinceWatch = 0 /\ sinceReflect = 0 /\ consecutive = 0
  /\ tier = "CodeWithAnalysis" /\ edits = 0 /\ lastError = "none"
  /\ resolved = {} /\ forgotten = {}
  /\ tools = <<>> /\ count = 1 /\ index = 0
  /\ asks = <<>> /\ needsSync = FALSE /\ stage = "turn"
  /\ directive = [action |-> "Continue"]
  /\ dropped = {} /\ summarised = {} /\ cut = FALSE /\ reflected = FALSE

\* trigger_reflection: one observation stands for all of them.
Reflection == Observation("Reflection", "Continue", "heuristic")

\* detect_tier; the words it looks for stay in the trajectory.
DetectTier(seen) == tier' = seen.tier /\ Tier[seen.tier] <= Tier[tier]

\* extract_skeleton_data: the files named and the last error.
SkeletonData(seen) == [names |-> Min({edits + seen.names, MaxEdits}),
                       error |-> IF seen.error = "none" THEN lastError ELSE seen.error]

Sketches(data) == turnNo' % 4 = 0 /\ (data.names > 0 \/ data.error # "none")

Watches(seen, pattern) ==
  \/ sinceWatch + 1 >= WatcherFrequency \/ seen.score = "low"
  \/ pattern \in {"StuckWithForgetting", "SyntaxLoop", "RepeatedFileOp"}

\* What a critic advises.
Advice(pattern) == IF pattern \notin Bad THEN "Continue"
                   ELSE IF consecutive >= RestartAfter - 1 THEN "Restart" ELSE "Reflect"

ShouldReflect(observations, since, data, score) ==
  /\ TokenCount(observations) >= ReflectionTokens
  /\ since >= ReflectionCooldownTurns(data.names, data.error, score)

ShouldSummarize(seen) == turnNo' >= Activation /\ count - index' >= 4 /\ seen.long

\* update_subgoal_tracking, from the newest tool result.
SubgoalTracking ==
  LET newest == {tools[i] : i \in {1} \cap DOMAIN tools} IN
  /\ resolved' = resolved \cup ({t.fixed : t \in newest} \ {Nothing})
  /\ forgotten' = forgotten \cup
       (resolved' \cap UNION {t.mentions : t \in {n \in newest : n.error}})

Asked(when, kind) == IF when THEN <<kind>> ELSE <<>>

\* on_turn_complete.  seen: what the answer and the trajectory show;
\* llm: the setting now.
TurnComplete(seen, llm) ==
  LET data == SkeletonData(seen)
      pattern == ClassifyLoop(seen.files, seen.repeated)
      since == sinceReflect + 1
      watches == Watches(seen, pattern)
      watched == Added(store, watches /\ pattern \notin {"Productive", "Unknown"},
                       Observation("Watcher", "Continue", "heuristic"))
      criticises == since >= CriticCooldown(data.names, data.error) /\ seen.score = "low"
      criticised == Added(watched, criticises, Observation("Critic", Advice(pattern), "heuristic"))
      sketched == Added(criticised, Sketches(data), Observation("Skeleton", "Continue", "heuristic"))
      waited == IF criticises THEN 0 ELSE since
      reflects == \/ ShouldReflect(sketched, waited, data, seen.score)
                  \/ TokenCount(sketched) > MemoryCap /\ Len(sketched) > 5
      after == IF reflects THEN <<Reflection>> ELSE sketched
      rested == IF reflects THEN 0 ELSE waited
      kept == IF reflects THEN [names |-> 0, error |-> "none"] ELSE data
      interrupt == InterruptOf(after, pattern, seen.score, rested)
      summarises == ShouldSummarize(seen)
      pending == Asked(watches, "Watcher")
                   \o Asked(interrupt.action # "Continue", "Critic")
                   \o Asked(Sketches(kept), "Skeleton")
                   \o Asked(ShouldReflect(after, rested, kept, seen.score), "Reflection")
                   \o Asked(summarises, "Summary") IN
  /\ stage = "turn" /\ turnNo < MaxJudged /\ Possible(seen)
  /\ turnNo' = turnNo + 1 /\ DetectTier(seen) /\ SubgoalTracking
  /\ store' = after
  /\ sinceWatch' = IF watches THEN 0 ELSE sinceWatch + 1
  /\ sinceReflect' = rested
  /\ edits' = kept.names /\ lastError' = kept.error
  /\ index' = IF reflects THEN count ELSE index
  /\ reflected' = (reflected \/ reflects)
  /\ consecutive' = interrupt.consecutive
  /\ directive' = [action |-> interrupt.action]
  /\ asks' = IF llm THEN pending ELSE <<>>
  /\ needsSync' = summarises
  /\ stage' = "llm"
  /\ UNCHANGED <<tools, count, dropped, summarised, cut>>

\* What a summary is made of (build_summarizer_llm_prompt).
Unobserved == (index + 1)..Min({count, index + Window})

\* process_llm_observation
Processed(kind, action) ==
  LET o == [Observation(kind, IF kind = "Critic" THEN action ELSE "Continue", "certain")
             EXCEPT !.turn = turnNo] IN
  /\ store' = AppendTo(store, o)
  /\ sinceReflect' = IF kind \in {"Critic", "Reflection"} THEN 0 ELSE sinceReflect
  /\ reflected' = (reflected \/ kind = "Reflection")
  /\ summarised' = IF kind = "Summary" THEN summarised \cup Unobserved ELSE summarised

\* run_llm_observations, one request of it: it fails, says all is well, or
\* makes an observation; late when the latency budget is spent.
LlmAnswers(outcome, action, late) ==
  LET kind == asks[1] IN
  /\ stage = "llm" /\ asks # <<>>
  /\ IF outcome = "observation" THEN Processed(kind, action)
     ELSE UNCHANGED <<store, sinceReflect, reflected, summarised>>
  /\ asks' = IF late /\ outcome # "failure" THEN <<>> ELSE Tail(asks)
  /\ UNCHANGED <<judgement, tools, count, index, dropped, cut, needsSync, stage>>

Summarise_AnyOutcome(works) ==
  /\ stage = "llm" /\ asks = <<>> /\ needsSync
  /\ needsSync' = FALSE /\ index' = count
  /\ UNCHANGED <<store, summarised, cut, judgement, sinceReflect, tools, count, dropped, asks,
                 stage, reflected>>

\* run_sync_summarizer
Summarise(works) ==
  /\ stage = "llm" /\ asks = <<>> /\ needsSync
  /\ needsSync' = FALSE
  /\ IF works
     THEN /\ store' = AppendTo(store, [Observation("Summary", "Continue", "certain")
                                       EXCEPT !.turn = turnNo])
          /\ index' = count
          /\ summarised' = summarised \cup Unobserved
          /\ cut' = (cut \/ count > index + Window)
     ELSE UNCHANGED <<store, index, summarised, cut>>
  /\ UNCHANGED <<judgement, sinceReflect, tools, count, dropped, asks, stage, reflected>>

\* build_observation_block shows no reflections; recall may find one.
Shown(recalls) ==
  \/ directive.action # "Continue"
  \/ recalls /\ store # <<>>
  \/ \E i \in DOMAIN store : LET o == store[i] IN
       \/ o.kind \in {"Summary", "Skeleton"}
       \/ o.kind \in {"Watcher", "Critic"} /\ (Len(store) < 2 \/ o.turn = turnNo)

\* run_turn sends the messages, the observed ones but the first two left out
\* if there is a block for them.
SendsView(recalls) ==
  /\ stage = "llm" /\ asks = <<>> /\ ~needsSync
  /\ stage' = "model"
  /\ dropped' = IF Shown(recalls) /\ index > 2 /\ index < count THEN 3..index ELSE {}
  /\ UNCHANGED <<store, judgement, sinceReflect, tools, count, index, summarised, cut,
                 asks, needsSync, reflected>>

\* The answer, and the result of its call or the engine's note that it had none.
Answers(results) ==
  /\ stage = "model" /\ count + 2 <= MaxMessages
  /\ stage' = "turn" /\ count' = count + 2 /\ dropped' = {}
  /\ tools' = LET now == results \o tools IN SubSeq(now, 1, Min({3, Len(now)}))
  /\ UNCHANGED <<store, judgement, sinceReflect, index, summarised, cut, asks, needsSync,
                 reflected>>

\* The user's words come between turns.
UserWrites ==
  /\ stage = "turn" /\ count < MaxMessages
  /\ count' = count + 1
  /\ UNCHANGED <<store, judgement, sinceReflect, tools, index, dropped, summarised, cut,
                 asks, needsSync, stage, reflected>>

\* finalize_compaction, before a turn or when the model refuses the length.
Compacted ==
  /\ stage \in {"turn", "model"} /\ count > 1
  /\ count' = IF stage = "turn" THEN 1 ELSE 2
  /\ index' = 1
  /\ tools' = <<>> /\ tier' = "CodeWithAnalysis"
  /\ dropped' = {} /\ summarised' = {} /\ cut' = FALSE
  /\ stage' = "turn"
  /\ UNCHANGED <<store, turnNo, sinceWatch, consecutive, edits, lastError, resolved, forgotten,
                 directive, sinceReflect, asks, needsSync, reflected>>

Judged(sights, settings) == \E seen \in sights, llm \in settings : TurnComplete(seen, llm)
Condensed == \/ \E outcome \in {"failure", "nothing", "observation"}, action \in Action, late \in BOOLEAN :
                  LlmAnswers(outcome, action, late)
             \/ \E works \in BOOLEAN : Summarise(works)
Sent(found) == \E recalls \in found : SendsView(recalls)
Got(signs) == \E results \in {<<>>} \cup {<<s>> : s \in signs} : Answers(results)

ObserverNext == \/ Judged(Sight, UseLlm) \/ Condensed \/ Sent(BOOLEAN) \/ Got(Sign)
                \/ UserWrites \/ Compacted

ObserverSpec == ObserverInit /\ [][ObserverNext]_observerVars

-----------------------------------------------------------------------------
(* Properties *)

\* A reflection is the only trace of the observations it replaced: once one was made the
\* store always has one.  An older reflection may go, when all of them are reflections
\* (store.rs:46-47 then drops the first).
ReflectionSurvives == reflected => \E i \in DOMAIN store : store[i].kind = "Reflection"

\* "when observer has summarized messages, replace messages 2..last_observed
\* with the observation block" (engine.rs:1498): only what a summary was made of
\* is left out of a request, until a reflection moves the index, which no block
\* shows, or a summary is made of fewer messages than it stands for: it takes
\* twenty and counts all as observed.
OnlySummarisedDropped == reflected \/ cut \/ dropped \subseteq summarised
=============================================================================
