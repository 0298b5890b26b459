------------------------------ MODULE ToolRuns ------------------------------
(***************************************************************************)
(* How the engine of di-core runs the tool calls of a reply: the circuit   *)
(* breaker, the pre-flight firewall, the coordinator with its cache and    *)
(* its retries, and what is remembered of changes.                         *)
(*                                                                         *)
(* The model's calls come in two forms.  tool_defs.rs asks for a command   *)
(* line, {"command": "..."}, which only execute_raw takes apart: until     *)
(* then a call has no path, and make_cache_key, which drops "command",     *)
(* sees no arguments at all.  Calls with arguments of their own ("fields") *)
(* are accepted as well.                                                   *)
(***************************************************************************)
EXTENDS Integers, FiniteSets, Sequences

CONSTANTS File,       \* files of the project
          Question,   \* what a search can be asked
          Protected,  \* lock files, generated files, vendor/
          Calls,      \* the calls a reply can hold
          StreakLimit,\* changes of a file that are one too many (5)
          Flaky,      \* bound: tools whose attempts can fail
          MaxReplies, \* bound: replies in a session
          MaxCalls,   \* bound: calls in a reply
          NoCall

Tool   == {"write", "edit", "bash", "search", "symbols", "done"}
Code   == {"DaemonTimeout", "DaemonUnavailable", "InvalidInput"}
Change == {"write", "edit"}
Asked  == {"search", "symbols"}    \* what the cache really holds

\* arg: the file, the question, or the command; lazy: the text has "... rest"
Call == [tool : Tool, form : {"line", "fields"}, arg : File \cup Question \cup {NoCall},
         lazy : BOOLEAN]

ASSUME CallsAssumption ==
  /\ Calls \subseteq Call
  /\ Protected \subseteq File
  /\ \A c \in Calls : c.tool \in Change => c.arg \in File
  /\ \A c \in Calls : c.tool \in Asked => c.arg \in Question
  /\ NoCall \notin Question

VARIABLES
  todo,       \* calls of the reply not yet run; finalize gives them any order
  replies,    \* replies so far
  run,        \* the call that is executing, its failed attempts, and whether
              \* one of them took over a minute
  truncated,  \* last_output_truncated
  streak,     \* edit_streaks
  turnEdits,  \* turn_edits
  edited,     \* files_edited
  lastBash,   \* exit of the last bash command
  fails,      \* consecutive_failures of each tool's breaker
  circuit,    \* state of each tool's breaker
  recent,     \* tools whose breaker opened less than 30 s ago
  tried,      \* retry_counters
  cache,      \* the keys of the coordinator's cache
  rested      \* ghost: tools that have not failed for 30 s

breaker == <<fails, circuit, recent, rested>>
notes   == <<streak, turnEdits, edited>>
repliesVars == <<todo, replies, run, truncated, notes, lastBash, breaker, tried, cache>>

-----------------------------------------------------------------------------
\* make_cache_key: "command" is stripped, so a command line leaves nothing.
Key(c) == <<c.tool, IF c.form = "line" THEN NoCall ELSE c.arg>>
Keys   == {Key(c) : c \in Calls}

Path(c) == IF c.form = "fields" THEN {c.arg} \cap File ELSE {}

RepliesInit ==
  /\ todo = {} /\ replies = 0
  /\ run = [call |-> NoCall, tries |-> 0, codes |-> {}, slow |-> FALSE]
  /\ truncated = FALSE
  /\ streak = [f \in File |-> 0]
  /\ turnEdits = {} /\ edited = {}
  /\ lastBash = "none"
  /\ fails = [t \in Tool |-> 0] /\ circuit = [t \in Tool |-> "closed"]
  /\ recent = {} /\ rested = Tool
  /\ tried = [k \in Keys \X Code |-> 0]
  /\ cache = {}

Free == run.call = NoCall

\* A reply of the model: the calls of its tool_calls deltas, or cut short.
Reply(calls, cut) ==
  /\ Free /\ todo = {} /\ replies < MaxReplies
  /\ Cardinality(calls) <= MaxCalls
  /\ todo' = calls
  /\ replies' = replies + 1
  /\ truncated' = (truncated \/ cut)
  /\ turnEdits' = {}
  /\ UNCHANGED <<run, streak, edited, lastBash, breaker, tried, cache>>

-----------------------------------------------------------------------------
(* Before a call runs *)

\* allow_execution; asking an open breaker after 30 s half-opens it.
Allowed(t) == circuit[t] = "open" => t \notin recent
Asking(t)  == [circuit EXCEPT ![t] = IF @ = "open" /\ Allowed(t) THEN "half" ELSE @]

\* preflight_mutation, after the check for a cut reply.
Streak(c) == [f \in File |-> IF f \in Path(c) /\ f \notin Protected /\ ~c.lazy
                                /\ streak[f] < StreakLimit
                             THEN streak[f] + 1 ELSE streak[f]]
BadChange(c) ==
  \E f \in Path(c) : \/ f \in Protected \/ c.lazy
                     \/ Streak(c)[f] >= StreakLimit
                     \/ c.tool = "edit" /\ f \in turnEdits

\* preflight_done: the exit of the last command, if there was one.
BadDone == edited # {} /\ lastBash = "bad"

Cut(c)     == c.tool \in Change \cup {"bash"} /\ truncated
Refused(c) ==
  \/ Cut(c)
  \/ c.tool \in Change /\ BadChange(c)
  \/ c.tool = "done" /\ BadDone

Paused(c) ==
  /\ Free /\ c \in todo /\ ~Allowed(c.tool)
  /\ todo' = todo \ {c}
  /\ UNCHANGED <<replies, run, truncated, notes, lastBash, breaker, tried, cache>>

Refuse(c) ==
  /\ Free /\ c \in todo /\ Allowed(c.tool) /\ Refused(c)
  /\ todo' = todo \ {c}
  /\ circuit' = Asking(c.tool)
  /\ truncated' = (truncated /\ ~Cut(c))
  /\ streak' = IF c.tool \in Change /\ ~Cut(c) THEN Streak(c) ELSE streak
  /\ UNCHANGED <<replies, run, turnEdits, edited, lastBash,
                 fails, recent, rested, tried, cache>>

\* The coordinator looks into its cache first; a hit counts as a success.
Served(c) ==
  /\ Free /\ c \in todo /\ Allowed(c.tool)
  /\ c.tool \in Asked /\ Key(c) \in cache
  /\ todo' = todo \ {c}
  /\ circuit' = [circuit EXCEPT ![c.tool] = "closed"]
  /\ fails' = [fails EXCEPT ![c.tool] = 0]
  /\ UNCHANGED <<replies, run, truncated, notes, lastBash, recent, rested,
                 tried, cache>>

Start(c) ==
  /\ Free /\ c \in todo /\ Allowed(c.tool) /\ ~Refused(c)
  /\ c.tool \in Asked => Key(c) \notin cache
  /\ todo' = todo \ {c}
  /\ circuit' = Asking(c.tool)
  /\ run' = [call |-> c, tries |-> 0, codes |-> {}, slow |-> FALSE]
  /\ streak' = IF c.tool \in Change THEN Streak(c) ELSE streak
  /\ turnEdits' = IF c.tool \in Change THEN turnEdits \cup Path(c) ELSE turnEdits
  /\ UNCHANGED <<replies, truncated, edited, lastBash,
                 fails, recent, rested, tried, cache>>

-----------------------------------------------------------------------------
(* Attempts *)

\* What the engine notes after any call, failed or not: only a path in the
\* arguments is seen.
Noted(c) ==
  edited' = IF c.tool \in Change THEN edited \cup Path(c) ELSE edited

\* invalidate_for_path and invalidate_search_and_repo, for a change with a path in its
\* arguments: symbols stay, and after a change in a command line everything does.
Forgets(c) ==
  IF c.tool \in Change /\ Path(c) # {} THEN {k \in cache : k[1] = "search"} ELSE {}

Ended == [call |-> NoCall, tries |-> 0, codes |-> {}, slow |-> FALSE]

\* Results of the tools that may be cached are kept, short of errors; which entries a full
\* cache drops is left out.
Kept(c) == IF c.tool \in Asked THEN {Key(c)} ELSE {}

\* An attempt that works.  The exit of a command may be bad: that is still a
\* result of the tool.
Works(exit) ==
  LET c == run.call IN
  /\ ~Free
  /\ c.tool # "bash" => exit = "ok"
  /\ run' = Ended
  /\ circuit' = [circuit EXCEPT ![c.tool] = "closed"]
  /\ fails' = [fails EXCEPT ![c.tool] = 0]
  /\ lastBash' = IF c.tool = "bash" THEN exit ELSE lastBash
  /\ cache' = (cache \ Forgets(c)) \cup Kept(c)
  /\ Noted(c)
  /\ UNCHANGED <<todo, replies, truncated, streak, turnEdits, recent, rested, tried>>

\* ErrorRouter::route: the guard counts the retries remembered for this
\* tool, code and input together with those of this call.
Guarded_ThisCallOnly(k, code) == run.tries >= 2
Guarded(k, code) == tried[<<k, code>>] + run.tries >= 2
MaxRetries(code) == CASE code = "DaemonUnavailable" -> 3
                      [] code = "DaemonTimeout" -> 2
                      [] OTHER -> 0
Retries(k, code) ==
  /\ run.tries < 2                       \* total_budget
  /\ ~Guarded(k, code)
  /\ run.tries < MaxRetries(code)

\* A failed attempt that is tried again, after a pause.
Again(code) ==
  LET c == run.call IN
  /\ ~Free /\ c.tool \in Flaky
  /\ Retries(Key(c), code)
  /\ run' = [run EXCEPT !.tries = @ + 1, !.codes = @ \cup {code}]
  /\ tried' = [tried EXCEPT ![<<Key(c), code>>] = @ + 1]
  /\ UNCHANGED <<todo, replies, truncated, notes, lastBash, breaker, cache>>

\* record_failure.
RecordFailure_OpensOnce(t) ==
  /\ fails' = [fails EXCEPT ![t] = IF @ < 3 THEN @ + 1 ELSE @]
  /\ circuit' = [circuit EXCEPT ![t] = IF fails'[t] >= 3 THEN "open" ELSE @]
  /\ recent' = IF fails'[t] >= 3 /\ fails[t] < 3 THEN recent \cup {t} ELSE recent
RecordFailure(t) ==
  /\ fails' = [fails EXCEPT ![t] = IF @ < 3 THEN @ + 1 ELSE @]
  /\ circuit' = [circuit EXCEPT ![t] = IF fails'[t] >= 3 THEN "open" ELSE @]
  /\ recent' = IF fails'[t] >= 3 THEN recent \cup {t} ELSE recent

\* A failed attempt that is the last one: the error goes to the model.  The
\* budget leaves the counter alone, every other way out removes it.
GivesUp(code) ==
  LET c == run.call IN
  /\ ~Free /\ c.tool \in Flaky
  /\ ~Retries(Key(c), code)
  /\ run' = Ended
  /\ tried' = IF run.tries >= 2 THEN tried ELSE [tried EXCEPT ![<<Key(c), code>>] = 0]
  /\ RecordFailure(c.tool)
  /\ rested' = rested \ {c.tool}
  /\ Noted(c)
  /\ cache' = cache \ Forgets(c)
  /\ UNCHANGED <<todo, replies, truncated, streak, turnEdits, lastBash>>

-----------------------------------------------------------------------------
(* The world *)

\* Thirty seconds pass, between calls or while one runs; after sixty the router
\* forgets.
Pause(long) ==
  /\ recent # {} \/ rested # Tool \/ (long /\ \E k \in DOMAIN tried : tried[k] > 0)
  /\ recent' = {} /\ rested' = Tool
  /\ tried' = IF long THEN [k \in DOMAIN tried |-> 0] ELSE tried
  /\ run' = [run EXCEPT !.slow = @ \/ (long /\ ~Free)]
  /\ UNCHANGED <<todo, replies, truncated, notes, lastBash, fails, circuit, cache>>

\* Compaction: reset_router; the caches stay.
Compact ==
  /\ Free /\ todo = {}
  /\ \E k \in DOMAIN tried : tried[k] > 0
  /\ tried' = [k \in DOMAIN tried |-> 0]
  /\ UNCHANGED <<todo, replies, run, truncated, notes, lastBash, breaker, cache>>

RepliesNext ==
  \/ \E calls \in SUBSET Calls, cut \in BOOLEAN : Reply(calls, cut)
  \/ \E c \in todo : Paused(c) \/ Refuse(c) \/ Served(c) \/ Start(c)
  \/ \E exit \in {"ok", "bad"} : Works(exit)
  \/ \E code \in Code : Again(code) \/ GivesUp(code)
  \/ \E long \in BOOLEAN : Pause(long)
  \/ Compact

RepliesSpec == RepliesInit /\ [][RepliesNext]_repliesVars

-----------------------------------------------------------------------------
(* Properties *)

\* After three failures of a tool in a row, none of its calls is executed
\* until it has not failed for thirty seconds, not even after a half-open
\* attempt that fails again (recovery.rs, CircuitBreaker).
BreakerPauses ==
  [][Free /\ ~Free' => LET t == run'.call.tool IN fails[t] < 3 \/ t \in rested]_repliesVars

\* A call is tried three times at most, and unless an attempt takes over a
\* minute no kind of error earns it a second retry, whatever earlier calls
\* left in the router's counters: the guard comes before the limits of
\* default_max_retries (two and three) can be reached.
OneRetryPerCode ==
  /\ run.tries <= 2
  /\ ~run.slow => Cardinality(run.codes) = run.tries
=============================================================================
