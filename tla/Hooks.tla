------------------------------- MODULE Hooks -------------------------------
(***************************************************************************)
(* The hooks of one agent of di-core: the files they are loaded from, the  *)
(* directives their rules leave behind, and the reviews ("observer roles") *)
(* that they ask for while the engine goes through turns and tool calls.   *)
(*                                                                         *)
(* A file has at most one handler for an event and may define the group,   *)
(* the role "critic" and the binding that require("check") needs.  What a  *)
(* handler says, and what becomes of it in an event, is Program: the       *)
(* language of handlers is a module of its own, HookLang.                  *)
(***************************************************************************)
EXTENDS Integers, Sequences, FiniteSets

CONSTANTS Disks,           \* what may be on disk: [repo, overlays, fires]
          Program,         \* for each handler [ok, uses, does]: whether it compiles,
                           \* the actions in its text, those it leads to in a context
          Changes,         \* the sets of files a tool call may change
          TriggerLimit,    \* max_observer_triggers_per_event (3)
          ValidationLimit, \* max_validation_requests_per_task (20)
          GateLimit,       \* max_finish_gates (10)
          NoFile

Event == {"session_start", "user_prompt", "post_tool_use", "observer_result",
          "task_complete", "pre_finish"}

\* A validation, trigger_observer of the critic, block_finish_until, and the rest.
Action == {"hint", "check", "review", "gate"}

\* What an event tells: the files a tool changed, the observer that reported.
Context == [files : Changes \cup {{}}, observer : {"none", "critic", "native_sqs"}]

Handles(f) == DOMAIN f.on
Written(f) == \A e \in Handles(f) : f.on[e] \in DOMAIN Program

ASSUME HooksAssumption ==
  /\ {TriggerLimit, ValidationLimit, GateLimit} \subseteq Nat
  /\ \A h \in DOMAIN Program : Program[h].does \in [Context -> Seq(Action)]
  /\ \A d \in Disks : \A f \in {d.repo} \cup (d.overlays \ {NoFile}) : Written(f)

VARIABLES
  disk,      \* one of Disks: which overlays there can be, and the bound on events
  overlay,   \* the session overlay on disk
  active,    \* the module in force: [on, role]
  merged,    \* [validations, triggers, gates, seen]
  pc, back,  \* where the engine is, and where it goes after the reviews
  queue,     \* reviews taken for this check
  fires,     \* events so far
  fired,     \* ghost: the last event
  due,       \* ghost: the events whose rules asked for a review since the last check
  granted    \* ghost: those of which a check took the demand and that were not yet run

ghosts == <<fired, due, granted>>
hooksVars == <<disk, overlay, active, merged, pc, back, queue, fires, ghosts>>

-----------------------------------------------------------------------------
(* Loading                                                                 *)

Empty == [on |-> [e \in {} |-> <<>>], role |-> FALSE]

\* The sources are joined before they are parsed: parse_module wants bindings
\* before handlers, the compiler each name and each event once.
Compiles(files) ==
  LET F == {files[i] : i \in DOMAIN files}
      all == UNION {{f.on[e] : e \in Handles(f)} : f \in F}
  IN  /\ \A i, j \in DOMAIN files : i < j =>
           /\ Handles(files[i]) \cap Handles(files[j]) = {}
           /\ files[j].binds => Handles(files[i]) = {}
           /\ ~(files[i].group /\ files[j].group)
           /\ ~(files[i].role /\ files[j].role)
      /\ \A h \in all : Program[h].ok
      /\ "check" \in UNION {Program[h].uses : h \in all} => \E f \in F : f.binds

Module(files) ==
  LET F == {files[i] : i \in DOMAIN files}
      Of(e) == (CHOOSE f \in F : e \in Handles(f)).on[e]
  IN  [on   |-> [e \in UNION {Handles(f) : f \in F} |-> Of(e)],
       role |-> \E f \in F : f.role]

Sources(d, over) == IF over = NoFile THEN <<d.repo>> ELSE <<d.repo, over>>

\* A source that does not compile leaves the module as it was; with none yet an
\* error means an empty one.
LoadedOr(d, over, kept) ==
  IF Compiles(Sources(d, over)) THEN Module(Sources(d, over)) ELSE kept
Loaded(over) == LoadedOr(disk, over, active)
First(d, over) == LoadedOr(d, over, Empty)

Clear == [validations |-> <<>>, triggers |-> <<>>, gates |-> 0, seen |-> {}]
NoEvent == [event |-> "none", ctx |-> [files |-> {}, observer |-> "none"],
            acts |-> <<>>, handler |-> <<>>]

HooksInit ==
  /\ disk \in Disks
  /\ overlay \in disk.overlays
  /\ active = First(disk, overlay)
  /\ merged = Clear
  /\ pc = "idle" /\ back = "idle" /\ queue = <<>>
  /\ fires = 0 /\ fired = NoEvent
  /\ due = {} /\ granted = {}

-----------------------------------------------------------------------------
(* Events                                                                  *)

\* lower_action makes a directive of each action; merge drops a validation or a
\* review that this event has asked for before, and counts every gate.
Count(acts, a) == Cardinality({i \in DOMAIN acts : acts[i] = a})
Merge(m, event, acts) ==
  LET Fresh(a) == (\E i \in DOMAIN acts : acts[i] = a) /\ <<event, a>> \notin m.seen
      With(list, a) == IF Fresh(a) THEN Append(list, <<event, a>>) ELSE list
  IN  [validations |-> With(m.validations, "check"),
       triggers    |-> With(m.triggers, "review"),
       gates       |-> m.gates + Count(acts, "gate"),
       seen        |-> m.seen \cup {<<event, a>> : a \in {x \in {"check", "review"} : Fresh(x)}}]

Upto(s, n) == IF Len(s) > n THEN SubSeq(s, 1, n) ELSE s
Capped(m) ==
  [m EXCEPT !.triggers = Upto(@, TriggerLimit),
            !.validations = Upto(@, ValidationLimit),
            !.gates = IF @ > GateLimit THEN GateLimit ELSE @]

Asks(acts) == \E i \in DOMAIN acts : acts[i] = "review"
ActsFor(event, ctx) ==
  IF event \in DOMAIN active.on THEN Program[active.on[event]].does[ctx] ELSE <<>>

\* on_event, from the merged directives m and what was due before.
OnEvent(event, ctx, m, before) ==
  LET acts == ActsFor(event, ctx)
  IN  /\ fires < disk.fires
      /\ fires' = fires + 1
      /\ merged' = Capped(Merge(m, event, acts))
      /\ fired' = [event |-> event, ctx |-> ctx, acts |-> acts,
                   handler |-> IF event \in DOMAIN active.on THEN active.on[event] ELSE <<>>]
      /\ due' = before \cup (IF Asks(acts) THEN {event} ELSE {})

Fire(event, ctx, m) == OnEvent(event, ctx, m, due)

Quiet(observer) == [files |-> {}, observer |-> observer]

-----------------------------------------------------------------------------
(* The engine                                                              *)

\* run_task: reset, session_start.
StartTask ==
  /\ pc = "idle" /\ pc' = "turn"
  /\ OnEvent("session_start", Quiet("none"), Clear, {})
  /\ granted' = {}
  /\ UNCHANGED <<disk, overlay, active, back, queue>>

\* take_observer_triggers: their keys are forgotten with them.
Drained(m) == [m EXCEPT !.triggers = <<>>, !.seen = {k \in @ : k[2] # "review"}]

Take ==
  /\ queue' = merged.triggers
  /\ merged' = Drained(merged)
  /\ granted' = due /\ due' = {}

\* check_pending_observer_triggers at the start of a turn.
BeginTurn ==
  /\ pc = "turn"
  /\ Take
  /\ pc' = "reviews" /\ back' = "signals"
  /\ UNCHANGED <<disk, overlay, active, fires, fired>>

\* With the observer switched off a turn goes straight to its prompt.
Unobserved ==
  /\ pc = "turn" /\ pc' = "prompt"
  /\ UNCHANGED <<disk, overlay, active, merged, back, queue, fires, ghosts>>

\* A review whose role is known is run, and its result is an event; without a
\* role, a provider or a gateway it is skipped.
Review_Again(ran) ==
  /\ pc = "reviews" /\ queue # <<>>
  /\ ran => active.role
  /\ queue' = Tail(queue)
  /\ IF ran
     THEN Fire("observer_result", Quiet("critic"),
               [merged EXCEPT !.triggers = Append(@, Head(queue))])
     ELSE UNCHANGED <<merged, fires, fired, due>>
  /\ granted' = granted \ {Head(queue)[1]}
  /\ UNCHANGED <<disk, overlay, active, pc, back>>
Review(ran) ==
  /\ pc = "reviews" /\ queue # <<>>
  /\ ran => active.role
  /\ queue' = Tail(queue)
  /\ IF ran
     THEN Fire("observer_result", Quiet("critic"), merged)
     ELSE UNCHANGED <<merged, fires, fired, due>>
  /\ granted' = granted \ {Head(queue)[1]}
  /\ UNCHANGED <<disk, overlay, active, pc, back>>

Reviewed ==
  /\ pc = "reviews" /\ queue = <<>>
  /\ pc' = back
  /\ UNCHANGED <<disk, overlay, active, merged, back, queue, fires, ghosts>>

\* fire_observer_results: a signal of the built-in observer, or none.
Signal ==
  /\ pc = "signals" /\ pc' = "prompt"
  /\ \/ Fire("observer_result", Quiet("native_sqs"), merged)
     \/ UNCHANGED <<merged, fires, fired, due>>
  /\ UNCHANGED <<disk, overlay, active, back, queue, granted>>

Prompt ==
  /\ pc = "prompt" /\ pc' = "tools"
  /\ Fire("user_prompt", Quiet("none"), merged)
  /\ UNCHANGED <<disk, overlay, active, back, queue, granted>>

\* A tool call: post_tool_use, then the reviews it asked for.
ToolCall(files) ==
  /\ pc = "tools"
  /\ Fire("post_tool_use", [files |-> files, observer |-> "none"], merged)
  /\ pc' = "check"
  /\ UNCHANGED <<disk, overlay, active, back, queue, granted>>

CheckTriggers ==
  /\ pc = "check"
  /\ Take
  /\ pc' = "reviews" /\ back' = "tools"
  /\ UNCHANGED <<disk, overlay, active, fires, fired>>

\* "done": the result is presented and the user's next message awaited.
Complete ==
  /\ pc = "tools"
  /\ Fire("task_complete", Quiet("none"), merged)
  /\ UNCHANGED <<disk, overlay, active, pc, back, queue, granted>>

EndTurn ==
  /\ pc = "tools" /\ pc' = "turn"
  /\ UNCHANGED <<disk, overlay, active, merged, back, queue, fires, ghosts>>

\* "task" ends the task, through the finish gate and with the abort flag set.
Finish ==
  /\ pc = "tools" /\ pc' = "gate"
  /\ Fire("pre_finish", Quiet("none"), merged)
  /\ UNCHANGED <<disk, overlay, active, back, queue, granted>>

\* fire_pre_finish_gate: no gate, and the directives are reset; a gate, and the
\* flag makes it "Interrupted" before the user is heard.
Leave ==
  /\ pc = "gate" /\ pc' = "idle"
  /\ merged' = IF merged.gates = 0 THEN Clear ELSE merged
  /\ due' = IF merged.gates = 0 THEN {} ELSE due
  /\ UNCHANGED <<disk, overlay, active, back, queue, fires, fired, granted>>

-----------------------------------------------------------------------------
(* The editor                                                              *)

\* divrr saves an overlay, or it is deleted.
SaveOverlay(f) ==
  /\ f \in disk.overlays /\ f # overlay
  /\ overlay' = f
  /\ UNCHANGED <<disk, active, merged, pc, back, queue, fires, ghosts>>

\* ReloadSessionHooks, heard between turns and while waiting for the user.
Reload ==
  /\ pc \in {"turn", "tools"}
  /\ active' = Loaded(overlay)
  /\ active' # active
  /\ UNCHANGED <<disk, overlay, merged, pc, back, queue, fires, ghosts>>

HooksNext ==
  \/ StartTask \/ BeginTurn \/ Unobserved \/ Reviewed \/ Signal \/ Prompt \/ CheckTriggers
  \/ Complete \/ EndTurn \/ Finish \/ Leave \/ Reload
  \/ \E ran \in BOOLEAN : Review(ran)
  \/ \E files \in Changes : ToolCall(files)
  \/ \E f \in disk.overlays : SaveOverlay(f)

HooksSpec == HooksInit /\ [][HooksNext]_hooksVars

-----------------------------------------------------------------------------
(* Properties                                                              *)

Events(list) == {list[i][1] : i \in DOMAIN list}
Once(list)   == \A i, j \in DOMAIN list : list[i][1] = list[j][1] => i = j

\* Each review answers a demand of its own: what waits for a check was asked
\* for at its event since the last one, once per event, and what a check took
\* and did not yet run was taken by that check, once.  A demand is not lost
\* before its check, unless the task ends first: the events that asked all
\* wait, as long as the cap is not reached.
ReviewsAskedFor ==
  /\ Events(merged.triggers) \subseteq due /\ Once(merged.triggers)
  /\ Events(queue) \subseteq granted /\ Once(queue)
  /\ Events(merged.triggers) = due \/ Len(merged.triggers) = TriggerLimit
=============================================================================
