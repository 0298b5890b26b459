------------------------------ MODULE Settings ------------------------------
(***************************************************************************)
(* The settings dialog of divrr (divrr/src/settings.rs, settings_model.rs, *)
(* the event loop in main.rs) and the three places its settings go to: the *)
(* file, the gateway and di-core (MultiAgentOrchestrator).                 *)
(*                                                                         *)
(* The event loop handles one key or result at a time; queries and saves   *)
(* run in threads that outlive the dialog that started them.  Text is a    *)
(* value typed as a whole; the base URL goes the way of the API key, the   *)
(* other numbers of a role that of its switch, and providers have at most  *)
(* one parameter.  Colours, messages on screen and "saved" are left out.   *)
(***************************************************************************)
EXTENDS Integers, Sequences, FiniteSets, FiniteSetsExt, SequencesExt

CONSTANTS
  Roles,            \* ROLES, in order; the first is "act"
  Switchable,       \* roles with behaviour settings
  Listed,           \* what the gateway lists: the providers, in order
  ModelsOf,         \* and the models of each
  Tunable,          \* providers with a parameter
  Default, Ceiling, \* its default and its largest value
  Keys, Numbers,    \* what users type
  Themes,
  None,             \* the empty string
  Files,            \* provider-settings.json at the start
  MaxKeys, MaxDialogs, MaxAgents, MaxTrouble   \* bounds

ASSUME SettingsAssumption ==
  /\ Roles \in Seq(ToSet(Roles)) /\ Roles # <<>> /\ IsInjective(Roles)
  /\ Listed \in Seq(ToSet(Listed)) /\ \A p \in ToSet(Listed) : ModelsOf[p] \in Seq(ToSet(ModelsOf[p]))
  /\ Switchable \subseteq ToSet(Roles)
  /\ Tunable \subseteq ToSet(Listed) /\ None \notin ToSet(Listed)
  /\ {Default, Ceiling} \subseteq Int /\ Default <= Ceiling
  /\ \A f \in Files :
       f = [roles |-> [r \in ToSet(Roles) |-> f.roles[r]], on |-> [r \in ToSet(Roles) |-> f.on[r]],
            theme |-> f.theme]
  /\ {MaxKeys, MaxDialogs, MaxAgents, MaxTrouble} \subseteq Nat

VARIABLES
  file,      \* provider-settings.json
  gateway,   \* the configuration under each "provider:role"
  core,      \* di-core: [inbox, defaults, agents], and what each agent was told
  dlg,       \* app.settings, or Closed
  threads,   \* blocking tasks and save threads
  pressed, opened, trouble,   \* bounded
  calm       \* ghost: the last writer of the settings ran alone and met no failure

settingsVars == <<file, gateway, core, dlg, threads, pressed, opened, trouble, calm>>

Role == ToSet(Roles)
NoRole == [provider |-> None, key |-> None, model |-> None, number |-> None]

-----------------------------------------------------------------------------
(* Fields *)

Selector(options, index) == [kind |-> "selector", options |-> options, index |-> index]
Text(value) == [kind |-> "text", value |-> value]
Secret(value) == [kind |-> "secret", value |-> value]

Chosen(f) == IF f.index \in DOMAIN f.options THEN f.options[f.index] ELSE None

\* position(..).unwrap_or(0)
PlaceOf(x, options) == IF x \in ToSet(options) THEN CHOOSE i \in DOMAIN options : options[i] = x ELSE 1
Only(x) == IF x = None THEN <<>> ELSE <<x>>

MinimalFields(rs) ==
  <<Selector(<<rs.provider>>, 1), Secret(rs.key), Selector(Only(rs.model), 1)>>

ProviderField(rs, providers) ==
  IF rs.provider = None THEN Selector(<<None>> \o providers, 1)
  ELSE Selector(providers, PlaceOf(rs.provider, providers))

FailedFields(rs, providers) ==
  <<ProviderField(rs, providers), Secret(rs.key), Selector(Only(rs.model), 1)>>

NumberField(value) == Text(IF value = None THEN Default ELSE value)

\* build_role_fields: the fields, and whose parameters they end with.
RoleFields(rs, providers, available, outcome) ==
  LET id == IF rs.provider = None \/ providers = <<>> THEN rs.provider
            ELSE providers[PlaceOf(rs.provider, providers)]
      asked == available /\ id # None
      models == IF asked THEN ModelsOf[id] ELSE Only(rs.model)
      known == asked /\ outcome = "ok"
  IN  IF asked /\ outcome = "no models"
      THEN [fields |-> FailedFields(rs, providers), info |-> None]
      ELSE [fields |-> <<ProviderField(rs, providers), Secret(rs.key),
                         Selector(models, PlaceOf(rs.model, models))>>
                       \o IF known /\ id \in Tunable THEN <<NumberField(rs.number)>> ELSE <<>>,
            info |-> IF known THEN id ELSE None]

BehaviorFields(role, on) ==
  IF role \in Switchable THEN <<Selector(<<"off", "on">>, IF on THEN 2 ELSE 1)>> ELSE <<>>

ThemeFields(theme) == <<Selector(Themes, PlaceOf(theme, Themes))>>

\* field_to_param_value
Clamped(value) == IF value = None THEN None ELSE Min({value, Ceiling})

\* gather_role_settings, for fields that end with the parameters of info.
Gathered(fields, info) ==
  IF Len(fields) < 3 THEN NoRole
  ELSE [provider |-> Chosen(fields[1]), key |-> fields[2].value, model |-> Chosen(fields[3]),
        number |-> IF info \in Tunable /\ Len(fields) > 3 THEN Clamped(fields[4].value) ELSE None]

-----------------------------------------------------------------------------
(* The dialog *)

Closed == [open |-> FALSE]
Shut == [at |-> 0, options |-> <<>>]
NoBuffer == [open |-> FALSE, text |-> None]

\* new_empty.  The ghosts: which dialog it is, the settings it has read, the roles the user
\* has edited, and whether everything it asked for arrived.
Fresh(n) ==
  [open |-> TRUE, panel |-> "provider", role |-> 1, fields |-> MinimalFields(file.roles[Roles[1]]),
   cursor |-> 0, list |-> Shut, secret |-> NoBuffer,
   saving |-> FALSE, loading |-> TRUE, available |-> FALSE, providers |-> <<>>, info |-> None,
   all |-> file, seq |-> 0,
   number |-> n, read |-> file, edited |-> {}, fine |-> TRUE]

Shown(d) == Roles[d.role]
Field(d) == IF d.cursor = 0 THEN 1 ELSE d.cursor
OnField(d, kind) == Field(d) \in DOMAIN d.fields /\ d.fields[Field(d)].kind = kind
OnProvider(d) == Field(d) = 1 /\ d.panel = "provider"

Flushed(d) ==
  CASE d.panel = "provider" -> [d EXCEPT !.all.roles[Shown(d)] = Gathered(d.fields, d.info)]
    [] d.panel = "role" ->
         [d EXCEPT !.all.on[Shown(d)] =
            Shown(d) \in Switchable /\ d.fields # <<>> /\ d.fields[1].kind = "selector"
              /\ d.fields[1].index = 2]
    [] OTHER ->
         IF d.fields # <<>> /\ d.fields[1].kind = "selector" /\ Chosen(d.fields[1]) # None
         THEN [d EXCEPT !.all.theme = Chosen(d.fields[1])] ELSE d

\* What a key leads to: the dialog, and the threads it starts.
Just(d) == [dlg |-> d, start |-> <<>>]

Reloads(d, rs) ==
  [dlg |-> [d EXCEPT !.loading = TRUE, !.seq = @ + 1],
   start |-> <<[kind |-> "fields", from |-> d.number, seq |-> d.seq + 1, rs |-> rs,
                providers |-> d.providers, available |-> d.available]>>]

WithRoleFields_AlwaysLoading(d) ==
  LET rs == d.all.roles[Shown(d)]
      e == [d EXCEPT !.fields = MinimalFields(rs), !.loading = TRUE]
  IN  IF d.available THEN Reloads(e, rs) ELSE Just(e)
WithRoleFields(d) ==
  LET rs == d.all.roles[Shown(d)]
      e == [d EXCEPT !.fields = MinimalFields(rs)]
  IN  IF d.available THEN Reloads(e, rs) ELSE Just(e)

Rebuilt(d) ==
  LET fields == IF d.panel = "role" THEN BehaviorFields(Shown(d), d.all.on[Shown(d)])
                ELSE ThemeFields(d.all.theme) IN
  IF d.panel = "provider" THEN WithRoleFields(d)
  ELSE Just([d EXCEPT !.fields = fields, !.cursor = Min({@, Len(fields)})])

\* The fields of the panel that is left are not flushed.
SwitchPanel(d) ==
  Rebuilt([d EXCEPT !.cursor = 0,
             !.panel = CASE @ = "provider" -> "role" [] @ = "role" -> "theme" [] OTHER -> "provider"])

ModelCleared(d) ==
  IF Len(d.fields) < 3 \/ d.fields[3].kind # "selector" THEN d
  ELSE [d EXCEPT !.fields[3] = Selector(<<>>, 1)]

KeyCleared(d) ==
  IF Len(d.fields) < 2 \/ d.fields[2].kind # "secret" THEN d
  ELSE [d EXCEPT !.fields[2] = Secret(None)]

ReloadModels(d) ==
  LET e == Flushed(ModelCleared(d)) IN Reloads(e, Gathered(e.fields, e.info))

OnProviderChanged(d) == ReloadModels(KeyCleared(d))

Edited(d) == IF d.panel = "provider" THEN [d EXCEPT !.edited = @ \cup {Shown(d)}] ELSE d

\* The selector under the cursor is set to its i-th option.
Selects(d, i) ==
  LET e == Edited([d EXCEPT !.fields[Field(d)].index = i]) IN
  IF OnProvider(d) THEN OnProviderChanged(e) ELSE Just(e)

\* select_left and select_right.
Step_FlushedAfter(d, by) ==
  IF d.cursor = 0
  THEN IF d.role + by \in DOMAIN Roles THEN Rebuilt(Flushed([d EXCEPT !.role = @ + by])) ELSE Just(d)
  ELSE IF OnField(d, "selector") /\ d.fields[Field(d)].index + by \in DOMAIN d.fields[Field(d)].options
       THEN Selects(d, d.fields[Field(d)].index + by)
       ELSE Just(d)
Step(d, by) ==
  IF d.cursor = 0
  THEN IF d.role + by \in DOMAIN Roles THEN Rebuilt([Flushed(d) EXCEPT !.role = @ + by]) ELSE Just(d)
  ELSE IF OnField(d, "selector") /\ d.fields[Field(d)].index + by \in DOMAIN d.fields[Field(d)].options
       THEN Selects(d, d.fields[Field(d)].index + by)
       ELSE Just(d)

Move(d, by) ==
  IF d.cursor + by \in 0 .. Len(d.fields) THEN [d EXCEPT !.cursor = @ + by] ELSE d

\* open_selector, with all options shown, and open_secret_edit.
Opened(d) ==
  CASE d.cursor > 0 /\ OnField(d, "secret") ->
         [d EXCEPT !.secret = [open |-> TRUE, text |-> d.fields[Field(d)].value]]
    [] OnField(d, "selector") ->
         LET f == d.fields[Field(d)] IN
         [d EXCEPT !.list = [at |-> IF f.index \in DOMAIN f.options THEN f.index ELSE 1,
                             options |-> [i \in DOMAIN f.options |-> i]]]
    [] OTHER -> d

ListOpen(d) == d.list.at # 0

\* rebuild_filtered_indices: another filter, another choice of the options.
Filtered(d, some) ==
  [d EXCEPT !.list = [at |-> IF @.at \in DOMAIN some THEN @.at ELSE 1, options |-> some]]

Confirmed(d) ==
  LET e == [d EXCEPT !.list = Shut] IN
  IF d.list.options = <<>> THEN Just(d)
  ELSE IF ~OnField(d, "selector") THEN Just(e)
  ELSE Selects(e, d.list.options[d.list.at])

SecretConfirmed(d) ==
  LET e == [d EXCEPT !.secret = NoBuffer]
      f == IF OnField(d, "secret")
           THEN Edited([e EXCEPT !.fields[Field(d)] = Secret(d.secret.text)]) ELSE e
  IN  IF d.panel = "provider" /\ Field(d) = 2 /\ d.available THEN ReloadModels(f) ELSE Just(f)

Typed(d, value) ==
  IF d.cursor > 0 /\ OnField(d, "text") THEN Edited([d EXCEPT !.fields[Field(d)] = Text(value)]) ELSE d

\* save: what was typed last is checked by the next save only.
Saved(d) ==
  LET configured == {r \in Role : d.all.roles[r].provider # None}
      e == [Flushed(d) EXCEPT !.saving = TRUE] IN
  IF configured = {} \/ \E r \in configured : d.all.roles[r].model = None THEN Just(d)
  ELSE [dlg |-> e,
        start |-> <<[kind |-> "save", from |-> d.number, all |-> e.all, next |-> 1, told |-> FALSE]>>]

-----------------------------------------------------------------------------
(* Keys *)

\* handle_key: what a key may change, and where one may lead on the screen.
FieldKey(d) ==
  {Step(d, -1), Step(d, 1), SwitchPanel(d), Saved(d)} \cup {Just(Typed(d, v)) : v \in Numbers \cup {None}}
FieldView(d) == {Opened(d), Move(d, -1), Move(d, 1)}

ListKey(d) == {Confirmed(d)}
ListView(d) ==
  {[d EXCEPT !.list = Shut]}
    \cup {[d EXCEPT !.list.at = i] : i \in {d.list.at - 1, d.list.at + 1} \cap DOMAIN d.list.options}
    \cup {Filtered(d, SetToSortSeq(s, <)) :
            s \in IF OnField(d, "selector") THEN SUBSET (DOMAIN d.fields[Field(d)].options) ELSE {{}}}

SecretKey(d) == {SecretConfirmed(d)}
SecretView(d) ==
  {[d EXCEPT !.secret = NoBuffer]} \cup {[d EXCEPT !.secret.text = k] : k \in Keys \cup {None}}

KeyIn(d) == IF d.secret.open THEN SecretKey(d) ELSE IF ListOpen(d) THEN ListKey(d) ELSE FieldKey(d)
ViewIn(d) == IF d.secret.open THEN SecretView(d) ELSE IF ListOpen(d) THEN ListView(d) ELSE FieldView(d)

Writers == {i \in DOMAIN threads : threads[i].kind \in {"push", "save"}}
IsSave(t) == t.kind = "save"

\* The messages go out in order; one that cannot be sent is dropped.
Sent(messages) ==
  \/ core' = [core EXCEPT !.inbox = @ \o messages] /\ UNCHANGED trouble
  \/ /\ trouble < MaxTrouble /\ trouble' = trouble + 1
     /\ \E i \in DOMAIN messages : core' = [core EXCEPT !.inbox = @ \o RemoveAt(messages, i)]

Starts(new) ==
  /\ threads' = threads \o new
  /\ calm' = IF \E i \in DOMAIN new : IsSave(new[i]) THEN Writers = {} ELSE calm

Counted == pressed < MaxKeys /\ pressed' = pressed + 1

Key ==
  /\ dlg.open /\ ~dlg.loading /\ ~dlg.saving
  /\ Counted
  /\ \E e \in KeyIn(dlg) : dlg' = e.dlg /\ Starts(e.start)
  /\ UNCHANGED <<file, gateway, core, opened, trouble>>

\* Keys that only move or edit what is not confirmed.
View ==
  /\ dlg.open /\ ~dlg.loading /\ ~dlg.saving
  /\ dlg' \in ViewIn(dlg)
  /\ UNCHANGED <<file, gateway, core, threads, pressed, opened, trouble, calm>>

\* Esc closes the dialog, also while it loads or saves; what it started goes on.
Esc ==
  /\ dlg.open
  /\ dlg.loading \/ dlg.saving \/ (~ListOpen(dlg) /\ ~dlg.secret.open)
  /\ dlg' = Closed
  /\ UNCHANGED <<file, gateway, core, threads, pressed, opened, trouble, calm>>

\* ":settings"
Open ==
  /\ ~dlg.open /\ opened < MaxDialogs
  /\ Counted /\ opened' = opened + 1
  /\ Starts(<<[kind |-> "initial", from |-> opened', rs |-> NoRole, read |-> FALSE]>>)
  /\ dlg' = [Fresh(opened') EXCEPT !.fine = ~\E i \in DOMAIN threads : IsSave(threads[i])]
  /\ UNCHANGED <<file, gateway, core, trouble>>

\* Messages for di-core: the roles that are complete, and the observer's switch.
Complete(rs) == rs.provider # None /\ rs.model # None
ProviderMessage(all, r) == [type |-> "provider", role |-> r, rs |-> all.roles[r]]
ProviderMessages(all) ==
  LET upTo[i \in 0 .. Len(Roles)] ==
        IF i = 0 THEN <<>>
        ELSE IF Complete(all.roles[Roles[i]]) THEN Append(upTo[i - 1], ProviderMessage(all, Roles[i]))
        ELSE upTo[i - 1]
  IN  upTo[Len(Roles)]

ObserverMessage(all) == [type |-> "observer", on |-> all.on["observer"]]

\* ":new task": the settings of the file go along.
NewAgent ==
  /\ ~dlg.open
  /\ Len(core.agents) + Cardinality({k \in DOMAIN core.inbox : core.inbox[k].type = "spawn"}) < MaxAgents
  /\ Sent(Append(ProviderMessages(file), [type |-> "spawn"]))
  /\ UNCHANGED <<file, gateway, dlg, threads, pressed, opened, calm>>

-----------------------------------------------------------------------------
(* Threads *)

ThreadEnds(i) == threads' = RemoveAt(threads, i)
Outcomes(sort) == {"ok"} \cup IF trouble < MaxTrouble THEN sort ELSE {}
Queries == {"no models", "no info"}   \* query_models, query_provider_info
Refusals == {"refused"}               \* validate_parameters, push_role_to_gateway
Failing(outcome) == trouble' = trouble + (IF outcome = "ok" THEN 0 ELSE 1)

Filled(d, t, answer, outcome) ==
  [d EXCEPT !.fields = answer.fields, !.info = answer.info, !.loading = FALSE,
            !.cursor = Min({@, Len(answer.fields)}),
            !.fine = @ /\ t.from = d.number /\ outcome = "ok"]

\* The settings are read again by the thread, for the first role.
ReadFile(i) ==
  /\ threads[i].kind = "initial" /\ ~threads[i].read
  /\ threads' = [threads EXCEPT ![i].read = TRUE, ![i].rs = file.roles[Roles[1]]]
  /\ UNCHANGED <<file, gateway, core, dlg, pressed, opened, trouble, calm>>

\* apply_initial_load: nothing is flushed, and no number is compared.
InitialLoad(i) ==
  LET t == threads[i] IN
  /\ t.kind = "initial" /\ t.read
  /\ \E outcome \in Outcomes({"down", "no providers"} \cup Queries) :
       LET available == outcome # "down"
           providers == IF outcome \in {"down", "no providers"} THEN <<>> ELSE Listed
           answer == RoleFields(t.rs, providers, available,
                                IF outcome = "no providers" THEN "ok" ELSE outcome)
       IN  /\ Failing(outcome)
           /\ dlg' = IF ~dlg.open THEN dlg
                     ELSE [Filled(dlg, t, answer, outcome) EXCEPT
                             !.providers = providers, !.available = available]
  /\ ThreadEnds(i)
  /\ UNCHANGED <<file, gateway, core, pressed, opened, calm>>

\* apply_provider_changed
ProviderChanged(i) ==
  LET t == threads[i] IN
  /\ t.kind = "fields"
  /\ \E outcome \in Outcomes(Queries) :
       /\ Failing(outcome)
       /\ dlg' = IF ~dlg.open THEN dlg
                 ELSE IF t.seq # dlg.seq THEN [dlg EXCEPT !.loading = FALSE, !.fine = @ /\ t.from = dlg.number]
                 ELSE Flushed(Filled(dlg, t, RoleFields(t.rs, t.providers, t.available, outcome), outcome))
  /\ ThreadEnds(i)
  /\ UNCHANGED <<file, gateway, core, pressed, opened, calm>>

\* push_role_to_gateway: a provider that the gateway does not know is refused (api-gateway
\* main.go, set-provider), and nobody looks at the answer.
Pushed_ByProvider(role, rs) ==
  gateway' = [k \in DOMAIN gateway |-> IF k[1] = rs.provider THEN rs ELSE gateway[k]]
Pushed(role, rs) == gateway' = [gateway EXCEPT ![<<rs.provider, role>>] = rs]

\* Where the roles stand that a thread still has to push: those with a provider.
Waiting(t) == {k \in t.next .. Len(Roles) : t.all.roles[Roles[k]].provider # None}
Pushes(t, role) == Pushed(role, t.all.roles[role])

\* push_all_to_gateway at the start: the file is read, then a role after the other; a
\* failure is logged.
PushLoads(i) ==
  /\ threads[i].kind = "push" /\ ~threads[i].read
  /\ threads' = [threads EXCEPT ![i].read = TRUE, ![i].all = file]
  /\ UNCHANGED <<file, gateway, core, dlg, pressed, opened, trouble, calm>>

PushRole(i) ==
  LET t == threads[i] IN
  /\ t.kind = "push" /\ t.read
  /\ IF Waiting(t) = {} THEN ThreadEnds(i) /\ UNCHANGED <<gateway, trouble, calm>>
     ELSE /\ threads' = [threads EXCEPT ![i].next = Min(Waiting(t)) + 1]
          /\ \E outcome \in Outcomes({"down"}) :
               /\ Failing(outcome)
               /\ calm' = (calm /\ outcome = "ok")
               /\ IF outcome = "ok" THEN Pushes(t, Roles[Min(Waiting(t))])
                  ELSE UNCHANGED gateway
  /\ UNCHANGED <<file, core, dlg, pressed, opened>>

\* The dialog hears of a save; the messages are sent even if it was closed.
Told(t) == dlg' = IF t.told \/ ~dlg.open THEN dlg ELSE [dlg EXCEPT !.saving = FALSE]

\* A role is validated and pushed; the first refusal ends the save.
SaveRole(i) ==
  LET t == threads[i] IN
  /\ IsSave(t) /\ Waiting(t) # {}
  /\ \E outcome \in Outcomes(Refusals) :
       /\ Failing(outcome)
       /\ calm' = (calm /\ outcome = "ok")
       /\ IF outcome = "ok"
          THEN /\ Pushes(t, Roles[Min(Waiting(t))])
               /\ threads' = [threads EXCEPT ![i].next = Min(Waiting(t)) + 1]
               /\ UNCHANGED dlg
          ELSE ThreadEnds(i) /\ Told(t) /\ UNCHANGED gateway
  /\ UNCHANGED <<file, core, pressed, opened>>

\* save_all_settings_to_disk: a temporary file and a rename, and the message that tells of
\* it, which is one step here with its arrival.
SaveFile(i) ==
  LET t == threads[i] IN
  /\ IsSave(t) /\ Waiting(t) = {}
  /\ \/ /\ file' = t.all
        /\ IF t.told THEN UNCHANGED <<core, trouble>>
           ELSE Sent(Append(ProviderMessages(t.all), ObserverMessage(t.all)))
        /\ calm' = (calm /\ ~t.told /\ UNCHANGED trouble)
     \/ /\ trouble < MaxTrouble /\ trouble' = trouble + 1
        /\ calm' = FALSE
        /\ UNCHANGED <<file, core>>
  /\ Told(t) /\ ThreadEnds(i)
  /\ UNCHANGED <<gateway, pressed, opened>>

\* After 30 seconds the dialog is told that the save has failed; its thread goes on.
SaveTimesOut(i) ==
  LET t == threads[i] IN
  /\ IsSave(t) /\ ~t.told /\ trouble < MaxTrouble
  /\ trouble' = trouble + 1 /\ calm' = FALSE
  /\ Told(t)
  /\ threads' = [threads EXCEPT ![i].told = TRUE]
  /\ UNCHANGED <<file, gateway, core, pressed, opened>>

-----------------------------------------------------------------------------
(* di-core *)

\* set_provider_config and its kin: the default, and the copy of each running agent that does
\* not read it at that moment.
TakesProvider(m, heard) ==
  [core EXCEPT !.inbox = Tail(@), !.defaults[m.role] = m.rs,
     !.agents = [a \in DOMAIN @ |-> IF a \in heard THEN [@[a] EXCEPT !.roles[m.role] = m.rs] ELSE @[a]]]

\* set_observer_config, which has no default
TakesSwitch(m, heard) ==
  [core EXCEPT !.inbox = Tail(@),
     !.agents = [a \in DOMAIN @ |-> IF a \in heard THEN [@[a] EXCEPT !.on = m.on] ELSE @[a]]]

\* spawn_agent
Spawned == [core EXCEPT !.inbox = Tail(@), !.agents = Append(@, [roles |-> core.defaults, on |-> FALSE])]

TakeMessage ==
  /\ core.inbox # <<>>
  /\ \E heard \in SUBSET DOMAIN core.agents :
       LET m == Head(core.inbox) IN
       /\ core' = CASE m.type = "provider" -> TakesProvider(m, heard)
                    [] m.type = "observer" -> TakesSwitch(m, heard)
                    [] OTHER -> Spawned
       /\ calm' = (calm /\ heard = DOMAIN core.agents)
  /\ UNCHANGED <<file, gateway, dlg, threads, pressed, opened, trouble>>

-----------------------------------------------------------------------------

SettingsInit ==
  /\ file \in Files
  /\ gateway = [k \in ToSet(Listed) \X Role |-> NoRole]
  /\ core = [inbox |-> ProviderMessages(file), defaults |-> [r \in Role |-> NoRole],
             agents |-> <<>>]
  /\ dlg = Closed
  /\ threads = <<[kind |-> "push", from |-> 0, all |-> file, next |-> 1, read |-> FALSE]>>
  /\ pressed = 0 /\ opened = 0 /\ trouble = 0
  /\ calm = TRUE

Threads ==
  \E i \in DOMAIN threads :
    \/ ReadFile(i) \/ InitialLoad(i) \/ ProviderChanged(i)
    \/ PushLoads(i) \/ PushRole(i)
    \/ SaveRole(i) \/ SaveFile(i) \/ SaveTimesOut(i)

SettingsNext ==
  \/ Key \/ View \/ Esc \/ Open \/ NewAgent
  \/ Threads
  \/ TakeMessage

SettingsSpec == SettingsInit /\ [][SettingsNext]_settingsVars

-----------------------------------------------------------------------------
(* Properties *)

\* A dialog ignores every key but Esc while it loads or saves, so there is always a thread
\* that will end it: whatever was closed, timed out or answered late before.
LoadingEnds ==
  dlg.open =>
    /\ dlg.loading => \E i \in DOMAIN threads : threads[i].kind \in {"initial", "fields"}
    /\ dlg.saving => \E i \in DOMAIN threads : IsSave(threads[i]) /\ ~threads[i].told

\* The same settings, once the defaults of parameters are filled in; parameters belong to
\* a provider.
Same(a, b) ==
  LET Number(rs) == IF rs.number = None THEN Default ELSE rs.number
  IN  /\ a.provider = b.provider /\ a.key = b.key /\ a.model = b.model
      /\ a.provider \in Tunable => Number(a) = Number(b)

\* The gateway lists what the settings name, and takes the number.
Known(rs) ==
  rs.provider # None =>
    /\ rs.provider \in ToSet(Listed)
    /\ rs.model \in ToSet(ModelsOf[rs.provider])
    /\ rs.number # None => rs.number \in Int /\ rs.number <= Ceiling

\* Looking changes nothing: as long as the gateway answers and no late answer of an earlier
\* dialog comes in, a role that the user has only walked through keeps its settings,
\* although every step over it takes them from the fields on screen.  Settings the gateway
\* does not know are the exception: the first of its models takes the place of theirs.
LookingChangesNothing ==
  dlg.open /\ dlg.fine =>
    \A r \in Role \ dlg.edited : Known(dlg.read.roles[r]) => Same(dlg.all.roles[r], dlg.read.roles[r])

\* A writer that ran alone and met no failure has brought the settings everywhere: to the
\* gateway, under the provider and the role, if it knows the provider, and to di-core and
\* its agents.
Quiet == Writers = {} /\ core.inbox = <<>>
AllAgree ==
  calm /\ Quiet =>
    \A r \in Role :
      LET rs == file.roles[r] IN
      /\ rs.provider \in ToSet(Listed) => gateway[<<rs.provider, r>>] = rs
      /\ Complete(rs) =>
           core.defaults[r] = rs /\ \A a \in DOMAIN core.agents : core.agents[a].roles[r] = rs
=============================================================================
