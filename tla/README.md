# TLA+ models of di-rac

di-rac is a coding agent made of several processes. This directory models the parts
whose correctness depends on order: who holds which lock after a connection is lost, which
answer reaches which caller, what a restart finds on disk, what an agent does with a
message that arrives at the wrong moment, what the language model is shown and what it is
not. TLC checks the models on small instances; TLAPS proves most of the safety properties
for every value of the constants.

Contents: [the system](#the-system) · [modules](#modules-and-code) ·
[runs](#runs) · [fairness](#fairness) · [proofs](#proofs) ·
[disagreements found](#disagreements-between-code-and-text) ·
[behaviour worth knowing](#behaviour-worth-knowing) ·
[limits](#not-modelled) · [plan](#plan)

To repeat the checks: `tlc -config KeptParts.cfg MCKeptParts` (and likewise for the other runs;
`PROJECT.json` names the module and the `.cfg` of each), `tlapm LockTrieProofs.tla` (and the
other `*Proofs.tla`).

## The system

Processes and how they talk (JSON lines everywhere):

    divrr (terminal UI) <-- stdin/stdout --> di-core --+-- api-gateway (Go)  --> model APIs
                                                       +-- command-daemon (C) --> bash
                                                       +-- treesitter-daemon (C) --> sqlite
                                                       +-- wasm-runner: sandboxed python
    divrr   --> api-gateway: lists of models, keys
    clients --> central-daemon (C): path locks, settings

### central-daemon (C, one thread around epoll)

| part | state | operations | what must hold |
|---|---|---|---|
| lock trie, `trie.c` | per path: owner, count of locks below, queue; per client: paths owned and queued on; totals | acquire (with or without waiting), release, cleanup of a lost connection; each may hand a path to the next in a queue | counts, registries and totals agree with owners and queues; no queue is left that could be served; a lock covers its subtree |
| connections, `main.c` | slot table, descriptor to slot, stack of free slots | accept with its refusals, loss of a connection | the height of the stack matches the connections; a context in the table is in one slot only and is that of the connection on record |
| lock protocol, `main.c` | per connection: requests unread, messages unsent | a request and its answer; "granted" announced by release and by cleanup | what a client is told it holds is its own; who queues learns of its lock |
| output buffering, `main.c` | 4096 bytes per connection, an EPOLLOUT flag | `send_json`, `drain_output` with partial and failing writes | bytes are neither lost in silence nor repeated; the flag is on exactly while bytes wait |
| settings, `trie.c` | per path and key a value; per connection transient values; the persist file | set, get, save (temporary file and rename), load | the file is always whole and has what was answered; transient values go with the connection |
| framing and JSON | a line buffer | | text handling, not modelled |

Hard here: cleanup grants paths in the middle of its own loops; a grant crosses with a
release or with the loss of the connection; descriptors are reused at once; a kill between
the lines of a save.

### Tool daemons, the runner, and their clients in di-core

| part | state | operations | what must hold |
|---|---|---|---|
| `ResilientDaemon`, `CommandDaemon` (`daemons/mod.rs`) | a mutex, the child process, a task that owns the pipes with a table of pending ids | a call: lock, submit, wait up to 600 s, perhaps discard the process, spawn another and try once more | a call takes the answer to its own request; a command is not run twice; every call returns; a live process is not given up |
| command-daemon | eight slots for children, sessions | execute, progress, result, timeout and kill | slots are never lost or shared; one story per request |
| treesitter-daemon | a thread per request up to a limit, the index in sqlite | queries, indexing | an answer per request, in any order |
| wasm-runner | its own streams and directory, pipes, reader threads, two guards | redirect, load, run, restore, answer; every system call may fail | the streams and the directory come back; the answer has what the guest printed; a run ends |

Hard here: a deadline passes while the daemon still works, and its late answer arrives
during another call; the process dies with requests unread and answers unread by di-core;
a request that will never be answered holds the mutex; a step of the redirection fails
after others took effect.

### Agents, orchestrator, frontend

| part | state | operations | what must hold |
|---|---|---|---|
| agent, `agent/engine.rs` | mode, abort flag, trajectory, tool calls of the turn, an inbox | drain between turns, stream a reply, gate and run tool calls, wait for approvals, answers and a verdict on the result | no wait without a prompt; a yes lets one call run; texts are recorded once and in order; plan mode changes nothing; an interrupt ends the task |
| orchestrator and main loop | agents, their channels and abort flags; runtime settings | route a message, raise the abort flag, report the end | messages keep their order |
| divrr agent view | status and prompt of an agent | show events, answer, speak, switch mode, interrupt, close | a prompt is shown while the agent waits, and not after its end |
| divrr conversation view | logs, tabs, block cursor, scroll offset, a cache of rendered lines | a block grows or ends, a tab opens or closes, keys, resizing | what is drawn from the cache is what the log says |
| divrr settings | the dialog with panels, selectors and secrets; threads that load and save; file, gateway, di-core | keys, queries, saves, time-outs, pushes at startup | the dialog never stays deaf; looking changes nothing; a save that went through reached all three places |
| divrr text editors | text, byte cursor, history | typing, pasting, moving, erasing, recalling | the cursor stays between two characters |

Hard here: the agent listens to one channel in four places that treat the same message
differently, and the user may say anything at any time; results of queries outlive the
dialog that asked; a cache is brought up to date once per event.

### Inside an agent

| part | state | operations | what must hold |
|---|---|---|---|
| tool coordinator, routing, recovery | result cache, retry counters, circuit breaker, streaks of edits | start a call, serve it from the cache, fail and retry, give up, time passes | one retry per kind of error; a broken tool rests; (a cached answer should be the answer, and is not: see below) |
| edit and write tools | the file, the anchors each agent saw, the edits of a call | load and resolve, splice, rename, report; write in two steps | an anchor lands on a line that reads like its text; edits mean what they say; no panic over edits that are apart |
| context | trajectory, task state, reads seen, lifecycle state | words of the user, requests within a budget, tool turns, compaction | the first message and the user's words stay; (no stale text should be shown: see below) |
| observer | store, index, pending question, patterns, cooldowns | judge a turn, ask, condense, interrupt, summarise | reflections do not all go; only what was summarised is left out |
| hooks | loaded module, directives merged, queue of reviews, counters | load and reload, fire an event, run a review, check triggers, finish | a rule does what it says; each review answers a demand of its own, and none is lost before its check |

Hard here: text is remembered in several places, each with its own idea of what is current;
limits cut what does not fit; two agents edit one file without a lock.

### api-gateway (Go) and its client

| part | state | operations | what must hold |
|---|---|---|---|
| server, `main.go` | token bucket, semaphore, per request: channels of chunks, error and end, deadline | queue for a token and a slot, relay a stream, answer with retries, shutdown | slots in use are those of the requests in progress |
| client, `stream_chat` | a task that reads the socket, a channel to the caller | read a line, end of file, time-outs, the caller gives up | what counts as whole is whole; every call ends |
| provider adapters, OAuth | | | translation of formats and a login; not modelled |

Hard here: the relay selects among chunks, error, end and deadline that are ready together.

`PROJECT.json` lists all components with their sources, the hazards of each at their
line, and the properties that cover them.

## Modules and code

A module is one component; its actions bear the names of the handlers they translate.
`PROJECT.json` gives the lines behind every definition.

| module | models | correspondence |
|---|---|---|
| `LockTrie` | `central-daemon/src/trie.c`, locking | `AcquireFree`/`AcquireQueue` are the two outcomes of `trie_acquire_lock` that change something, `Release` is `trie_release_lock` with its grant. `trie_cleanup_fd` is followed loop iteration by iteration: `Disconnect` leaves the queues, `CleanupRelease` frees a path, `CleanupClimb` lowers one ancestor's count and serves its queue, `CleanupGrant` serves the path itself; `cleanup` is the loop position |
| `HierLock` | the promise of a hierarchical lock | abstract: owners and queues only, no counts or loops |
| `LockBroker` | `main.c`, requests and announcements | extends `LockTrie` with clients, one request at a time, and the messages on their way; a "granted" goes through `ContextOf`, `ctx_by_fd` over the tables of `ConnSlots` |
| `ConnSlots` | `main.c`, accept and disconnect | the kernel's choice of descriptor is part of `Accept` |
| `OutBuffer` | `main.c`, `send_json` and `drain_output` | a write takes any non-empty prefix or fails |
| `ConfigStore` | `trie.c`, settings and persistence | `SaveLine` … `SaveDone`/`SaveFails` are one `trie_save_persist`; `Crash` is a kill at any moment and a restart |
| `DaemonPipes` | a spawned process and its two pipes | shared by the next four |
| `CommandDaemon` | `command-daemon/src` main loop and execute | `Run`, `Reject`, `Refuse`, `Progress`, `Finish` (exit or timeout) |
| `AnalyzerDaemon` | `treesitter-daemon/src/main.c` dispatcher | `StartWorker`, `TurnAway`, `Work` |
| `DaemonClient` | `di-core/src/daemons/mod.rs` | a call: `Begin`, `Restart`, `Submit`, `Answered`, `TimesOut`; the pipe task: `Forward`, `ReadLine`, `EndOfFile`, `Expire`, in the order of its biased select |
| `ToolDaemons` | the client with one of the daemons, and faults | composition; `max_attempts` 1 is the command daemon, 2 the analyzer |
| `WasmRunner` | `wasm-runner/src/main.rs` | `Duplicate`, `Redirect`, `Prepare`, `LoadModule`, the guest, the readers, `LetGo` (the guards), `Answer`; a failure in any of them unwinds |
| `AgentChannels` | messages and events that steer a task | `protocol/mod.rs` |
| `AgentTurn` | `agent/engine.rs`, `run_task` and `run_turn` | one action per exit of each gate and each wait |
| `Frontend` | `divrr/src/event.rs`, `app.rs`, `commands.rs` | one agent's status and prompt, and the user's keys |
| `AgentSession` | agent, main loop and frontend together | composition; `RaiseAbort` and `Route` are the main loop |
| `Conversation` | `divrr/src/agent.rs`, `app.rs`, `line_cache.rs`, `ui/conversation.rs` | an action per event of an agent and per key, each followed by the redraw of the loop in `main.rs`; a text is its number of lines |
| `Settings` | `divrr/src/settings.rs`, `settings_model.rs`, the loop of `main.rs`; `MultiAgentOrchestrator` | `Key`/`View` are the handlers of keys, `ThreadEnds` the results of queries, `PushRole`/`SaveRole`/`SaveFile` the threads that write, `TakeMessage` di-core |
| `Editors` | `divrr/src/input.rs`, `hooks_editor.rs`, the secret and path fields | one text at a time; cursors count bytes where the code's do |
| `Gateway` | `api-gateway/main.go` | `TakeToken`/`TakeSlot` are the limiter, `Source…` the goroutine that reads a provider, `Relay…`/`SourceDone`/`Drained`/`Cancelled` the branches of the relay's select, `Plain…` the retries |
| `GatewayCalls` | `stream_chat` and its callers in di-core | composition with `Gateway`; the caller's channel and the socket are one queue |
| `ToolRuns` | `tools/mod.rs`, `tools/routing.rs`, `agent/recovery.rs` and the tool loop of `engine.rs` | `Reply`, then per call `Refuse`, `Served` or `Start`; an attempt `Works`, `Again` or `GivesUp`; `Pause` is time |
| `EditFile` | `tools/edit_file.rs`, `write_file` | `LoadEdit` reads, resolves and splices, `CommitEdit` renames and reports; between them other agents act. `Parsed` is what is left of an anchor after the gutter and echo patterns, `Norm` the text with its white space made equal |
| `Context` | `context/mod.rs`, `task_state.rs`, `lifecycle*.rs`, `adaptive_triggers.rs`, and the assembly of requests in `engine.rs` | `UserSays`, `RequestOf`/`Frame`, `Assistant`, `CallRead`, `CallEdit`, `Compact`, the failures of an answer |
| `Observer` | `observer/*.rs` and its use in `engine.rs` | `TurnComplete`, `LlmAnswers`, `Summarise`, `SendsView`, `Answers` |
| `HookLang` | `hooks/parser`, `compiler.rs`, `evaluator.rs` | lexer, parser, compiler and evaluator as operators, and beside them the meaning a reader of Python gives the text |
| `Hooks` | `hooks/mod.rs` and its use in `engine.rs` | for any language of handlers (`Program`, which `MCHooks` takes from `HookLang`): `LoadedOr` and `Reload` (`hooks/loader.rs`), `Fire`, `BeginTurn`, `Review`, `CheckTriggers`, `EndTurn` |

`MC*.tla` give TLC its instances, `*Proofs.tla` hold theorems. The `MC*Parts` modules put
several components side by side, and `part` chooses at the start which one runs: the others
stay in their initial states. Definitions with a suffix, such as
`Chosen_NotForced` or `NextTab_KeepsCache`, are faulty variants of the definition before the
underscore, used to see that the properties notice them; no specification uses them.

Paths are sequences of segments or model values with their ancestors (`Above`); messages
are small records; a tool call is an id and a kind; the contents of a file are a version, or
lines with an identity. Text, formatting and logging are left out. Variables a program does
not have are named as ghosts where they are declared (`sent`, `said`, `approved`, `summarised`, …).

## Runs

| run | instance | distinct states | shows |
|---|---|---|---|
| `agent_parts` | four clients on `/`, `/a`, `/a/b`, `/a/c`; three replies of up to two calls; a handler of every shape, a repository with overlays | 302 348 | `NoLostWakeup`: no queue is left that could be served, with every iteration of a cleanup on its own; `OneRetryPerCode`, `BreakerPauses`; `PlainRulesMeanIt`, `ReviewsAskedFor` |
| `kept_parts` | three clients that release before they leave; settings on three nested paths; four bytes, messages of 1, 3, 6; seven messages of a trajectory; six judged turns; two agents on one file | @K | `SubtreeExclusion`, `KeepsPromise` (the trie implements `HierLock`); `Durable`; `Conserved`; `TaskSurvives`, `WordsOutlive`; `ReflectionSurvives`, `OnlySummarisedDropped`; `SplicesExact`, `AnchorsHold`, `PanicsOnlyOnOverlap` |
| `service_parts` | two clients of `/` and `/a`; a connection table of six; two agents with a call each, two faults; two runs of the runner | @S | `BeliefSound`, `WaiterInformed`; `TableInv`; `AnswerIsMine`, `OneStory`, `RunsPerAttempt`, `EveryCallReturns`; `RunnerRestores`, `EveryRunReturns` |
| `session_parts` | three kinds of reply, two calls, two messages of the user; a dialog over two roles and two providers; each editor; two tabs on one row | @F | `PromptsHonest`, `OneYesPerRun`, `HeardInOrder`, `PlanChangesNothing`, `InterruptEnds`; `LoadingEnds`, `LookingChangesNothing`, `AllAgree`; `CursorsHold`; `ShowsTheLog` |
| `gateway_streams` | two calls, streamed or plain, one slot | 185 925 | `InflightExact`, `CompleteIsWhole`, `EveryCallSettles` |
| `lock_exclusion` | three clients on a chain of three | violated | cleanup hands a path and its ancestor to two clients |
| `daemon_slots` | as `service_parts`, connections come at any time | violated | a "granted" reaches another client, `BeliefSound` |
| `agent_replay` | a reply with two changes | violated | a stale yes lets the next call run |
| `gateway_plain` | one call | violated | di-core cannot read a plain answer |
| `hook_nested` | a handler of every shape | violated | an `if` inside a branch loses its condition and its `else` |
| `stale_reads` | as `kept_parts`, calls in the declared form alone | violated | a request shows a file as it was before the agent's edit, `StaleNeverSent` |
| `stale_results` | two tabs on two rows | violated | a result is not drawn until its block is rendered for another reason, `DrawnIsCurrent` |

Why these bounds are enough to see what matters:

* *Locks.* A lock relation is between an ancestor, a node and a sibling: a fork of depth
  three has all three. Four clients can own, queue twice and disconnect on it; queues of two
  (`MaxWaitersPerNode = 2`) reach their limit. The theorems remove the bounds.
* *Protocol.* Two clients suffice for a grant that crosses a release or a loss; `MaxInbox = 2`
  lets an answer and a grant be under way together. They ask for `/` and for `/a`, and wait for
  `/a` alone: a wait for a path above another requested one is answered under the wrong path, and
  connections that share a slot get each other's messages (`SharesSlots`; see below).
* *Slots and output.* Six entries with two taken descriptors leave four connections, enough to
  close in another order than they came and to run out of descriptors. Lengths 1, 3, 6
  against 4 bytes: fits, fits alone, never fits. Both are proved for all sizes.
* *Settings of the daemon.* Three nested paths give a nearest, a farther and a farthest
  setting. There is no clock: a kill is possible in every state. Proved for all trees.
* *Daemons.* The mutex makes calls of different agents consecutive, so a second call is what
  a late answer of the first can disturb; two faults let the replacement die as well. One
  slot and one thread make "full" happen with one request given up.
* *Runner.* A pipe of one unit and a guest that prints two: the readers must work while the
  guest runs, and the answer is cut. A second run meets what the first left.
* *Conversation.* One row for the conversation makes every block cut at an edge, makes the
  cache evict, and leaves no row at all once a prompt is queued; `OffsetLimit = 8` stands for 2^16; four events and two keys
  take a block from its first token to its result under a cursor that has moved.
* *Agents.* Two calls and two messages put a message of every kind into every wait, with a
  stale answer left for the next. A frontend time-out is possible in every wait.
* *Settings of the frontend.* The part `start` begins with the program, when the stored
  settings are pushed, and the user only looks; in the part `dialog` the start is over
  (`Settled`) and an agent runs, and the user may press any key. Two dialogs, so that a late result of the
  first meets the second; one failure of the gateway, wherever it hurts.
* *Editors.* Texts of three characters, or an input box of two bytes: one narrow and one wide
  character each in front of, at and behind the cursor.
* *Gateway.* One slot and one token make the second call queue; a channel of one chunk makes
  the reading goroutine block, so that every pair of ready branches of the relay occurs.
* *Tools.* Three replies of two calls: enough failures to open the breaker, rest, try half-open
  and fail again. `Flaky` limits which tools fail, not what a failure does.
* *Hooks.* Blocks of one to three statements with every condition operator; limits are small
  enough (`ActionLimit = 3`, `StepLimit = 9`) to be reached. `OneRule` repositories fire three events,
  the one with overlays six.
* *Context.* A limit of 12 with messages of 1 or 5 reaches every lifecycle state, and the
  excerpt of a message that is too large. The parts `files` and
  `talk` share the trajectory but not the inputs. `Forms` says in which form calls come:
  `fields`, with a path of their own, or `line`, with everything in `command`, as the tools
  declare it. Both are mixed, since the engine has code for both.
* *Observer.* `judging` has six turns from tools alone, so that two cooldowns pass; `storing`
  has four with the model's observations. The window of recent answers is 5 and the store
  holds 3, so both slide.
* *Edits.* A file of three lines, two alike, and a new text whose hash is that of the twins;
  one agent sends two edits in a call. Any two lists that matter differ in at most two edits.

`lock_exclusion` checks deadlock. The other instances really stop: when the bound of messages,
calls or keys is reached, or the agent has finished.

## Fairness

* `BrokerFairness`: the daemon's loop goes on (`WF` of cleanup), clients read what they are
  sent (`WF`), requests that are sent again and again are handled, and a client that holds a
  path eventually releases it (`SF`, because a grant or a loss can disable them for a while).
  Without the last, nobody owes anybody a lock. `WF` of `drain_output`: the client reads and
  epoll reports it.
* `ToolFairness`: `WF` of the pipe task, of the callers, and of the daemon's own steps, which
  only a living process has. The 600 seconds are counted on only for a request that nobody
  is going to answer (`WillAnswer`), so no property rests on a deadline that cuts off work
  in progress. New calls, faults and failing spawns are never promised.
* `RunnerFairness`: the runner and its reader threads go on, and the guest ends. The code has no
  limit on a guest's time: one that never ends hangs its run, and no property says otherwise.
* `SessionFairness`: `WF` of the main loop, of the agent's task and of the frontend's event
  loop. The user owes nothing, and the model may fail to give a usable reply for ever.
* `GatewayFairness`: tokens drip, handlers and clients go on, deadlines pass. A provider owes
  nothing.

Each `PartsSpec` states the fairness of all its parts; the parts that do not run have no
enabled action, so theirs asks for nothing.

## Proofs

All theorems hold for every value of the constants, from the assumptions named in the
modules (`TreeAssumption`: ancestors form finite chains; sizes are natural numbers; replies are
sequences of known kinds). Where a module of proofs assumes more, it says so in the theorem, and
the paragraph below says why. The invariants that follow were checked by TLC on the instances
above before they were proved.

**`LockTrieProofs`** — `Invariance`, `CountsInvariance`, `RegistriesInvariance`,
`LiveClientsInvariance`, `NoLostWakeupInvariance`, `AtMostTwoInvariance`,
`ExclusionOfRequests`, `GracefulExclusion`, `TrieImplementsHierLock`, `BeliefInvariance`.
The property a user of the lock needs, that no queue could be served, is not inductive: a
grant is decided by `intent_count`, so it needs the counts to be exact; in the middle of a
cleanup they are exact only when the ancestors still to climb are taken into account
(`CleanupPosition`); a grant takes the head of a queue, so the registries need queues
without repetition; and a release that grants one path must not leave another that could be
granted, which rests on nobody queueing inside a locked subtree (`NoQueueUnderLock`) and on
at most two owned nodes on a path (`AtMostTwoOnAPath`). `IndInv` is the conjunction of
these. For clients that release before they leave, subtrees are exclusive, and every
step maps to a step of `HierLock` or to a stutter. `BeliefInvariance` puts clients
on top: for each client, its request, the answer awaited, its messages on the way and what it
believes fit the trie and each other (`Fits`), so that a "granted" and an "ok" for one path are
never both under way, and that every client that may be told has a slot of its own. It assumes
`~SharesSlots`, and `Unnested`: nobody waits for a path above another requested one, because
`main.c:427` announces a grant of an ancestor under the path of the release. Without either the
belief is wrong (see below). `TableInvariance`, `RecordedBackInvariance`, `NeverBusyInvariance` are
about the connection table however slots are shared: a slot is emptied through `fd_to_slot`, so
the height of the stack, the record and the contexts are proved together. What they do not say is
that the slot on record holds the connection's own context (`OwnSlots`): that is false.

**`CentralDaemonProofs`** — `CapacityInvariance`, `WatchedInvariance`, `ConservedInvariance`, for any
capacity and any lengths: `memcpy` stays in the buffer, `EPOLLOUT` is asked for exactly while
bytes wait, and what is on the socket, in the buffer and given up is, byte by byte, what
was sent, each byte in one place (their order is not part of it). `DiskWholeInvariance`, `DurableInvariance`,
`TransientGoneInvariance`: the strengthening (`FileInv`) says what a save in progress has
written: the temporary file has exactly the lines not still to do, of settings that do
not change meanwhile. Every line is saved under `/`, so `Durable` says what a restart
gives back in the key alone (`ComesBack`): a key that is set on some path comes back, with the value
of a path that has it, and no other key does; that the path is lost is told below.

**`ToolCallsProofs`** — `AnswerInvariance`, `DeathInvariance`, `QueryReaches`,
`AttemptInvariance`, `StoryInvariance`, `RestoresInvariance`, for any number of agents, calls,
faults, slots and threads. `CallInv` says that every request and message under
way carries an id below the next one, and that whatever carries the awaited id was made for
the call that waits (`OwnIds`); that without a daemon nothing is under way in di-core and a dead
process works on nothing (`Parted`); that a second attempt has a process of its own
(`Tried`). To count runs, `RunsInv` adds that no request is twice on its way (`Apart`), that a
call has been started as often as it was tried, less what is still queued (`Budget`), and what the
command daemon has told of each request so far (`Told`): the slot that works on it is what links an
ack to its result. For the runner, `Lent` says which descriptors are lent in which step,
`GuestPlace` where a guest can be, and `AllRead` that what was printed is in a pipe or
taken.

**`GatewayProofs`** — `InflightInvariance`, `CompleteInvariance`, for any number of requests and any
bounds. `Flow` says of each request where its handler, its goroutine and its client can be together
(`Places`), what the goroutine has put on its channels (`Sources`), and where its deltas are
(`Balanced`): as long as the call may still be complete, those received, on the wire and in the
channel are all that the provider gave, and "complete" stands behind them.

**`AgentPartsProofs`** — `RetriesInvariance`, `BreakerInvariance` for the
calls of replies, `ReviewsInvariance` for the hooks. For any files, questions and calls, what a guard remembers bounds the retries of the running call
(`Remembered`), and a tool that has failed three times has rested or its breaker is open
(`Resting`). For any handlers, overlays and limits, an event adds to the reviews that wait at most
its own, and counts as due when its rules asked; a check moves them into the queue, and a review
leaves it when it is run or skipped. So what waits is due and what is queued was granted, each
event once, and all that is due waits unless the cap is reached.
`HooksAssumption` says of a handler only that it leads to a list of actions.

**`ContextProofs`** — `TaskInvariance`, `WordsInvariance` for the trajectory;
`ReflectionInvariance`, `DroppedInvariance` for the observer; `AnchorsInvariance`,
`PanicsInvariance`, `SplicesInvariance` for edits. The first message is never moved or compacted, and the selection
within the budget takes it first, whole or as an excerpt, for any sizes. The first
message is the task, or the continuation note that a compaction puts in its place. `ReflectionInvariance`
says that a store that has had a reflection keeps one, not that each of them stays.
An anchor is followed through what the code strips from it (`Parsed`): `AnchorsInvariance` is about the
text that is left, and says which line it is only where all of the text is left.
*Edits* are proved about for files of any length and calls of one or two edits: the splices go from
the bottom up, so each finds its indices as they were when it was resolved. What separate edits
mean is a concatenation of one piece per line (`PiecesAre`: the first line of an edit becomes what
the edit makes of it, the others it takes out nothing, the rest themselves); joined over stretches
(`JoinLines`, `JoinEdit`), the pieces are the old text with each edit in its place, which is also
what the one splice after the other leaves (`SpliceTexts`, `RespeltTwice`).

**`AgentSessionProofs`** — `GateInvariance`, `PlanMode`, `TypesInvariance`, `HeardInvariance`,
`YesInvariance`, `HonestInvariance`, for any replies, time-outs or not, and a user who says
anything at any time. *Plan mode*: the mode is looked at before the approval wait, and nothing in that
wait changes the mode or the call. *Heard*: the texts in the trajectory, then those in
the inbox, then those in the pipe, are what the user said (`Hearing`); each of the four places that
listen moves the first of one to the end of another. *Yes*: approvals spent and approvals
under way never exceed those given (`Budget`); this needs that a call in a turn was asked
about at most once and in order (`CallsInTurn`, `PromptsInTurn`), or one key could count for
two. *Prompts*: the last line that changes the prompt, on screen or on its way, is the
question of the present wait, unless an answer is already coming (`Screen`).

**`FrontendProofs`** — `LoadingEndsInvariance`, `LookingChangesNothingInvariance`,
`AllAgreeInvariance`, for any roles, providers, models, files and threads (`SettingsAssumption`:
the lists are finite, a tunable provider is listed, the defaults are within the limits).
*Who answers* (`DialogInv`): with the shape of dialogs and threads, which is most of the work
because every key can change the fields on screen, `LoadingEnds` is inductive. *Looking*
(`LookInv`): what a step would flush from the screen into the role is what was read
(`ScreenKept`); while the dialog loads, exactly one thread loads for it, and brings the settings of
the role it stands on (`Brings`). The theorem is about settings the gateway knows (`Known`):
a model it does not list is not in the selector, and then the flush does change it.
*Agreement* (`AgreeInv`): of the writer that runs alone, the roles before its position are in the
gateway (`InGateway`), and for every role di-core and its agents have the settings, or the last
message about it on the way brings them (`InCore`); messages of another order are harmless because
each role counts for itself.
`ShowsTheLogInvariance`, for any lengths, height, number of tabs and width of the offset: the cached lines and counts
of each block are those of the block now, or those before its result came (`Fits`); every change of
the log changes the generation (`Follows`), so the redraw finds a cache that it either
rebuilds or may use (`Usable`); and the block that `move_block_cursor` chose is on the screen, unless a
missing result makes the counts lag or the offset does not fit its 16 bits,
by arithmetic on sums of rows of any number of blocks.
`CursorsHoldInvariance`, for any texts, pastes, files and histories: a cursor is the number of bytes of
a beginning of its text (`Sound`), so that every cut gives two texts whose bytes add up
(`BytesOfTwo`), and the limit of the input box is kept by what is inserted, what is cut to fit and
what the history gives back (`HistoryKept`). The keys of the hooks editor count too: what
`normalize_source` writes is a text, character by character (`NormalAtIs`).

Facts about sequences of any length that TLC would get by evaluation (how many entries are
texts, that a sorted list stays sorted) are proved from a least counterexample or
from a set of the lengths for which they hold; the library's induction theorems are of no use
to the installed provers, since they take an operator as a parameter.

Only model-checked:

* Liveness (`WaiterInformed`, `EveryCallReturns`, `EveryRunReturns`, `InterruptEnds`,
  `EveryCallSettles`): TLAPS does not handle `ENABLED`, and so no fairness.
* `PlainRulesMeanIt`, which compares two recursive readings of a syntax tree (`HookLang`).

## Disagreements between code and text

Seven are shown by a run that TLC refutes, with the line it contradicts in `PROJECT.json`.

1. `lock_exclusion`: `trie_cleanup_fd` serves the queues of ancestors on the way up, and then
   the queue of the released node without looking up again: a path and its ancestor get
   different owners (`trie.h:25`, `trie_test.c:550`). `LockTrieProofs` shows that it never gets
   worse than two on a path.
2. `agent_replay`: an approval without an id approves whatever waits, and divrr sends none;
   `engine.rs:1945` speaks of replayed answers.
3. `gateway_plain`: a plain answer has no `type`, so that di-core's `StreamChunk` does not parse.
   Reviews of hooks, the observer's own questions and the distiller all ask for plain answers.
4. `hook_nested`: an `if` inside a branch is compiled into the branch without its condition, and its
   `else` is dropped (`compiler.rs:206`), while `compiler.rs:453` and `validator.rs:166` speak of it as legal.
5. `daemon_slots`: `accept` takes the height of the stack of free slots for the slot
   (`main.c:825`; `free_slots[]` is written and never read). After a connection other than the newest
   has left, the next one gets a slot in use, and `ctx_by_fd` (`main.c:431`, `683`) finds one context
   for two descriptors: a "granted" goes to a client that did not ask, and the waiter hears nothing
   (`main.c:41`: "O(1) inverse map: fd → slot index"; `broker_test.c:189`). So `BeliefSound` and
   `WaiterInformed` are checked and proved for connections that do not come into a shared slot.
6. `stale_reads`: every tool declares `command` as its only argument (`tool_defs.rs:9`), but
   `engine.rs:1902` takes the path of a read or an edit from `path`. In the declared form no path is
   noted, so a read is not marked after an edit, and `context-report.md:498` "Stale reads are never
   sent" is not kept. For the same reason no search is dropped from the cache after an edit in that
   form (`context-compilation.md:208`: `invalidate_search_and_repo()` "after any write or edit"), and as
   the key leaves `command` out (`tools/mod.rs:73`, `298`), all searches in that form share one answer.
   Nothing holds of cached answers that would be worth a property, so there is none.
7. `stale_results`: when only the generation has changed, `ensure_line_cache` renders the last block
   anew (`app.rs:145`). The result of a call that is not the last block changes neither the cached
   lines nor the cached count (`line_cache.rs:5`: "Invalidated when width, generation, expand state,
   or wrap state changes."). `ShowsTheLog` allows exactly a missing result.

The models also met these, and the properties say the narrower thing that does hold:

* *Settings.* The path of every saved line is `/` (`trie.c:587`, against `trie_test.c:804`), because a
  child is pushed with the length of its parent's path, 1 everywhere: a restart puts
  every setting under `/`, and of a key set on two paths one value is left. `Durable` is about keys.
* *Announcements.* `main.c:427` tells the next owner of a queue the path of the release, also when the
  queue of an ancestor was served (`trie.h`: "the next FD in the wait queue for this path").
* *Anchors.* The text of an anchor loses what looks like a hash with a bar (`edit_file.rs:383`), so `a|b`
  is looked for as `b`; a hash of digits before a bar is taken for a line number of the gutter
  (`edit_file.rs:161`); texts are compared with their white space made equal, but for some kinds of
  file. `AnchorsHold` is about what is left.
* *Rules.* `not x == y` is `(not x) == y` (`parser.rs:658`, `698`); `observer.name in [...]` is false always, for
  the name is a boolean there (`evaluator.rs:304`); a name is tried as a glob although a group has it
  (`evaluator.rs:262`), and `all_match` wants each file to match every pattern of a group.
  `PlainRulesMeanIt` leaves these conditions out (`Misread`), and ifs inside branches.
* *Command daemon.* `send_request` has one attempt and returns before it discards a daemon it found
  dead (`mod.rs:669`), so it is never restarted; `mod.rs:587`: "it is automatically restarted."
* *Settings dialog.* `reload_models` clears the model, and a failing query loses the saved one
  (`settings_model.rs`: "Preserves the saved model name…"). di-core takes `try_write`, which
  skips a busy agent in silence ("applied to all running agents immediately").
* *Edits.* `main.rs:208`: "Emit TaskFinished on both Err and panic paths…"; only `Err` is handled. A write
  described as atomic is `tokio::fs::write`.
* *Gateway.* `divrr/src/gateway.rs` announces a shutdown after two idle minutes that no code does.
* *Hooks.* `elif` never parses (`parser.rs:536`); an overlay that handles an event of the
  repository is an error, where `demo-hooks/09` and `33` say that they merge; the finish gate of
  `engine.rs:3608` "waits for frontend response", but is reached only with the abort flag set, and
  then gives up at once.
* *Context.* A correction does not become the current goal, as `context-report.md` 9.2 says; a file edited
  once is shown as stale even after it was read again (`context-report.md:179`); a switch of mode is said
  to "take effect immediately" (`context-report.md:57`), but the policy is built from the copy of
  the session that the compiler made at its start (`prompt/mod.rs:195`).

## Behaviour worth knowing

What the models show and no text of the repository speaks about.

* **Connections.** The context freed in `AcceptTooHigh` stays in the table. A
  message that does not fit overtakes what is buffered; its rest goes behind.
* **Daemons.** A line of 65 535 bytes stops the command daemon's reading for good; calls fail by
  their deadline. At the analyzer's thread limit, and for an over-long line, the error has
  no id, and the call waits for its deadline.
* **Runner.** The guest's exit code is lost (0 or 1); a failed `dup` leaks the copies made before it;
  output beyond `MAX_OUTPUT` is read and dropped with a mark; the command line form copies all.
* **Agent.** A mode switch is lost during a wait, and ends the wait for an approval as a denial; a
  refused result leaves the later calls of the reply without an answer; only `new_task`
  reaches the finish gate, with the abort flag already set. Closing the tab of an agent that
  has presented its result sends no interrupt, and the agent waits for ever (`app.rs:1214`). An
  event is two awaited writes, which two agents can interleave.
* **Conversation.** `TaskInitialized` greets in the tab that is active; Down past the bottom
  jumps the block to the top; `PageUp` does not clamp; "Expand" on a collapsed block only collapses its
  preview again; the scroll offset is cut to 16 bits when drawn.
* **Settings.** Operations are numbered anew in each dialog, so a late result of a closed one is taken for
  the new one's (`LookingChangesNothing` leaves such dialogs out). A provider or model
  that is not listed is replaced by the first. The theme is applied though validation
  fails. The push at startup can overwrite a newer save; saves of two dialogs mix; a save that
  timed out still writes the file, without telling di-core. The observer's switch is not sent at
  startup, nor to later agents.
* **Editors.** Up in the hooks editor cuts the text one byte before its cursor, which ends the
  program behind a wide character. A failed save leaves the normalised text marked as saved; a
  recalled text of several lines keeps the box in that mode.
* **Gateway.** A provider's stream that just ends is given a "complete" by the gateway; streams that callers abandon keep their slot until
  the deadline; a plain `CONTEXT_EXCEEDED` is a status 200 without a body.
* **Tools.** Path checks and streaks of edits pass by calls in the declared form, which have no path
  before they run. Symbols are
  never invalidated. The done gate looks at the last exit of `bash` only. An attempt of over a
  minute outlives the retry counter. The guard of the router fires before the larger limits can.
* **Edits.** Overlapping edits are not refused; insertions at one anchor come out in reverse;
  before and after one line come out both before it; deleting every line panics after the
  rename; a stale anchor of a twin lands on the other twin; `\r\n` is rewritten.
* **Context.** Hard triggers alone do not change the state; the excerpt of a first message comes
  on top of a full selection, up to about twice the budget; within a priority the oldest
  goes first, so the newest correction can be left out; failed edits mark a file edited; hashes of
  reads outlive a compaction.
* **Observer.** A reflection advances the index though no block shows it, so messages are left out
  of requests without a trace; a summary takes twenty messages and marks all as observed. The observations
  of the filter and the structural branch of `StuckWithForgetting` cannot be reached.
* **Hooks.** A failing load at startup means no rules, at a reload the old ones; unknown names are
  true; running out of steps makes a condition false and its negation true; `done` does not
  fire `pre_finish`; gates and validations are never marked satisfied; an unterminated `@role(` loops
  for ever.

## Not modelled

* Inside the modelled parts. Allocation failures; `fcntl`; write errors other than "takes a
  prefix" or "fails"; a blocking write to a full pipe in di-core; the bounded channel of 256
  messages into which an agent re-injects (unbounded here); the broadcast of changed
  settings; escaping in the persist file; power failure. The standard input that a command inherits
  from its daemon; a `dup2` that fails while the runner takes its streams back (`main.rs:247` ignores it); a
  panic in a handler of the gateway (`main.go:366`) and its five-minute limit on reading a request;
  the confidence that the model gives its advice, which is taken for sure; answers to
  follow-up questions, which never reach the task state. Of the agent: `auto_approve`,
  the plan tool, the counters that decide when mistakes or gateway errors are too many (any number
  may be too many), and the meeting of its loop with context, observer and hooks, which are modelled
  each for itself. Of divrr: the queue panel beyond its rows, colours, texts of messages. Of the
  command daemon: sessions and captured output. Of hooks: imports and templates. Of the tools:
  an edit of several files, reading, listing and searching.
* Operations of settings that panic; memory of the operating system's pipes beyond their capacity.
* Parts without a module: see the notes of the components with status `not_modelled`.
  JSON, tree-sitter, sqlite, ranking heuristics, prompts, drawing, the OAuth login and the
  adapters between wire formats keep no state that others race for.

## Plan

In order of importance.

1. *Sessions of the command daemon*: expiry that compacts the table between look-up and use;
   added to `CommandDaemon`.
2. *Event writer* (two writes per event) and *runtime settings* (`try_write`), added to
   `AgentSession` with a second agent.
3. *Broadcast of settings*, added to `ConfigStore` and composed with `LockBroker`'s channels; an
   abstract layered map that `ConfigStore` implements.
4. *Composition* of `AgentTurn` with `Context`: a compaction between a call and its result.
