----------------------------- MODULE WasmRunner -----------------------------
(***************************************************************************)
(* The runner of WebAssembly programs (wasm-runner/src/main.rs).  It lends *)
(* its own descriptors 0, 1 and 2 to the guest, so that what the guest     *)
(* prints goes into two pipes, and takes them back before it answers: one  *)
(* request after another on stdin (json), or one program given on the      *)
(* command line whose output it copies (cli).  Every system call on the    *)
(* way may fail, and then the guards undo what was done.                   *)
(***************************************************************************)
EXTENDS Integers, FiniteSets

CONSTANTS
  PipeCap,       \* what a pipe holds
  MaxOutput,     \* MAX_OUTPUT
  MaxPrints,     \* bound: what a guest prints on a stream
  MaxRuns        \* bound: requests

ASSUME RunnerAssumption == {PipeCap, MaxOutput, MaxPrints, MaxRuns} \subseteq Nat

VARIABLES
  mode,       \* "json" or "cli"
  step,       \* where the run is
  fd,         \* what descriptors 0, 1 and 2 are
  dups,       \* the copies of the originals that are open
  leaked,     \* copies that nothing will ever close
  guarded,    \* the StdioGuard exists
  writers,    \* the runner's write ends of the pipes
  cwd,        \* the working directory: "own" or "asked"
  pipe,       \* bytes in each pipe
  reader,     \* the thread that reads it
  taken,      \* what the thread has kept or copied, up to MaxOutput for json
  printed,    \* what the guest has printed
  due,        \* what it will print yet
  guest,      \* "none", "runs", "ended"
  runs

runnerVars == <<mode, step, fd, dups, leaked, guarded, writers, cwd, pipe, reader, taken,
                printed, due, guest, runs>>

Own == [n \in 0 .. 2 |-> "own"]
Stream == {1, 2}
Zero == [p \in Stream |-> 0]

RunnerInit ==
  /\ mode \in {"json", "cli"}
  /\ step = "idle"
  /\ fd = Own /\ dups = {} /\ leaked = 0 /\ guarded = FALSE /\ writers = {}
  /\ cwd = "own"
  /\ pipe = Zero /\ taken = Zero /\ printed = Zero /\ due = Zero
  /\ reader = [p \in Stream |-> "none"]
  /\ guest = "none"
  /\ runs = 0

-----------------------------------------------------------------------------
(* A run.                                                                  *)

\* A request that does not parse is answered at once.
TakeRequest ==
  /\ step = "idle"
  /\ runs < IF mode = "json" THEN MaxRuns ELSE 1
  /\ runs' = runs + 1
  /\ \/ mode = "json" /\ step' = "answer" /\ UNCHANGED writers
     \/ step' = "dup" /\ writers' = Stream
  /\ pipe' = Zero /\ taken' = Zero /\ printed' = Zero /\ due' = Zero
  /\ reader' = [p \in Stream |-> "none"]
  /\ guest' = "none"
  /\ UNCHANGED <<mode, fd, dups, leaked, guarded, cwd>>

\* What the guards and the end of the scope undo when a step fails.  Here the undoing works:
\* the code ignores a dup2 of it that fails.
Unwinds_Unguarded ==
  /\ step' = "answer"
  /\ leaked' = leaked + Cardinality(dups)
  /\ dups' = {}
  /\ writers' = {}
  /\ UNCHANGED <<fd, guarded, cwd>>

Unwinds ==
  /\ step' = "answer"
  /\ fd' = IF guarded THEN Own ELSE fd
  /\ leaked' = IF guarded THEN leaked ELSE leaked + Cardinality(dups)
  /\ dups' = {}
  /\ guarded' = FALSE
  /\ writers' = {}
  /\ cwd' = "own"

unread == <<mode, pipe, reader, taken, printed, due, guest, runs>>

\* The three originals are copied before there is a guard.
Duplicate ==
  /\ step = "dup"
  /\ LET n == Cardinality(dups)
     IN  \/ /\ dups' = dups \cup {n}
            /\ guarded' = (n = 2)
            /\ step' = IF n = 2 THEN "redirect" ELSE "dup"
            /\ UNCHANGED <<fd, leaked, writers, cwd>>
         \/ Unwinds
  /\ UNCHANGED unread

\* /dev/null, then the two pipes, take their places.
Redirect ==
  /\ step = "redirect"
  /\ \/ \E n \in 0 .. 2 :
          /\ fd[n] = "own" /\ \A k \in 0 .. n - 1 : fd[k] # "own"
          /\ fd' = [fd EXCEPT ![n] = IF n = 0 THEN "null" ELSE "pipe"]
          /\ step' = IF n = 2 THEN "prepare" ELSE "redirect"
          /\ UNCHANGED <<dups, leaked, guarded, writers, cwd>>
     \/ Unwinds
  /\ UNCHANGED unread

\* json: the working directory of the request; cli: two more copies of the originals.
Prepare ==
  /\ step = "prepare"
  /\ \/ /\ step' = "load"
        /\ cwd' \in IF mode = "json" THEN {"own", "asked"} ELSE {"own"}
        /\ reader' = [p \in Stream |-> "reads"]
        /\ UNCHANGED <<fd, dups, leaked, guarded, writers>>
     \/ Unwinds /\ UNCHANGED reader
  /\ UNCHANGED <<mode, pipe, taken, printed, due, guest, runs>>

\* The module is loaded, validated, instantiated, and its "_start" called.
LoadModule ==
  /\ step = "load"
  /\ \/ /\ step' = "run"
        /\ guest' = "runs"
        /\ due' \in [Stream -> 0 .. MaxPrints]
        /\ UNCHANGED <<fd, dups, leaked, guarded, writers, cwd>>
     \/ Unwinds /\ UNCHANGED <<guest, due>>
  /\ UNCHANGED <<mode, pipe, reader, taken, printed, runs>>

\* The guest prints, and waits while the pipe is full.
Prints(p) ==
  /\ guest = "runs"
  /\ due[p] > 0
  /\ pipe[p] < PipeCap
  /\ due' = [due EXCEPT ![p] = @ - 1]
  /\ printed' = [printed EXCEPT ![p] = @ + 1]
  /\ pipe' = [pipe EXCEPT ![p] = @ + 1]
  /\ UNCHANGED <<mode, step, fd, dups, leaked, guarded, writers, cwd, reader, taken, guest, runs>>

GuestEnds ==
  /\ guest = "runs"
  /\ due = Zero
  /\ guest' = "ended"
  /\ UNCHANGED <<mode, step, fd, dups, leaked, guarded, writers, cwd, pipe, reader, taken,
                 printed, due, runs>>

\* The runner's write ends go and the originals come back, so that the readers see the end.
LetGo_KeepingWriters ==
  /\ step = "run" /\ guest = "ended"
  /\ step' = "await"
  /\ fd' = Own /\ dups' = {} /\ guarded' = FALSE
  /\ cwd' = "own"
  /\ UNCHANGED <<mode, writers, leaked, pipe, reader, taken, printed, due, guest, runs>>

LetGo ==
  /\ step = "run" /\ guest = "ended"
  /\ step' = "await"
  /\ writers' = {}
  /\ fd' = Own /\ dups' = {} /\ guarded' = FALSE
  /\ cwd' = "own"
  /\ UNCHANGED <<mode, leaked, pipe, reader, taken, printed, due, guest, runs>>

\* A reading thread takes what there is.  json keeps at most MaxOutput, and a mark, and
\* goes on reading; cli copies everything.
Reads(p) ==
  /\ reader[p] = "reads"
  /\ \/ \E n \in 1 .. pipe[p] :
          /\ pipe' = [pipe EXCEPT ![p] = @ - n]
          /\ taken' = [taken EXCEPT ![p] =
               IF mode = "json" /\ @ + n > MaxOutput THEN MaxOutput ELSE @ + n]
          /\ UNCHANGED reader
     \/ /\ pipe[p] = 0 /\ p \notin writers /\ fd[p] # "pipe"
        /\ reader' = [reader EXCEPT ![p] = "ended"]
        /\ UNCHANGED <<pipe, taken>>
  /\ UNCHANGED <<mode, step, fd, dups, leaked, guarded, writers, cwd, printed, due, guest,
                 runs>>

AwaitReaders ==
  /\ step = "await"
  /\ \A p \in Stream : reader[p] = "ended"
  /\ step' = "answer"
  /\ UNCHANGED <<fd, dups, leaked, guarded, writers, cwd>>
  /\ UNCHANGED unread

\* The response line, or the error on stderr and the exit status.
Answer ==
  /\ step = "answer"
  /\ step' = IF mode = "json" THEN "idle" ELSE "exited"
  /\ UNCHANGED <<fd, dups, leaked, guarded, writers, cwd>>
  /\ UNCHANGED unread

Runner == Duplicate \/ Redirect \/ Prepare \/ LoadModule \/ LetGo \/ AwaitReaders \/ Answer
GuestSteps == (\E p \in Stream : Prints(p)) \/ GuestEnds
ReaderSteps == \E p \in Stream : Reads(p)

RunnerNext == TakeRequest \/ Runner \/ GuestSteps \/ ReaderSteps

\* The runner and its threads are scheduled; the guest ends.
RunnerFairness ==
  WF_runnerVars(Runner) /\ WF_runnerVars(GuestSteps) /\ WF_runnerVars(ReaderSteps)

RunnerSpec == RunnerInit /\ [][RunnerNext]_runnerVars /\ RunnerFairness

-----------------------------------------------------------------------------
(* Properties.                                                             *)

\* Whichever step has failed, when the runner answers or takes the next request its
\* descriptors and its working directory are its own, no end of a pipe is open, and the
\* answer of a run whose guest ended has all that the guest printed, up to the limit.
RunnerRestores ==
  step \in {"answer", "idle", "exited"} =>
    /\ fd = Own /\ cwd = "own" /\ ~guarded /\ dups = {} /\ writers = {}
    /\ guest = "ended" =>
         \A p \in Stream :
           taken[p] = IF mode = "json" /\ printed[p] > MaxOutput THEN MaxOutput ELSE printed[p]

\* A run whose guest ends returns, however much was printed: the threads that read the
\* pipes drain them to the end, and there is an end.
EveryRunReturns == step = "dup" ~> step = "answer"
=============================================================================
