--------------------------- MODULE AnalyzerDaemon ---------------------------
(***************************************************************************)
(* The request dispatcher of the code analyzer (treesitter-daemon/src/     *)
(* main.c): a thread per request, up to a limit; answers in any order.     *)
(* What the queries compute, and the index database, are left out.         *)
(***************************************************************************)
EXTENDS DaemonPipes

CONSTANT MaxThreads
ASSUME AnalyzerAssumption == MaxThreads \in Nat \ {0}

VARIABLE serving   \* the requests that have a thread

AnalyzerInit == serving = {}

\* The error says nothing of the request: at the thread limit, or for the tail of a line
\* whose beginning was discarded as oversized.
TurnAway(r) ==
  /\ Takes(r)
  /\ r.kind = "long" \/ Cardinality(serving) >= MaxThreads
  /\ Writes(<<Says("error", [r EXCEPT !.id = 0])>>)
  /\ UNCHANGED <<proc, nread, serving>>

StartWorker(r) ==
  /\ Takes(r)
  /\ r.kind # "long"
  /\ Cardinality(serving) < MaxThreads
  /\ serving' = serving \cup {r}
  /\ UNCHANGED <<proc, nread, out>>

\* request_worker: one answer, with "ok" true or false, then the thread ends.
Work(r) ==
  /\ proc = "up"
  /\ r \in serving
  /\ \E type \in {"error", "result"} : Writes(<<Says(type, r)>>)
  /\ serving' = serving \ {r}
  /\ UNCHANGED <<proc, nread, stdin>>

TakeQuery == \E r \in ToSet(stdin) : TurnAway(r) \/ StartWorker(r)

AnalyzerNext == TakeQuery \/ \E r \in serving : Work(r)

=============================================================================
