--------------------------- MODULE MCServiceParts ---------------------------
(* What serves the agents, one part in each behaviour: the lock protocol   *)
(* of two clients of the central daemon on "/" and "/a", its connection    *)
(* table of six entries, a tool daemon that two agents share, and the      *)
(* runner of WebAssembly programs.                                         *)
EXTENDS LockBroker, ToolDaemons, WasmRunner

Paths == {<<>>, <<"a">>}
PathAbove == [n \in Paths |-> {m \in Paths : IsStrictPrefix(m, n)}]
Leaves == {<<"a">>}
TwoFds == {FirstFd, FirstFd + 1}
NoneFd == -1

-----------------------------------------------------------------------------
VARIABLE part

toolVars == <<allVars, runnerVars>>
partsVars == <<part, brokerVars, toolVars>>

PartsInit ==
  /\ part \in {"locks", "table", "tools", "runner"}
  /\ BrokerInit
  /\ ToolInit /\ RunnerInit
  /\ part # "tools" => max_attempts = 1
  /\ part # "runner" => mode = "cli"

Locks == /\ part = "locks" /\ BrokerNext
         /\ UNCHANGED <<part, toolVars>>
Table == /\ part = "table" /\ TableNext
         /\ UNCHANGED <<part, vars, lockClientVars, toolVars>>
Tools == /\ part = "tools" /\ ToolNext
         /\ UNCHANGED <<part, brokerVars, runnerVars>>
RunnerPart == /\ part = "runner" /\ RunnerNext
              /\ UNCHANGED <<part, brokerVars, allVars>>

PartsNext == Locks \/ Table \/ Tools \/ RunnerPart

\* The parts that do not run leave every fair action of theirs disabled.
PartsSpec ==
  /\ PartsInit /\ [][PartsNext]_partsVars
  /\ BrokerFairness /\ ToolFairness /\ RunnerFairness
=============================================================================
