---------------------------- MODULE GatewayCalls ----------------------------
(***************************************************************************)
(* di-core's side of the gateway: stream_chat (daemons/mod.rs) and its     *)
(* callers, the turn loop of an agent, which streams, and the observer and *)
(* the distiller, which ask for a plain answer (agent/engine.rs).          *)
(*                                                                         *)
(* Every call has a connection of its own and may be made at any time: by  *)
(* another agent, or again after a failure.  The channel between the task  *)
(* that reads the socket and its caller is merged with the socket: both    *)
(* are first in, first out, and neither fills up.  An interrupt by the     *)
(* user is in AgentTurn.                                                   *)
(***************************************************************************)
EXTENDS Gateway

VARIABLES
  client,     \* the task that reads the socket: "none", "open" or "closed"
  outcome,    \* what the caller knows: "none", "waiting", or how the call ended
  got         \* deltas the caller has received

replyVars == <<client, outcome, got>>
gatewayCallVars == <<gatewayVars, replyVars>>

Settled(c) == outcome[c] \notin {"none", "waiting"}

CallsInit ==
  /\ GatewayInit
  /\ client = [c \in Request |-> "none"]
  /\ outcome = [c \in Request |-> "none"]
  /\ got = [c \in Request |-> 0]

-----------------------------------------------------------------------------

\* stream_chat: connect and write the request; without a gateway the call fails.
Ask(c, kind) ==
  /\ outcome[c] = "none"
  /\ IF up
     THEN /\ outcome' = [outcome EXCEPT ![c] = "waiting"]
          /\ client' = [client EXCEPT ![c] = "open"]
          /\ Goto(c, "read")
          /\ streamed' = IF kind = "stream" THEN streamed \cup {c} ELSE streamed
     ELSE /\ outcome' = [outcome EXCEPT ![c] = "failed"]
          /\ UNCHANGED <<client, handler, streamed>>
  /\ UNCHANGED <<up, tokens, sem, expired, wire, attempt, source, relay, emitted, got>>

\* The caller learns how the call ended, if it still listens; the socket is closed.
Settle(c, how) ==
  /\ client' = [client EXCEPT ![c] = "closed"]
  /\ outcome' = [outcome EXCEPT ![c] = IF @ = "waiting" THEN how ELSE @]

\* A delta reaches the caller, or tells the task that the caller has gone.
Listens(c) == outcome[c] = "waiting"

\* The fields a StreamChunk must have: a plain answer has no "type".
Parses(line) == line # "result"

\* One line of the socket.
ClientReads(c) ==
  /\ client[c] = "open"
  /\ wire[c] # <<>>
  /\ wire' = [wire EXCEPT ![c] = Tail(@)]
  /\ LET line == Head(wire[c]) IN
     \/ /\ line = "delta"
        /\ Listens(c)
        /\ got' = [got EXCEPT ![c] = @ + 1]
        /\ UNCHANGED <<client, outcome>>
     \/ /\ \/ line = "delta" /\ ~Listens(c) /\ Settle(c, "failed")
           \/ line = "complete" /\ Settle(c, "complete")
           \/ line = "error" /\ Settle(c, "failed")
           \/ line = "result" /\ Settle(c, IF Parses(line) THEN "complete" ELSE "unparsed")
        /\ UNCHANGED got
  /\ UNCHANGED <<up, tokens, sem, handler, expired, relayVars>>

\* The gateway has closed the connection without "complete": STREAM_EOF.
ClientEof(c) ==
  /\ client[c] = "open"
  /\ wire[c] = <<>>
  /\ handler[c] = "gone"
  /\ Settle(c, "failed")
  /\ UNCHANGED <<gatewayVars, got>>

ClientTimesOut_Never(c) == FALSE /\ UNCHANGED gatewayCallVars

\* CLIENT_TIMEOUT: the deadline of the request and another minute have passed in silence.
ClientTimesOut(c) ==
  /\ client[c] = "open"
  /\ wire[c] = <<>>
  /\ expired[c]
  /\ c \notin Holding
  /\ Settle(c, "failed")
  /\ UNCHANGED <<gatewayVars, got>>

\* No chunk for 120 seconds: the caller drops its end, and the task reads on.
CallerGivesUp(c) ==
  /\ outcome[c] = "waiting"
  /\ wire[c] = <<>>
  /\ outcome' = [outcome EXCEPT ![c] = "failed"]
  /\ UNCHANGED <<gatewayVars, client, got>>

Client(c) == ClientReads(c) \/ ClientEof(c) \/ ClientTimesOut(c)

HandlerOf(c) == HandlerStep(c, client[c] = "closed") /\ UNCHANGED replyVars
DeadlineOf(c) == DeadlinePasses(c) /\ UNCHANGED replyVars
Refill == Drip /\ UNCHANGED replyVars

CallsNext ==
  \/ Refill
  \/ Shutdown /\ UNCHANGED replyVars
  \/ \E c \in Request :
       \/ Client(c) \/ CallerGivesUp(c) \/ \E kind \in {"stream", "plain"} : Ask(c, kind)
       \/ HandlerOf(c) \/ DeadlineOf(c)
       \/ SourceStep(c) /\ UNCHANGED replyVars

CallsSpec == CallsInit /\ [][CallsNext]_gatewayCallVars

\* Tokens drip, handlers and clients go on, and a deadline passes.  A provider owes nothing.
GatewayFairness ==
  /\ WF_gatewayCallVars(Refill)
  /\ \A c \in Request :
       /\ WF_gatewayCallVars(Client(c))
       /\ WF_gatewayCallVars(HandlerOf(c))
       /\ WF_gatewayCallVars(DeadlineOf(c))

FairSpec == CallsSpec /\ GatewayFairness

-----------------------------------------------------------------------------
(* Properties.                                                             *)

\* The semaphore counts the requests in progress: a wait that was cancelled, an error, a
\* client that has gone, none of them keeps a slot or frees the slot of another request,
\* although Release frees whichever there is.
InflightExact == sem = Cardinality(Holding)

\* What the caller takes for a whole reply is one: every delta the provider gave, and the
\* provider did not fail before its end, however errChan, doneChan, chunks and the deadline
\* were ready together.
CompleteIsWhole ==
  \A c \in streamed : outcome[c] = "complete" => got[c] = emitted[c] /\ source[c] # "failed"

Final(line) == line \in {"complete", "error", "result"}

\* Every call ends, well or badly: no caller waits for ever in a turn.
EveryCallSettles == \A c \in Request : outcome[c] = "waiting" ~> Settled(c)

\* What a provider answered to a plain request reaches the caller as an answer.
PlainUnderstood == \A c \in Request : outcome[c] # "unparsed"

=============================================================================
