------------------------------ MODULE Gateway ------------------------------
(***************************************************************************)
(* The api-gateway (api-gateway/main.go): one handler per connection, the  *)
(* rate limiter they share, the goroutine that reads a provider's stream,  *)
(* and the relay between the two.                                          *)
(*                                                                         *)
(* A call is one connection with one request, as di-core makes them.  A    *)
(* streamed chunk is "delta" or "complete"; on the wire a response is one  *)
(* of Line below.  Provider adapters are reduced to what they tell the     *)
(* gateway: chunks, an error, or a return.  One provider, so one limiter.  *)
(* No handler panics, and the five minutes in which a connection has to    *)
(* send its next request are left out: a call here sends one.              *)
(***************************************************************************)
EXTENDS Integers, FiniteSets, Sequences

CONSTANTS
  Request,          \* connections
  RatePerSec,    \* capacity of the token bucket
  MaxConcurrent, \* capacity of the semaphore
  ChunkCap,      \* capacity of the channel of chunks, 100
  MaxDeltas,     \* bound: deltas of one stream
  MaxAttempts    \* maxAttempts of handleNonStreaming, 3

ASSUME GatewayAssumption ==
  /\ IsFiniteSet(Request)
  /\ {RatePerSec, MaxConcurrent, ChunkCap, MaxAttempts} \subseteq Nat \ {0}
  /\ MaxDeltas \in Nat

VARIABLES
  up,         \* the gateway runs
  tokens, sem,        \* RateLimiter: tokens left, slots taken
  streamed,   \* the calls whose request says "stream"
  handler,    \* where the handler of a connection is
  expired,    \* the context of the request is done
  attempt,    \* handleNonStreaming: attempts made
  source,     \* the goroutine that reads the provider
  relay,      \* its channels: chunks, errChan and doneChan
  emitted,    \* deltas the provider has given
  wire        \* responses written and not yet read by the client

gatewayVars == <<up, tokens, sem, streamed, handler, expired, attempt, source, relay, emitted, wire>>
relayVars == <<streamed, attempt, source, relay, emitted>>

\* "result" is the body of a plain answer, "error" a status other than 200.  A response of
\* status 200 without a body is skipped by the client and not put on the wire.
Line == {"delta", "complete", "result", "error"}

\* From Wait's success to Release.
Holding == {c \in Request : handler[c] \in {"stream", "drain", "plain", "backoff"}}

Fresh == [chunks |-> <<>>, err |-> FALSE, done |-> FALSE]

GatewayInit ==
  /\ up = TRUE
  /\ tokens = RatePerSec
  /\ sem = 0
  /\ streamed = {}
  /\ handler = [c \in Request |-> "none"]
  /\ expired = [c \in Request |-> FALSE]
  /\ attempt = [c \in Request |-> 0]
  /\ source = [c \in Request |-> "off"]
  /\ relay = [c \in Request |-> Fresh]
  /\ emitted = [c \in Request |-> 0]
  /\ wire = [c \in Request |-> <<>>]

Write(c, line) == wire' = [wire EXCEPT ![c] = Append(@, line)]
Goto(c, place) == handler' = [handler EXCEPT ![c] = place]

-----------------------------------------------------------------------------
(* RateLimiter.                                                            *)

\* The ticker adds a token unless the bucket is full.
Drip ==
  /\ up
  /\ tokens < RatePerSec
  /\ tokens' = tokens + 1
  /\ UNCHANGED <<up, sem, handler, expired, wire, relayVars>>

\* Release: a receive that does not block.
Released(n) == IF n > 0 THEN n - 1 ELSE n

\* Wait, first half.
TakeToken(c) ==
  /\ handler[c] = "token"
  /\ tokens > 0
  /\ tokens' = tokens - 1
  /\ Goto(c, "slot")
  /\ UNCHANGED <<up, sem, expired, wire, relayVars>>

\* Wait, second half, and what follows its success: a stream is acknowledged, with a line
\* that the client skips, and its goroutine started; a plain request is sent.
TakeSlot(c) ==
  /\ handler[c] = "slot"
  /\ sem < MaxConcurrent
  /\ sem' = sem + 1
  /\ IF c \in streamed
     THEN Goto(c, "stream") /\ source' = [source EXCEPT ![c] = "running"]
     ELSE Goto(c, "plain") /\ UNCHANGED source
  /\ UNCHANGED <<up, tokens, expired, wire, streamed, attempt, relay, emitted>>

QueueTimeout_SlotBack(c) ==
  /\ handler[c] \in {"token", "slot"}
  /\ expired[c]
  /\ sem' = Released(sem)
  /\ Write(c, "error")
  /\ Goto(c, "next")
  /\ UNCHANGED <<up, tokens, expired, relayVars>>

\* Wait returns the context's error: the answer is 429, and a token taken is not returned.
QueueTimeout(c) ==
  /\ handler[c] \in {"token", "slot"}
  /\ expired[c]
  /\ Write(c, "error")
  /\ Goto(c, "next")
  /\ UNCHANGED <<up, tokens, sem, expired, relayVars>>

-----------------------------------------------------------------------------
(* handleConnection.                                                       *)

\* Merging with the stored configuration, or the validation that follows, fails.
Refused(c) == Goto(c, "next") /\ Write(c, "error")

\* A request arrives.
ReadRequest(c) ==
  /\ handler[c] = "read"
  /\ Refused(c) \/ (Goto(c, "token") /\ UNCHANGED wire)
  /\ UNCHANGED <<up, tokens, sem, expired, relayVars>>

\* The deadline of the request passes.
DeadlinePasses(c) ==
  /\ handler[c] \in {"token", "slot"} \/ c \in Holding
  /\ ~expired[c]
  /\ expired' = [expired EXCEPT ![c] = TRUE]
  /\ UNCHANGED <<up, tokens, sem, handler, wire, relayVars>>

\* SIGTERM: every context is done, and handlers that wait for a request end.
Shutdown ==
  /\ up
  /\ up' = FALSE
  /\ expired' = [c \in Request |-> TRUE]
  /\ handler' = [c \in Request |-> IF handler[c] = "read" THEN "gone" ELSE handler[c]]
  /\ UNCHANGED <<tokens, sem, wire, relayVars>>

\* The handler returns: the deferred cancel and Release run.  The goroutine, unless it has
\* failed already, and the channels of the stream are no longer looked at.
HandlerReturns(c) ==
  /\ Goto(c, "next")
  /\ sem' = Released(sem)
  /\ expired' = [expired EXCEPT ![c] = TRUE]
  /\ relay' = [relay EXCEPT ![c] = Fresh]
  /\ source' = [source EXCEPT ![c] = IF @ = "failed" THEN @ ELSE "off"]

\* The client has closed the connection, or the gateway is stopping: the handler ends.
Ends(c, closed) ==
  /\ handler[c] = "next"
  /\ closed \/ ~up
  /\ Goto(c, "gone")
  /\ UNCHANGED <<up, tokens, sem, expired, wire, relayVars>>

-----------------------------------------------------------------------------
(* handleStreaming: the goroutine that reads the provider.  What it does after the loop  *)
(* was left is seen by nobody and left out.                                              *)

Reading(c, phases) == handler[c] = "stream" /\ source[c] \in phases

Source(c, phase, channels) ==
  /\ source' = [source EXCEPT ![c] = phase]
  /\ relay' = [relay EXCEPT ![c] = channels]
  /\ UNCHANGED <<up, tokens, sem, handler, expired, wire, streamed, attempt>>

ChunkRoom(c) == Len(relay[c].chunks) < ChunkCap
WithChunk(c, chunk) == [relay[c] EXCEPT !.chunks = Append(@, chunk)]

EmitDelta(c) ==
  /\ Reading(c, {"running"})
  /\ ChunkRoom(c) /\ emitted[c] < MaxDeltas
  /\ emitted' = [emitted EXCEPT ![c] = @ + 1]
  /\ Source(c, "running", WithChunk(c, "delta"))

\* The adapter has seen the provider's end mark; reading on may still fail.
EmitComplete(c) ==
  /\ Reading(c, {"running"})
  /\ ChunkRoom(c)
  /\ Source(c, "ended", WithChunk(c, "complete"))
  /\ UNCHANGED emitted

\* Stream returns nil; an adapter also does so when the body ends without an end mark.
SourceReturns(c) ==
  /\ Reading(c, {"running", "ended"})
  /\ Source(c, "over", [relay[c] EXCEPT !.done = TRUE])
  /\ UNCHANGED emitted

\* Stream returns an error or panics; so it does soon after its context is done.
SourceFails(c) ==
  /\ Reading(c, {"running", "ended"})
  /\ Source(c, IF source[c] = "running" THEN "failed" ELSE "over", [relay[c] EXCEPT !.err = TRUE])
  /\ UNCHANGED emitted

\* After an error, but not after a panic, the end is signalled too.
SourceFailedDone(c) ==
  /\ Reading(c, {"failed", "over"})
  /\ ~relay[c].done
  /\ Source(c, source[c], [relay[c] EXCEPT !.done = TRUE])
  /\ UNCHANGED emitted

-----------------------------------------------------------------------------
(* handleStreaming: the loop, a choice among all that is ready.            *)

Silent(c) == HandlerReturns(c) /\ UNCHANGED <<up, tokens, wire, streamed, attempt, emitted>>

\* The handler answers and returns.
Answers(c, line) ==
  /\ Write(c, line)
  /\ HandlerReturns(c)
  /\ UNCHANGED <<up, tokens, streamed, attempt, emitted>>

RelayError(c) == handler[c] = "stream" /\ relay[c].err /\ Answers(c, "error")

\* The context is done: the goroutine is given two seconds to end, and its error is dropped.
Cancelled(c) == handler[c] = "stream" /\ expired[c] /\ Answers(c, "error")

WithoutHead(c) == [relay EXCEPT ![c].chunks = Tail(@)]
RelayGoesOn(c) == relay' = WithoutHead(c) /\ UNCHANGED <<handler, sem, expired, source>>

\* "complete" is the last that is relayed.
AfterChunk(c, chunk) == IF chunk = "complete" THEN HandlerReturns(c) ELSE RelayGoesOn(c)

\* A chunk is relayed, in the loop or while draining; a write to a client that has gone
\* fails and ends the relay.
RelayChunk(c, closed) ==
  /\ handler[c] \in {"stream", "drain"}
  /\ relay[c].chunks # <<>>
  /\ IF closed
     THEN HandlerReturns(c) /\ UNCHANGED wire
     ELSE LET chunk == Head(relay[c].chunks) IN Write(c, chunk) /\ AfterChunk(c, chunk)
  /\ UNCHANGED <<up, tokens, streamed, attempt, emitted>>

SourceDone_Unchecked(c) ==
  /\ handler[c] = "stream"
  /\ relay[c].done
  /\ Goto(c, "drain")
  /\ UNCHANGED <<up, tokens, sem, expired, wire, relayVars>>

\* The goroutine is done: an error that came with it wins, otherwise what is left is sent.
SourceDone(c) ==
  /\ handler[c] = "stream"
  /\ relay[c].done
  /\ IF relay[c].err
     THEN Answers(c, "error")
     ELSE /\ Goto(c, "drain")
          /\ UNCHANGED <<up, tokens, sem, expired, wire, relayVars>>

\* Nothing is left, and the provider sent no "complete".
Drained(c) == handler[c] = "drain" /\ relay[c].chunks = <<>> /\ Answers(c, "complete")

-----------------------------------------------------------------------------
(* handleNonStreaming.                                                     *)

\* The provider answers, perhaps as the deadline passes; a stop reason that says the
\* context was exceeded makes a response of status 200 with an error and no body.
PlainAnswered(c) ==
  /\ handler[c] = "plain"
  /\ \/ Answers(c, "result")
     \/ Silent(c)

RetryLeft(c) == attempt[c] + 1 < MaxAttempts

\* The attempt fails: a retriable error is retried after a pause.
PlainFails(c) ==
  /\ handler[c] = "plain"
  /\ \/ /\ RetryLeft(c)
        /\ Goto(c, "backoff")
        /\ attempt' = [attempt EXCEPT ![c] = @ + 1]
        /\ UNCHANGED <<up, tokens, sem, expired, wire, streamed, source, relay, emitted>>
     \/ Answers(c, "error")

\* The pause is over, or the context is done first.
BackoffEnds(c) ==
  /\ handler[c] = "backoff"
  /\ \/ /\ Goto(c, "plain")
        /\ UNCHANGED <<up, tokens, sem, expired, wire, relayVars>>
     \/ expired[c] /\ Answers(c, "error")

-----------------------------------------------------------------------------

HandlerStep(c, closed) ==
  \/ ReadRequest(c) \/ TakeToken(c) \/ TakeSlot(c) \/ QueueTimeout(c) \/ Ends(c, closed)
  \/ RelayError(c) \/ Cancelled(c) \/ RelayChunk(c, closed)
  \/ SourceDone(c) \/ Drained(c)
  \/ PlainAnswered(c) \/ PlainFails(c) \/ BackoffEnds(c)

SourceStep(c) ==
  EmitDelta(c) \/ EmitComplete(c) \/ SourceReturns(c) \/ SourceFails(c) \/ SourceFailedDone(c)

=============================================================================
