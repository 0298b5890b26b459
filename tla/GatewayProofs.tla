--------------------------- MODULE GatewayProofs ---------------------------
(***************************************************************************)
(* Theorems about GatewayCalls, for any number of calls, any limits and    *)
(* any length of stream: the slots in use are counted exactly, and what a  *)
(* caller takes for a whole reply is one.                                  *)
(***************************************************************************)
EXTENDS GatewayCalls, FiniteSetTheorems, SequenceTheorems, TLAPS

\* Before a slot was taken, and after the handler has returned.
Early == {"none", "read", "token", "slot"}
Over == {"next", "gone"}
Relaying == {"stream", "drain"}

Channels == [chunks : Seq(Line), err : BOOLEAN, done : BOOLEAN]

GatewayTypeOK ==
  /\ up \in BOOLEAN
  /\ tokens \in Nat /\ sem \in Nat
  /\ streamed \subseteq Request
  /\ handler \in [Request -> Early \cup Over \cup Relaying \cup {"plain", "backoff"}]
  /\ expired \in [Request -> BOOLEAN]
  /\ attempt \in [Request -> Nat]
  /\ source \in [Request -> {"off", "running", "ended", "over", "failed"}]
  /\ relay \in [Request -> Channels]
  /\ emitted \in [Request -> Nat]
  /\ wire \in [Request -> Seq(Line)]
  /\ client \in [Request -> {"none", "open", "closed"}]
  /\ outcome \in [Request -> {"none", "waiting", "complete", "failed", "unparsed"}]
  /\ got \in [Request -> Nat]

\* Nothing but deltas, except perhaps the last.
DeltasOnly(s) == \A i \in 1 .. Len(s) : s[i] = "delta"
DeltasThenEnd(s) == \A i \in 1 .. Len(s) - 1 : s[i] = "delta"
EndsIn(s, line) == Len(s) > 0 /\ s[Len(s)] = line

\* The deltas of such a sequence.
Deltas(s) == IF Len(s) = 0 \/ s[Len(s)] = "delta" THEN Len(s) ELSE Len(s) - 1

\* Where a call is decides what may be under way.
Places(c) ==
  /\ outcome[c] = "none" => handler[c] = "none"
  /\ handler[c] \in Early =>
       emitted[c] = 0 /\ wire[c] = <<>> /\ source[c] = "off" /\ got[c] = 0
  /\ handler[c] \notin Relaying => relay[c] = Fresh
  /\ handler[c] \in Relaying => c \in streamed
  /\ handler[c] \in {"plain", "backoff"} => c \notin streamed

\* The goroutine's channels: "complete" is its last chunk, an error is marked before it is
\* heard of, and draining starts without one.
Sources(c) ==
  /\ DeltasThenEnd(relay[c].chunks)
  /\ EndsIn(relay[c].chunks, "complete") => source[c] \in {"ended", "over"}
  /\ handler[c] \in Relaying /\ source[c] = "failed" => relay[c].err
  /\ handler[c] = "drain" => ~relay[c].err
  /\ Deltas(relay[c].chunks) \in Nat
  /\ \A i \in 1 .. Len(relay[c].chunks) : relay[c].chunks[i] \in {"delta", "complete"}

\* A streamed call that may still complete has every delta: received, on the wire or in
\* the channel.
Balanced(c) ==
  /\ DeltasThenEnd(wire[c])
  /\ handler[c] \in Early \cup Relaying => DeltasOnly(wire[c])
  /\ EndsIn(wire[c], "complete") => source[c] # "failed"
  /\ outcome[c] = "complete" =>
       handler[c] \in Over /\ got[c] = emitted[c] /\ source[c] # "failed"
  /\ outcome[c] = "waiting" /\ (handler[c] \in Over => EndsIn(wire[c], "complete")) =>
       got[c] + Deltas(wire[c]) + Deltas(relay[c].chunks) = emitted[c]

Flow(c) == Places(c) /\ (c \in streamed => Sources(c) /\ Balanced(c))

GatewayInv == GatewayTypeOK /\ InflightExact /\ \A c \in Request : Flow(c)

-----------------------------------------------------------------------------
(* Sequences of lines.                                                     *)

\* A delta, or what comes after the last delta, is appended.
LEMMA AppendLine ==
  ASSUME NEW s \in Seq(Line), NEW x \in Line, DeltasOnly(s)
  PROVE  /\ Append(s, x) \in Seq(Line) /\ DeltasThenEnd(Append(s, x))
         /\ EndsIn(Append(s, x), x)
         /\ \A y : EndsIn(Append(s, x), y) => y = x
         /\ Deltas(s) = Len(s)
         /\ Deltas(Append(s, x)) = Len(s) + (IF x = "delta" THEN 1 ELSE 0)
         /\ x = "delta" => DeltasOnly(Append(s, x))
<1>1. /\ Append(s, x) \in Seq(Line) /\ Len(Append(s, x)) = Len(s) + 1 /\ Len(s) \in Nat
      /\ \A i \in 1 .. Len(s) : Append(s, x)[i] = s[i]
      /\ Append(s, x)[Len(s) + 1] = x
  OBVIOUS
<1> QED
  BY <1>1 DEF DeltasOnly, DeltasThenEnd, EndsIn, Deltas

\* A delta is taken from the front, or the last line.
LEMMA TakeLine ==
  ASSUME NEW s \in Seq(Line), s # <<>>, DeltasThenEnd(s)
  PROVE  /\ Head(s) \in Line /\ Tail(s) \in Seq(Line) /\ DeltasThenEnd(Tail(s))
         /\ Deltas(s) \in Nat /\ Deltas(Tail(s)) \in Nat
         /\ Head(s) = "delta" => Deltas(s) = Deltas(Tail(s)) + 1
         /\ Head(s) # "delta" => EndsIn(s, Head(s)) /\ Deltas(s) = 0 /\ Tail(s) = <<>> /\ Len(s) = 1
         /\ DeltasOnly(s) => DeltasOnly(Tail(s)) /\ Head(s) = "delta"
         /\ \A y : EndsIn(Tail(s), y) => EndsIn(s, y) /\ Head(s) = "delta"
         /\ \A y : EndsIn(s, y) /\ Head(s) = "delta" /\ y # "delta" => EndsIn(Tail(s), y)
<1>1. /\ Len(s) \in Nat \ {0} /\ Head(s) = s[1] /\ Head(s) \in Line /\ Tail(s) \in Seq(Line)
      /\ Len(Tail(s)) = Len(s) - 1
      /\ \A i \in 1 .. Len(s) - 1 : Tail(s)[i] = s[i + 1]
  OBVIOUS
<1>2. Tail(s) \in Seq(Line) /\ (Len(s) = 1 => Len(Tail(s)) = 0)
  BY <1>1
<1>3. Len(s) = 1 => Tail(s) = <<>>
  BY <1>2, EmptySeq
<1> QED
  BY <1>1, <1>3 DEF DeltasOnly, DeltasThenEnd, EndsIn, Deltas

\* An empty sequence.
LEMMA NoLines == /\ <<>> \in Seq(Line) /\ DeltasOnly(<<>>) /\ DeltasThenEnd(<<>>) /\ Deltas(<<>>) = 0
                 /\ \A y : ~EndsIn(<<>>, y)
BY DEF DeltasOnly, DeltasThenEnd, EndsIn, Deltas

\* Deltas are counted by a natural number; a list of deltas alone has one each.
LEMMA DeltasNat ==
  ASSUME NEW s \in Seq(Line)
  PROVE  Deltas(s) \in Nat /\ (DeltasOnly(s) => DeltasThenEnd(s) /\ Deltas(s) = Len(s))
BY DEF Deltas, DeltasOnly, DeltasThenEnd

-----------------------------------------------------------------------------
(* Types.                                                                  *)

\* What is written is a line.
LEMMA WriteType ==
  ASSUME GatewayTypeOK, NEW c \in Request, NEW line \in Line, Write(c, line)
  PROVE  wire' \in [Request -> Seq(Line)]
<1>1. Append(wire[c], line) \in Seq(Line)
  BY DEF GatewayTypeOK
<1> QED
  BY <1>1 DEF GatewayTypeOK, Write

\* A return of a handler keeps the types of what it changes.
LEMMA ReturnsType ==
  ASSUME GatewayTypeOK, NEW c \in Request, HandlerReturns(c)
  PROVE  /\ sem' \in Nat /\ expired' \in [Request -> BOOLEAN]
         /\ handler' \in [Request -> Early \cup Over \cup Relaying \cup {"plain", "backoff"}]
         /\ source' \in [Request -> {"off", "running", "ended", "over", "failed"}]
         /\ relay' \in [Request -> Channels]
<1>1. Fresh \in Channels
  BY NoLines DEF Fresh, Channels
<1> QED
  BY <1>1 DEF GatewayTypeOK, HandlerReturns, Goto, Released, Over

-----------------------------------------------------------------------------
(* A step of one call.                                                     *)

\* The other calls are where they were.
Unmoved(d) ==
  /\ handler'[d] = handler[d] /\ source'[d] = source[d] /\ relay'[d] = relay[d]
  /\ emitted'[d] = emitted[d] /\ wire'[d] = wire[d]
  /\ outcome'[d] = outcome[d] /\ got'[d] = got[d]
  /\ d \in streamed' <=> d \in streamed

Moves(c) == GatewayTypeOK' /\ Flow(c)' /\ \A d \in Request \ {c} : Unmoved(d)

\* What a step of one call does not touch keeps the flow of every other.
LEMMA UnmovedFlow ==
  ASSUME NEW d \in Request, Flow(d), Unmoved(d)
  PROVE  Flow(d)'
BY DEF Flow, Unmoved, Places, Sources, Balanced

\* The handler writes its last line and returns.  Only the end of a drained stream is
\* "complete".
LEMMA AnswersMoves ==
  ASSUME GatewayTypeOK, NEW c \in Request, Flow(c), UNCHANGED replyVars,
         NEW line \in {"complete", "error", "result"}, Answers(c, line),
         handler[c] \in Relaying \cup {"plain", "backoff"},
         line = "complete" => handler[c] = "drain" /\ relay[c].chunks = <<>>
  PROVE  Moves(c)
<1> USE DEF Answers, HandlerReturns, Write, Goto, replyVars
<1>1. line \in Line
  BY DEF Line
<1>2. GatewayTypeOK'
  BY <1>1, WriteType, ReturnsType DEF GatewayTypeOK
<1>3. \A d \in Request \ {c} : Unmoved(d)
  BY DEF Unmoved, GatewayTypeOK
<1>4. Places(c)'
  BY DEF Flow, Places, GatewayTypeOK, Relaying, Early
<1>5. ASSUME c \in streamed' PROVE Sources(c)' /\ Balanced(c)'
  <2>1. c \in streamed /\ handler[c] \in Relaying
    BY <1>5 DEF Flow, Places
  <2>2. DeltasOnly(wire[c]) /\ wire[c] \in Seq(Line)
    BY <2>1 DEF Flow, Balanced, GatewayTypeOK
  <2>3. handler'[c] = "next" /\ relay'[c] = Fresh /\ wire'[c] = Append(wire[c], line)
    BY DEF GatewayTypeOK
  <2>4. Sources(c)'
    BY <2>3, NoLines DEF Sources, Relaying, Fresh
  <2>5. DeltasThenEnd(wire'[c]) /\ (EndsIn(wire'[c], "complete") => line = "complete")
    BY <1>1, <2>2, <2>3, AppendLine
  <2>6. Deltas(wire'[c]) = Len(wire[c]) /\ Deltas(wire[c]) = Len(wire[c])
    BY <1>1, <2>2, <2>3, AppendLine
  <2>7. line = "complete" => source'[c] # "failed"
    BY <2>1 DEF Flow, Sources, GatewayTypeOK, Relaying
  <2> QED
    BY <2>1, <2>3, <2>4, <2>5, <2>6, <2>7, NoLines
    DEF Flow, Balanced, GatewayTypeOK, Relaying, Early, Over, Fresh
<1> QED
  BY <1>2, <1>3, <1>4, <1>5 DEF Moves, Flow

\* Before the slot: nothing has been read from a provider.
LEMMA EntryMoves ==
  ASSUME GatewayTypeOK, NEW c \in Request, Flow(c), UNCHANGED replyVars,
         ReadRequest(c) \/ TakeToken(c) \/ TakeSlot(c) \/ QueueTimeout(c)
  PROVE  Moves(c)
<1> USE DEF Write, Goto, replyVars, relayVars, Early, Over, Relaying
<1>1. /\ handler[c] \in {"read", "token", "slot"}
      /\ handler'[c] \in {"next", "token", "slot", "stream", "plain"}
      /\ handler'[c] \in Relaying => c \in streamed
      /\ handler'[c] = "plain" => c \notin streamed
      /\ wire' = wire \/ (handler'[c] = "next" /\ wire'[c] = Append(wire[c], "error"))
      /\ source' = source \/ (handler'[c] = "stream" /\ source'[c] = "running")
  <2>1. CASE ReadRequest(c)
    BY <2>1 DEF ReadRequest, Refused, GatewayTypeOK
  <2>2. CASE TakeToken(c)
    BY <2>2 DEF TakeToken, GatewayTypeOK
  <2>3. CASE TakeSlot(c)
    BY <2>3 DEF TakeSlot, GatewayTypeOK
  <2>4. CASE QueueTimeout(c)
    BY <2>4 DEF QueueTimeout, GatewayTypeOK
  <2> QED
    BY <2>1, <2>2, <2>3, <2>4
<1>0. wire[c] = <<>> /\ source[c] = "off" /\ emitted[c] = 0 /\ got[c] = 0 /\ relay[c] = Fresh
  BY <1>1 DEF Flow, Places
<1>2. UNCHANGED <<up, streamed, expired, attempt, relay, emitted>>
  BY DEF ReadRequest, Refused, TakeToken, TakeSlot, QueueTimeout
<1>3. wire' \in [Request -> Seq(Line)]
  BY WriteType DEF ReadRequest, Refused, TakeToken, TakeSlot, QueueTimeout, GatewayTypeOK, Line
<1>4. GatewayTypeOK'
  <2>1. tokens' \in Nat /\ sem' \in Nat
    BY DEF ReadRequest, Refused, TakeToken, TakeSlot, QueueTimeout, GatewayTypeOK
  <2>2. /\ handler' \in [Request -> Early \cup Over \cup Relaying \cup {"plain", "backoff"}]
        /\ source' \in [Request -> {"off", "running", "ended", "over", "failed"}]
    BY DEF ReadRequest, Refused, TakeToken, TakeSlot, QueueTimeout, GatewayTypeOK
  <2> QED
    BY <1>2, <1>3, <2>1, <2>2 DEF GatewayTypeOK
<1>5. \A d \in Request \ {c} : Unmoved(d)
  BY DEF Unmoved, GatewayTypeOK, ReadRequest, Refused, TakeToken, TakeSlot, QueueTimeout
<1>6. Places(c)'
  BY <1>0, <1>1, <1>2 DEF Flow, Places
<1>7. ASSUME c \in streamed' PROVE Sources(c)' /\ Balanced(c)'
  <2>1. relay'[c] = Fresh /\ emitted'[c] = 0 /\ got'[c] = 0
    BY <1>0, <1>2
  <2>2. CASE wire'[c] = <<>>
    BY <1>0, <1>1, <1>2, <1>7, <2>1, <2>2, NoLines
    DEF Flow, Places, Sources, Balanced, Fresh
  <2>3. CASE handler'[c] = "next" /\ wire'[c] = Append(<<>>, "error")
    <3>1. /\ DeltasThenEnd(wire'[c]) /\ ~EndsIn(wire'[c], "complete")
      <4>1. "error" \in Line
        BY DEF Line
      <4>2. <<>> \in Seq(Line) /\ DeltasOnly(<<>>)
        BY NoLines
      <4>3. DeltasThenEnd(Append(<<>>, "error")) /\ ~EndsIn(Append(<<>>, "error"), "complete")
        BY <4>1, <4>2, AppendLine
      <4> QED
        BY <4>3, <2>3
    <3> QED
      BY <1>0, <1>1, <1>2, <1>7, <2>1, <2>3, <3>1, NoLines
      DEF Flow, Places, Sources, Balanced, Fresh
  <2> QED
    BY <1>0, <1>1, <2>2, <2>3
<1> QED
  BY <1>4, <1>5, <1>6, <1>7 DEF Moves, Flow

\* Steps that only change where the handler is, the deadline, or the attempts.
LEMMA PlaceMoves ==
  ASSUME GatewayTypeOK, NEW c \in Request, Flow(c), UNCHANGED replyVars,
         UNCHANGED <<up, tokens, sem, wire, streamed, source, relay, emitted>>,
         \/ UNCHANGED <<expired, attempt>>
         \/ expired' = [expired EXCEPT ![c] = TRUE] /\ UNCHANGED attempt
         \/ attempt' = [attempt EXCEPT ![c] = @ + 1] /\ UNCHANGED expired,
         NEW place, Goto(c, place),
         \/ place = handler[c]
         \/ place = "gone" /\ handler[c] = "next"
         \/ place \in {"plain", "backoff"} /\ handler[c] \in {"plain", "backoff"}
         \/ place = "drain" /\ handler[c] = "stream" /\ ~relay[c].err
  PROVE  Moves(c)
<1> USE DEF Goto, replyVars, Early, Over, Relaying
<1>1. GatewayTypeOK'
  <2>1. handler' \in [Request -> Early \cup Over \cup Relaying \cup {"plain", "backoff"}]
    BY DEF GatewayTypeOK
  <2>2. expired' \in [Request -> BOOLEAN]
    BY DEF GatewayTypeOK
  <2>3. attempt' \in [Request -> Nat]
    BY DEF GatewayTypeOK
  <2> QED
    BY <2>1, <2>2, <2>3 DEF GatewayTypeOK
<1>2. \A d \in Request \ {c} : Unmoved(d)
  BY DEF Unmoved, GatewayTypeOK
<1>3. handler'[c] = place
  BY DEF GatewayTypeOK
<1>4. Flow(c)'
  BY <1>3 DEF Flow, Places, Sources, Balanced
<1> QED
  BY <1>1, <1>2, <1>4 DEF Moves

\* A plain answer without a body.
LEMMA SilentMoves ==
  ASSUME GatewayTypeOK, NEW c \in Request, Flow(c), UNCHANGED replyVars,
         handler[c] = "plain", Silent(c)
  PROVE  Moves(c)
<1> USE DEF Silent, HandlerReturns, Goto, replyVars, Early, Over, Relaying
<1>1. GatewayTypeOK'
  BY ReturnsType DEF GatewayTypeOK
<1>2. \A d \in Request \ {c} : Unmoved(d)
  BY DEF Unmoved, GatewayTypeOK
<1>3. Flow(c)'
  BY DEF Flow, Places, GatewayTypeOK
<1> QED
  BY <1>1, <1>2, <1>3 DEF Moves

\* A chunk goes from the channel to the wire, and with "complete" the handler returns.
LEMMA RelayMoves ==
  ASSUME GatewayTypeOK, NEW c \in Request, Flow(c), UNCHANGED replyVars,
         NEW closed \in BOOLEAN, closed => outcome[c] # "waiting", RelayChunk(c, closed)
  PROVE  Moves(c)
<1> DEFINE chunks == relay[c].chunks
<1> DEFINE chunk == Head(chunks)
<1> USE DEF Goto, replyVars, Early, Over, Relaying
<1>1. /\ c \in streamed /\ handler[c] \in Relaying /\ chunks \in Seq(Line) /\ chunks # <<>>
      /\ UNCHANGED <<up, tokens, streamed, attempt, emitted>>
      /\ DeltasOnly(wire[c]) /\ wire[c] \in Seq(Line)
  BY DEF RelayChunk, Flow, Places, Balanced, GatewayTypeOK, Channels
<1>2. chunk \in {"delta", "complete"} /\ chunk \in Line
  <2>1. chunk = chunks[1] /\ 1 \in 1 .. Len(chunks)
    BY <1>1
  <2> QED
    BY <2>1, <1>1 DEF Flow, Sources, Line
<1>3. CASE closed
  <2> USE DEF HandlerReturns
  <2>1. GatewayTypeOK'
    BY <1>1, <1>3, ReturnsType DEF RelayChunk, GatewayTypeOK
  <2>2. \A d \in Request \ {c} : Unmoved(d)
    BY <1>1, <1>3 DEF RelayChunk, Unmoved, GatewayTypeOK
  <2>3. handler'[c] = "next" /\ relay'[c] = Fresh /\ UNCHANGED wire /\ source'[c] \in {source[c], "off"}
    BY <1>3 DEF RelayChunk, GatewayTypeOK
  <2>4. Sources(c)' /\ Places(c)'
    BY <1>1, <2>3, NoLines DEF Sources, Fresh, Flow, Places
  <2>5. Balanced(c)'
    BY <1>1, <1>3, <2>3, NoLines DEF Balanced, Fresh, Flow
  <2> QED
    BY <2>1, <2>2, <2>4, <2>5 DEF Moves, Flow
<1>4. CASE ~closed /\ chunk = "complete"
  <2>1. EndsIn(chunks, "complete") /\ Deltas(chunks) = 0
    BY <1>1, <1>4, TakeLine DEF Flow, Sources
  <2>2. source[c] \in {"ended", "over"}
    BY <1>1, <2>1 DEF Flow, Sources
  <2>3. Write(c, "complete") /\ HandlerReturns(c)
    BY <1>4 DEF RelayChunk, AfterChunk
  <2> USE DEF HandlerReturns
  <2>4. GatewayTypeOK'
    BY <1>1, <2>3, WriteType, ReturnsType DEF GatewayTypeOK, Line
  <2>5. \A d \in Request \ {c} : Unmoved(d)
    BY <1>1, <2>3 DEF Unmoved, GatewayTypeOK, Write
  <2>6. /\ handler'[c] = "next" /\ relay'[c] = Fresh /\ source'[c] = "off"
        /\ wire'[c] = Append(wire[c], "complete")
    BY <2>2, <2>3 DEF GatewayTypeOK, Write
  <2>7. /\ DeltasThenEnd(wire'[c]) /\ EndsIn(wire'[c], "complete")
        /\ Deltas(wire'[c]) = Deltas(wire[c])
    BY <1>1, <2>6, AppendLine DEF Line
  <2>8. Sources(c)' /\ Places(c)'
    BY <1>1, <2>6, NoLines DEF Sources, Fresh, Flow, Places
  <2>9. Balanced(c)'
    BY <1>1, <2>1, <2>6, <2>7, NoLines, DeltasNat DEF Balanced, Fresh, Flow, GatewayTypeOK
  <2> QED
    BY <2>4, <2>5, <2>8, <2>9 DEF Moves, Flow
<1>5. CASE ~closed /\ chunk # "complete"
  <2>1. chunk = "delta"
    BY <1>2, <1>5
  <2>2. Write(c, "delta") /\ relay' = [relay EXCEPT ![c].chunks = Tail(@)]
        /\ UNCHANGED <<handler, sem, expired, source>>
    BY <1>5, <2>1 DEF RelayChunk, AfterChunk, RelayGoesOn, WithoutHead
  <2>3. /\ Tail(chunks) \in Seq(Line) /\ DeltasThenEnd(Tail(chunks))
        /\ Deltas(chunks) = Deltas(Tail(chunks)) + 1 /\ Deltas(Tail(chunks)) \in Nat
        /\ \A y : EndsIn(Tail(chunks), y) => EndsIn(chunks, y)
    BY <1>1, <2>1, TakeLine DEF Flow, Sources
  <2>4. \A i \in 1 .. Len(Tail(chunks)) : Tail(chunks)[i] \in {"delta", "complete"}
    <3>1. \A i \in 1 .. Len(Tail(chunks)) : i + 1 \in 1 .. Len(chunks) /\ Tail(chunks)[i] = chunks[i + 1]
      BY <1>1
    <3> QED
      BY <1>1, <3>1 DEF Flow, Sources
  <2>5. GatewayTypeOK'
    <3>1. wire' \in [Request -> Seq(Line)]
      BY <2>2, WriteType DEF Line
    <3>2. relay' \in [Request -> Channels]
      BY <2>2, <2>3 DEF GatewayTypeOK, Channels
    <3> QED
      BY <1>1, <2>2, <3>1, <3>2 DEF GatewayTypeOK
  <2>6. \A d \in Request \ {c} : Unmoved(d)
    BY <1>1, <2>2 DEF Unmoved, GatewayTypeOK, Write
  <2>7. /\ relay'[c].chunks = Tail(chunks) /\ relay'[c].err = relay[c].err
        /\ wire'[c] = Append(wire[c], "delta")
    BY <2>2 DEF GatewayTypeOK, Channels, Write
  <2>8. DeltasOnly(wire'[c]) /\ DeltasThenEnd(wire'[c]) /\ ~EndsIn(wire'[c], "complete")
        /\ Deltas(wire'[c]) = Deltas(wire[c]) + 1
    BY <1>1, <2>7, AppendLine DEF Line
  <2>9. Sources(c)' /\ Places(c)'
    BY <1>1, <2>2, <2>3, <2>4, <2>7 DEF Sources, Flow, Places
  <2>10. Balanced(c)'
    BY <1>1, <2>2, <2>3, <2>7, <2>8, DeltasNat DEF Balanced, Flow, GatewayTypeOK
  <2> QED
    BY <2>5, <2>6, <2>9, <2>10 DEF Moves, Flow
<1> QED
  BY <1>3, <1>4, <1>5

\* The goroutine adds a chunk.
LEMMA EmitMoves ==
  ASSUME GatewayTypeOK, NEW c \in Request, Flow(c), UNCHANGED replyVars,
         EmitDelta(c) \/ EmitComplete(c)
  PROVE  Moves(c)
<1> DEFINE chunks == relay[c].chunks
<1> DEFINE chunk == IF EmitDelta(c) THEN "delta" ELSE "complete"
<1> USE DEF Early, Over, Relaying, Reading, Source, WithChunk, replyVars
<1>1. /\ handler[c] = "stream" /\ source[c] = "running" /\ c \in streamed
      /\ chunks \in Seq(Line) /\ chunk \in Line
      /\ UNCHANGED <<up, tokens, sem, handler, expired, wire, streamed, attempt>>
  BY DEF EmitDelta, EmitComplete, Flow, Places, GatewayTypeOK, Channels, Line
<1>2. /\ relay' = [relay EXCEPT ![c] = [relay[c] EXCEPT !.chunks = Append(@, chunk)]]
      /\ source' = [source EXCEPT ![c] = IF chunk = "delta" THEN "running" ELSE "ended"]
      /\ emitted' = IF chunk = "delta" THEN [emitted EXCEPT ![c] = @ + 1] ELSE emitted
  BY <1>1 DEF EmitDelta, EmitComplete
<1> HIDE DEF chunk
<1>3. DeltasOnly(chunks)
  <2>1. \A k \in 1 .. Len(chunks) : chunks[k] \in {"delta", "complete"}
    BY <1>1 DEF Flow, Sources
  <2>2. ~EndsIn(chunks, "complete") /\ DeltasThenEnd(chunks)
    BY <1>1 DEF Flow, Sources
  <2> QED
    BY <1>1, <2>1, <2>2 DEF EndsIn, DeltasThenEnd, DeltasOnly
<1>4. chunk \in {"delta", "complete"}
  BY DEF chunk
<1>5. Append(chunks, chunk) \in Seq(Line)
  BY <1>1, <1>3, AppendLine
<1>6. GatewayTypeOK'
  <2>1. relay' \in [Request -> Channels]
    BY <1>2, <1>5, ZenonT(40) DEF GatewayTypeOK, Channels
  <2>2. source' \in [Request -> {"off", "running", "ended", "over", "failed"}]
        /\ emitted' \in [Request -> Nat]
    BY <1>2 DEF GatewayTypeOK
  <2> QED
    BY <1>1, <2>1, <2>2 DEF GatewayTypeOK
<1>7. \A d \in Request \ {c} : Unmoved(d)
  BY <1>1, <1>2 DEF Unmoved, GatewayTypeOK
<1>8. /\ relay'[c].chunks = Append(chunks, chunk) /\ relay'[c].err = relay[c].err
      /\ source'[c] = IF chunk = "delta" THEN "running" ELSE "ended"
      /\ emitted'[c] = IF chunk = "delta" THEN emitted[c] + 1 ELSE emitted[c]
  BY <1>2 DEF GatewayTypeOK, Channels
<1>9. /\ DeltasThenEnd(relay'[c].chunks)
      /\ EndsIn(relay'[c].chunks, "complete") => chunk = "complete"
      /\ Deltas(relay'[c].chunks) = Deltas(chunks) + (IF chunk = "delta" THEN 1 ELSE 0)
      /\ Deltas(chunks) \in Nat
  BY <1>1, <1>3, <1>8, AppendLine, LenProperties
<1>10. \A k \in 1 .. Len(relay'[c].chunks) : relay'[c].chunks[k] \in {"delta", "complete"}
  <2>1. /\ Len(relay'[c].chunks) = Len(chunks) + 1 /\ Len(chunks) \in Nat
        /\ \A k \in 1 .. Len(chunks) : relay'[c].chunks[k] = chunks[k]
        /\ relay'[c].chunks[Len(chunks) + 1] = chunk
    BY <1>1, <1>8
  <2>2. \A k \in 1 .. Len(chunks) : chunks[k] \in {"delta", "complete"}
    BY <1>1 DEF Flow, Sources
  <2>3. \A k \in 1 .. Len(chunks) + 1 : k \in 1 .. Len(chunks) \/ k = Len(chunks) + 1
    BY <2>1
  <2> HIDE DEF chunks
  <2> QED
    BY <1>4, <2>1, <2>2, <2>3
<1>11. Places(c)' /\ Sources(c)'
  BY <1>1, <1>4, <1>8, <1>9, <1>10 DEF Flow, Places, Sources
<1>12. Balanced(c)'
  BY <1>1, <1>4, <1>8, <1>9, DeltasNat DEF Flow, Balanced, GatewayTypeOK
<1> QED
  BY <1>6, <1>7, <1>11, <1>12 DEF Moves, Flow

\* The goroutine ends: with an error, which is marked, or without.
LEMMA SourceEndMoves ==
  ASSUME GatewayTypeOK, NEW c \in Request, Flow(c), UNCHANGED replyVars,
         SourceReturns(c) \/ SourceFails(c) \/ SourceFailedDone(c)
  PROVE  Moves(c)
<1> USE DEF Early, Over, Relaying, Reading, Source, replyVars
<1>1. /\ handler[c] = "stream" /\ c \in streamed
      /\ UNCHANGED <<up, tokens, sem, handler, expired, wire, streamed, attempt, emitted>>
  BY DEF SourceReturns, SourceFails, SourceFailedDone, Flow, Places
<1>2. PICK place \in {"over", "failed"}, channels \in Channels :
        /\ source' = [source EXCEPT ![c] = place] /\ relay' = [relay EXCEPT ![c] = channels]
        /\ channels.chunks = relay[c].chunks
        /\ place = "failed" => channels.err /\ ~EndsIn(relay[c].chunks, "complete")
  <2>1. relay[c] \in Channels
    BY DEF GatewayTypeOK
  <2>2. CASE SourceReturns(c)
    BY <2>1, <2>2 DEF SourceReturns, Channels
  <2>3. CASE SourceFails(c)
    <3>1. /\ source[c] = "running" => ~EndsIn(relay[c].chunks, "complete")
          /\ [relay[c] EXCEPT !.err = TRUE] \in Channels
          /\ source[c] \in {"running", "ended"}
      BY <1>1, <2>1, <2>3 DEF Flow, Sources, SourceFails, Channels
    <3>2. CASE source[c] = "running"
      BY <2>1, <2>3, <3>1, <3>2 DEF SourceFails, Channels
    <3>3. CASE source[c] = "ended"
      BY <2>1, <2>3, <3>1, <3>3 DEF SourceFails, Channels
    <3> QED
      BY <3>1, <3>2, <3>3
  <2>4. CASE SourceFailedDone(c)
    <3>1. /\ source[c] \in {"over", "failed"} /\ [relay[c] EXCEPT !.done = TRUE] \in Channels
          /\ source[c] = "failed" => relay[c].err /\ ~EndsIn(relay[c].chunks, "complete")
      BY <1>1, <2>1, <2>4 DEF SourceFailedDone, Channels, Flow, Sources
    <3> QED
      BY <2>1, <2>4, <3>1 DEF SourceFailedDone, Channels
  <2> QED
    BY <2>2, <2>3, <2>4
<1>3. GatewayTypeOK'
  BY <1>1, <1>2 DEF GatewayTypeOK
<1>4. \A d \in Request \ {c} : Unmoved(d)
  BY <1>1, <1>2 DEF Unmoved, GatewayTypeOK
<1>5. source'[c] = place /\ relay'[c] = channels
  BY <1>2 DEF GatewayTypeOK
<1>6. Places(c)' /\ Sources(c)'
  BY <1>1, <1>2, <1>5 DEF Flow, Places, Sources
<1>7. ~EndsIn(wire[c], "complete")
  <2>1. DeltasOnly(wire[c]) /\ Len(wire[c]) \in Nat
    BY <1>1, LenProperties DEF Flow, Balanced, GatewayTypeOK
  <2> QED
    BY <2>1 DEF EndsIn, DeltasOnly
<1>8. Balanced(c)'
  BY <1>1, <1>2, <1>5, <1>7 DEF Flow, Balanced
<1> QED
  BY <1>3, <1>4, <1>6, <1>8 DEF Moves, Flow

-----------------------------------------------------------------------------
(* A step of the client.                                                   *)

\* The call is made.
LEMMA AskMoves ==
  ASSUME GatewayTypeOK, NEW c \in Request, Flow(c), NEW kind, Ask(c, kind)
  PROVE  Moves(c)
<1> USE DEF Goto, Early, Over, Relaying
<1>1. /\ UNCHANGED <<up, tokens, sem, expired, wire, attempt, source, relay, emitted, got>>
      /\ outcome[c] = "none" /\ handler[c] = "none"
  BY DEF Ask, Flow, Places
<1>2. GatewayTypeOK'
  <2>1. handler' \in [Request -> Early \cup Over \cup Relaying \cup {"plain", "backoff"}]
        /\ outcome' \in [Request -> {"none", "waiting", "complete", "failed", "unparsed"}]
        /\ client' \in [Request -> {"none", "open", "closed"}]
    BY ZenonT(40) DEF Ask, GatewayTypeOK
  <2>2. streamed' \subseteq Request
    BY DEF Ask, GatewayTypeOK
  <2> QED
    BY <1>1, <2>1, <2>2 DEF GatewayTypeOK
<1>3. \A d \in Request \ {c} : Unmoved(d)
  BY DEF Ask, Unmoved, GatewayTypeOK
<1>4. handler'[c] \in {"none", "read"} /\ outcome'[c] \in {"waiting", "failed"}
  BY <1>1 DEF Ask, GatewayTypeOK
<1>5. /\ emitted[c] = 0 /\ wire[c] = <<>> /\ source[c] = "off" /\ got[c] = 0 /\ relay[c] = Fresh
  BY <1>1 DEF Flow, Places
<1>6. Places(c)' /\ Sources(c)' /\ Balanced(c)'
  BY <1>1, <1>4, <1>5, NoLines DEF Places, Sources, Balanced, Fresh
<1> QED
  BY <1>2, <1>3, <1>6 DEF Moves, Flow

\* The call ends without "complete".
LEMMA FailsMoves ==
  ASSUME GatewayTypeOK, NEW c \in Request, Flow(c),
         ClientEof(c) \/ ClientTimesOut(c) \/ CallerGivesUp(c)
  PROVE  Moves(c)
<1> USE DEF Settle, Early, Over, Relaying, gatewayVars, relayVars
<1>1. UNCHANGED <<gatewayVars, got>>
  BY DEF ClientEof, ClientTimesOut, CallerGivesUp
<1>2. /\ outcome' = [outcome EXCEPT ![c] = IF @ = "waiting" THEN "failed" ELSE @]
      /\ client' \in [Request -> {"none", "open", "closed"}]
  BY DEF ClientEof, ClientTimesOut, CallerGivesUp, GatewayTypeOK
<1>3. GatewayTypeOK'
  BY <1>1, <1>2 DEF GatewayTypeOK
<1>4. \A d \in Request \ {c} : Unmoved(d)
  BY <1>1, <1>2 DEF Unmoved, GatewayTypeOK
<1>5. outcome'[c] = IF outcome[c] = "waiting" THEN "failed" ELSE outcome[c]
  BY <1>2 DEF GatewayTypeOK
<1>6. Flow(c)'
  BY <1>1, <1>5 DEF Flow, Places, Sources, Balanced
<1> QED
  BY <1>3, <1>4, <1>6 DEF Moves

\* A line is read from the socket.
LEMMA ReadsMoves ==
  ASSUME GatewayTypeOK, NEW c \in Request, Flow(c), ClientReads(c)
  PROVE  Moves(c)
<1> DEFINE line == Head(wire[c])
<1> USE DEF Settle, Early, Over, Relaying, relayVars
<1>1. /\ wire[c] \in Seq(Line) /\ wire[c] # <<>> /\ wire' = [wire EXCEPT ![c] = Tail(@)]
      /\ UNCHANGED <<up, tokens, sem, handler, expired, streamed, attempt, source, relay, emitted>>
  BY DEF ClientReads, GatewayTypeOK
<1>2. line \in Line /\ Tail(wire[c]) \in Seq(Line)
  BY <1>1, HeadTailProperties
<1>3. /\ outcome' = outcome \/ line \in {"complete", "error", "result"} \/ ~Listens(c)
      /\ \A d \in Request \ {c} : outcome'[d] = outcome[d] /\ got'[d] = got[d]
      /\ outcome'[c] \in {outcome[c], "failed", "complete", "unparsed"}
      /\ outcome[c] # "waiting" => outcome'[c] = outcome[c]
      /\ outcome'[c] = "complete" /\ outcome[c] # "complete" =>
           outcome[c] = "waiting" /\ line = "complete" /\ got'[c] = got[c]
      /\ outcome'[c] = "waiting" => line = "delta" /\ got'[c] = got[c] + 1
      /\ got'[c] = got[c] \/ outcome[c] = "waiting"
  BY DEF ClientReads, Listens, Parses, GatewayTypeOK
<1>4. /\ outcome' \in [Request -> {"none", "waiting", "complete", "failed", "unparsed"}]
      /\ client' \in [Request -> {"none", "open", "closed"}] /\ got' \in [Request -> Nat]
  <2>1. CASE line = "delta" /\ Listens(c)
    <3>1. got' = [got EXCEPT ![c] = @ + 1] /\ UNCHANGED <<client, outcome>>
      BY <2>1 DEF ClientReads
    <3> QED
      BY <3>1 DEF GatewayTypeOK
  <2>2. ASSUME NEW how \in {"complete", "failed", "unparsed"}, Settle(c, how), UNCHANGED got
        PROVE  /\ outcome' \in [Request -> {"none", "waiting", "complete", "failed", "unparsed"}]
               /\ client' \in [Request -> {"none", "open", "closed"}] /\ got' \in [Request -> Nat]
    BY <2>2 DEF GatewayTypeOK
  <2> QED
    BY <2>1, <2>2 DEF ClientReads
<1>5. GatewayTypeOK'
  BY <1>1, <1>2, <1>4 DEF GatewayTypeOK
<1>6. \A d \in Request \ {c} : Unmoved(d)
  BY <1>1, <1>3 DEF Unmoved, GatewayTypeOK
<1>7. Places(c)'
  BY <1>1, <1>3 DEF Flow, Places
<1>8. ASSUME c \in streamed' PROVE Sources(c)' /\ Balanced(c)'
  <2>1. c \in streamed /\ DeltasThenEnd(wire[c])
    BY <1>1, <1>8 DEF Flow, Balanced
  <2>2. wire'[c] = Tail(wire[c])
    BY <1>1 DEF GatewayTypeOK
  <2>3. Sources(c)'
    BY <1>1, <2>1 DEF Flow, Sources
  <2>4. outcome'[c] = "complete" =>
          handler[c] \in Over /\ got'[c] = emitted[c] /\ source[c] # "failed"
    <3>1. CASE outcome[c] = "complete"
      BY <1>3, <2>1, <3>1 DEF Flow, Balanced
    <3>2. ASSUME outcome'[c] = "complete", outcome[c] # "complete"
          PROVE  handler[c] \in Over /\ got'[c] = emitted[c] /\ source[c] # "failed"
      <4>1. outcome[c] = "waiting" /\ line = "complete" /\ got'[c] = got[c]
        BY <1>3, <3>2
      <4>2. EndsIn(wire[c], "complete") /\ Deltas(wire[c]) = 0 /\ ~DeltasOnly(wire[c])
        BY <1>1, <2>1, <4>1, TakeLine
      <4>3. handler[c] \in Over /\ relay[c] = Fresh
        BY <2>1, <4>2 DEF Flow, Places, Balanced, GatewayTypeOK
      <4> QED
        BY <2>1, <4>1, <4>2, <4>3, NoLines DEF Flow, Balanced, GatewayTypeOK, Fresh
    <3> QED
      BY <3>1, <3>2
  <2>5. outcome'[c] = "waiting" /\ (handler[c] \in Over => EndsIn(wire'[c], "complete")) =>
          got'[c] + Deltas(wire'[c]) + Deltas(relay[c].chunks) = emitted[c]
    <3> SUFFICES ASSUME outcome'[c] = "waiting", handler[c] \in Over => EndsIn(wire'[c], "complete")
                 PROVE  got'[c] + Deltas(wire'[c]) + Deltas(relay[c].chunks) = emitted[c]
      OBVIOUS
    <3>1. outcome[c] = "waiting" /\ line = "delta" /\ got'[c] = got[c] + 1
      BY <1>3
    <3>2. /\ Deltas(wire[c]) = Deltas(wire'[c]) + 1 /\ Deltas(wire'[c]) \in Nat
          /\ EndsIn(wire'[c], "complete") => EndsIn(wire[c], "complete")
      BY <1>1, <2>1, <2>2, <3>1, TakeLine
    <3>3. got[c] + Deltas(wire[c]) + Deltas(relay[c].chunks) = emitted[c]
      BY <2>1, <3>1, <3>2 DEF Flow, Balanced
    <3>4. Deltas(relay[c].chunks) \in Nat /\ got[c] \in Nat /\ emitted[c] \in Nat
      BY <2>1 DEF Flow, Sources, GatewayTypeOK
    <3> QED
      BY <3>1, <3>2, <3>3, <3>4
  <2> QED
    BY <1>1, <2>1, <2>2, <2>3, <2>4, <2>5, TakeLine DEF Flow, Balanced
<1> QED
  BY <1>5, <1>6, <1>7, <1>8 DEF Moves, Flow

-----------------------------------------------------------------------------
(* Every step keeps the flow of every call.                                *)

\* A step that keeps one flow and moves no other keeps them all.
LEMMA MovesFlow ==
  ASSUME \A d \in Request : Flow(d), NEW c \in Request, Moves(c)
  PROVE  GatewayTypeOK' /\ \A d \in Request : Flow(d)'
BY UnmovedFlow DEF Moves

\* A call whose socket is closed does not wait for an answer.
ClosedSettled == \A c \in Request : client[c] = "closed" => outcome[c] # "waiting"

\* Every step of the handler, with the socket open or closed, keeps the flow of its call.
LEMMA HandlerMoves ==
  ASSUME GatewayTypeOK, ClosedSettled, NEW c \in Request, Flow(c), HandlerOf(c)
  PROVE  Moves(c)
<1> DEFINE closed == client[c] = "closed"
<1>1. UNCHANGED replyVars /\ HandlerStep(c, closed) /\ closed \in BOOLEAN
  BY DEF HandlerOf
<1>2. closed => outcome[c] # "waiting"
  BY DEF ClosedSettled
<1> HIDE DEF closed
<1>3. CASE ReadRequest(c) \/ TakeToken(c) \/ TakeSlot(c) \/ QueueTimeout(c)
  BY <1>1, <1>3, EntryMoves
<1>4. CASE RelayError(c) \/ Cancelled(c)
  BY <1>1, <1>4, AnswersMoves DEF RelayError, Cancelled, Relaying
<1>5. CASE RelayChunk(c, closed)
  BY <1>1, <1>2, <1>5, RelayMoves
<1>6. CASE Drained(c)
  BY <1>1, <1>6, AnswersMoves DEF Drained, Relaying
<1>7. CASE SourceDone(c)
  <2>1. CASE relay[c].err
    BY <1>1, <1>7, <2>1, AnswersMoves DEF SourceDone, Relaying
  <2>2. CASE ~relay[c].err
    BY <1>1, <1>7, <2>2, PlaceMoves DEF SourceDone, relayVars
  <2> QED
    BY <2>1, <2>2
<1>8. CASE Ends(c, closed)
  BY <1>1, <1>8, PlaceMoves DEF Ends, relayVars
<1>9. CASE PlainAnswered(c)
  BY <1>1, <1>9, AnswersMoves, SilentMoves DEF PlainAnswered
<1>10. CASE PlainFails(c)
  <2>1. CASE Answers(c, "error")
    BY <1>1, <1>10, <2>1, AnswersMoves DEF PlainFails
  <2>2. CASE ~Answers(c, "error")
    BY <1>1, <1>10, <2>2, PlaceMoves DEF PlainFails
  <2> QED
    BY <2>1, <2>2
<1>11. CASE BackoffEnds(c)
  <2>1. CASE Answers(c, "error")
    BY <1>1, <1>11, <2>1, AnswersMoves DEF BackoffEnds
  <2>2. CASE ~Answers(c, "error")
    BY <1>1, <1>11, <2>2, PlaceMoves DEF BackoffEnds, relayVars
  <2> QED
    BY <2>1, <2>2
<1> QED
  BY <1>1, <1>3, <1>4, <1>5, <1>6, <1>7, <1>8, <1>9, <1>10, <1>11 DEF HandlerStep

\* The deadline leaves the handler where it is.
LEMMA DeadlineMoves ==
  ASSUME GatewayTypeOK, NEW c \in Request, Flow(c), DeadlineOf(c)
  PROVE  Moves(c)
<1>1. handler' = [handler EXCEPT ![c] = handler[c]]
  BY DEF DeadlineOf, DeadlinePasses, GatewayTypeOK
<1> QED
  BY <1>1, PlaceMoves DEF DeadlineOf, DeadlinePasses, relayVars, Goto

\* A shutdown moves the calls that have sent nothing yet.
LEMMA ShutdownFlow ==
  ASSUME GatewayTypeOK, \A d \in Request : Flow(d), Shutdown, UNCHANGED replyVars
  PROVE  GatewayTypeOK' /\ \A d \in Request : Flow(d)'
<1> USE DEF Shutdown, replyVars, relayVars, Early, Over, Relaying
<1>1. GatewayTypeOK'
  BY DEF GatewayTypeOK
<1>2. ASSUME NEW d \in Request PROVE Flow(d)'
  <2>1. handler'[d] = IF handler[d] = "read" THEN "gone" ELSE handler[d]
    BY DEF GatewayTypeOK
  <2>2. CASE handler[d] = "read"
    BY <2>1, <2>2, NoLines DEF Flow, Places, Sources, Balanced, Fresh
  <2>3. CASE handler[d] # "read"
    BY <2>1, <2>3 DEF Flow, Places, Sources, Balanced
  <2> QED
    BY <2>2, <2>3
<1> QED
  BY <1>1, <1>2

\* Every step of the gateway, its clients and the providers keeps every flow.
LEMMA FlowStep ==
  ASSUME GatewayTypeOK, ClosedSettled, \A d \in Request : Flow(d), [CallsNext]_gatewayCallVars
  PROVE  GatewayTypeOK' /\ \A d \in Request : Flow(d)'
<1>1. CASE UNCHANGED gatewayCallVars
  BY <1>1 DEF gatewayCallVars, gatewayVars, replyVars, GatewayTypeOK, Flow, Places, Sources, Balanced
<1>2. CASE Refill
  BY <1>2 DEF Refill, Drip, relayVars, replyVars, GatewayTypeOK, Flow, Places, Sources, Balanced
<1>3. CASE Shutdown /\ UNCHANGED replyVars
  BY <1>3, ShutdownFlow
<1>4. ASSUME NEW c \in Request,
             Client(c) \/ CallerGivesUp(c) \/ (\E kind \in {"stream", "plain"} : Ask(c, kind))
      PROVE  Moves(c)
  BY <1>4, AskMoves, FailsMoves, ReadsMoves DEF Client
<1>5. ASSUME NEW c \in Request,
             HandlerOf(c) \/ DeadlineOf(c) \/ (SourceStep(c) /\ UNCHANGED replyVars)
      PROVE  Moves(c)
  BY <1>5, HandlerMoves, DeadlineMoves, EmitMoves, SourceEndMoves DEF SourceStep
<1> QED
  BY <1>1, <1>2, <1>3, <1>4, <1>5, MovesFlow DEF CallsNext

\* A call that is given up, or whose socket closes, has its outcome at once.
LEMMA ClosedStep ==
  ASSUME GatewayTypeOK, ClosedSettled, \A d \in Request : Flow(d), [CallsNext]_gatewayCallVars
  PROVE  ClosedSettled'
<1>1. CASE UNCHANGED <<client, outcome>>
  BY <1>1 DEF ClosedSettled
<1>2. ASSUME NEW c \in Request, NEW kind, Ask(c, kind)
      PROVE  ClosedSettled'
  BY <1>2, ZenonT(40) DEF Ask, ClosedSettled, GatewayTypeOK
<1>3. ASSUME NEW c \in Request, NEW how \in {"complete", "failed", "unparsed"}, Settle(c, how)
      PROVE  ClosedSettled'
  BY <1>3 DEF Settle, ClosedSettled, GatewayTypeOK
<1>4. ASSUME NEW c \in Request, CallerGivesUp(c)
      PROVE  ClosedSettled'
  BY <1>4 DEF CallerGivesUp, ClosedSettled, GatewayTypeOK
<1>5. ASSUME NEW c \in Request, Client(c)
      PROVE  ClosedSettled'
  BY <1>1, <1>3, <1>5 DEF Client, ClientReads, ClientEof, ClientTimesOut
<1> QED
  BY <1>1, <1>2, <1>4, <1>5
  DEF CallsNext, gatewayCallVars, replyVars, Refill, HandlerOf, DeadlineOf

-----------------------------------------------------------------------------
(* Slots.                                                                  *)

\* A step leaves the slots alone, takes one for a call that had none, or gives one back.
LEMMA SlotStep ==
  ASSUME GatewayTypeOK, \A d \in Request : Flow(d), [CallsNext]_gatewayCallVars
  PROVE  \/ sem' = sem /\ Holding' = Holding
         \/ \E c \in Request \ Holding : sem' = sem + 1 /\ Holding' = Holding \cup {c}
         \/ \E c \in Holding : sem' = Released(sem) /\ Holding' = Holding \ {c}
<1> DEFINE Same == sem' = sem /\ Holding' = Holding
           Gives(c) == c \in Holding /\ sem' = Released(sem) /\ Holding' = Holding \ {c}
           Slots == \/ Same
                    \/ \E c \in Request \ Holding : sem' = sem + 1 /\ Holding' = Holding \cup {c}
                    \/ \E c \in Holding : Gives(c)
<1> SUFFICES Slots
  OBVIOUS
<1> USE DEF Goto, Holding, GatewayTypeOK, relayVars, replyVars, gatewayVars
<1>1. CASE UNCHANGED <<sem, handler>>
  BY <1>1
<1>2. ASSUME NEW c \in Holding, HandlerReturns(c) PROVE Gives(c)
  BY <1>2 DEF HandlerReturns
<1>3. CASE Shutdown
  BY <1>3 DEF Shutdown
<1>4. ASSUME NEW c \in Request, TakeSlot(c) PROVE Slots
  <2>1. c \in Request \ Holding /\ sem' = sem + 1 /\ Holding' = Holding \cup {c}
    BY <1>4 DEF TakeSlot
  <2> QED
    BY <2>1
<1>5. ASSUME NEW c \in Request, UNCHANGED sem, NEW place, Goto(c, place),
             (c \in Holding) = (place \in {"stream", "drain", "plain", "backoff"})
      PROVE  Same
  BY <1>5
<1>6. ASSUME NEW c \in Request, NEW closed, HandlerStep(c, closed) PROVE Slots
  <2>1. CASE ReadRequest(c) \/ TakeToken(c) \/ QueueTimeout(c) \/ Ends(c, closed)
    BY <1>5, <2>1 DEF ReadRequest, Refused, TakeToken, QueueTimeout, Ends
  <2>2. CASE RelayError(c) \/ Cancelled(c) \/ Drained(c) \/ PlainAnswered(c)
    BY <1>2, <2>2 DEF RelayError, Cancelled, Drained, PlainAnswered, Answers, Silent
  <2>3. CASE RelayChunk(c, closed)
    BY <1>1, <1>2, <2>3 DEF RelayChunk, AfterChunk, RelayGoesOn
  <2>4. CASE SourceDone(c)
    BY <1>2, <1>5, <2>4, ZenonT(40) DEF SourceDone, Answers
  <2>5. CASE PlainFails(c)
    BY <1>2, <1>5, <2>5, ZenonT(40) DEF PlainFails, Answers
  <2>6. CASE BackoffEnds(c)
    BY <1>2, <1>5, <2>6, ZenonT(40) DEF BackoffEnds, Answers
  <2> QED
    BY <1>4, <1>6, <2>1, <2>2, <2>3, <2>4, <2>5, <2>6 DEF HandlerStep
<1>7. ASSUME NEW c \in Request, Client(c) \/ CallerGivesUp(c) PROVE UNCHANGED <<sem, handler>>
  BY <1>7 DEF Client, ClientReads, ClientEof, ClientTimesOut, CallerGivesUp
<1>8. ASSUME NEW c \in Request, NEW kind, Flow(c), Ask(c, kind) PROVE Same
  BY <1>5, <1>8 DEF Ask, Flow, Places
<1>9. ASSUME NEW c \in Request, DeadlineOf(c) \/ SourceStep(c) PROVE UNCHANGED <<sem, handler>>
  BY <1>9 DEF DeadlineOf, DeadlinePasses, SourceStep, EmitDelta, EmitComplete, SourceReturns,
              SourceFails, SourceFailedDone, Source
<1> HIDE DEF Same, Gives, Goto, Holding
<1>10. CASE UNCHANGED gatewayCallVars \/ Refill
  BY <1>1, <1>10 DEF gatewayCallVars, Refill, Drip
<1>11. ASSUME NEW c \in Request, HandlerOf(c) PROVE Slots
  BY <1>6, <1>11 DEF HandlerOf
<1> QED
  BY <1>1, <1>3, <1>7, <1>8, <1>9, <1>10, <1>11 DEF CallsNext

\* Every way in takes one slot and every way out returns it.
LEMMA InflightStep ==
  ASSUME GatewayTypeOK, InflightExact, \A d \in Request : Flow(d), [CallsNext]_gatewayCallVars
  PROVE  InflightExact'
<1>1. IsFiniteSet(Holding) /\ Cardinality(Holding) \in Nat
  BY GatewayAssumption, FS_Subset, FS_CardinalityType DEF Holding
<1>2. CASE sem' = sem /\ Holding' = Holding
  BY <1>2 DEF InflightExact
<1>3. ASSUME NEW c \in Request \ Holding, sem' = sem + 1, Holding' = Holding \cup {c}
      PROVE  InflightExact'
  BY <1>1, <1>3, FS_AddElement DEF InflightExact
<1>4. ASSUME NEW c \in Holding, sem' = Released(sem), Holding' = Holding \ {c}
      PROVE  InflightExact'
  <2>1. Cardinality(Holding) # 0
    BY <1>1, FS_EmptySet
  <2>2. Cardinality(Holding \ {c}) = Cardinality(Holding) - 1
    BY <1>1, FS_RemoveElement
  <2> QED
    BY <1>1, <1>4, <2>1, <2>2 DEF InflightExact, Released
<1> QED
  BY <1>2, <1>3, <1>4, SlotStep

-----------------------------------------------------------------------------
(* Theorems.                                                               *)

\* At the start no call has asked and no slot is taken.
LEMMA GatewayInvInit == CallsInit => GatewayInv /\ ClosedSettled
<1> SUFFICES ASSUME CallsInit PROVE GatewayInv /\ ClosedSettled
  OBVIOUS
<1> USE DEF CallsInit, GatewayInit
<1>1. GatewayTypeOK
  BY GatewayAssumption, NoLines DEF GatewayTypeOK, Channels, Fresh, Early
<1>2. InflightExact
  BY FS_EmptySet DEF InflightExact, Holding
<1>3. \A c \in Request : Flow(c)
  BY NoLines DEF Flow, Places, Sources, Balanced, Early, Over, Relaying, Fresh
<1> QED
  BY <1>1, <1>2, <1>3 DEF GatewayInv, ClosedSettled

\* The inductive invariant of the gateway: types, flows, slots and outcomes.
LEMMA GatewayInvariance == CallsSpec => [](GatewayInv /\ ClosedSettled)
<1>1. GatewayInv /\ ClosedSettled /\ [CallsNext]_gatewayCallVars => (GatewayInv /\ ClosedSettled)'
  BY FlowStep, ClosedStep, InflightStep DEF GatewayInv
<1> QED
  BY <1>1, GatewayInvInit, PTL DEF CallsSpec

\* The semaphore counts the requests in progress, whatever ends them.
THEOREM InflightInvariance == CallsSpec => []InflightExact
<1>1. GatewayInv => InflightExact
  BY DEF GatewayInv
<1> QED
  BY <1>1, GatewayInvariance, PTL

\* What a caller takes for a whole reply has every delta of a provider that did not fail.
THEOREM CompleteInvariance == CallsSpec => []CompleteIsWhole
<1>1. GatewayInv => CompleteIsWhole
  BY DEF GatewayInv, GatewayTypeOK, Flow, Balanced, CompleteIsWhole
<1> QED
  BY <1>1, GatewayInvariance, PTL
============================================================================
