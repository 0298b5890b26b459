------------------------ MODULE CentralDaemonProofs ------------------------
(***************************************************************************)
(* Theorems about the central daemon besides its tree of locks and its     *)
(* connections: what is written to a connection (OutBuffer), for any       *)
(* capacity of the buffer, any lengths of messages and any part of them    *)
(* that a write takes; and its settings (ConfigStore), for any tree of     *)
(* paths, keys, values and clients, with failing saves and kills at any    *)
(* moment.                                                                 *)
(***************************************************************************)
EXTENDS OutBuffer, ConfigStore, FiniteSetTheorems, SequenceTheorems, TLAPS

-----------------------------------------------------------------------------
(* The output buffer.                                                      *)

USE BufferAssumption

Byte == Nat \X Nat

\* What a step of the buffer relies on: SubSeq and \o behave on sequences only, and a
\* drain leaves the flag to what it leaves in the buffer.
BufferInv ==
  /\ outbuf \in Seq(Byte)
  /\ StreamTypeOK
  /\ Watched

\* A message, and the rest of one, is a sequence of bytes that is not empty.
LEMMA MessageBytes ==
  ASSUME NEW len \in MessageLengths, sent \in Seq(MessageLengths)
  PROVE  /\ Bytes(Len(sent) + 1, len) \in Seq(Byte)
         /\ Len(Bytes(Len(sent) + 1, len)) = len
         /\ len \in Nat \ {0}
BY DEF Bytes, Byte

\* What a write that stopped after k bytes has left.
LEMMA RestBytes ==
  ASSUME NEW bytes \in Seq(Byte), NEW k \in 1 .. Len(bytes)
  PROVE  /\ SubSeq(bytes, k + 1, Len(bytes)) \in Seq(Byte)
         /\ Len(SubSeq(bytes, k + 1, Len(bytes))) = Len(bytes) - k
BY SubSeqProperties

\* Appending what fits keeps the capacity, and the flag says that there is something.
LEMMA BufferedKeeps ==
  ASSUME BufferInv, NEW rest \in Seq(Byte), rest # <<>>, Fits(rest), Buffered(rest),
         sent' \in Seq(MessageLengths)
  PROVE  BufferInv'
<1>1. outbuf' \in Seq(Byte) /\ Len(outbuf') = Len(outbuf) + Len(rest)
  BY ConcatProperties DEF Buffered, BufferInv
<1>2. Len(outbuf') <= OutCap
  BY <1>1 DEF Fits
<1>3. Len(rest) # 0 /\ Len(rest) \in Nat /\ Len(outbuf) \in Nat
  BY EmptySeq, LenProperties DEF BufferInv
<1>4. outbuf' # <<>>
  <2>1. Len(outbuf') # 0
    BY <1>1, <1>3
  <2> QED
    BY <2>1, EmptySeq
<1> QED
  BY <1>1, <1>2, <1>4 DEF Buffered, BufferInv, StreamTypeOK, Watched

\* A message that was sent whole, or not at all, leaves the buffer as it was.
LEMMA Untouched ==
  ASSUME BufferInv, UNCHANGED <<outbuf, out_epoll_registered>>, sent' \in Seq(MessageLengths)
  PROVE  BufferInv'
BY DEF BufferInv, StreamTypeOK, Watched

\* A new connection has nothing to write.
LEMMA BufferInit == StreamInit => BufferInv
<1> SUFFICES ASSUME StreamInit
             PROVE  BufferInv
  OBVIOUS
<1>1. Len(outbuf) <= OutCap
  BY DEF StreamInit
<1>2. outbuf \in Seq(Byte) /\ sent \in Seq(MessageLengths)
  BY DEF StreamInit
<1> QED
  BY <1>1, <1>2 DEF StreamInit, BufferInv, StreamTypeOK, Watched

\* send_json, whatever part of the message the socket takes.
LEMMA SendKeeps ==
  ASSUME BufferInv, NEW len \in MessageLengths, SendJson(len)
  PROVE  BufferInv'
<1> DEFINE bytes == Bytes(Len(sent) + 1, len)
<1>1. sent \in Seq(MessageLengths) /\ sent' \in Seq(MessageLengths)
  BY AppendProperties DEF BufferInv, StreamTypeOK, SendJson
<1>2. bytes \in Seq(Byte) /\ Len(bytes) = len /\ len \in Nat \ {0}
  BY <1>1, MessageBytes
<1>3. bytes # <<>>
  BY <1>2, EmptySeq
<1> HIDE DEF bytes
<1>4. CASE Fits(bytes) /\ Buffered(bytes)
  BY <1>1, <1>2, <1>3, <1>4, BufferedKeeps
<1>5. ASSUME NEW k \in 1 .. len, RestBuffered(bytes, k)
      PROVE  BufferInv'
  <2> DEFINE rest == SubSeq(bytes, k + 1, Len(bytes))
  <2>1. rest \in Seq(Byte)
    BY <1>2, RestBytes
  <2>2. \/ rest # <<>> /\ Fits(rest) /\ Buffered(rest)
        \/ UNCHANGED <<outbuf, out_epoll_registered>>
    BY <1>5 DEF RestBuffered
  <2> HIDE DEF rest
  <2> QED
    BY <1>1, <2>1, <2>2, BufferedKeeps, Untouched
<1>6. CASE UNCHANGED <<outbuf, out_epoll_registered>>
  BY <1>1, <1>6, Untouched
<1>7. \/ Fits(bytes) /\ Buffered(bytes)
      \/ \E k \in 1 .. len : RestBuffered(bytes, k)
      \/ UNCHANGED <<outbuf, out_epoll_registered>>
  BY DEF SendJson, bytes
<1> QED
  BY <1>4, <1>5, <1>6, <1>7

\* drain_output, whatever part of the buffer the socket takes.
LEMMA DrainKeeps ==
  ASSUME BufferInv, DrainOutput
  PROVE  BufferInv'
<1>1. PICK k \in 1 .. Len(outbuf) : outbuf' = SubSeq(outbuf, k + 1, Len(outbuf))
  BY DEF DrainOutput
<1>2. outbuf' \in Seq(Byte) /\ Len(outbuf') = Len(outbuf) - k
  BY <1>1, RestBytes DEF BufferInv
<1>3. Len(outbuf') <= OutCap
  BY <1>2, LenProperties DEF BufferInv, StreamTypeOK
<1> QED
  BY <1>2, <1>3 DEF DrainOutput, StillRegistered, BufferInv, StreamTypeOK, Watched

\* Along every run of send_json and drain_output the buffer and its flag agree.
THEOREM BufferInvariance == StreamSpec => []BufferInv
<1>1. BufferInv /\ [StreamNext]_streamVars => BufferInv'
  <2> SUFFICES ASSUME BufferInv, [StreamNext]_streamVars
               PROVE  BufferInv'
    OBVIOUS
  <2>1. CASE UNCHANGED streamVars
    <3>1. sent' \in Seq(MessageLengths)
      BY <2>1 DEF streamVars, BufferInv, StreamTypeOK
    <3> QED
      BY <2>1, <3>1, Untouched DEF streamVars
  <2> QED
    BY <2>1, SendKeeps, DrainKeeps DEF StreamNext
<1> QED
  BY BufferInit, <1>1, PTL DEF StreamSpec

\* memcpy never writes past out_cap, whatever the lengths of the messages.
THEOREM CapacityInvariance == StreamSpec => []StreamTypeOK
BY BufferInvariance, PTL DEF BufferInv

\* EPOLLOUT is asked for exactly while bytes wait: send_json and drain_output together.
THEOREM WatchedInvariance == StreamSpec => []Watched
BY BufferInvariance, PTL DEF BufferInv

-----------------------------------------------------------------------------
(* No byte is lost on the quiet.                                           *)

\* The bytes handed to send_json so far.
Handed(lens) == UNION {ToSet(Bytes(m, lens[m])) : m \in DOMAIN lens}

\* Conserved counts, so the sets it counts have to be finite; and what was given up is
\* among what was handed over, so that a new message is not in it already.
Kept ==
  /\ socket \in Seq(Byte)
  /\ IsFiniteSet(Handed(sent))
  /\ lost \subseteq Handed(sent)
  /\ Conserved

\* The elements of two sequences put together are those of both.
LEMMA ToSetConcat ==
  ASSUME NEW s \in Seq(Byte), NEW t \in Seq(Byte)
  PROVE  ToSet(s \o t) = ToSet(s) \cup ToSet(t)
<1>1. DOMAIN s = 1 .. Len(s) /\ DOMAIN t = 1 .. Len(t)
  BY LenProperties
<1>2. /\ DOMAIN (s \o t) = 1 .. Len(s) + Len(t)
      /\ Len(s) \in Nat /\ Len(t) \in Nat
      /\ \A i \in 1 .. Len(s) + Len(t) :
           (s \o t)[i] = IF i <= Len(s) THEN s[i] ELSE t[i - Len(s)]
  BY ConcatProperties, LenProperties
<1>3. ASSUME NEW x \in ToSet(s \o t)
      PROVE  x \in ToSet(s) \cup ToSet(t)
  <2>1. PICK i \in 1 .. Len(s) + Len(t) : x = (s \o t)[i]
    BY <1>2, <1>3 DEF ToSet
  <2>2. CASE i <= Len(s)
    <3>1. i \in DOMAIN s /\ x = s[i]
      BY <1>1, <1>2, <2>1, <2>2
    <3> QED
      BY <3>1 DEF ToSet
  <2>3. CASE ~(i <= Len(s))
    <3>1. i - Len(s) \in DOMAIN t /\ x = t[i - Len(s)]
      BY <1>1, <1>2, <2>1, <2>3
    <3> QED
      BY <3>1 DEF ToSet
  <2> QED
    BY <2>2, <2>3
<1>4. ASSUME NEW x \in ToSet(s)
      PROVE  x \in ToSet(s \o t)
  <2>1. PICK i \in 1 .. Len(s) : x = s[i]
    BY <1>1 DEF ToSet
  <2>2. i \in DOMAIN (s \o t) /\ x = (s \o t)[i]
    BY <1>2, <2>1
  <2> QED
    BY <2>2 DEF ToSet
<1>5. ASSUME NEW x \in ToSet(t)
      PROVE  x \in ToSet(s \o t)
  <2>1. PICK i \in 1 .. Len(t) : x = t[i]
    BY <1>1 DEF ToSet
  <2>2. i + Len(s) \in 1 .. Len(s) + Len(t) /\ ~(i + Len(s) <= Len(s)) /\ (i + Len(s)) - Len(s) = i
    BY <1>2, <2>1
  <2>3. i + Len(s) \in DOMAIN (s \o t) /\ x = (s \o t)[i + Len(s)]
    BY <1>2, <2>1, <2>2
  <2> QED
    BY <2>3 DEF ToSet
<1> QED
  BY <1>3, <1>4, <1>5

\* A write splits a sequence of bytes in two.
LEMMA ToSetSplit ==
  ASSUME NEW s \in Seq(Byte), NEW k \in 1 .. Len(s)
  PROVE  /\ SubSeq(s, 1, k) \in Seq(Byte)
         /\ SubSeq(s, k + 1, Len(s)) \in Seq(Byte)
         /\ Len(SubSeq(s, 1, k)) = k
         /\ Len(SubSeq(s, k + 1, Len(s))) = Len(s) - k
         /\ ToSet(SubSeq(s, 1, k)) \cup ToSet(SubSeq(s, k + 1, Len(s))) = ToSet(s)
<1> DEFINE a == SubSeq(s, 1, k)
           b == SubSeq(s, k + 1, Len(s))
<1>1. DOMAIN s = 1 .. Len(s) /\ Len(s) \in Nat
  BY LenProperties
<1>2. a \in Seq(Byte) /\ Len(a) = k /\ \A i \in 1 .. k : a[i] = s[i]
  BY <1>1, SubSeqProperties
<1>3. b \in Seq(Byte) /\ Len(b) = Len(s) - k /\ \A i \in 1 .. Len(s) - k : b[i] = s[k + i]
  <2>1. /\ k + 1 \in Int /\ Len(s) \in Int
        /\ \A i \in k + 1 .. Len(s) : s[i] \in Byte
        /\ Len(s) - (k + 1) + 1 = Len(s) - k
        /\ \A i \in 1 .. Len(s) - k : (k + 1) + i - 1 = k + i
    BY <1>1
  <2>2. /\ b \in Seq(Byte)
        /\ Len(b) = IF k + 1 <= Len(s) THEN Len(s) - (k + 1) + 1 ELSE 0
        /\ \A i \in 1 .. Len(s) - (k + 1) + 1 : b[i] = s[(k + 1) + i - 1]
    BY <2>1, SubSeqProperties
  <2> HIDE DEF b
  <2>3. Len(b) = Len(s) - k
    <3>1. k \in Nat /\ k <= Len(s) /\ Len(s) \in Nat
      BY <1>1
    <3>2. Len(b) = IF k + 1 <= Len(s) THEN Len(s) - (k + 1) + 1 ELSE 0
      BY <2>2
    <3> QED
      BY <3>1, <3>2
  <2>4. ASSUME NEW i \in 1 .. Len(s) - k
        PROVE  b[i] = s[k + i]
    <3>1. i \in 1 .. Len(s) - (k + 1) + 1 /\ (k + 1) + i - 1 = k + i
      BY <1>1, <2>1
    <3>2. b[i] = s[(k + 1) + i - 1]
      BY <2>2, <3>1
    <3> QED
      BY <3>1, <3>2
  <2> QED
    BY <2>2, <2>3, <2>4
<1>4. DOMAIN a = 1 .. k /\ DOMAIN b = 1 .. Len(s) - k
  BY <1>2, <1>3, LenProperties
<1> HIDE DEF a, b
<1>5. ToSet(a) \cup ToSet(b) \subseteq ToSet(s)
  <2>1. ASSUME NEW i \in 1 .. k PROVE a[i] \in ToSet(s)
    BY <1>1, <1>2 DEF ToSet
  <2>2. ASSUME NEW i \in 1 .. Len(s) - k PROVE b[i] \in ToSet(s)
    <3>1. k + i \in DOMAIN s
      BY <1>1
    <3> QED
      BY <3>1, <1>3 DEF ToSet
  <2> QED
    BY <2>1, <2>2, <1>4 DEF ToSet
<1>6. ToSet(s) \subseteq ToSet(a) \cup ToSet(b)
  <2> SUFFICES ASSUME NEW i \in 1 .. Len(s)
               PROVE  s[i] \in ToSet(a) \cup ToSet(b)
    BY <1>1 DEF ToSet
  <2>1. CASE i <= k
    <3>1. i \in DOMAIN a /\ a[i] = s[i]
      BY <1>2, <1>4, <2>1
    <3> QED
      BY <3>1 DEF ToSet
  <2>2. CASE ~(i <= k)
    <3>1. i - k \in 1 .. Len(s) - k /\ k + (i - k) = i
      BY <1>1, <2>2
    <3>2. i - k \in DOMAIN b /\ b[i - k] = s[i]
      BY <1>3, <1>4, <3>1
    <3> QED
      BY <3>2 DEF ToSet
  <2> QED
    BY <2>1, <2>2
<1> QED
  BY <1>2, <1>3, <1>5, <1>6 DEF a, b

\* The bytes of message m from byte k + 1 on; all of them when k is 0.
Rest(m, k, len) == {<<m, i>> : i \in k + 1 .. len}

\* The rest of a message, from byte k + 1 on, has as many bytes as it is long.
LEMMA CountRest ==
  ASSUME NEW m, NEW len \in Nat, NEW k \in 0 .. len
  PROVE  IsFiniteSet(Rest(m, k, len)) /\ Cardinality(Rest(m, k, len)) = len - k
<1> DEFINE rest == {<<m, i>> : i \in k + 1 .. len}
           f == [i \in k + 1 .. len |-> <<m, i>>]
<1>1. IsFiniteSet(k + 1 .. len) /\ Cardinality(k + 1 .. len) = len - k
  <2>1. k + 1 \in Int /\ len \in Int
    OBVIOUS
  <2>2. IsFiniteSet(k + 1 .. len)
        /\ Cardinality(k + 1 .. len) = IF k + 1 > len THEN 0 ELSE len - (k + 1) + 1
    BY <2>1, FS_Interval
  <2> QED
    BY <2>2
<1>2. f \in Bijection(k + 1 .. len, rest)
  BY DEF Bijection, Injection, Surjection, IsInjective
<1>3. ExistsBijection(k + 1 .. len, rest)
  BY <1>2 DEF ExistsBijection
<1>4. Rest(m, k, len) = rest
  BY DEF Rest
<1> HIDE DEF rest
<1> QED
  BY <1>1, <1>3, <1>4, FS_Bijection

\* The bytes of message m, and the bytes of it that a write of k bytes leaves.
LEMMA SetOfBytes ==
  ASSUME NEW m \in Nat, NEW len \in Nat, NEW k \in 1 .. len
  PROVE  /\ Bytes(m, len) \in Seq(Byte) /\ Len(Bytes(m, len)) = len
         /\ ToSet(Bytes(m, len)) = Rest(m, 0, len)
         /\ ToSet(SubSeq(Bytes(m, len), k + 1, len)) = Rest(m, k, len)
<1> DEFINE s == Bytes(m, len)
           b == SubSeq(s, k + 1, len)
<1>1. s \in Seq(Byte) /\ Len(s) = len /\ DOMAIN s = 1 .. len /\ \A i \in 1 .. len : s[i] = <<m, i>>
  BY DEF Bytes, Byte
<1>2. ToSet(s) = {<<m, i>> : i \in 1 .. len}
  BY <1>1 DEF ToSet
<1> HIDE DEF s
<1>3. /\ b \in Seq(Byte)
      /\ Len(b) = IF k + 1 <= len THEN len - (k + 1) + 1 ELSE 0
      /\ \A i \in 1 .. len - (k + 1) + 1 : b[i] = s[(k + 1) + i - 1]
  <2>1. k + 1 \in Int /\ len \in Int /\ \A i \in k + 1 .. len : s[i] \in Byte
    BY <1>1
  <2> QED
    BY <2>1, SubSeqProperties
<1> HIDE DEF b
<1>4. DOMAIN b = 1 .. len - k
  <2>1. Len(b) = len - k
    BY <1>3
  <2> QED
    BY <1>3, <2>1, LenProperties
<1>5. ASSUME NEW i \in 1 .. len - k
      PROVE  k + i \in k + 1 .. len /\ b[i] = <<m, k + i>>
  <2>1. i \in 1 .. len - (k + 1) + 1 /\ (k + 1) + i - 1 = k + i /\ k + i \in 1 .. len /\ k + i \in k + 1 .. len
    OBVIOUS
  <2>2. b[i] = s[k + i] /\ s[k + i] = <<m, k + i>>
    BY <1>1, <1>3, <2>1
  <2> QED
    BY <2>1, <2>2
<1>6. ASSUME NEW j \in k + 1 .. len
      PROVE  j - k \in 1 .. len - k /\ k + (j - k) = j
  OBVIOUS
<1>7. ToSet(b) \subseteq {<<m, i>> : i \in k + 1 .. len}
  BY <1>4, <1>5 DEF ToSet
<1>8. {<<m, i>> : i \in k + 1 .. len} \subseteq ToSet(b)
  <2> SUFFICES ASSUME NEW j \in k + 1 .. len
               PROVE  <<m, j>> \in ToSet(b)
    OBVIOUS
  <2>1. j - k \in DOMAIN b /\ b[j - k] = <<m, j>>
    BY <1>4, <1>5, <1>6
  <2> QED
    BY <2>1 DEF ToSet
<1>9. Rest(m, 0, len) = {<<m, i>> : i \in 1 .. len}
  BY DEF Rest
<1>10. Rest(m, k, len) = {<<m, i>> : i \in k + 1 .. len}
  BY DEF Rest
<1> QED
  BY <1>1, <1>2, <1>7, <1>8, <1>9, <1>10 DEF s, b

\* A message adds its bytes, which carry its number and so are new.
LEMMA HandedGrows ==
  ASSUME NEW lens \in Seq(MessageLengths), NEW len \in MessageLengths, IsFiniteSet(Handed(lens))
  PROVE  LET new == Rest(Len(lens) + 1, 0, len)
         IN  /\ Handed(Append(lens, len)) = Handed(lens) \cup new
             /\ new \cap Handed(lens) = {}
             /\ IsFiniteSet(Handed(Append(lens, len)))
             /\ Cardinality(Handed(Append(lens, len))) = Cardinality(Handed(lens)) + len
<1> DEFINE n == Len(lens)
           new == Rest(n + 1, 0, len)
           after == Append(lens, len)
<1>1. n \in Nat /\ DOMAIN lens = 1 .. n
  BY LenProperties
<1>2. /\ DOMAIN after = 1 .. n + 1
      /\ \A m \in 1 .. n : after[m] = lens[m]
      /\ after[n + 1] = len
  BY <1>1, AppendProperties, LenProperties
<1>3. \A m \in 1 .. n : lens[m] \in Nat \ {0}
  BY <1>1, ElementOfSeq
<1>4. len \in Nat \ {0}
  OBVIOUS
<1> HIDE DEF n, after
<1>5. ToSet(Bytes(n + 1, len)) = new
  <2>1. 1 \in 1 .. len /\ n + 1 \in Nat
    BY <1>1, <1>4
  <2> QED
    BY <1>4, <2>1, SetOfBytes
<1>6. \A m \in 1 .. n : ToSet(Bytes(m, lens[m])) = Rest(m, 0, lens[m])
  <2> TAKE m \in 1 .. n
  <2>1. 1 \in 1 .. lens[m] /\ m \in Nat
    BY <1>1, <1>3
  <2> QED
    BY <1>3, <2>1, SetOfBytes
<1>7. Handed(after) = Handed(lens) \cup new
  <2>1. 1 .. n + 1 = (1 .. n) \cup {n + 1}
    BY <1>1
  <2>2. \A m \in 1 .. n : Bytes(m, after[m]) = Bytes(m, lens[m])
    BY <1>2
  <2>3. ToSet(Bytes(n + 1, after[n + 1])) = new
    BY <1>2, <1>5
  <2>4. DOMAIN after = (1 .. n) \cup {n + 1}
    BY <1>2, <2>1
  <2> HIDE DEF new
  <2> QED
    BY <1>1, <2>2, <2>3, <2>4 DEF Handed
<1>8. new \cap Handed(lens) = {}
  <2>1. \A m \in 1 .. n : m # n + 1
    BY <1>1
  <2>2. \A m \in 1 .. n : \A x \in ToSet(Bytes(m, lens[m])) : x[1] = m
    BY <1>6 DEF Rest
  <2>3. \A x \in new : x[1] = n + 1
    BY DEF Rest
  <2> HIDE DEF new
  <2> QED
    BY <1>1, <2>1, <2>2, <2>3 DEF Handed
<1>9. IsFiniteSet(new) /\ Cardinality(new) = len
  <2>1. 0 \in 0 .. len /\ len - 0 = len
    BY <1>4
  <2> QED
    BY <1>4, <2>1, CountRest
<1>10. /\ IsFiniteSet(Handed(lens) \cup new)
       /\ Cardinality(Handed(lens) \cup new) = Cardinality(Handed(lens)) + len
  <2>1. Cardinality(Handed(lens) \cap new) = 0
    BY <1>8, FS_EmptySet
  <2>2. Cardinality(Handed(lens)) \in Nat
    BY FS_CardinalityType
  <2> HIDE DEF new
  <2>3. /\ IsFiniteSet(Handed(lens) \cup new)
        /\ Cardinality(Handed(lens) \cup new)
             = Cardinality(Handed(lens)) + Cardinality(new) - Cardinality(Handed(lens) \cap new)
    BY <1>9, FS_Union
  <2> QED
    BY <1>4, <1>9, <2>1, <2>2, <2>3
<1> QED
  BY <1>7, <1>8, <1>10 DEF n, after

\* Whatever parts of a message send_json writes, buffers and gives up, if they are the
\* whole message and no byte is in two of them then nothing is lost on the quiet.
LEMMA HandedOver ==
  ASSUME BufferInv, Kept, NEW len \in MessageLengths, sent' = Append(sent, len),
         NEW a \in Seq(Byte), NEW b \in Seq(Byte), NEW given,
         socket' = socket \o a, outbuf' = outbuf \o b, lost' = lost \cup given,
         IsFiniteSet(given),
         (ToSet(a) \cup ToSet(b)) \cup given = Rest(Len(sent) + 1, 0, len),
         Len(a) + Len(b) + Cardinality(given) = len
  PROVE  Kept'
<1> DEFINE new == Rest(Len(sent) + 1, 0, len)
           G == Handed(sent)
           H == Handed(Append(sent, len))
<1>1. sent \in Seq(MessageLengths) /\ socket \in Seq(Byte) /\ outbuf \in Seq(Byte)
  BY DEF BufferInv, StreamTypeOK, Kept
<1>2. IsFiniteSet(G) /\ lost \subseteq G
  BY DEF Kept
<1>3. H = G \cup new /\ new \cap G = {} /\ IsFiniteSet(H) /\ Cardinality(H) = Cardinality(G) + len
  BY <1>1, <1>2, HandedGrows
<1>4. /\ (ToSet(socket) \cup ToSet(outbuf)) \cup lost = G
      /\ Len(socket) + Len(outbuf) + Cardinality(lost) = Cardinality(G)
  BY DEF Kept, Conserved, Handed
<1>5. (ToSet(a) \cup ToSet(b)) \cup given = new
  OBVIOUS
<1>6. Handed(sent)' = H
  BY DEF Handed
<1> HIDE DEF new, G, H
<1>7. /\ socket' \in Seq(Byte) /\ Len(socket') = Len(socket) + Len(a)
      /\ ToSet(socket') = ToSet(socket) \cup ToSet(a)
  BY <1>1, ToSetConcat, ConcatProperties
<1>8. Len(outbuf') = Len(outbuf) + Len(b) /\ ToSet(outbuf') = ToSet(outbuf) \cup ToSet(b)
  BY <1>1, ToSetConcat, ConcatProperties
<1>9. IsFiniteSet(lost) /\ lost \cap given = {}
  BY <1>2, <1>3, <1>5, FS_Subset
<1>10. Cardinality(lost') = Cardinality(lost) + Cardinality(given)
       /\ Cardinality(lost) \in Nat /\ Cardinality(given) \in Nat
  <2>1. Cardinality(lost \cap given) = 0
    BY <1>9, FS_EmptySet
  <2>2. Cardinality(lost) \in Nat /\ Cardinality(given) \in Nat
    BY <1>9, FS_CardinalityType
  <2>3. Cardinality(lost \cup given)
          = Cardinality(lost) + Cardinality(given) - Cardinality(lost \cap given)
    BY <1>9, FS_Union
  <2> QED
    BY <2>1, <2>2, <2>3
<1>11. (ToSet(socket') \cup ToSet(outbuf')) \cup lost' = H
  BY <1>3, <1>4, <1>5, <1>7, <1>8
<1>12. Len(socket') + Len(outbuf') + Cardinality(lost') = Cardinality(H)
  <2>1. /\ Len(socket) \in Nat /\ Len(outbuf) \in Nat /\ Len(a) \in Nat /\ Len(b) \in Nat
        /\ Cardinality(G) \in Nat /\ len \in Nat
    BY <1>1, <1>2, LenProperties, FS_CardinalityType
  <2>2. Len(a) + Len(b) + Cardinality(given) = len
    OBVIOUS
  <2> QED
    BY <1>3, <1>4, <1>7, <1>8, <1>10, <2>1, <2>2, SMTT(40)
<1>13. Conserved'
  <2>1. UNION {ToSet(Bytes(m, sent'[m])) : m \in DOMAIN sent'} = H
    BY <1>6 DEF Handed
  <2> QED
    BY <1>11, <1>12, <2>1 DEF Conserved
<1>14. lost' \subseteq H
  BY <1>2, <1>3, <1>5
<1> QED
  BY <1>3, <1>6, <1>7, <1>13, <1>14 DEF Kept

\* send_json hands over the bytes of one message.
LEMMA SendConserves ==
  ASSUME BufferInv, Kept, NEW len \in MessageLengths, SendJson(len)
  PROVE  Kept'
<1> DEFINE m == Len(sent) + 1
           bytes == Bytes(m, len)
           whole == Rest(m, 0, len)
<1>1. /\ sent' = Append(sent, len) /\ m \in Nat /\ len \in Nat \ {0} /\ 1 \in 1 .. len
      /\ socket \in Seq(Byte) /\ outbuf \in Seq(Byte)
  <2>1. sent \in Seq(MessageLengths)
    BY DEF BufferInv, StreamTypeOK
  <2>2. Len(sent) \in Nat
    BY <2>1, LenProperties
  <2>3. len \in Nat \ {0}
    OBVIOUS
  <2>4. socket \in Seq(Byte) /\ outbuf \in Seq(Byte)
    BY DEF BufferInv, Kept
  <2>5. sent' = Append(sent, len)
    BY DEF SendJson
  <2> QED
    BY <2>2, <2>3, <2>4, <2>5
<1>2. bytes \in Seq(Byte) /\ Len(bytes) = len /\ ToSet(bytes) = whole
  BY <1>1, SetOfBytes
<1>3. \/ Buffered(bytes) /\ UNCHANGED <<socket, lost>>
      \/ \E k \in 1 .. len : RestBuffered(bytes, k)
      \/ lost' = lost \cup ToSet(bytes) /\ UNCHANGED <<outbuf, socket>>
  BY DEF SendJson
<1>4. /\ <<>> \in Seq(Byte) /\ Len(<<>>) = 0 /\ ToSet(<<>>) = {}
      /\ IsFiniteSet({}) /\ Cardinality({}) = 0
  BY FS_EmptySet DEF ToSet
<1>5. socket \o <<>> = socket /\ outbuf \o <<>> = outbuf
  BY <1>1, ConcatEmptySeq
<1>6. IsFiniteSet(whole) /\ Cardinality(whole) = len
  <2>1. 0 \in 0 .. len /\ len - 0 = len
    BY <1>1
  <2> QED
    BY <1>1, <2>1, CountRest
<1>7. CASE Buffered(bytes) /\ UNCHANGED <<socket, lost>>
  <2>1. outbuf' = outbuf \o bytes /\ socket' = socket \o <<>> /\ lost' = lost \cup {}
    BY <1>5, <1>7 DEF Buffered
  <2>2. (ToSet(<<>>) \cup ToSet(bytes)) \cup {} = whole
    BY <1>2, <1>4
  <2>3. Len(<<>>) + Len(bytes) + Cardinality({}) = len
    BY <1>1, <1>2, <1>4
  <2> HIDE DEF bytes
  <2> QED
    BY <1>1, <1>2, <1>4, <2>1, <2>2, <2>3, HandedOver
<1>8. CASE lost' = lost \cup ToSet(bytes) /\ UNCHANGED <<outbuf, socket>>
  <2>1. outbuf' = outbuf \o <<>> /\ socket' = socket \o <<>> /\ lost' = lost \cup whole
    BY <1>2, <1>5, <1>8
  <2>2. (ToSet(<<>>) \cup ToSet(<<>>)) \cup whole = whole
    BY <1>4
  <2>3. Len(<<>>) + Len(<<>>) + Cardinality(whole) = len
    BY <1>1, <1>4, <1>6
  <2> QED
    BY <1>1, <1>4, <1>6, <2>1, <2>2, <2>3, HandedOver
<1>9. ASSUME NEW k \in 1 .. len, RestBuffered(bytes, k)
      PROVE  Kept'
  <2> DEFINE a == SubSeq(bytes, 1, k)
             rest == SubSeq(bytes, k + 1, Len(bytes))
             left == Rest(m, k, len)
  <2>1. /\ a \in Seq(Byte) /\ rest \in Seq(Byte) /\ Len(a) = k /\ Len(rest) = len - k
        /\ ToSet(a) \cup ToSet(rest) = whole
    <3>1. k \in 1 .. Len(bytes)
      BY <1>2
    <3> HIDE DEF bytes
    <3> QED
      BY <1>2, <3>1, ToSetSplit
  <2>2. ToSet(rest) = left
    BY <1>1, <1>2, SetOfBytes
  <2>3. IsFiniteSet(left) /\ Cardinality(left) = len - k
    <3>1. k \in 0 .. len
      BY <1>1
    <3> QED
      BY <1>1, <3>1, CountRest
  <2>4. /\ socket' = socket \o a
        /\ \/ rest = <<>> /\ outbuf' = outbuf /\ lost' = lost
           \/ outbuf' = outbuf \o rest /\ lost' = lost
           \/ outbuf' = outbuf /\ lost' = lost \cup ToSet(rest)
    BY <1>9 DEF RestBuffered, Buffered
  <2>5. k \in Nat /\ len \in Nat /\ k + 0 + (len - k) = len /\ k + (len - k) + 0 = len
    BY <1>1
  <2> HIDE DEF a, rest, left, bytes
  <2>6. CASE outbuf' = outbuf /\ lost' = lost \cup ToSet(rest)
    <3>1. outbuf' = outbuf \o <<>> /\ lost' = lost \cup left
      BY <1>5, <2>2, <2>6
    <3>2. (ToSet(a) \cup ToSet(<<>>)) \cup left = whole
      BY <1>4, <2>1, <2>2
    <3>3. Len(a) + Len(<<>>) + Cardinality(left) = len
      BY <1>4, <2>1, <2>3, <2>5
    <3> QED
      BY <1>1, <1>4, <2>1, <2>3, <2>4, <3>1, <3>2, <3>3, HandedOver
  <2>7. CASE outbuf' = outbuf \o rest /\ lost' = lost
    <3>1. lost' = lost \cup {}
      BY <2>7
    <3>2. (ToSet(a) \cup ToSet(rest)) \cup {} = whole
      BY <2>1
    <3>3. Len(a) + Len(rest) + Cardinality({}) = len
      BY <1>4, <2>1, <2>5
    <3> QED
      BY <1>1, <1>4, <2>1, <2>4, <2>7, <3>1, <3>2, <3>3, HandedOver
  <2>8. CASE rest = <<>> /\ outbuf' = outbuf /\ lost' = lost
    <3>1. outbuf' = outbuf \o rest
      BY <1>5, <2>8
    <3> QED
      BY <2>7, <2>8, <3>1
  <2> QED
    BY <2>4, <2>6, <2>7, <2>8
<1> QED
  BY <1>3, <1>7, <1>8, <1>9

\* drain_output moves the front of the buffer to the socket.
LEMMA DrainConserves ==
  ASSUME BufferInv, Kept, DrainOutput
  PROVE  Kept'
<1>1. PICK k \in 1 .. Len(outbuf) : /\ socket' = socket \o SubSeq(outbuf, 1, k)
                                    /\ outbuf' = SubSeq(outbuf, k + 1, Len(outbuf))
  BY DEF DrainOutput
<1> DEFINE a == SubSeq(outbuf, 1, k)
<1>2. sent' = sent /\ lost' = lost
  BY DEF DrainOutput
<1>3. socket \in Seq(Byte) /\ outbuf \in Seq(Byte)
  BY DEF BufferInv, Kept
<1>4. /\ a \in Seq(Byte) /\ outbuf' \in Seq(Byte) /\ Len(a) = k /\ Len(outbuf') = Len(outbuf) - k
      /\ ToSet(a) \cup ToSet(outbuf') = ToSet(outbuf)
  BY <1>1, <1>3, ToSetSplit
<1>5. socket' = socket \o a
  BY <1>1
<1> HIDE DEF a
<1>6. /\ socket' \in Seq(Byte) /\ Len(socket') = Len(socket) + Len(a)
      /\ ToSet(socket') = ToSet(socket) \cup ToSet(a)
  BY <1>3, <1>4, <1>5, ToSetConcat, ConcatProperties
<1>7. Handed(sent)' = Handed(sent)
  BY <1>2 DEF Handed
<1>8. /\ (ToSet(socket) \cup ToSet(outbuf)) \cup lost = Handed(sent)
      /\ Len(socket) + Len(outbuf) + Cardinality(lost) = Cardinality(Handed(sent))
  BY DEF Kept, Conserved, Handed
<1>9. (ToSet(socket') \cup ToSet(outbuf')) \cup lost' = Handed(sent)
  BY <1>2, <1>4, <1>6, <1>8
<1>10. Len(socket') + Len(outbuf') = Len(socket) + Len(outbuf)
  <2>1. Len(socket) \in Nat /\ Len(outbuf) \in Nat /\ k \in Nat
    BY <1>3, LenProperties
  <2> QED
    BY <1>4, <1>6, <2>1
<1>11. Conserved'
  <2>1. UNION {ToSet(Bytes(n, sent'[n])) : n \in DOMAIN sent'} = Handed(sent)
    BY <1>2 DEF Handed
  <2> QED
    BY <1>2, <1>8, <1>9, <1>10, <2>1 DEF Conserved
<1> QED
  BY <1>2, <1>6, <1>7, <1>11 DEF Kept

\* A new connection was handed nothing.
LEMMA KeptInit == StreamInit => Kept
<1> SUFFICES ASSUME StreamInit
             PROVE  Kept
  OBVIOUS
<1>1. socket = <<>> /\ outbuf = <<>> /\ sent = <<>> /\ lost = {}
  BY DEF StreamInit
<1>2. Handed(sent) = {} /\ ToSet(socket) = {} /\ ToSet(outbuf) = {}
  BY <1>1 DEF Handed, ToSet
<1>3. IsFiniteSet({}) /\ Cardinality({}) = 0 /\ Len(socket) = 0 /\ Len(outbuf) = 0
  BY <1>1, FS_EmptySet
<1>4. Conserved
  <2>1. UNION {ToSet(Bytes(m, sent[m])) : m \in DOMAIN sent} = {}
    BY <1>2 DEF Handed
  <2>2. (ToSet(socket) \cup ToSet(outbuf)) \cup lost = {}
    BY <1>1, <1>2
  <2>3. Len(socket) + Len(outbuf) + Cardinality(lost) = Cardinality({})
    BY <1>1, <1>3
  <2> QED
    BY <2>1, <2>2, <2>3 DEF Conserved
<1>5. socket \in Seq(Byte)
  BY <1>1
<1> QED
  BY <1>1, <1>2, <1>3, <1>4, <1>5 DEF Kept

\* Every byte handed to send_json is once on the socket or in the buffer, or was given up
\* with a line in the log: for any capacity, any lengths and any partial writes.
THEOREM ConservedInvariance == StreamSpec => []Conserved
<1>1. BufferInv /\ Kept /\ [StreamNext]_streamVars => Kept'
  <2> SUFFICES ASSUME BufferInv, Kept, [StreamNext]_streamVars
               PROVE  Kept'
    OBVIOUS
  <2>1. CASE UNCHANGED streamVars
    BY <2>1 DEF streamVars, Kept, Conserved, Handed
  <2> QED
    BY <2>1, SendConserves, DrainConserves DEF StreamNext
<1>2. Kept => Conserved
  BY DEF Kept
<1> QED
  BY KeptInit, BufferInvariance, <1>1, <1>2, PTL DEF StreamSpec

-----------------------------------------------------------------------------
(* The settings.                                                            *)

SetIn(s) == {p \in Dir \X Key : IsSet(s, p[1], p[2])}
LinesOf(s, pairs) == {SavedLine(s, p[1], p[2]) : p \in pairs}

\* The temporary file has exactly the lines of the settings that are not still to do, and
\* the settings do not change while it is written.
TmpPart(s, progress) ==
  progress.active =>
    /\ progress.todo \subseteq SetIn(s)
    /\ progress.tmp \in Seq(LinesOf(s, SetIn(s) \ progress.todo))
    /\ ToSet(progress.tmp) = LinesOf(s, SetIn(s) \ progress.todo)

\* What is in the file so far comes back as Durable says, of the settings in it; nothing
\* that is still to do lies above anything in it.
GivesBack(lines, s, pairs, k) ==
  LET back   == Loaded(lines)
      having == {n \in Dir : <<n, k>> \in pairs}
      lowest == {n \in having : \A m \in having : n \notin DirsAbove[m]}
  IN /\ \A n \in Dir \ {Root} : ~IsSet(back, n, k)
     /\ having = {} => ~IsSet(back, Root, k)
     /\ having # {} => \E n \in lowest : back[Root][k] = s[n][k]

At(lines, n, k) == {i \in DOMAIN lines : lines[i].path = n /\ lines[i].key = k}
HasLast(lines, n, k) ==
  At(lines, n, k) # {} => \E i \in At(lines, n, k) : \A j \in At(lines, n, k) : j <= i

OrderPart(s, progress) ==
  progress.active =>
    /\ \A n \in Dir, k \in Key : HasLast(progress.tmp, n, k)
    /\ \A p \in progress.todo, q \in SetIn(s) \ progress.todo : p[1] \notin DirsAbove[q[1]]
    /\ \A k \in Key : GivesBack(progress.tmp, s, SetIn(s) \ progress.todo, k)

Shape == saving = [then |-> saving.then, todo |-> saving.todo, tmp |-> saving.tmp,
                   active |-> saving.active]

FileInv ==
  Shape /\ TmpPart(settings, saving) /\ OrderPart(settings, saving) /\ DiskWhole /\ Durable

\* Durable, said of the lines of the file.
LEMMA DurableHolds ==
  ASSUME \A k \in Key : GivesBack(disk', settings', SetIn(settings'), k)
  PROVE  Durable'
<1> SUFFICES ASSUME NEW k \in Key
             PROVE  ComesBack(k)'
  BY DEF Durable
<1>1. {n \in Dir : IsSet(settings', n, k)} = {n \in Dir : <<n, k>> \in SetIn(settings')}
  BY DEF SetIn
<1>2. GivesBack(disk', settings', SetIn(settings'), k)
  OBVIOUS
<1> QED
  BY <1>1, <1>2 DEF ComesBack, GivesBack

\* An empty file gives nothing back.
LEMMA EmptyGives ==
  ASSUME NEW s, NEW k \in Key
  PROVE  GivesBack(<<>>, s, {}, k)
<1>1. \A n \in Dir : ~IsSet(Loaded(<<>>), n, k)
  BY DEF Loaded, IsSet
<1> QED
  BY <1>1, ConfigAssumption DEF GivesBack

\* One more line overrides its key for its path, and nothing else.
LEMMA OneMoreLine ==
  ASSUME NEW S, NEW lines \in Seq(S), NEW line, NEW n \in Dir, NEW k \in Key,
         HasLast(lines, n, k)
  PROVE  /\ HasLast(Append(lines, line), n, k)
         /\ Loaded(Append(lines, line))[n][k] =
              IF line.path = n /\ line.key = k THEN line.value ELSE Loaded(lines)[n][k]
<1> DEFINE more == Append(lines, line)
           last(l) == CHOOSE i \in At(l, n, k) : \A j \in At(l, n, k) : j <= i
<1>1. /\ DOMAIN lines = 1 .. Len(lines) /\ Len(lines) \in Nat
      /\ DOMAIN more = 1 .. Len(lines) + 1
      /\ \A i \in 1 .. Len(lines) : more[i] = lines[i]
      /\ more[Len(lines) + 1] = line
  OBVIOUS
<1>2. \A l : Loaded(l)[n][k] = IF At(l, n, k) = {} THEN Unset ELSE l[last(l)].value
  BY DEF Loaded, At
<1>3. CASE line.path = n /\ line.key = k
  <2>1. /\ Len(lines) + 1 \in At(more, n, k)
        /\ At(more, n, k) \subseteq 1 .. Len(lines) + 1
    BY <1>1, <1>3 DEF At
  <2>2. last(more) = Len(lines) + 1 /\ HasLast(more, n, k)
    <3> HIDE DEF more
    <3>1. \A j \in At(more, n, k) : j \in Int /\ j <= Len(lines) + 1
      BY <1>1, <2>1
    <3>2. last(more) \in At(more, n, k) /\ \A j \in At(more, n, k) : j <= last(more)
      BY <2>1, <3>1
    <3>3. HasLast(more, n, k)
      BY <3>2 DEF HasLast
    <3> HIDE DEF last
    <3> QED
      BY <1>1, <2>1, <3>1, <3>2, <3>3
  <2>3. Loaded(more)[n][k] = more[Len(lines) + 1].value
    <3> HIDE DEF more, last
    <3> QED
      BY <1>2, <2>1, <2>2
  <2>4. Loaded(more)[n][k] = line.value
    BY <1>1, <2>3
  <2> QED
    BY <1>3, <2>2, <2>4
<1>4. CASE ~(line.path = n /\ line.key = k)
  <2>1. At(more, n, k) = At(lines, n, k) /\ At(lines, n, k) \subseteq 1 .. Len(lines)
    BY <1>1, <1>4 DEF At
  <2>2. last(more) = last(lines)
    BY <2>1
  <2>3. HasLast(more, n, k)
    BY <2>1 DEF HasLast
  <2>4. Loaded(more)[n][k] = Loaded(lines)[n][k]
    <3>1. CASE At(lines, n, k) = {}
      <4> HIDE DEF more, last
      <4> QED
        BY <1>2, <2>1, <3>1
    <3>2. CASE At(lines, n, k) # {}
      <4>1. last(lines) \in At(lines, n, k)
        BY <3>2 DEF HasLast
      <4>2. more[last(lines)] = lines[last(lines)]
        <5> HIDE DEF more, last
        <5> QED
          BY <1>1, <2>1, <4>1
      <4> HIDE DEF more, last
      <4> QED
        BY <1>2, <2>1, <2>2, <3>2, <4>2
    <3> QED
      BY <3>1, <3>2
  <2> QED
    BY <1>4, <2>3, <2>4
<1> QED
  BY <1>3, <1>4

\* A line of a path that nothing in the file lies below: its key has its value from now on,
\* and it is the lowest that has it.
LEMMA LineGives ==
  ASSUME NEW S, NEW lines \in Seq(S), NEW s, NEW done, NEW n \in Dir, NEW j \in Key,
         \A q \in done : n \notin DirsAbove[q[1]],
         NEW k \in Key, GivesBack(lines, s, done, k), \A m \in Dir : HasLast(lines, m, k)
  PROVE  GivesBack(Append(lines, SavedLine(s, n, j)), s, done \cup {<<n, j>>}, k)
<1> DEFINE line == SavedLine(s, n, j)
           pairs == done \cup {<<n, j>>}
           back == Loaded(Append(lines, line))
           having(P) == {m \in Dir : <<m, k>> \in P}
           lowest(P) == {m \in having(P) : \A l \in having(P) : m \notin DirsAbove[l]}
<1>1. line.path = Root /\ line.key = j /\ line.value = s[n][j]
  BY DEF SavedLine, SavedPath
<1>2. \A m \in Dir : back[m][k] = IF Root = m /\ j = k THEN s[n][j] ELSE Loaded(lines)[m][k]
  BY <1>1, OneMoreLine
<1>3. \A m \in Dir \ {Root} : ~IsSet(back, m, k)
  BY <1>2 DEF GivesBack, IsSet
<1>4. CASE j = k
  <2>1. having(pairs) = having(done) \cup {n}
    BY <1>4
  <2>2. \A m \in having(done) : n \notin DirsAbove[m]
    <3> SUFFICES ASSUME NEW m \in having(done)
                 PROVE  n \notin DirsAbove[m]
      OBVIOUS
    <3>1. <<m, k>> \in done /\ <<m, k>>[1] = m
      OBVIOUS
    <3> QED
      BY <3>1
  <2>3. n \in lowest(pairs)
    BY <2>1, <2>2, ConfigAssumption
  <2>4. back[Root][k] = s[n][k]
    BY <1>2, <1>4, ConfigAssumption
  <2>5. /\ ~(having(pairs) = {})
        /\ \E m \in lowest(pairs) : back[Root][k] = s[m][k]
    BY <2>1, <2>3, <2>4
  <2> HIDE DEF back, having, lowest
  <2> QED
    BY <1>3, <2>5 DEF GivesBack, back, having, lowest
<1>5. CASE j # k
  <2>1. having(pairs) = having(done)
    BY <1>5
  <2>2. back[Root][k] = Loaded(lines)[Root][k]
    BY <1>2, <1>5, ConfigAssumption
  <2>3. /\ having(done) = {} => Loaded(lines)[Root][k] = Unset
        /\ having(done) # {} => \E m \in lowest(done) : Loaded(lines)[Root][k] = s[m][k]
    BY DEF GivesBack, IsSet
  <2>4. lowest(pairs) = lowest(done)
    BY <2>1
  <2> HIDE DEF back, having, lowest
  <2>5. /\ having(pairs) = {} => ~IsSet(back, Root, k)
        /\ having(pairs) # {} => \E m \in lowest(pairs) : back[Root][k] = s[m][k]
    BY <2>1, <2>2, <2>3, <2>4 DEF IsSet
  <2> QED
    BY <1>3, <2>5 DEF GivesBack, back, having, lowest
<1> QED
  BY <1>4, <1>5

\* What the file gives back, given back as "/", is what it gives back.
LEMMA GivesItself ==
  ASSUME NEW lines, \A l \in ToSet(lines) : l.path = Root,
         NEW k \in Key
  PROVE  GivesBack(lines, Loaded(lines), SetIn(Loaded(lines)), k)
<1>1. \A n \in Dir \ {Root} : ~IsSet(Loaded(lines), n, k)
  <2> SUFFICES ASSUME NEW n \in Dir \ {Root}
               PROVE  Loaded(lines)[n][k] = Unset
    BY DEF IsSet
  <2>1. {i \in DOMAIN lines : lines[i].path = n /\ lines[i].key = k} = {}
    BY DEF ToSet
  <2> QED
    BY <2>1 DEF Loaded
<1>2. \A n \in Dir : <<n, k>> \in SetIn(Loaded(lines)) <=> IsSet(Loaded(lines), n, k)
  BY DEF SetIn
<1> QED
  BY <1>1, <1>2, ConfigAssumption DEF GivesBack

\* A save begins with everything to do, for the settings as they have just been changed.
LEMMA BeginsEmpty ==
  ASSUME NEW then, SaveBegins(settings', then), UNCHANGED <<disk, lastSaved>>, FileInv
  PROVE  FileInv'
<1>1. /\ saving'.active /\ saving'.tmp = <<>>
      /\ saving'.todo = {p \in Dir \X Key : IsSet(settings', p[1], p[2])}
      /\ Shape'
  BY DEF SaveBegins, Shape
<1>2. saving'.todo = SetIn(settings')
  BY <1>1 DEF SetIn
<1>3. LinesOf(settings', SetIn(settings') \ saving'.todo) = {}
  BY <1>2 DEF LinesOf
<1>4. ToSet(saving'.tmp) = {} /\ saving'.tmp \in Seq({})
  BY <1>1 DEF ToSet
<1>5. TmpPart(settings', saving')
  BY <1>2, <1>3, <1>4 DEF TmpPart
<1>6. DiskWhole'
  BY DEF FileInv, DiskWhole
<1>7. OrderPart(settings', saving')
  <2>1. SetIn(settings') \ saving'.todo = {}
    BY <1>2
  <2>2. \A n \in Dir, k \in Key : HasLast(<<>>, n, k)
    BY DEF HasLast, At
  <2>3. \A k \in Key : GivesBack(<<>>, settings', {}, k)
    BY EmptyGives
  <2> QED
    BY <1>1, <2>1, <2>2, <2>3 DEF OrderPart
<1> QED
  BY <1>1, <1>5, <1>6, <1>7 DEF FileInv, Durable, Serving

\* A line goes from what is to do into the file.
LEMMA LineMoves ==
  ASSUME FileInv, SaveLine
  PROVE  FileInv'
<1> DEFINE part == LinesOf(settings, SetIn(settings) \ saving.todo)
<1>1. PICK p \in saving.todo :
        /\ \A q \in saving.todo : q[1] \notin DirsAbove[p[1]]
        /\ saving' = [saving EXCEPT !.todo = @ \ {p}, !.tmp = Append(@, SavedLine(settings, p[1], p[2]))]
  BY DEF SaveLine
<1> DEFINE line == SavedLine(settings, p[1], p[2])
           part2 == LinesOf(settings, SetIn(settings) \ saving'.todo)
<1>2. /\ saving'.todo = saving.todo \ {p}
      /\ saving'.tmp = Append(saving.tmp, line)
      /\ saving'.active = saving.active
      /\ Shape'
  BY <1>1 DEF FileInv, Shape
<1>3. saving.active /\ settings' = settings
  BY DEF SaveLine
<1>4. p \in SetIn(settings)
  BY <1>3 DEF FileInv, TmpPart
<1>5. part2 = part \cup {line}
  BY <1>2, <1>4 DEF LinesOf
<1>6. saving.tmp \in Seq(part) /\ ToSet(saving.tmp) = part
  BY <1>3 DEF FileInv, TmpPart
<1> HIDE DEF part, part2, line
<1>7. saving.tmp \in Seq(part2)
  BY <1>5, <1>6, SeqMonotonic
<1>8. saving'.tmp \in Seq(part2) /\ ToSet(saving'.tmp) = part2
  <2>1. /\ saving'.tmp \in Seq(part2)
        /\ Len(saving'.tmp) = Len(saving.tmp) + 1
        /\ \A i \in 1 .. Len(saving.tmp) : saving'.tmp[i] = saving.tmp[i]
        /\ saving'.tmp[Len(saving.tmp) + 1] = line
    BY <1>2, <1>5, <1>7, AppendProperties
  <2>2. DOMAIN saving'.tmp = DOMAIN saving.tmp \cup {Len(saving.tmp) + 1}
    BY <1>7, <2>1, LenProperties
  <2>3. ToSet(saving'.tmp) = ToSet(saving.tmp) \cup {line}
    BY <1>7, <2>1, <2>2, LenProperties DEF ToSet
  <2> QED
    BY <1>5, <1>6, <2>1, <2>3
<1>9. TmpPart(settings', saving')
  BY <1>2, <1>3, <1>4, <1>8 DEF TmpPart, part2, FileInv
<1>10. OrderPart(settings', saving')
  <2> DEFINE done == SetIn(settings) \ saving.todo
  <2>1. SetIn(settings') \ saving'.todo = done \cup {p}
    BY <1>2, <1>3, <1>4
  <2>2. p = <<p[1], p[2]>> /\ p[1] \in Dir /\ p[2] \in Key
    BY <1>4 DEF SetIn
  <2>3. \A q \in done : p[1] \notin DirsAbove[q[1]]
    BY <1>3 DEF FileInv, OrderPart
  <2>4. \A r \in saving'.todo, q \in done \cup {p} : r[1] \notin DirsAbove[q[1]]
    BY <1>1, <1>2, <1>3 DEF FileInv, OrderPart
  <2>5. ASSUME NEW k \in Key
        PROVE  GivesBack(saving'.tmp, settings, done \cup {p}, k)
    <3>1. GivesBack(saving.tmp, settings, done, k)
      BY <1>3 DEF FileInv, OrderPart
    <3> HIDE DEF done
    <3>2. GivesBack(Append(saving.tmp, SavedLine(settings, p[1], p[2])), settings,
                    done \cup {p}, k)
      <4>1. \A m \in Dir : HasLast(saving.tmp, m, k)
        BY <1>3 DEF FileInv, OrderPart
      <4> QED
        BY <1>6, <2>2, <2>3, <3>1, <4>1, LineGives
    <3> QED
      BY <1>2, <3>2 DEF line
  <2>6. ASSUME NEW m \in Dir, NEW k \in Key
        PROVE  HasLast(saving'.tmp, m, k)
    <3>1. HasLast(saving.tmp, m, k)
      BY <1>3 DEF FileInv, OrderPart
    <3>2. HasLast(Append(saving.tmp, line), m, k)
      <4>1. saving.tmp \in Seq(part)
        BY <1>6
      <4> HIDE DEF done
      <4> QED
        BY <4>1, <3>1, OneMoreLine
    <3> QED
      BY <1>2, <3>2
  <2> QED
    BY <1>3, <2>1, <2>4, <2>5, <2>6 DEF OrderPart
<1> QED
  BY <1>2, <1>3, <1>9, <1>10 DEF FileInv, SaveLine, DiskWhole, Durable, Serving

\* A complete temporary file is the image of the settings.
LEMMA ImageWhole ==
  ASSUME FileInv, saving.active, saving.todo = {},
         disk' = saving.tmp, lastSaved' = settings
  PROVE  DiskWhole'
<1>1. ToSet(saving.tmp) = LinesOf(settings, SetIn(settings))
  BY DEF FileInv, TmpPart
<1> QED
  BY <1>1 DEF DiskWhole, LinesOf, SetIn, IsSet, SavedLine, SavedPath

\* The file is not touched.
LEMMA DiskKept ==
  ASSUME FileInv, UNCHANGED <<disk, lastSaved>>
  PROVE  DiskWhole'
BY DEF FileInv, DiskWhole

\* The end of a save that is not the last one of the process.
LEMMA SaveEnds ==
  ASSUME FileInv, SaveDone \/ SaveFails
  PROVE  FileInv'
<1>1. ~saving'.active /\ Shape'
  BY DEF SaveDone, SaveFails, NotSaving, Shape
<1>2. DiskWhole'
  <2>1. CASE SaveDone
    BY <2>1, ImageWhole DEF SaveDone
  <2>2. CASE SaveFails
    BY <2>2, DiskKept DEF SaveFails
  <2> QED
    BY <2>1, <2>2
<1>3. Durable'
  <2>1. CASE SaveDone
    <3>1. \A k \in Key : GivesBack(saving.tmp, settings, SetIn(settings), k)
      <4>1. saving.active /\ SetIn(settings) \ saving.todo = SetIn(settings)
        BY <2>1 DEF SaveDone
      <4> QED
        BY <4>1 DEF FileInv, OrderPart
    <3>2. disk' = saving.tmp /\ settings' = settings
      BY <2>1 DEF SaveDone
    <3> QED
      BY <3>1, <3>2, DurableHolds
  <2>2. CASE SaveFails
    BY <2>2 DEF SaveFails, Durable
  <2> QED
    BY <2>1, <2>2
<1> QED
  BY <1>1, <1>2, <1>3 DEF FileInv, TmpPart, OrderPart

\* A new process has what the file says.
LEMMA StartsFromDisk ==
  ASSUME FileInv, Exit \/ Crash
  PROVE  FileInv'
<1>1. Restarted(disk')
  BY DEF Exit, Crash
<1>2. ~saving'.active /\ Shape' /\ settings' = Loaded(disk')
  BY <1>1 DEF Restarted, NotSaving, Shape
<1>3. DiskWhole'
  <2>1. CASE UNCHANGED <<disk, lastSaved>>
    BY <2>1, DiskKept
  <2>2. CASE saving.active /\ saving.todo = {} /\ disk' = saving.tmp /\ lastSaved' = settings
    BY <2>2, ImageWhole
  <2> QED
    BY <2>1, <2>2 DEF Exit, Crash
<1>4. Durable'
  <2>2. \A l \in ToSet(disk') : l.path = Root
    BY <1>3 DEF DiskWhole, SavedLine, SavedPath
  <2>3. \A k \in Key : GivesBack(disk', settings', SetIn(settings'), k)
    BY <1>2, <2>2, GivesItself
  <2> QED
    BY <2>3, DurableHolds
<1> QED
  BY <1>2, <1>3, <1>4 DEF FileInv, TmpPart, OrderPart

\* Requests that save nothing.
LEMMA FileUntouched ==
  ASSUME FileInv, UNCHANGED <<settings, saving, disk, lastSaved, saveFailed>>
  PROVE  FileInv'
<1>1. DiskWhole' /\ Durable' /\ Shape'
  BY DiskKept DEF FileInv, Durable, ComesBack, Serving, Shape
<1>2. TmpPart(settings', saving') /\ OrderPart(settings', saving')
  BY DEF FileInv
<1> QED
  BY <1>1, <1>2 DEF FileInv

\* An empty file for no settings.
LEMMA FileInit == ConfigInit => FileInv
<1> SUFFICES ASSUME ConfigInit
             PROVE  FileInv
  OBVIOUS
<1>1. ToSet(disk) = {}
  BY DEF ConfigInit, ToSet
<1>2. \A n \in Dir, k \in Key : ~IsSet(lastSaved, n, k)
  BY DEF ConfigInit, NoSettings, IsSet
<1>3. DiskWhole
  BY <1>1, <1>2 DEF DiskWhole
<1>4. Durable
  <2>1. \A n \in Dir, k \in Key : ~IsSet(settings, n, k)
    BY DEF ConfigInit, NoSettings, IsSet
  <2>2. \A n \in Dir, k \in Key : ~IsSet(Loaded(disk), n, k)
    BY DEF ConfigInit, Loaded, IsSet
  <2> QED
    BY <2>1, <2>2, ConfigAssumption DEF Durable, ComesBack
<1> QED
  BY <1>3, <1>4 DEF ConfigInit, NotSaving, FileInv, Shape, TmpPart, OrderPart

\* One step per request, per line and per end of a save.
LEMMA FileNext == FileInv /\ [ConfigNext]_configVars => FileInv'
<1> SUFFICES ASSUME FileInv, [ConfigNext]_configVars
             PROVE  FileInv'
  OBVIOUS
<1>1. ASSUME NEW f \in Conn, NEW n \in Dir, NEW k \in Key, NEW v \in Value \cup {Unset},
             SetPersistent(f, n, k, v)
      PROVE  FileInv'
  BY <1>1, BeginsEmpty DEF SetPersistent
<1>2. CASE Shutdown
  <2>1. SaveBegins(settings', "exit")
    BY <1>2 DEF Shutdown
  <2> QED
    BY <1>2, <2>1, BeginsEmpty DEF Shutdown
<1>3. ASSUME NEW f \in Conn, Attach(f) \/ Detach(f)
      PROVE  FileInv'
  BY <1>3, FileUntouched DEF Attach, Detach
<1>4. ASSUME NEW f \in Conn, NEW k \in Key, NEW v \in Value \cup {Unset}, SetTransient(f, k, v)
      PROVE  FileInv'
  BY <1>4, FileUntouched DEF SetTransient
<1>5. CASE UNCHANGED configVars
  BY <1>5, FileUntouched DEF configVars
<1> QED
  BY <1>1, <1>2, <1>3, <1>4, <1>5, LineMoves, SaveEnds, StartsFromDisk DEF ConfigNext

\* File, temporary file and settings fit together along every run.
THEOREM FileInvariance == ConfigSpec => []FileInv
BY FileInit, FileNext, PTL DEF ConfigSpec

\* Whenever the process is killed, the file is the whole image of one state of the
\* settings: trie_save_persist writes another file and renames it.
THEOREM DiskWholeInvariance == ConfigSpec => []DiskWhole
BY FileInvariance, PTL DEF FileInv

\* Every change that was answered is in the file, if not under its path, unless a save has
\* failed since.
THEOREM DurableInvariance == ConfigSpec => []Durable
BY FileInvariance, PTL DEF FileInv

TransientShape == transient = [f \in Conn |-> [k \in Key |-> transient[f][k]]]
TransientInv == TransientShape /\ TransientGone

\* Only a disconnect and a new process close a descriptor, and both clear its settings.
LEMMA TransientNext == TransientInv /\ [ConfigNext]_configVars => TransientInv'
<1> SUFFICES ASSUME TransientInv, [ConfigNext]_configVars
             PROVE  TransientInv'
  OBVIOUS
<1>1. CASE UNCHANGED transient /\ attached \subseteq attached'
  BY <1>1 DEF TransientInv, TransientShape, TransientGone
<1>2. ASSUME NEW f \in Conn, Detach(f)
      PROVE  TransientInv'
  BY <1>2 DEF Detach, Cleared, TransientInv, TransientShape, TransientGone
<1>3. ASSUME NEW f \in Conn, NEW k \in Key, NEW v \in Value \cup {Unset}, SetTransient(f, k, v)
      PROVE  TransientInv'
  <2>1. /\ f \in attached /\ attached' = attached
        /\ transient' = [transient EXCEPT ![f][k] = v]
    BY <1>3 DEF SetTransient
  <2>2. \A g \in Conn : g # f => transient'[g] = transient[g]
    BY <2>1 DEF TransientInv, TransientShape
  <2>3. TransientShape'
    BY <2>1 DEF TransientInv, TransientShape
  <2> QED
    BY <2>1, <2>2, <2>3 DEF TransientInv, TransientGone
<1>4. CASE Exit \/ Crash
  BY <1>4 DEF Exit, Crash, Restarted, TransientInv, TransientShape, TransientGone
<1>5. \/ UNCHANGED transient /\ attached \subseteq attached'
      \/ \E f \in Conn : Detach(f)
      \/ \E f \in Conn, k \in Key, v \in Value \cup {Unset} : SetTransient(f, k, v)
      \/ Exit \/ Crash
  BY DEF ConfigNext, configVars, Attach, SetPersistent, SaveLine, SaveDone, SaveFails, Shutdown
<1> QED
  BY <1>1, <1>2, <1>3, <1>4, <1>5

\* A transient setting never outlives its connection, nor the process.
THEOREM TransientGoneInvariance == ConfigSpec => []TransientGone
<1>1. ConfigInit => TransientInv
  BY DEF ConfigInit, TransientInv, TransientShape, TransientGone
<1> QED
  BY <1>1, TransientNext, PTL DEF ConfigSpec, TransientInv

=============================================================================
