--------------------------- MODULE BinFlowProofs ---------------------------
(***************************************************************************)
(* The flow update, for every size of buffers and chunks, every number of   *)
(* components and wherever either thread fails: the producer and the stream *)
(* it writes to count the same bytes, and each component gets its own.      *)
(***************************************************************************)
EXTENDS BinFlow, WellFoundedInduction, TLAPS

\* The part of the types that the proof needs.
Types ==
  /\ producer \in ProducerSteps
  /\ made \in Nat /\ offset \in Nat /\ writeOffset \in Nat
  /\ pending \in Seq(Nat) /\ stash \in Seq(Nat)
  /\ Len(stash) <= BufSize /\ Len(pending) <= BufSize

\* What was extracted is in the ring, in the stash or still at hand.
AllCounted ==
  producer \in {"extract", "copy", "write", "writeLast"} =>
    made = writeOffset + Len(stash) + Len(pending)

\* Between two calls of the decompression nothing is at hand.
NothingPending == producer \in {"extract", "writeLast"} => pending = << >>

IInv == Types /\ AllCounted /\ NothingPending /\ OffsetsAgree

\* The bytes of a chunk are as many as were extracted.
LEMMA ChunkLength ==
  ASSUME NEW a \in Nat, NEW k \in Nat
  PROVE  Bytes(a, a + k) \in Seq(Nat) /\ Len(Bytes(a, a + k)) = k
<1>1. Bytes(a, a + k) = [i \in 1..k |-> a + i]
  BY DEF Bytes
<1>2. \A i \in 1..k : a + i \in Nat
  OBVIOUS
<1> QED
  BY <1>1, <1>2

\* The numbers of bytes are positive.
LEMMA SizesArePositive == BufSize \in Nat \ {0} /\ MaxChunk \in 1..BufSize
BY BinFlowAssumption

\* A step that leaves the producer's places alone keeps what is said of it.
LEMMA Elsewhere == ASSUME IInv, UNCHANGED source PROVE IInv'
BY DEF IInv, source, Types, AllCounted, NothingPending, OffsetsAgree

\* A call of the decompression, and its end.
LEMMA ExtractStep == ASSUME IInv, Extract \/ Flush PROVE IInv'
<1> USE SizesArePositive DEF IInv
<1>1. CASE Extract
  <2>1. PICK k \in 1..MaxChunk : made' = made + k /\ pending' = Bytes(made, made + k)
    BY <1>1 DEF Extract
  <2>2. k \in Nat /\ k <= BufSize /\ pending' \in Seq(Nat) /\ Len(pending') = k
    <3>1. k \in Nat /\ k <= BufSize
      OBVIOUS
    <3>2. made \in Nat
      BY DEF Types
    <3> QED
      BY <2>1, <3>1, <3>2, ChunkLength
  <2>3. pending = << >> /\ Len(<< >>) = 0 /\ made = writeOffset + Len(stash) + Len(pending)
    BY <1>1 DEF Extract, NothingPending, AllCounted
  <2>4. /\ producer' = "copy" /\ UNCHANGED <<stash, offset, writeOffset>>
        /\ made \in Nat /\ made' \in Nat /\ offset \in Nat /\ writeOffset \in Nat
        /\ stash \in Seq(Nat) /\ Len(stash) \in Nat /\ Len(stash) <= BufSize
    BY <1>1, <2>1, <2>2 DEF Extract, Types
  <2>5. made' = writeOffset' + Len(stash') + Len(pending')
    <3>1. Len(pending) = 0 /\ Len(stash') = Len(stash) /\ writeOffset' = writeOffset
      BY <2>3, <2>4
    <3>2. made = writeOffset + Len(stash) /\ made' = made + k /\ Len(pending') = k
      BY <2>1, <2>2, <2>3, <2>4, <3>1
    <3> QED
      BY <3>1, <3>2
  <2> QED
    BY <2>2, <2>4, <2>5 DEF Types, ProducerSteps, AllCounted, NothingPending, OffsetsAgree
<1>2. CASE Flush
  <2>1. pending = << >> /\ Len(<< >>) = 0 /\ made = writeOffset + Len(stash) + Len(pending)
    BY <1>2 DEF Flush, NothingPending, AllCounted
  <2>2. offset' = writeOffset
    BY <1>2, <2>1 DEF Flush, Types
  <2>3. /\ UNCHANGED <<made, pending, stash, writeOffset>> /\ producer' \in {"ended", "writeLast"}
    BY <1>2 DEF Flush
  <2> QED
    BY <2>1, <2>2, <2>3
    DEF Types, ProducerSteps, AllCounted, NothingPending, OffsetsAgree
<1> QED
  BY <1>1, <1>2

\* The chunk goes to the stash, which may be full then.
LEMMA CopyStep == ASSUME IInv, Fill \/ Keep PROVE IInv'
<1> USE SizesArePositive DEF IInv, Types
<1>1. /\ Len(stash) \in Nat /\ Len(pending) \in Nat
      /\ made = writeOffset + Len(stash) + Len(pending)
  <2>1. producer = "copy"
    BY DEF Fill, Keep
  <2>2. made = writeOffset + Len(stash) + Len(pending)
    BY <2>1 DEF AllCounted
  <2> QED
    BY <2>2
<1>2. CASE Fill
  <2>1. Room \in 0..BufSize /\ Room < Len(pending)
    BY <1>1, <1>2 DEF Fill, Room
  <2>2. SubSeq(pending, 1, Room) \in Seq(Nat) /\ Len(SubSeq(pending, 1, Room)) = Room
    BY <1>1, <2>1
  <2>3. /\ SubSeq(pending, Room + 1, Len(pending)) \in Seq(Nat)
        /\ Len(SubSeq(pending, Room + 1, Len(pending))) = Len(pending) - Room
    BY <1>1, <2>1
  <2>4. stash' \in Seq(Nat) /\ Len(stash') = BufSize
    BY <1>1, <1>2, <2>1, <2>2 DEF Fill, Room
  <2>5. offset' = writeOffset
    BY <1>1, <1>2 DEF Fill
  <2>6. /\ made' = made /\ writeOffset' = writeOffset /\ producer' = "write"
        /\ pending' \in Seq(Nat) /\ Len(pending') = Len(pending) - Room
        /\ Room = BufSize - Len(stash)
    BY <1>2, <2>3 DEF Fill, Room
  <2>7. Len(pending') <= BufSize
    BY <1>1, <2>1, <2>6
  <2>8. made' = writeOffset' + Len(stash') + Len(pending')
    BY <1>1, <2>4, <2>6
  <2>9. Types'
    BY <2>4, <2>5, <2>6, <2>7 DEF ProducerSteps
  <2> QED
    BY <2>5, <2>6, <2>8, <2>9 DEF AllCounted, NothingPending, OffsetsAgree
<1>3. CASE Keep
  <2>1. stash' \in Seq(Nat) /\ Len(stash') = Len(stash) + Len(pending)
    BY <1>1, <1>3 DEF Keep
  <2>2. Len(stash') <= BufSize
    BY <1>1, <1>3, <2>1 DEF Keep, Room
  <2>3. offset' = writeOffset
    BY <1>1, <1>3, <2>1 DEF Keep
  <2>4. pending' = << >> /\ << >> \in Seq(Nat) /\ Len(<< >>) = 0
    BY <1>3 DEF Keep
  <2> QED
    BY <1>1, <1>3, <2>1, <2>2, <2>3, <2>4
    DEF Keep, ProducerSteps, AllCounted, NothingPending, OffsetsAgree
<1> QED
  BY <1>2, <1>3

\* The stash goes to the ring.
LEMMA PushStep == ASSUME IInv, Push PROVE IInv'
<1> USE SizesArePositive DEF IInv, Types
<1>1. /\ stash' = << >> /\ << >> \in Seq(Nat) /\ Len(<< >>) = 0
      /\ Len(stash) \in Nat /\ writeOffset' = writeOffset + Len(stash)
      /\ producer' \in {"copy", "ended"}
      /\ UNCHANGED <<made, pending, offset>>
  BY DEF Push
<1>2. AllCounted'
  BY <1>1 DEF Push, AllCounted
<1> QED
  BY <1>1, <1>2 DEF ProducerSteps, NothingPending, OffsetsAgree

\* A producer that fails writes no more.
LEMMA FailStep ==
  ASSUME IInv, Refused \/ ExtractFails \/ PushFails \/ ProducerStopsRun \/ ProducerStops
  PROVE  IInv'
BY DEF IInv, Types, ProducerSteps, AllCounted, NothingPending, OffsetsAgree, ProducerFails,
       Refused, ExtractFails, PushFails, ProducerStopsRun, ProducerStops

\* The next attempt counts from nothing.
LEMMA RetryStep == ASSUME IInv, Retry PROVE IInv'
<1>1. << >> \in Seq(Nat) /\ Len(<< >>) = 0
  OBVIOUS
<1> QED
  BY <1>1, SizesArePositive
  DEF IInv, Retry, Types, ProducerSteps, AllCounted, NothingPending, OffsetsAgree

\* The count of bytes.
THEOREM IInvHolds == Spec => []IInv
<1>1. Init => IInv
  <2>1. << >> \in Seq(Nat) /\ Len(<< >>) = 0
    OBVIOUS
  <2> QED
    BY <2>1, SizesArePositive
    DEF IInv, Init, Types, ProducerSteps, AllCounted, NothingPending, OffsetsAgree
<1>2. IInv /\ [Next]_vars => IInv'
  <2> SUFFICES ASSUME IInv, [Next]_vars PROVE IInv'
    OBVIOUS
  <2>1. CASE Producer
    BY <2>1, ExtractStep, CopyStep, PushStep, FailStep DEF Producer
  <2>2. CASE Consumer
    BY <2>2, Elsewhere
    DEF Consumer, NextComponent, ComponentFails, Pop, PopFails, ReadFromRingBuf, Write,
        WriteFails, PostProcess, VerifyFails, ConsumerStops, ConsumerStopsRun
  <2>3. CASE Retry
    BY <2>3, RetryStep
  <2>4. CASE UNCHANGED vars
    BY <2>4, Elsewhere DEF vars
  <2> QED
    BY <2>1, <2>2, <2>3, <2>4 DEF Next
<1> QED
  BY <1>1, <1>2, PTL DEF Spec

\* FlowDataStream::Write never takes a good buffer for a misplaced one: the
\* offset it is called with is the one it expects.
THEOREM OffsetsAlwaysAgree == Spec => []OffsetsAgree
<1>1. IInv => OffsetsAgree
  BY DEF IInv
<1> QED
  BY <1>1, IInvHolds, PTL

-----------------------------------------------------------------------------
(***************************************************************************)
(* What is on its way: a byte is the number of its place in the stream, so  *)
(* each place of the way holds the numbers that come after those further   *)
(* along it.                                                               *)
(***************************************************************************)
\* The bytes the consumer has read.
Taken == Start[comp] + Len(got)

\* The number of the last byte of a buffer.
Upto(b) == b[1] + Len(b) - 1

Kinds ==
  /\ consumer \in ConsumerSteps
  /\ comp \in 1..(Len(Sizes) + 1)
  /\ q \in Seq(Seq(Nat)) /\ out \in Seq(Nat) /\ got \in Seq(Nat)
  /\ avail \in Nat /\ avail <= Len(out) /\ put \in Nat
  /\ isStopRun \in BOOLEAN /\ isRetry \in BOOLEAN
  /\ DOMAIN image = Components

\* What the consumer has of the component, and what it has popped.
AtHand ==
  /\ consumer \in {"read", "verify"} => comp \in Components
  /\ consumer = "next" => got = << >> /\ put = 0
  /\ comp \in Components => Len(got) <= Sizes[comp]
  /\ consumer = "verify" => Len(got) = Sizes[comp]
  /\ \A i \in 1..Len(got) : got[i] = Start[comp] + i
  /\ \A i \in 1..avail : out[Len(out) - avail + i] = Taken + i

\* What is in the ring.
InRing ==
  /\ \A j \in 1..Len(q) : /\ Len(q[j]) > 0
                          /\ \A i \in 1..Len(q[j]) : q[j][i] = q[j][1] + (i - 1)
                          /\ Taken + avail < q[j][1] /\ Upto(q[j]) <= writeOffset
  /\ \A j, k \in 1..Len(q) : j < k => Upto(q[j]) < q[k][1]
  /\ \A j \in 1..Len(q) : j < Len(q) => q[j + 1][1] = Upto(q[j]) + 1
  /\ q # << >> => q[1][1] = Taken + avail + 1 /\ Upto(q[Len(q)]) = writeOffset
  /\ q = << >> => Taken + avail = writeOffset

\* What the producer has not written yet.
InStash ==
  /\ made <= Total /\ writeOffset <= Total
  /\ \A i \in 1..Len(stash) : stash[i] = writeOffset + i
  /\ \A i \in 1..Len(pending) : pending[i] = (made - Len(pending)) + i
  /\ producer \in {"write", "writeLast"} => Len(stash) > 0
  /\ producer = "writeLast" => made = Total

\* How a thread that has ended came to its end.
Endings ==
  /\ producer = "stop" => isStopRun
  /\ producer = "ended" /\ ~isStopRun => stash = << >> /\ writeOffset = Total
  /\ consumer = "ended" /\ ~isStopRun => comp = Len(Sizes) + 1 /\ got = << >>

\* What is behind the consumer, or recorded, is whole.
Images ==
  /\ records \subseteq Components \ {Header}
  /\ ~isRetry => \A c \in records : c < comp
  /\ \A c \in records : image[c] = Image(c)
  /\ \A c \in Components \ {Header} : c < comp => image[c] = Image(c)
  /\ consumer = "verify" /\ comp # Header => image[comp] = Image(comp)

Flow == Kinds /\ AtHand /\ InRing /\ InStash /\ Endings /\ Images

\* Induction, over a set and not over a formula.
LEMMA UpTo ==
  ASSUME NEW l \in Nat, NEW Good, 1 \in Good,
         \A i \in 1..l : i > 1 /\ i - 1 \in Good => i \in Good
  PROVE  1..l \subseteq Good
<1> DEFINE Bad == (1..l) \ Good
           R == OpToRel(<, Nat)
<1> SUFFICES ASSUME Bad # {} PROVE FALSE
  OBVIOUS
<1>1. R = {ss \in Nat \X Nat : ss[1] < ss[2]}
  BY DEF OpToRel
<1>2. IsWellFoundedOn(R, Nat)
  BY NatLessThanWellFounded
<1>3. Bad \subseteq Nat
  OBVIOUS
<1> HIDE DEF R, Bad
<1>4. PICK i \in Bad : \A k \in Bad : ~(<<k, i>> \in R)
  BY <1>2, <1>3, WFMin
<1>5. i \in 1..l /\ i # 1 /\ i \notin Good
  BY DEF Bad
<1>6. i - 1 \in Bad
  BY <1>5 DEF Bad
<1>7. i - 1 \in Nat /\ i \in Nat /\ i - 1 < i
  BY <1>5
<1>8. <<i - 1, i>> \in R
  BY <1>1, <1>7
<1> QED
  BY <1>4, <1>6, <1>8

\* Where the components start.
LEMMA Starts ==
  /\ Len(Sizes) \in Nat /\ Components = 1..Len(Sizes)
  /\ \A c \in Components : Sizes[c] \in Nat \ {0}
  /\ Start[1] = 0
  /\ \A c \in Components : Start[c + 1] = Start[c] + Sizes[c]
  /\ \A c \in 1..(Len(Sizes) + 1) : Start[c] \in Nat
<1> DEFINE l == Len(Sizes) + 1
           Loop(f, m) == f = [c \in 1..m |-> IF c = 1 THEN 0 ELSE f[c - 1] + Sizes[c - 1]]
           Good == {m \in 1..l : \E f : Loop(f, m)}
<1>1. /\ Len(Sizes) \in Nat /\ Components = 1..Len(Sizes)
      /\ \A c \in Components : Sizes[c] \in Nat \ {0}
  BY BinFlowAssumption DEF Components
<1>2. l \in Nat /\ 1 \in 1..l /\ l \in 1..l
  BY <1>1
<1>3. 1 \in Good
  <2>1. Loop([c \in 1..1 |-> 0], 1)
    <3>1. \A c \in 1..1 : c = 1
      OBVIOUS
    <3> QED
      BY <3>1
  <2> HIDE DEF Loop
  <2> QED
    BY <1>2, <2>1
<1>4. ASSUME NEW m \in 1..l, m > 1, m - 1 \in Good PROVE m \in Good
  <2>1. PICK f : Loop(f, m - 1)
    BY <1>4
  <2> DEFINE h == [c \in 1..m |-> IF c = m THEN f[m - 1] + Sizes[m - 1] ELSE f[c]]
  <2>2. ASSUME NEW c \in 1..m PROVE h[c] = IF c = 1 THEN 0 ELSE h[c - 1] + Sizes[c - 1]
    <3>1. CASE c = m
      <4>1. h[c - 1] = f[m - 1] /\ h[c] = f[m - 1] + Sizes[m - 1]
        BY <1>4, <3>1
      <4> HIDE DEF h
      <4> QED
        BY <1>4, <3>1, <4>1
    <3>2. CASE c # m
      <4>1. c \in 1..(m - 1) /\ h[c] = f[c]
        BY <3>2
      <4>2. f[c] = IF c = 1 THEN 0 ELSE f[c - 1] + Sizes[c - 1]
        BY <2>1, <4>1
      <4>3. c # 1 => h[c - 1] = f[c - 1]
        BY <4>1
      <4> HIDE DEF h
      <4> QED
        BY <4>1, <4>2, <4>3
    <3> QED
      BY <3>1, <3>2
  <2>3. Loop(h, m)
    <3>1. h = [c \in 1..m |-> h[c]]
      OBVIOUS
    <3> HIDE DEF h
    <3> QED
      BY <2>2, <3>1
  <2> HIDE DEF Loop, h
  <2> QED
    BY <2>3
<1>5. PICK f : Loop(f, l)
  <2>1. l \in Good
    <3> HIDE DEF Good, l
    <3> QED
      BY <1>2, <1>3, <1>4, UpTo
  <2> QED
    BY <2>1
<1>6. Loop(Start, l)
  <2>1. Start = CHOOSE g : Loop(g, l)
    BY DEF Start
  <2> HIDE DEF Loop, l
  <2> QED
    BY <1>5, <2>1
<1>7. \A c \in 1..l : Start[c] = IF c = 1 THEN 0 ELSE Start[c - 1] + Sizes[c - 1]
  BY <1>6
<1> DEFINE Number == {c \in 1..l : Start[c] \in Nat}
<1>8. 1..l \subseteq Number
  <2>1. 1 \in Number
    BY <1>2, <1>7
  <2>2. ASSUME NEW c \in 1..l, c > 1, c - 1 \in Number PROVE c \in Number
    <3>1. c - 1 \in Components
      BY <1>1, <2>2
    <3>2. Start[c] = Start[c - 1] + Sizes[c - 1] /\ Start[c - 1] \in Nat
      BY <1>7, <2>2
    <3> QED
      BY <1>1, <3>1, <3>2
  <2> HIDE DEF Number, l
  <2> QED
    BY <1>2, <2>1, <2>2, UpTo
<1>9. ASSUME NEW c \in Components PROVE Start[c + 1] = Start[c] + Sizes[c]
  <2>1. c + 1 \in 1..l /\ c + 1 # 1 /\ (c + 1) - 1 = c
    BY <1>1
  <2> HIDE DEF l
  <2> QED
    BY <1>7, <2>1
<1> QED
  BY <1>1, <1>2, <1>7, <1>8, <1>9

\* The bytes of s are those that follow the first k of the stream.
GoesOnFrom(s, k) == \A i \in 1..Len(s) : s[i] = k + i

\* What holds of a buffer's bytes holds of a part of it, and of two in a row.
LEMMA Joins ==
  ASSUME NEW a \in Seq(Nat), NEW b \in Seq(Nat), NEW k \in Nat, NEW m \in Nat,
         GoesOnFrom(a, k), m = k + Len(a), GoesOnFrom(b, m)
  PROVE  /\ a \o b \in Seq(Nat) /\ Len(a \o b) = Len(a) + Len(b)
         /\ GoesOnFrom(a \o b, k)
<1>1. a \o b \in Seq(Nat) /\ Len(a \o b) = Len(a) + Len(b) /\ Len(a) \in Nat /\ Len(b) \in Nat
  OBVIOUS
<1>2. ASSUME NEW i \in 1..(Len(a) + Len(b)) PROVE (a \o b)[i] = k + i
  <2>1. CASE i <= Len(a)
    <3>1. (a \o b)[i] = a[i] /\ i \in 1..Len(a)
      BY <1>1, <2>1
    <3> QED
      BY <3>1 DEF GoesOnFrom
  <2>2. CASE i > Len(a)
    <3>1. (a \o b)[i] = b[i - Len(a)] /\ i - Len(a) \in 1..Len(b)
      BY <1>1, <2>2
    <3>2. b[i - Len(a)] = m + (i - Len(a))
      BY <3>1 DEF GoesOnFrom
    <3> QED
      BY <1>1, <3>1, <3>2
  <2> QED
    BY <1>1, <2>1, <2>2
<1> QED
  BY <1>1, <1>2 DEF GoesOnFrom

LEMMA Parts ==
  ASSUME NEW b \in Seq(Nat), NEW k \in Nat, NEW m \in Nat, NEW n \in Nat, m <= n, n <= Len(b),
         \A i \in 1..Len(b) : b[i] = k + i
  PROVE  /\ SubSeq(b, m + 1, n) \in Seq(Nat) /\ Len(SubSeq(b, m + 1, n)) = n - m
         /\ \A i \in 1..(n - m) : SubSeq(b, m + 1, n)[i] = (k + m) + i
<1>1. SubSeq(b, m + 1, n) \in Seq(Nat) /\ Len(SubSeq(b, m + 1, n)) = n - m
  OBVIOUS
<1>2. ASSUME NEW i \in 1..(n - m) PROVE SubSeq(b, m + 1, n)[i] = (k + m) + i
  <2>1. SubSeq(b, m + 1, n)[i] = b[m + i] /\ m + i \in 1..Len(b)
    BY <1>1
  <2>2. b[m + i] = k + (m + i)
    BY <2>1
  <2> QED
    BY <2>1, <2>2
<1> QED
  BY <1>1, <1>2

\* A chunk is what comes next in the stream.
LEMMA FlowExtract == ASSUME IInv, Flow, Extract PROVE Flow'
<1>1. PICK k \in 1..MaxChunk : /\ made + k <= Total /\ made' = made + k
                               /\ pending' = Bytes(made, made + k)
  BY DEF Extract
<1>2. k \in Nat /\ made \in Nat
  BY SizesArePositive DEF IInv, Types
<1>3. Len(pending') = k /\ \A i \in 1..k : pending'[i] = made + i
  <2>1. pending' = [i \in 1..k |-> made + i]
    BY <1>1, <1>2 DEF Bytes
  <2> QED
    BY <1>2, <2>1
<1>4. UNCHANGED <<stash, writeOffset, ring, sink, isStopRun, result>> /\ producer' = "copy"
  BY DEF Extract
<1>5. InStash'
  <2>1. (made + k) - k = made
    BY <1>2
  <2> QED
    BY <1>1, <1>3, <1>4, <2>1 DEF Flow, InStash
<1> QED
  BY <1>4, <1>5
  DEF Flow, Kinds, AtHand, InRing, Endings, Images, Taken, Upto, ring, sink, result

\* The stash holds what comes before the rest of the chunk.
LEMMA FlowCopy == ASSUME IInv, Flow, Fill \/ Keep PROVE Flow'
<1>1. /\ stash \in Seq(Nat) /\ pending \in Seq(Nat) /\ made \in Nat /\ writeOffset \in Nat
      /\ made = writeOffset + Len(stash) + Len(pending)
      /\ Len(stash) <= BufSize /\ BufSize \in Nat \ {0}
  BY SizesArePositive DEF IInv, Types, AllCounted, Fill, Keep
<1>2. /\ UNCHANGED <<made, writeOffset, ring, sink, isStopRun, result>>
      /\ producer' \in {"write", "extract"}
  BY DEF Fill, Keep
<1>3. /\ Len(stash) \in Nat /\ Len(pending) \in Nat
      /\ \A i \in 1..Len(stash) : stash[i] = writeOffset + i
      /\ \A i \in 1..Len(pending) : pending[i] = (writeOffset + Len(stash)) + i
  <2>1. Len(stash) \in Nat /\ Len(pending) \in Nat
    BY <1>1
  <2>2. made - Len(pending) = writeOffset + Len(stash)
    BY <1>1, <2>1
  <2> QED
    BY <2>1, <2>2 DEF Flow, InStash
<1>4. ASSUME Fill PROVE InStash'
  <2> DEFINE a == SubSeq(pending, 1, Room)
             b == SubSeq(pending, Room + 1, Len(pending))
  <2>1. Room \in Nat /\ Room = BufSize - Len(stash) /\ Room <= Len(pending)
    BY <1>1, <1>3, <1>4 DEF Fill, Room
  <2>2. stash' = stash \o a /\ pending' = b
    BY <1>4 DEF Fill
  <2> DEFINE k == writeOffset + Len(stash)
  <2>3. k \in Nat /\ \A i \in 1..Len(pending) : pending[i] = k + i
    BY <1>1, <1>3
  <2> HIDE DEF k
  <2>4. /\ a \in Seq(Nat) /\ Len(a) = Room /\ \A i \in 1..Len(a) : a[i] = k + i
    <3>1. /\ SubSeq(pending, 0 + 1, Room) \in Seq(Nat) /\ Len(SubSeq(pending, 0 + 1, Room)) = Room - 0
          /\ \A i \in 1..(Room - 0) : SubSeq(pending, 0 + 1, Room)[i] = (k + 0) + i
      BY <1>1, <1>3, <2>1, <2>3, Parts
    <3> QED
      BY <2>1, <2>3, <3>1
  <2>5. /\ b \in Seq(Nat) /\ Len(b) = Len(pending) - Room
        /\ \A i \in 1..Len(b) : b[i] = (k + Room) + i
    <3>1. PICK l \in Nat : l = Len(pending)
      BY <1>3
    <3>2. /\ pending \in Seq(Nat) /\ k \in Nat /\ Room \in Nat /\ Room <= l /\ l <= Len(pending)
          /\ \A i \in 1..Len(pending) : pending[i] = k + i
      BY <1>1, <1>3, <2>1, <2>3, <3>1
    <3>3. /\ SubSeq(pending, Room + 1, l) \in Seq(Nat) /\ Len(SubSeq(pending, Room + 1, l)) = l - Room
          /\ \A i \in 1..(l - Room) : SubSeq(pending, Room + 1, l)[i] = (k + Room) + i
      BY <3>1, <3>2, Parts
    <3> QED
      BY <3>1, <3>3
  <2> HIDE DEF a, b
  <2>6. Len(stash \o a) = BufSize /\ \A i \in 1..Len(stash \o a) : (stash \o a)[i] = writeOffset + i
    <3>1. GoesOnFrom(stash, writeOffset) /\ GoesOnFrom(a, k)
      BY <1>3, <2>4 DEF GoesOnFrom
    <3>2. k = writeOffset + Len(stash)
      BY DEF k
    <3>3. Len(stash \o a) = Len(stash) + Len(a) /\ GoesOnFrom(stash \o a, writeOffset)
      BY <1>1, <2>3, <2>4, <3>1, <3>2, Joins
    <3> QED
      BY <1>1, <1>3, <2>1, <2>4, <3>3 DEF GoesOnFrom
  <2>7. made - Len(b) = k + Room
    BY <1>1, <1>3, <2>1, <2>5 DEF k
  <2>8. producer' = "write"
    BY <1>4 DEF Fill
  <2> QED
    BY <1>1, <1>2, <2>2, <2>5, <2>6, <2>7, <2>8 DEF Flow, InStash
<1>5. ASSUME Keep PROVE InStash'
  <2>1. /\ stash' = stash \o pending /\ pending' = << >> /\ Len(<< >>) = 0
        /\ producer' = IF Len(stash') = BufSize THEN "write" ELSE "extract"
    BY <1>5 DEF Keep
  <2>2. Len(stash') \in Nat /\ \A i \in 1..Len(stash') : stash'[i] = writeOffset + i
    <3>1. PICK k \in Nat : k = writeOffset + Len(stash)
      BY <1>1, <1>3
    <3>2. GoesOnFrom(stash, writeOffset) /\ GoesOnFrom(pending, k)
      BY <1>3, <3>1 DEF GoesOnFrom
    <3>3. /\ Len(stash \o pending) = Len(stash) + Len(pending)
          /\ GoesOnFrom(stash \o pending, writeOffset)
      BY <1>1, <3>1, <3>2, Joins
    <3> QED
      BY <1>3, <2>1, <3>3 DEF GoesOnFrom
  <2> QED
    BY <1>1, <1>2, <2>1, <2>2 DEF Flow, InStash
<1>6. InStash'
  BY <1>4, <1>5
<1>7. Kinds' /\ AtHand' /\ Images' /\ InRing'
  BY <1>2 DEF Flow, Kinds, AtHand, InRing, Images, Taken, Upto, ring, sink, result
<1>8. Endings'
  BY <1>2 DEF Flow, Endings, sink
<1> QED
  BY <1>6, <1>7, <1>8 DEF Flow

\* When all is extracted, what is not in the ring is in the stash.
LEMMA FlowFlush == ASSUME IInv, Flow, Flush PROVE Flow'
<1>1. /\ stash \in Seq(Nat) /\ made \in Nat /\ writeOffset \in Nat
      /\ pending = << >> /\ Len(<< >>) = 0 /\ made = writeOffset + Len(stash) + Len(pending)
  BY DEF IInv, Types, AllCounted, NothingPending, Flush
<1>2. /\ made = Total /\ UNCHANGED <<made, pending, stash, writeOffset, ring, sink, isStopRun, result>>
      /\ producer' = IF stash = << >> THEN "ended" ELSE "writeLast"
  BY DEF Flush
<1>3. stash = << >> => writeOffset = Total
  BY <1>1, <1>2
<1>4. stash # << >> => Len(stash) > 0
  BY <1>1
<1>5. InStash' /\ Endings'
  BY <1>2, <1>3, <1>4 DEF Flow, InStash, Endings, sink
<1> QED
  BY <1>2, <1>5 DEF Flow, Kinds, AtHand, InRing, Images, Taken, Upto, ring, sink, result

\* A producer that fails leaves everything where it is.
LEMMA FlowFail ==
  ASSUME IInv, Flow, Refused \/ ExtractFails \/ PushFails \/ ProducerStopsRun \/ ProducerStops
  PROVE  Flow'
<1>1. /\ UNCHANGED <<made, pending, stash, offset, writeOffset, q, out, sink, result>>
      /\ isStopRun' = isStopRun \/ isStopRun' = TRUE
      /\ \/ producer' = "stopRun" /\ isStopRun' = isStopRun
         \/ producer' = "stop" /\ isStopRun'
         \/ producer' = "ended" /\ isStopRun' /\ isStopRun
  <2>1. CASE Refused \/ ExtractFails \/ PushFails
    BY <2>1 DEF Refused, ExtractFails, PushFails, ProducerFails, ring
  <2>2. CASE ProducerStopsRun
    BY <2>2 DEF ProducerStopsRun, ring
  <2>3. CASE ProducerStops
    BY <2>3 DEF ProducerStops, Ring!Close, Flow, Endings
  <2> QED
    BY <2>1, <2>2, <2>3
<1>2. InStash' /\ Endings'
  BY <1>1 DEF Flow, Kinds, InStash, Endings, sink
<1>3. Kinds'
  BY <1>1 DEF Flow, Kinds, sink, result
<1> QED
  BY <1>1, <1>2, <1>3 DEF Flow, AtHand, InRing, Images, Taken, Upto, sink, result

\* The stash goes to the end of the ring.
LEMMA FlowPush == ASSUME IInv, Flow, Push PROVE Flow'
<1>1. /\ stash \in Seq(Nat) /\ made \in Nat /\ writeOffset \in Nat
      /\ made = writeOffset + Len(stash) + Len(pending) /\ Len(pending) \in Nat
      /\ Len(stash) \in Nat /\ Len(stash) > 0
      /\ \A i \in 1..Len(stash) : stash[i] = writeOffset + i
  BY DEF IInv, Types, AllCounted, Push, Flow, InStash
<1>2. /\ q' = Append(q, stash) /\ UNCHANGED <<out, closed, made, pending, offset, sink, isStopRun, result>>
      /\ writeOffset' = writeOffset + Len(stash) /\ stash' = << >> /\ Len(<< >>) = 0
      /\ producer' = IF producer = "writeLast" THEN "ended" ELSE "copy"
  BY DEF Push, Ring!Put
<1>3. /\ q \in Seq(Seq(Nat)) /\ Len(q) \in Nat /\ q' \in Seq(Seq(Nat)) /\ Len(q') = Len(q) + 1
      /\ \A j \in 1..Len(q) : q'[j] = q[j]
      /\ q'[Len(q) + 1] = stash
  BY <1>1, <1>2 DEF Flow, Kinds
<1>4. /\ stash[1] = writeOffset + 1 /\ Upto(stash) = writeOffset'
      /\ \A i \in 1..Len(stash) : stash[i] = stash[1] + (i - 1)
  <2>1. stash[1] = writeOffset + 1
    BY <1>1
  <2> QED
    BY <1>1, <1>2, <2>1 DEF Upto
<1>5. Taken + avail <= writeOffset /\ Taken + avail \in Nat
  <2>1. Taken + avail \in Nat
    BY Starts DEF Taken, Flow, Kinds
  <2>2. CASE q = << >>
    BY <1>1, <2>1, <2>2 DEF Flow, InRing
  <2>3. CASE q # << >>
    <3>1. Len(q) \in 1..Len(q) /\ q[Len(q)] \in Seq(Nat)
      BY <1>3, <2>3
    <3>2. /\ Len(q[Len(q)]) \in Nat /\ Len(q[Len(q)]) > 0 /\ q[Len(q)][1] \in Nat
          /\ Taken + avail < q[Len(q)][1] /\ Upto(q[Len(q)]) <= writeOffset
      BY <3>1 DEF Flow, InRing
    <3> QED
      BY <1>1, <2>1, <3>2 DEF Upto
  <2> QED
    BY <2>2, <2>3
<1>6. Taken' = Taken /\ avail' = avail
  BY <1>2 DEF Taken, sink
<1>7. InRing'
  <2>1. ASSUME NEW j \in 1..Len(q')
        PROVE  /\ Len(q'[j]) > 0
               /\ \A i \in 1..Len(q'[j]) : q'[j][i] = q'[j][1] + (i - 1)
               /\ Taken' + avail' < q'[j][1] /\ Upto(q'[j]) <= writeOffset'
    <3>1. CASE j \in 1..Len(q)
      <4>1. q'[j] = q[j] /\ q[j] \in Seq(Nat)
        BY <1>3, <3>1
      <4>2. /\ Len(q[j]) > 0
            /\ \A i \in 1..Len(q[j]) : q[j][i] = q[j][1] + (i - 1)
            /\ Taken + avail < q[j][1] /\ Upto(q[j]) <= writeOffset
        BY <3>1 DEF Flow, InRing
      <4>3. Upto(q[j]) \in Int
        BY <4>1, <4>2 DEF Upto
      <4> QED
        BY <1>1, <1>2, <1>6, <4>1, <4>2, <4>3
    <3>2. CASE j = Len(q) + 1
      <4>1. Taken + avail < writeOffset + 1 /\ writeOffset' \in Nat
        BY <1>1, <1>2, <1>5
      <4>2. q'[j] = stash
        BY <1>3, <3>2
      <4>3. /\ Len(stash) > 0 /\ Taken' + avail' < stash[1] /\ Upto(stash) <= writeOffset'
            /\ \A i \in 1..Len(stash) : stash[i] = stash[1] + (i - 1)
        BY <1>1, <1>4, <1>6, <4>1
      <4> QED
        BY <4>2, <4>3
    <3> QED
      BY <1>3, <3>1, <3>2
  <2>2. ASSUME NEW j \in 1..Len(q'), NEW k \in 1..Len(q'), j < k
        PROVE  Upto(q'[j]) < q'[k][1]
    <3>1. j \in 1..Len(q) /\ q'[j] = q[j] /\ q[j] \in Seq(Nat)
      BY <1>3, <2>2
    <3>2. CASE k \in 1..Len(q)
      BY <1>3, <2>2, <3>1, <3>2 DEF Flow, InRing
    <3>3. CASE k = Len(q) + 1
      <4>1. Upto(q[j]) <= writeOffset /\ Len(q[j]) > 0
        BY <3>1 DEF Flow, InRing
      <4>2. Upto(q[j]) \in Int
        BY <3>1, <4>1 DEF Upto
      <4>3. q'[j] = q[j] /\ q'[k][1] = writeOffset + 1
        BY <1>3, <1>4, <3>1, <3>3
      <4> QED
        BY <1>1, <4>1, <4>2, <4>3
    <3> QED
      BY <1>3, <3>2, <3>3
  <2>3. ASSUME NEW j \in 1..Len(q'), j < Len(q') PROVE q'[j + 1][1] = Upto(q'[j]) + 1
    <3>1. CASE j < Len(q)
      <4>1. j \in 1..Len(q) /\ j + 1 \in 1..Len(q)
        BY <1>3, <2>3, <3>1
      <4>2. q'[j + 1] = q[j + 1] /\ q'[j] = q[j]
        BY <1>3, <4>1
      <4> QED
        BY <3>1, <4>1, <4>2 DEF Flow, InRing
    <3>2. CASE j = Len(q)
      <4>1. q # << >> /\ q'[j] = q[Len(q)] /\ q'[j + 1] = stash
        BY <1>3, <3>2
      <4>2. Upto(q[Len(q)]) = writeOffset
        BY <4>1 DEF Flow, InRing
      <4> QED
        BY <1>4, <4>1, <4>2
    <3> QED
      BY <1>3, <2>3, <3>1, <3>2
  <2>4. q' # << >> /\ Upto(q'[Len(q')]) = writeOffset'
    BY <1>3, <1>4
  <2>5. q'[1][1] = Taken' + avail' + 1
    <3>1. CASE q = << >>
      <4>1. Len(q) = 0 /\ q'[1] = stash /\ Taken + avail = writeOffset
        BY <1>3, <3>1 DEF Flow, InRing
      <4> QED
        BY <1>4, <1>6, <4>1
    <3>2. CASE q # << >>
      <4>1. q'[1] = q[1] /\ q[1][1] = Taken + avail + 1
        BY <1>3, <3>2 DEF Flow, InRing
      <4> QED
        BY <1>6, <4>1
    <3> QED
      BY <3>1, <3>2
  <2> QED
    BY <2>1, <2>2, <2>3, <2>4, <2>5 DEF InRing
<1>8. InStash' /\ Endings'
  <2>1. writeOffset' <= Total
    <3>1. made <= Total /\ Total \in Nat
      BY Starts DEF Flow, InStash, Total
    <3>2. writeOffset + Len(stash) <= made
      BY <1>1
    <3> QED
      BY <1>1, <1>2, <3>1, <3>2
  <2>2. producer = "writeLast" => writeOffset' = Total
    <3>1. producer = "writeLast" => made = Total /\ pending = << >>
      BY DEF IInv, NothingPending, Flow, InStash
    <3> QED
      BY <1>1, <1>2, <3>1
  <2>3. pending' = pending /\ made' = made /\ made <= Total
    BY <1>2 DEF Flow, InStash
  <2> QED
    BY <1>2, <2>1, <2>2, <2>3 DEF Flow, InStash, Endings, sink
<1> QED
  BY <1>2, <1>3, <1>6, <1>7, <1>8 DEF Flow, Kinds, AtHand, Images, Taken, sink, result

\* The buffer that is popped is what comes next.
LEMMA FlowPop == ASSUME IInv, Flow, Pop PROVE Flow'
<1>1. /\ q # << >> /\ q' = Tail(q) /\ out' = q[1] /\ avail' = Len(q[1]) /\ avail = 0
      /\ UNCHANGED <<closed, source, consumer, comp, got, put, isStopRun, result>>
  <2>1. q # << >> /\ q' = Tail(q) /\ out' = Head(q)
    BY DEF Pop, Ring!Get
  <2>2. q \in Seq(Seq(Nat))
    BY DEF Flow, Kinds
  <2> QED
    BY <2>1, <2>2 DEF Pop, Ring!Get
<1>2. /\ Len(q) \in Nat /\ Len(q) >= 1 /\ Len(q') = Len(q) - 1 /\ q' \in Seq(Seq(Nat))
      /\ \A j \in 1..Len(q') : q'[j] = q[j + 1] /\ j + 1 \in 1..Len(q)
      /\ \A j \in 1..Len(q) : q[j] \in Seq(Nat)
  BY <1>1 DEF Flow, Kinds
<1>3. Taken \in Nat /\ Taken' = Taken
  <2>1. Taken \in Nat
    BY Starts DEF Taken, Flow, Kinds
  <2> QED
    BY <1>1, <2>1 DEF Taken
<1> DEFINE first == q[1]
<1>4. /\ first \in Seq(Nat) /\ Len(first) \in Nat /\ Len(first) > 0
      /\ first[1] = Taken + 1 /\ Upto(first) = Taken + Len(first)
      /\ \A i \in 1..Len(first) : first[i] = Taken + i
  <2>1. first \in Seq(Nat) /\ Len(first) \in Nat /\ 1 \in 1..Len(q)
    BY <1>2
  <2>2. /\ Len(first) > 0 /\ first[1] = Taken + avail + 1
        /\ \A i \in 1..Len(first) : first[i] = first[1] + (i - 1)
    BY <1>1, <2>1 DEF Flow, InRing
  <2>3. first[1] = Taken + 1
    BY <1>1, <1>3, <2>2
  <2>4. Upto(first) = Taken + Len(first)
    <3>1. Upto(first) = first[1] + Len(first) - 1
      BY DEF Upto
    <3> HIDE DEF first
    <3> QED
      BY <1>3, <2>1, <2>3, <3>1
  <2> HIDE DEF first
  <2> QED
    BY <1>3, <2>1, <2>2, <2>3, <2>4
<1>5. AtHand'
  <2>1. \A i \in 1..avail' : out'[Len(out') - avail' + i] = Taken' + i
    <3>1. out' = first /\ avail' = Len(first)
      BY <1>1
    <3> HIDE DEF first
    <3> SUFFICES ASSUME NEW i \in 1..Len(first) PROVE first[Len(first) - Len(first) + i] = Taken + i
      BY <1>3, <3>1
    <3>2. Len(first) - Len(first) + i = i
      BY <1>4
    <3> QED
      BY <1>4, <3>2
  <2> QED
    BY <1>1, <2>1 DEF Flow, AtHand
<1>6. InRing'
  <2>1. writeOffset' = writeOffset /\ avail' = Len(first)
    BY <1>1 DEF source
  <2>2. ASSUME NEW j \in 1..Len(q')
        PROVE  /\ Len(q'[j]) > 0
               /\ \A i \in 1..Len(q'[j]) : q'[j][i] = q'[j][1] + (i - 1)
               /\ Taken' + avail' < q'[j][1] /\ Upto(q'[j]) <= writeOffset'
    <3>1. q'[j] = q[j + 1] /\ j + 1 \in 1..Len(q) /\ 1 \in 1..Len(q) /\ 1 < j + 1
      BY <1>2
    <3>2. /\ Len(q[j + 1]) > 0 /\ Upto(q[j + 1]) <= writeOffset
          /\ \A i \in 1..Len(q[j + 1]) : q[j + 1][i] = q[j + 1][1] + (i - 1)
      BY <3>1 DEF Flow, InRing
    <3>3. Upto(first) < q[j + 1][1]
      BY <3>1 DEF Flow, InRing
    <3> HIDE DEF first
    <3> QED
      BY <1>3, <1>4, <2>1, <3>1, <3>2, <3>3
  <2>3. ASSUME NEW j \in 1..Len(q'), NEW k \in 1..Len(q'), j < k
        PROVE  Upto(q'[j]) < q'[k][1]
    <3>1. /\ q'[j] = q[j + 1] /\ q'[k] = q[k + 1] /\ j + 1 < k + 1
          /\ j + 1 \in 1..Len(q) /\ k + 1 \in 1..Len(q)
      BY <1>2, <2>3
    <3> QED
      BY <3>1 DEF Flow, InRing
  <2>4. ASSUME NEW j \in 1..Len(q'), j < Len(q') PROVE q'[j + 1][1] = Upto(q'[j]) + 1
    <3>1. j + 1 \in 1..Len(q') /\ j + 1 \in 1..Len(q) /\ j + 1 < Len(q)
      BY <1>2, <2>4
    <3>2. q'[j] = q[j + 1] /\ q'[j + 1] = q[(j + 1) + 1]
      BY <1>2, <3>1
    <3>3. q[(j + 1) + 1][1] = Upto(q[j + 1]) + 1
      BY <3>1 DEF Flow, InRing
    <3> QED
      BY <3>2, <3>3
  <2>5. Upto(q[Len(q)]) = writeOffset
    BY <1>1 DEF Flow, InRing
  <2>6. ASSUME q' # << >> PROVE q'[1][1] = Taken' + avail' + 1 /\ Upto(q'[Len(q')]) = writeOffset'
    <3>1. Len(q') >= 1 /\ Len(q') \in Nat /\ 1 < Len(q) /\ 1 \in 1..Len(q)
      BY <1>2, <2>6
    <3>2. q'[1] = q[1 + 1] /\ q'[Len(q')] = q[Len(q)]
      <4>1. 1 \in 1..Len(q') /\ Len(q') \in 1..Len(q') /\ Len(q') + 1 = Len(q)
        BY <1>2, <3>1
      <4> QED
        BY <1>2, <4>1
    <3>3. q[1 + 1][1] = Upto(first) + 1
      BY <3>1 DEF Flow, InRing
    <3> HIDE DEF first
    <3>4. q'[1][1] = Taken' + avail' + 1
      BY <1>3, <1>4, <2>1, <3>2, <3>3
    <3> QED
      BY <2>1, <2>5, <3>2, <3>4
  <2>7. ASSUME q' = << >> PROVE Taken' + avail' = writeOffset'
    <3>1. Len(q) = 1
      BY <1>2, <2>7
    <3>2. Upto(first) = writeOffset
      BY <2>5, <3>1
    <3> HIDE DEF first
    <3> QED
      BY <1>3, <1>4, <2>1, <3>2
  <2> QED
    BY <2>2, <2>3, <2>4, <2>6, <2>7 DEF InRing
<1>7. Kinds'
  <2>1. out' \in Seq(Nat) /\ avail' \in Nat /\ avail' <= Len(out')
    BY <1>1, <1>4
  <2> QED
    BY <1>1, <1>2, <2>1 DEF Flow, Kinds, result
<1> QED
  BY <1>1, <1>5, <1>6, <1>7 DEF Flow, InStash, Endings, Images, source, result

\* A read goes on where the last one ended.
LEMMA FlowRead == ASSUME IInv, Flow, ReadFromRingBuf PROVE Flow'
<1> DEFINE need == ReadEnd - Len(got)
           n    == IF need <= avail THEN need ELSE avail
           from == Len(out) - avail
           part == SubSeq(out, from + 1, from + n)
<1>1. /\ got' = got \o part /\ avail' = avail - n
      /\ consumer = "read" /\ avail > 0 /\ Len(got) < ReadEnd
      /\ UNCHANGED <<source, ring, consumer, comp, put, isStopRun, result>>
  BY DEF ReadFromRingBuf
<1>2. /\ comp \in Components /\ Start[comp] \in Nat /\ Sizes[comp] \in Nat
      /\ got \in Seq(Nat) /\ out \in Seq(Nat) /\ Len(got) \in Nat /\ Len(out) \in Nat
      /\ avail \in Nat /\ avail <= Len(out) /\ put \in Nat
  <2>1. comp \in Components
    BY <1>1 DEF Flow, AtHand
  <2> QED
    BY <2>1, Starts DEF Flow, Kinds
<1>3. ReadEnd \in Nat /\ ReadEnd <= Sizes[comp]
  BY <1>2, SizesArePositive DEF ReadEnd
<1>4. n \in Nat /\ n <= avail /\ n <= need /\ need \in Nat /\ from \in Nat /\ from + n <= Len(out)
  BY <1>1, <1>2, <1>3
<1>5. /\ \A i \in 1..Len(got) : got[i] = Start[comp] + i
      /\ \A i \in 1..avail : out[from + i] = Taken + i
  BY DEF Flow, AtHand
<1>6. Taken \in Nat /\ Taken = Start[comp] + Len(got)
  BY <1>2 DEF Taken
<1> HIDE DEF need, n, from
<1>7. /\ part \in Seq(Nat) /\ Len(part) = n
      /\ \A i \in 1..n : part[i] = Taken + i
  <2>1. part \in Seq(Nat) /\ Len(part) = n
    BY <1>2, <1>4
  <2>2. ASSUME NEW i \in 1..n PROVE part[i] = Taken + i
    <3>1. part[i] = out[from + i]
      BY <1>2, <1>4, <2>1
    <3>2. i \in 1..avail
      BY <1>2, <1>4
    <3> QED
      BY <1>5, <3>1, <3>2
  <2> QED
    BY <2>1, <2>2
<1> HIDE DEF part
<1>8. /\ got' \in Seq(Nat) /\ Len(got') = Len(got) + n
      /\ \A i \in 1..Len(got') : got'[i] = Start[comp] + i
  <2>1. GoesOnFrom(got, Start[comp]) /\ GoesOnFrom(part, Taken)
    BY <1>5, <1>7 DEF GoesOnFrom
  <2>2. /\ got \o part \in Seq(Nat) /\ Len(got \o part) = Len(got) + Len(part)
        /\ GoesOnFrom(got \o part, Start[comp])
    BY <1>2, <1>6, <1>7, <2>1, Joins
  <2> QED
    BY <1>1, <1>7, <2>2 DEF GoesOnFrom
<1>9. /\ Taken' = Taken + n /\ avail' \in Nat /\ Taken' + avail' = Taken + avail
      /\ comp' = comp /\ Taken' \in Nat
  <2>1. Taken' = Start[comp] + Len(got')
    BY <1>1 DEF Taken
  <2>2. Taken' = Taken + n
    <3>1. /\ Start[comp] \in Nat /\ Len(got) \in Nat /\ n \in Nat
          /\ Taken = Start[comp] + Len(got) /\ Len(got') = Len(got) + n
      BY <1>2, <1>4, <1>6, <1>8
    <3> QED
      BY <2>1, <3>1
  <2>3. avail' = avail - n /\ comp' = comp
    BY <1>1
  <2>4. n \in Nat /\ n <= avail /\ avail \in Nat /\ Taken \in Nat
    BY <1>2, <1>4, <1>6
  <2> QED
    BY <2>2, <2>3, <2>4
<1>10. AtHand'
  <2>1. out' = out
    BY <1>1 DEF ring
  <2>2. ASSUME NEW i \in 1..avail' PROVE out'[Len(out') - avail' + i] = Taken' + i
    <3>1. n + i \in 1..avail /\ Len(out) - avail' + i = from + (n + i)
      BY <1>1, <1>2, <1>4, <1>9 DEF from
    <3>2. out[from + (n + i)] = Taken + (n + i)
      BY <1>5, <3>1
    <3>3. Taken' + i = Taken + (n + i)
      BY <1>4, <1>6, <1>9
    <3>4. out'[Len(out') - avail' + i] = out[from + (n + i)]
      BY <2>1, <3>1
    <3> QED
      BY <3>2, <3>3, <3>4
  <2>3. Len(got') <= Sizes[comp]
    BY <1>2, <1>3, <1>4, <1>8 DEF need
  <2> QED
    BY <1>1, <1>2, <1>8, <2>2, <2>3 DEF AtHand
<1>11. InRing'
  BY <1>1, <1>9 DEF Flow, InRing, source, ring, Upto
<1>12. Kinds'
  <2>1. avail' <= Len(out')
    BY <1>1, <1>2, <1>4 DEF ring
  <2> QED
    BY <1>1, <1>8, <1>9, <2>1 DEF Flow, Kinds, ring, result
<1> QED
  BY <1>1, <1>10, <1>11, <1>12 DEF Flow, InStash, Endings, Images, source, ring, result

\* Steps of the consumer that move no byte.
LEMMA FlowTurn ==
  ASSUME IInv, Flow,
         NextComponent \/ ComponentFails \/ PopFails \/ VerifyFails \/ ConsumerStops \/ ConsumerStopsRun
  PROVE  Flow'
<1>1. /\ UNCHANGED <<source, q, out, avail, comp, got, put, result>>
      /\ isStopRun' = isStopRun \/ (isStopRun' = TRUE /\ consumer' = "ended")
      /\ \/ consumer = "next" /\ comp <= Len(Sizes) /\ consumer' = "read"
         \/ consumer = "next" /\ comp > Len(Sizes) /\ consumer' = "ended"
         \/ consumer' \in {"stop", "stopRun"}
         \/ consumer' = "ended" /\ isStopRun'
  <2>1. CASE NextComponent
    <3>1. comp \in 1..(Len(Sizes) + 1) /\ Len(Sizes) \in Nat
      BY Starts DEF Flow, Kinds
    <3> QED
      BY <2>1, <3>1 DEF NextComponent, ring
  <2>2. CASE ComponentFails \/ PopFails \/ VerifyFails
    BY <2>2 DEF ComponentFails, PopFails, VerifyFails, ring
  <2>3. CASE ConsumerStops
    BY <2>3 DEF ConsumerStops, Ring!Close
  <2>4. CASE ConsumerStopsRun
    BY <2>4 DEF ConsumerStopsRun, ring
  <2> QED
    BY <2>1, <2>2, <2>3, <2>4
<1>2. /\ comp \in 1..(Len(Sizes) + 1) /\ Len(Sizes) \in Nat
      /\ Components = 1..Len(Sizes)
  BY Starts DEF Flow, Kinds
<1>3. Kinds'
  BY <1>1 DEF Flow, Kinds, ConsumerSteps, result
<1>4. AtHand'
  <2>1. consumer' = "read" => comp \in Components
    BY <1>1, <1>2
  <2>2. consumer' \notin {"next", "verify"}
    BY <1>1
  <2> QED
    BY <1>1, <2>1, <2>2 DEF Flow, AtHand, Taken
<1>5. Endings'
  <2>1. consumer = "next" => got = << >>
    BY DEF Flow, AtHand
  <2>2. consumer' = "ended" /\ ~isStopRun' => comp = Len(Sizes) + 1 /\ got = << >>
    BY <1>1, <1>2, <2>1
  <2>3. isStopRun => isStopRun'
    BY <1>1
  <2> QED
    BY <1>1, <2>2, <2>3 DEF Flow, Endings, source
<1>6. Images'
  <2>1. consumer' # "verify"
    BY <1>1
  <2> QED
    BY <1>1, <2>1 DEF Flow, Images, result
<1> QED
  BY <1>1, <1>3, <1>4, <1>5, <1>6 DEF Flow, InRing, InStash, Taken, Upto, source

\* A component that has a partition is not recorded.
LEMMA NotRecorded == ASSUME Flow, HasPartition PROVE comp \notin records /\ comp # Header
<1>1. comp \in Nat
  BY Starts DEF Flow, Kinds
<1>2. ~isRetry => comp \notin records
  BY <1>1 DEF Flow, Images
<1> QED
  BY <1>2 DEF HasPartition, Skips, Flow, Kinds

\* What is read is the beginning of the component's image.
LEMMA GotIsImage ==
  ASSUME IInv, Flow, comp \in Components
  PROVE  /\ got = SubSeq(Image(comp), 1, Len(got))
         /\ Len(got) = Sizes[comp] => got = Image(comp)
<1>1. /\ Start[comp] \in Nat /\ Sizes[comp] \in Nat /\ got \in Seq(Nat) /\ Len(got) \in Nat
      /\ Len(got) <= Sizes[comp] /\ \A i \in 1..Len(got) : got[i] = Start[comp] + i
  BY Starts DEF Flow, Kinds, AtHand
<1>2. Image(comp) = [i \in 1..Sizes[comp] |-> Start[comp] + i]
  <2>1. (Start[comp] + Sizes[comp]) - Start[comp] = Sizes[comp]
    BY <1>1
  <2> QED
    BY <2>1 DEF Image, Bytes
<1>3. Image(comp) \in Seq(Nat) /\ Len(Image(comp)) = Sizes[comp]
  BY <1>1, <1>2
<1>4. \A i \in 1..Len(got) : got[i] = Image(comp)[i]
  BY <1>1, <1>2
<1> HIDE DEF Image
<1>5. got = [i \in 1..Len(got) |-> Image(comp)[i]]
  BY <1>1, <1>4
<1>6. SubSeq(Image(comp), 1, Len(got)) = [i \in 1..Len(got) |-> Image(comp)[i]]
  BY <1>1, <1>3
<1>7. Len(got) = Sizes[comp] => Image(comp) = [i \in 1..Len(got) |-> Image(comp)[i]]
  BY <1>2, <1>3
<1> QED
  BY <1>5, <1>6, <1>7

\* Only the component at hand is written, and it is whole when it is verified.
LEMMA FlowWrite == ASSUME IInv, Flow, Write \/ WriteFails PROVE Flow'
<1>1. comp \in Components /\ consumer = "read" /\ Len(got) \in Nat
  BY DEF Write, WriteFails, Flow, AtHand, Kinds
<1>2. /\ UNCHANGED <<source, ring, avail, comp, got, isStopRun, isRetry, records>>
      /\ consumer' \in {"read", "verify", "stop"}
      /\ consumer' = "verify" => Len(got) = Sizes[comp] /\ Write
      /\ put' \in Nat
  <2>1. put \in Nat
    BY DEF Flow, Kinds
  <2> QED
    BY <1>1, <2>1 DEF Write, WriteFails
<1>3. /\ DOMAIN image' = Components /\ \A c \in Components : c # comp => image'[c] = image[c]
      /\ ~HasPartition => image' = image
      /\ Write /\ HasPartition => image'[comp] = got
  <2>1. DOMAIN image = Components
    BY DEF Flow, Kinds
  <2> QED
    BY <1>1, <2>1 DEF Write, WriteFails
<1>4. \A c \in Components : image[c] = Image(c) /\ (c = comp => ~HasPartition) => image'[c] = Image(c)
  BY <1>3
<1>5. Images'
  <2>1. records \subseteq Components \ {Header} /\ comp \in Int
    BY Starts, <1>1 DEF Flow, Images
  <2>2. \A c \in records : image'[c] = Image(c)
    BY <1>4, <2>1, NotRecorded DEF Flow, Images
  <2>3. \A c \in Components \ {Header} : c < comp => image'[c] = Image(c)
    BY <1>4, <2>1 DEF Flow, Images
  <2>4. consumer' = "verify" /\ comp # Header => image'[comp] = Image(comp)
    <3>1. CASE HasPartition
      BY <1>1, <1>2, <1>3, <3>1, GotIsImage
    <3>2. CASE ~HasPartition /\ comp # Header
      <4>1. comp \in records
        BY <3>2 DEF HasPartition, Skips
      <4> QED
        BY <2>2, <4>1
    <3> QED
      BY <3>1, <3>2
  <2> QED
    BY <1>2, <2>2, <2>3, <2>4 DEF Flow, Images
<1>6. AtHand' /\ Kinds'
  BY <1>1, <1>2, <1>3 DEF Flow, AtHand, Kinds, ConsumerSteps, Taken, ring
<1> QED
  BY <1>2, <1>5, <1>6 DEF Flow, InRing, InStash, Endings, Taken, Upto, source, ring

\* The next component starts where this one ends.
LEMMA FlowPost == ASSUME IInv, Flow, PostProcess PROVE Flow'
<1>1. /\ comp \in Components /\ Len(got) = Sizes[comp] /\ comp \in Nat /\ comp' = comp + 1
      /\ got' = << >> /\ Len(<< >>) = 0 /\ put' = 0 /\ consumer = "verify" /\ consumer' = "next"
      /\ UNCHANGED <<source, ring, avail, isStopRun, isRetry, image>>
      /\ records' = records \/ (comp # Header /\ records' = records \cup {comp})
  BY Starts DEF PostProcess, Flow, AtHand
<1>2. Taken' = Taken /\ comp' \in 1..(Len(Sizes) + 1)
  <2>1. Start[comp + 1] = Start[comp] + Sizes[comp] /\ Start[comp + 1] \in Nat
    BY <1>1, Starts
  <2>2. Taken' = Start[comp + 1] + 0 /\ Taken = Start[comp] + Sizes[comp]
    BY <1>1 DEF Taken
  <2> QED
    BY <1>1, <2>1, <2>2, Starts
<1>3. Images'
  <2>1. comp # Header => image[comp] = Image(comp)
    BY <1>1 DEF Flow, Images
  <2>2. \A c \in records' : image[c] = Image(c)
    BY <1>1, <2>1 DEF Flow, Images
  <2>3. records' \subseteq Components \ {Header}
    BY <1>1 DEF Flow, Images
  <2>4. ~isRetry => \A c \in records' : c < comp + 1
    <3>1. \A c \in records : c \in Nat
      BY Starts DEF Flow, Images
    <3>2. ~isRetry => \A c \in records : c < comp
      BY DEF Flow, Images
    <3>3. ~isRetry => \A c \in records : c < comp + 1
      BY <1>1, <3>1, <3>2
    <3> QED
      BY <1>1, <3>3
  <2>5. ASSUME NEW c \in Components \ {Header}, c < comp + 1 PROVE image[c] = Image(c)
    <3>1. c = comp \/ c < comp
      BY <1>1, <2>5, Starts
    <3> QED
      BY <2>1, <3>1 DEF Flow, Images
  <2> QED
    BY <1>1, <2>2, <2>3, <2>4, <2>5 DEF Images
<1>4. AtHand'
  <2>1. comp' \in Components => Len(got') <= Sizes[comp']
    BY <1>1, Starts
  <2>2. \A i \in 1..avail : out[Len(out) - avail + i] = Taken + i
    BY DEF Flow, AtHand
  <2>3. \A i \in 1..Len(got') : got'[i] = Start[comp'] + i
    BY <1>1
  <2> QED
    BY <1>1, <1>2, <2>1, <2>2, <2>3 DEF AtHand, ring
<1>5. Kinds'
  <2>1. << >> \in Seq(Nat)
    OBVIOUS
  <2> QED
    BY <1>1, <1>2, <2>1 DEF Flow, Kinds, ConsumerSteps, ring
<1>6. InRing' /\ InStash' /\ Endings'
  BY <1>1, <1>2 DEF Flow, InRing, InStash, Endings, Upto, source, ring
<1> QED
  BY <1>3, <1>4, <1>5, <1>6 DEF Flow

\* Everything starts anew, but for what is recorded.
LEMMA FlowRetry == ASSUME IInv, Flow, Retry PROVE Flow'
<1>1. << >> \in Seq(Nat) /\ << >> \in Seq(Seq(Nat)) /\ Len(<< >>) = 0 /\ Total \in Nat
  BY Starts DEF Total
<1>2. 1 \in 1..(Len(Sizes) + 1) /\ \A c \in Components : c \in Nat /\ c >= 1 /\ Sizes[c] \in Nat
  BY Starts
<1>3. Taken' = 0
  BY <1>1, Starts DEF Retry, Taken
<1>4. Kinds'
  <2>1. /\ consumer' = "next" /\ comp' = 1 /\ q' = << >> /\ out' = << >> /\ got' = << >>
        /\ avail' = 0 /\ put' = 0 /\ DOMAIN image' = Components
    BY DEF Retry, Flow, Kinds
  <2>2. isStopRun' \in BOOLEAN /\ isRetry' \in BOOLEAN
    BY DEF Retry
  <2> QED
    BY <1>1, <1>2, <2>1, <2>2 DEF Kinds, ConsumerSteps
<1>7. AtHand'
  <2>1. 1 \in Components => 0 <= Sizes[1]
    BY <1>2
  <2> QED
    BY <1>1, <2>1 DEF Retry, AtHand
<1>5. InRing' /\ InStash' /\ Endings'
  BY <1>1, <1>3 DEF Retry, InRing, InStash, Endings
<1>6. Images'
  BY <1>2 DEF Retry, Flow, Images
<1> QED
  BY <1>4, <1>5, <1>6, <1>7 DEF Flow

\* Where each byte is, what is written, and how the threads came to their ends.
THEOREM FlowHolds == Spec => []Flow
<1>1. Init => Flow
  <2> SUFFICES ASSUME Init PROVE Flow
    OBVIOUS
  <2>1. << >> \in Seq(Nat) /\ << >> \in Seq(Seq(Nat)) /\ Len(<< >>) = 0 /\ Total \in Nat
    BY Starts DEF Total
  <2>2. 1 \in 1..(Len(Sizes) + 1) /\ \A c \in Components : c \in Nat /\ c >= 1 /\ Sizes[c] \in Nat
    BY Starts
  <2>3. Taken = 0
    BY <2>1, Starts DEF Init, Taken
  <2>4. Kinds
    <3>1. /\ consumer = "next" /\ comp = 1 /\ q = << >> /\ out = << >> /\ got = << >>
          /\ avail = 0 /\ put = 0 /\ DOMAIN image = Components
      BY DEF Init
    <3>2. isStopRun \in BOOLEAN /\ isRetry \in BOOLEAN
      BY DEF Init
    <3> QED
      BY <2>1, <2>2, <3>1, <3>2 DEF Kinds, ConsumerSteps
  <2>7. AtHand
    <3>1. 1 \in Components => 0 <= Sizes[1]
      BY <2>2
    <3> QED
      BY <2>1, <3>1 DEF Init, AtHand
  <2>5. InRing /\ InStash /\ Endings
    BY <2>1, <2>3 DEF Init, InRing, InStash, Endings
  <2>6. Images
    BY <2>2 DEF Init, Images
  <2> QED
    BY <2>4, <2>5, <2>6, <2>7 DEF Flow
<1>2. IInv /\ Flow /\ [Next]_vars => Flow'
  <2> SUFFICES ASSUME IInv, Flow, [Next]_vars PROVE Flow'
    OBVIOUS
  <2>1. CASE Producer
    BY <2>1, FlowExtract, FlowCopy, FlowFlush, FlowPush, FlowFail DEF Producer
  <2>2. CASE Consumer
    BY <2>2, FlowTurn, FlowPop, FlowRead, FlowWrite, FlowPost DEF Consumer
  <2>3. CASE Retry
    BY <2>3, FlowRetry
  <2>4. CASE UNCHANGED vars
    BY <2>4 DEF vars, source, ring, sink, result, Flow, Kinds, AtHand, InRing, InStash, Endings,
                Images, Taken, Upto
  <2> QED
    BY <2>1, <2>2, <2>3, <2>4 DEF Next
<1> QED
  BY <1>1, <1>2, IInvHolds, PTL DEF Spec

\* However the data is cut into chunks, buffers and reads, and whichever
\* components a retry passes over, each component gets its own bytes in order.
THEOREM BytesAreTheirOwn == Spec => []EachGetsItsOwn
<1>1. IInv /\ Flow => EachGetsItsOwn
  BY GotIsImage DEF EachGetsItsOwn
<1> QED
  BY <1>1, FlowHolds, IInvHolds, PTL

\* A record, and the success of the instruction, are given only for images that
\* are in their partitions as a whole.
THEOREM WhatCountsIsWhole == Spec => []ImagesAreWhole
<1>1. IInv /\ Flow => ImagesAreWhole
  <2> SUFFICES ASSUME IInv, Flow PROVE ImagesAreWhole
    OBVIOUS
  <2>1. RecordedIsWhole
    BY DEF Flow, Images, RecordedIsWhole
  <2>2. ASSUME Joined, ~isStopRun
        PROVE  /\ \A c \in Components \ {Header} : image[c] = Image(c)
               /\ stash = << >> /\ q = << >> /\ avail = 0
    <3>1. /\ stash = << >> /\ writeOffset = Total
          /\ comp = Len(Sizes) + 1 /\ got = << >> /\ Len(<< >>) = 0
      BY <2>2 DEF Joined, Flow, Endings
    <3>2. Taken = Total /\ Total \in Nat /\ avail \in Nat
      BY <3>1, Starts DEF Taken, Total, Flow, Kinds
    <3>3. \A c \in Components \ {Header} : image[c] = Image(c)
      BY <3>1, Starts DEF Flow, Images
    <3>4. q = << >>
      <4> SUFFICES ASSUME q # << >> PROVE FALSE
        OBVIOUS
      <4>1. q \in Seq(Seq(Nat)) /\ 1 \in 1..Len(q) /\ q[1] \in Seq(Nat)
        BY DEF Flow, Kinds
      <4>2. /\ Len(q[1]) > 0 /\ Len(q[1]) \in Nat /\ q[1][1] \in Nat
            /\ Taken + avail < q[1][1] /\ Upto(q[1]) <= writeOffset
        BY <4>1 DEF Flow, InRing
      <4> QED
        BY <3>1, <3>2, <4>2 DEF Upto
    <3>5. avail = 0
      BY <3>1, <3>2, <3>4 DEF Flow, InRing
    <3> QED
      BY <3>1, <3>3, <3>4, <3>5
  <2> QED
    BY <2>1, <2>2 DEF ImagesAreWhole, SuccessIsWhole
<1> QED
  BY <1>1, FlowHolds, IInvHolds, PTL
=============================================================================
