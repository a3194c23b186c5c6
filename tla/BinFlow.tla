------------------------------- MODULE BinFlow -------------------------------
(***************************************************************************)
(* UScriptInstructionBinFlowWrite: one thread extracts update.bin from the *)
(* package, gathers it into buffers of BufSize bytes and pushes them into  *)
(* a ring buffer; the other pops them, cuts the stream into components and *)
(* writes each to its partition.  Either may fail at any step, and must    *)
(* then bring the other one to an end.  A failed instruction is run again  *)
(* after a reboot, and passes over the partitions recorded as updated.     *)
(*                                                                         *)
(* The ring is what RingBuffer is shown to implement: BoundedFifo, which   *)
(* refuses a push only when it is full and closed, and a pop only when it  *)
(* is empty and closed.                                                    *)
(***************************************************************************)
EXTENDS Naturals, Sequences

CONSTANTS
  Sizes,        \* bytes of the header of update.bin and of each component
  BufSize,      \* STASH_BUFFER_SIZE, MAX_FLOW_BUFFER_SIZE and MAX_BUFFER_SIZE
  NumBuffers,   \* MAX_BUFFER_NUM
  MaxChunk,     \* the most bytes the decompression hands over at once
  MaxAttempts   \* bound: how often the instruction is run

Components == DOMAIN Sizes
Header == 1

\* The byte of the stream at which component c starts, less one.
Start[c \in 1..(Len(Sizes) + 1)] == IF c = 1 THEN 0 ELSE Start[c - 1] + Sizes[c - 1]
Total == Start[Len(Sizes) + 1]
Bytes(a, b) == [i \in 1..(b - a) |-> a + i]
Image(c) == Bytes(Start[c], Start[c] + Sizes[c])

ASSUME BinFlowAssumption ==
  /\ Sizes \in Seq(Nat \ {0}) /\ Sizes # <<>>
  /\ BufSize \in Nat \ {0} /\ NumBuffers \in Nat \ {0} /\ MaxAttempts \in Nat \ {0}
  /\ MaxChunk \in 1..BufSize    \* INFLATE_OUT_BUFFER_SIZE or MAX_BUFFER_SIZE

VARIABLES
  producer,     \* what the producer does next
  made,         \* bytes extracted so far
  pending,      \* those of the current call that are not yet in the stash
  stash,        \* stashBuffer_, up to stashDataSize_
  offset,       \* the offset Write is called with
  writeOffset,  \* writeOffset_ of the stream
  q, out, closed,   \* the ring; out is also buff_ of the stream
  avail,        \* avail_: bytes at the end of out that are not yet read
  consumer,     \* what the consumer does next
  comp,         \* the component under way
  got,          \* its bytes read so far
  put,          \* how many of them its writer was given
  isStopRun,    \* isStopRun_
  isRetry,      \* env.IsRetry()
  records,      \* persistent: the partitions recorded as updated
  image,        \* persistent: what the partitions hold
  attempts      \* history: how often the instruction was run

source == <<producer, made, pending, stash, offset, writeOffset>>
ring   == <<q, out, closed>>
sink   == <<avail, consumer, comp, got, put>>
result == <<isRetry, records, image, attempts>>
vars   == <<source, ring, sink, isStopRun, result>>

Ring == INSTANCE BoundedFifo WITH Data <- Seq(1..Total), Num <- NumBuffers

ProducerSteps == {"extract", "copy", "write", "writeLast", "stopRun", "stop", "ended"}
ConsumerSteps == {"next", "read", "verify", "stop", "stopRun", "ended"}

TypeOK ==
  /\ producer \in ProducerSteps /\ consumer \in ConsumerSteps
  /\ made \in 0..Total /\ offset \in 0..Total /\ writeOffset \in 0..Total
  /\ Len(pending) <= MaxChunk /\ Len(stash) <= BufSize
  /\ Len(q) <= NumBuffers /\ \A i \in DOMAIN q : Len(q[i]) \in 1..BufSize
  /\ avail \in 0..Len(out)
  /\ comp \in 1..(Len(Sizes) + 1) /\ put \in 0..Len(got)
  /\ comp \in Components => Len(got) <= Sizes[comp]
  /\ {closed, isStopRun, isRetry} \subseteq BOOLEAN
  /\ records \subseteq Components
  /\ attempts \in 1..MaxAttempts

Init ==
  /\ producer = "extract" /\ made = 0 /\ pending = <<>> /\ stash = <<>>
  /\ offset = 0 /\ writeOffset = 0
  /\ q = <<>> /\ out = <<>> /\ closed = FALSE
  /\ avail = 0 /\ consumer = "next" /\ comp = 1 /\ got = <<>> /\ put = 0
  /\ isStopRun = FALSE
  /\ isRetry = FALSE /\ records = {} /\ image = [c \in Components |-> <<>>]
  /\ attempts = 1

-----------------------------------------------------------------------------
(***************************************************************************)
(* The producer: ExtractBinFile, called back in UnCompressDataProducer.    *)
(***************************************************************************)
ProducerFails == producer' = "stopRun"

\* isStopRun_ is a plain bool that the other thread sets: it may be seen late.
Refused ==
  /\ producer = "extract" /\ isStopRun
  /\ ProducerFails
  /\ UNCHANGED <<made, pending, stash, offset, writeOffset, ring, sink, isStopRun, result>>

\* The data cannot be read, or are not what the package says.
ExtractFails ==
  /\ producer = "extract"
  /\ ProducerFails
  /\ UNCHANGED <<made, pending, stash, offset, writeOffset, ring, sink, isStopRun, result>>

Extract ==
  /\ producer = "extract"
  /\ \E n \in 1..MaxChunk :
       /\ made + n <= Total
       /\ made' = made + n /\ pending' = Bytes(made, made + n)
  /\ producer' = "copy"
  /\ UNCHANGED <<stash, offset, writeOffset, ring, sink, isStopRun, result>>

Room == BufSize - Len(stash)

\* A chunk that does not fit fills the buffer, which is written; the chunk is
\* not longer than a buffer, so this happens once per call.
Fill ==
  /\ producer = "copy" /\ Len(pending) > Room
  /\ stash' = stash \o SubSeq(pending, 1, Room)
  /\ pending' = SubSeq(pending, Room + 1, Len(pending))
  /\ offset' = made - Len(pending) - Len(stash)
  /\ producer' = "write"
  /\ UNCHANGED <<made, writeOffset, ring, sink, isStopRun, result>>

Keep ==
  /\ producer = "copy" /\ Len(pending) <= Room
  /\ stash' = stash \o pending
  /\ pending' = <<>>
  /\ offset' = made - Len(stash')
  /\ producer' = IF Len(stash') = BufSize THEN "write" ELSE "extract"
  /\ UNCHANGED <<made, writeOffset, ring, sink, isStopRun, result>>

\* Everything is extracted: what the stash still holds is written.
Flush ==
  /\ producer = "extract" /\ made = Total
  /\ offset' = Total - Len(stash)
  /\ producer' = IF stash = <<>> THEN "ended" ELSE "writeLast"
  /\ UNCHANGED <<made, pending, stash, writeOffset, ring, sink, isStopRun, result>>

\* FlowDataStream::Write: Push waits while the ring is full and open.
Push ==
  /\ producer \in {"write", "writeLast"} /\ offset = writeOffset
  /\ Ring!Put(stash)
  /\ writeOffset' = writeOffset + Len(stash)
  /\ stash' = <<>>
  /\ producer' = IF producer = "writeLast" THEN "ended" ELSE "copy"
  /\ UNCHANGED <<made, pending, offset, sink, isStopRun, result>>

PushFails ==
  /\ producer \in {"write", "writeLast"}
  /\ offset # writeOffset \/ (Len(q) = NumBuffers /\ closed)
  /\ ProducerFails
  /\ UNCHANGED <<made, pending, stash, offset, writeOffset, ring, sink, isStopRun, result>>

\* The scope guard failExecute of ExtractBinFile.
ProducerStopsRun ==
  /\ producer = "stopRun"
  /\ isStopRun' = TRUE
  /\ producer' = "stop"
  /\ UNCHANGED <<made, pending, stash, offset, writeOffset, ring, sink, result>>

ProducerStops ==
  /\ producer = "stop"
  /\ Ring!Close
  /\ producer' = "ended"
  /\ UNCHANGED <<made, pending, stash, offset, writeOffset, sink, isStopRun, result>>

-----------------------------------------------------------------------------
(***************************************************************************)
(* The consumer: LoadPackageWithStream reads the header, then              *)
(* ComponentProcess runs once per component.                               *)
(***************************************************************************)
\* As if a retry passed over every component.
SkipsOnRetry == comp # Header /\ isRetry

Skips == comp # Header /\ isRetry /\ comp \in records

\* FlowDataStream::Read returns when it has all it was asked for.
ReadEnd == LET n == put + BufSize IN IF n < Sizes[comp] THEN n ELSE Sizes[comp]

\* As if a component that is passed over were not read from the stream.
NextUnread ==
  /\ consumer = "next"
  /\ IF comp > Len(Sizes) THEN consumer' = "ended" /\ comp' = comp
     ELSE IF Skips THEN comp' = comp + 1 /\ consumer' = consumer
     ELSE consumer' = "read" /\ comp' = comp
  /\ UNCHANGED <<source, ring, avail, got, put, isStopRun, result>>

NextComponent ==
  /\ consumer = "next"
  /\ consumer' = IF comp > Len(Sizes) THEN "ended" ELSE "read"
  /\ UNCHANGED <<source, ring, avail, comp, got, put, isStopRun, result>>

\* The processor is unknown, or its PreProcess fails.
ComponentFails ==
  /\ consumer = "next" /\ comp <= Len(Sizes)
  /\ consumer' = "stop"
  /\ UNCHANGED <<source, ring, avail, comp, got, put, isStopRun, result>>

Pop ==
  /\ consumer = "read" /\ avail = 0 /\ Len(got) < ReadEnd
  /\ Ring!Get
  /\ avail' = Len(out')
  /\ UNCHANGED <<source, consumer, comp, got, put, isStopRun, result>>

PopFails ==
  /\ consumer = "read" /\ avail = 0 /\ Len(got) < ReadEnd
  /\ q = <<>> /\ closed
  /\ consumer' = "stop"
  /\ UNCHANGED <<source, ring, avail, comp, got, put, isStopRun, result>>

ReadFromRingBuf ==
  /\ consumer = "read" /\ avail > 0 /\ Len(got) < ReadEnd
  /\ LET need == ReadEnd - Len(got)
         n    == IF need <= avail THEN need ELSE avail
         from == Len(out) - avail
     IN /\ got' = got \o SubSeq(out, from + 1, from + n)
        /\ avail' = avail - n
  /\ UNCHANGED <<source, ring, consumer, comp, put, isStopRun, result>>

\* A component that is passed over, and the header, go to no partition.
HasPartition == comp # Header /\ ~Skips

Write ==
  /\ consumer = "read" /\ put < Len(got) /\ Len(got) = ReadEnd
  /\ put' = Len(got)
  /\ image' = IF HasPartition THEN [image EXCEPT ![comp] = got] ELSE image
  /\ consumer' = IF Len(got) = Sizes[comp] THEN "verify" ELSE "read"
  /\ UNCHANGED <<source, ring, avail, comp, got, isStopRun, isRetry, records, attempts>>

\* The block's digest is wrong, or a part of it cannot be written.
WriteFails ==
  /\ consumer = "read" /\ put < Len(got) /\ Len(got) = ReadEnd
  /\ \/ image' = image
     \/ HasPartition /\ \E n \in put..(Len(got) - 1) :
                         image' = [image EXCEPT ![comp] = SubSeq(got, 1, n)]
  /\ consumer' = "stop"
  /\ UNCHANGED <<source, ring, avail, comp, got, put, isStopRun, isRetry, records, attempts>>

\* PostProcess, of SkipImgProcessor too; whether the record could be written
\* is not looked at.
PostProcess ==
  /\ consumer = "verify"
  /\ \/ comp # Header /\ records' = records \cup {comp}
     \/ records' = records
  /\ comp' = comp + 1 /\ got' = <<>> /\ put' = 0
  /\ consumer' = "next"
  /\ UNCHANGED <<source, ring, avail, isStopRun, isRetry, image, attempts>>

\* The digest of the whole, or the signature of the header, is wrong.
VerifyFails ==
  /\ consumer = "verify"
  /\ consumer' = "stop"
  /\ UNCHANGED <<source, ring, avail, comp, got, put, isStopRun, result>>

\* As if the ring were not closed.
ConsumerLeaves ==
  /\ consumer = "stop"
  /\ consumer' = "stopRun"
  /\ UNCHANGED <<source, ring, avail, comp, got, put, isStopRun, result>>

\* As if the second guard were cancelled together with the first.
ConsumerStaysSilent ==
  /\ consumer = "stopRun"
  /\ consumer' = "ended"
  /\ UNCHANGED <<source, ring, avail, comp, got, put, isStopRun, result>>

\* The scope guards streamStop and failExecute of ProcessBinFile, in the order
\* in which they are destroyed.
ConsumerStops ==
  /\ consumer = "stop"
  /\ Ring!Close
  /\ consumer' = "stopRun"
  /\ UNCHANGED <<source, avail, comp, got, put, isStopRun, result>>

ConsumerStopsRun ==
  /\ consumer = "stopRun"
  /\ isStopRun' = TRUE
  /\ consumer' = "ended"
  /\ UNCHANGED <<source, ring, avail, comp, got, put, result>>

-----------------------------------------------------------------------------
Joined == producer = "ended" /\ consumer = "ended"

\* PROCESS_BIN_FAIL_RETRY: the device reboots and runs the instruction again.
Retry ==
  /\ Joined /\ isStopRun /\ attempts < MaxAttempts
  /\ producer' = "extract" /\ made' = 0 /\ pending' = <<>> /\ stash' = <<>>
  /\ offset' = 0 /\ writeOffset' = 0
  /\ q' = <<>> /\ out' = <<>> /\ closed' = FALSE
  /\ avail' = 0 /\ consumer' = "next" /\ comp' = 1 /\ got' = <<>> /\ put' = 0
  /\ isStopRun' = FALSE
  /\ isRetry' = TRUE /\ attempts' = attempts + 1
  /\ UNCHANGED <<records, image>>

Producer == \/ Refused \/ ExtractFails \/ Extract \/ Fill \/ Keep \/ Flush
            \/ Push \/ PushFails \/ ProducerStopsRun \/ ProducerStops

Consumer == \/ NextComponent \/ ComponentFails \/ Pop \/ PopFails
            \/ ReadFromRingBuf \/ Write \/ WriteFails \/ PostProcess
            \/ VerifyFails \/ ConsumerStops \/ ConsumerStopsRun

Next == Producer \/ Consumer \/ Retry

Spec == Init /\ [][Next]_vars

\* The scheduler runs a thread that can run.
FairSpec == Spec /\ WF_vars(Producer) /\ WF_vars(Consumer)

-----------------------------------------------------------------------------
\* However the chunks, the buffers and the reads are cut, and whichever
\* components are passed over, a component gets its own bytes, in order.
EachGetsItsOwn ==
  consumer # "next" /\ comp \in Components => got = SubSeq(Image(comp), 1, Len(got))

\* UnCompressDataProducer and the stream agree on the offset of every buffer:
\* Write never takes a good buffer for a misplaced one.
OffsetsAgree == producer \in {"write", "writeLast"} => offset = writeOffset

\* A partition that a retry may pass over holds its whole image.
RecordedIsWhole == \A c \in records : image[c] = Image(c)

\* The instruction reports success only when neither thread has failed: every
\* component is in its partition, and nothing is left on the way.
SuccessIsWhole ==
  Joined /\ ~isStopRun =>
    /\ \A c \in Components \ {Header} : image[c] = Image(c)
    /\ stash = <<>> /\ q = <<>> /\ avail = 0

\* ImagesAreWhole: neither a record (PartitionRecord, which a retry of the update trusts)
\* nor the result of the instruction is given for an image that is not written as a whole.
ImagesAreWhole == RecordedIsWhole /\ SuccessIsWhole

\* Whichever thread fails, and wherever the other one waits, both end.
Ends == []<>Joined
=============================================================================
