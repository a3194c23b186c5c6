---------------------------- MODULE StreamUpdate ----------------------------
(***************************************************************************)
(* The A/B streaming update: ProcessUpdaterStream reads update.bin chunk by *)
(* chunk and hands every chunk to BinChunkUpdate, which gathers them in a   *)
(* buffer, executes each record as soon as all of it is there, and at the   *)
(* end compares the partitions with the signed hashes.                      *)
(*                                                                         *)
(* The buffer always holds a window of the file, so the file stands for its *)
(* content: base is where the window starts and fed where it ends.  What is *)
(* read behind the window is whatever was in the buffer before: stale.      *)
(***************************************************************************)
EXTENDS Naturals, Sequences, FiniteSets, SequencesExt

CONSTANTS
  Files,     \* the files: records [head, cmds, name, signed, intact]
  Zips,      \* bytes of the zip header in front of update.bin
  Chunks,    \* how many bytes a read returns: BUFFER_SIZE
  MaxBuf     \* maxBufSize_

HH == 4          \* sizeof(PkgTlvHH): a type of two bytes, a length of two
HI == 6          \* sizeof(PkgTlvHI): a type of two bytes, a length of four
CmdLen  == 1     \* bytes of a line of the transfer list
HashLen == 1     \* bytes of a hash
SizeLen == 1     \* bytes of the length of an image
SignLen == 1     \* bytes of the signature

Partitions(f) == {f.cmds[i].part : i \in DOMAIN f.cmds}

\* The bytes of a data record: partition, command, data.
DataLen(f, i) == (HH + f.name) + (HH + CmdLen) + (HI + f.cmds[i].size)

\* The bytes of the hash record: per partition its name, its hash and its size.
HashPart(f) == (HH + f.name) + (HH + HashLen) + (HH + SizeLen)
HashStart(f, k) == (HH + 2) + (k - 1) * HashPart(f)
HashRecord(f) == HashStart(f, Cardinality(Partitions(f)) + 1) + HI + SignLen

\* Record 0 is the head, then come the commands, and the hashes are the last.
HashAt(f) == Len(f.cmds) + 1
RecLen(f, n) ==
  IF n = 0 THEN f.head ELSE IF n = HashAt(f) THEN HashRecord(f) ELSE DataLen(f, n)
Pos(f, n) ==
  LET pos[k \in 0..(HashAt(f) + 1)] == IF k = 0 THEN f.zip ELSE pos[k - 1] + RecLen(f, k - 1)
  IN  pos[n]
FileLen(f) == Pos(f, HashAt(f) + 1)

\* The packaging splits what is larger, and the head comes in one chunk.
ASSUME StreamUpdateAssumption ==
  /\ MaxBuf \in Nat /\ Chunks \subseteq 1..MaxBuf /\ Zips \subseteq Nat
  /\ \A f \in Files :
       /\ f.head \in Nat /\ f.name \in Nat
       /\ f.cmds \in Seq([part : Partitions(f), size : Nat])
       /\ \A n \in 1..HashAt(f) : RecLen(f, n) <= MaxBuf

VARIABLES
  file,         \* the file under way, with its zip header
  end,          \* where it ends: FileLen, or less if it is cut short
  chunk,        \* how much a read returns
  seeks,        \* whether the caller passes over the zip header itself
  pc,           \* what is done next
  taken,        \* how far the file is read
  fed,          \* how far it is in the buffer
  base,         \* the byte at the start of the buffer
  at,           \* the record at offset_
  skip,         \* skipLength_
  need,         \* updateInfo_.needNewData
  step,         \* updateInfo_.updateStep
  cur,          \* updateInfo_.curPartition
  open,         \* whether its device is open and not yet synced
  done,         \* history: the commands executed, each with the device it went to
  ret,          \* what the last chunk returned
  result,       \* what the process returns
  trouble       \* history: "io" if a call failed, "stale" if stale bytes were read

input  == <<file, end, chunk, seeks>>
window == <<taken, fed, base, skip>>
parser == <<at, need, step, cur, open, done>>
vars   == <<input, pc, window, parser, ret, result, trouble>>

NoPart == "none"
Curlen == fed - base
Avail  == fed - Pos(file, at)       \* curlen_ - offset_

TypeOK ==
  /\ file.zip \in Zips /\ end \in 0..FileLen(file) /\ chunk \in Chunks /\ seeks \in BOOLEAN
  /\ pc \in {"load", "seek", "read", "skip", "add", "buffer", "data", "move", "ended"}
  /\ base <= fed /\ fed <= taken /\ skip \in 0..file.zip
  /\ at \in 0..(HashAt(file) + 1)
  /\ need \in BOOLEAN /\ step \in {"PRE", "DO", "POST"}
  /\ cur \in Partitions(file) \cup {NoPart} /\ open \in BOOLEAN
  /\ ret \in {"none", "success", "failure", "complete"}
  /\ result \in {"none", "UPDATE_SUCCESS", "UPDATE_ERROR"}
  /\ trouble \subseteq {"io", "stale"}

Init ==
  /\ \E f \in Files, z \in Zips :
       file = [zip |-> z, head |-> f.head, cmds |-> f.cmds, name |-> f.name,
               signed |-> f.signed, intact |-> f.intact]
  /\ end \in (file.zip + 1)..FileLen(file)
  /\ chunk \in Chunks /\ seeks \in BOOLEAN
  /\ (~seeks => file.zip <= end)
  /\ pc = (IF seeks THEN "load" ELSE "read")
  /\ taken = 0 /\ fed = 0 /\ base = 0 /\ skip = 0
  /\ at = 0 /\ need = FALSE /\ step = "PRE" /\ cur = NoPart /\ open = FALSE
  /\ done = <<>> /\ ret = "none" /\ result = "none" /\ trouble = {}

-----------------------------------------------------------------------------
(***************************************************************************)
(* The process.                                                            *)
(***************************************************************************)
Finish(r) == pc' = "ended" /\ result' = r

\* ProcessUpdaterStream: the package is loaded, of which the head is verified,
\* and the partition table written; each may fail.
Load ==
  /\ pc = "load"
  /\ \/ pc' = "seek" /\ UNCHANGED <<result, trouble>>
     \/ Finish("UPDATE_ERROR") /\ trouble' = trouble \cup {"io"}
  /\ UNCHANGED <<input, window, parser, ret>>

\* ProcessUpdateFile passes over the zip header; a file without one is refused.
Seek ==
  /\ pc = "seek"
  /\ IF file.zip = 0 THEN Finish("UPDATE_ERROR") /\ UNCHANGED window
     ELSE /\ pc' = "read" /\ taken' = file.zip /\ fed' = file.zip /\ base' = file.zip
          /\ UNCHANGED <<skip, result>>
  /\ UNCHANGED <<input, parser, ret, trouble>>

Smaller(a, b) == IF a < b THEN a ELSE b

\* One turn of ProcessUpdateFile's loop, up to ProcessHeader: the first chunk of
\* all tells how much of a zip header there is to pass over.
Read ==
  /\ pc = "read" /\ ret \in {"none", "success"} /\ taken < end
  /\ taken' = Smaller(taken + chunk, end)
  /\ skip' = (IF ret = "none" /\ ~seeks THEN file.zip ELSE skip)
  /\ pc' = (IF skip' > 0 THEN "skip" ELSE "add")
  /\ UNCHANGED <<input, fed, base, parser, ret, result, trouble>>

\* The file has been read, or a chunk said that it was the last: in either case
\* the update has succeeded.
ReadNoMore ==
  /\ pc = "read"
  /\ \/ ret \in {"none", "success"} /\ taken >= end /\ Finish("UPDATE_SUCCESS")
     \/ ret = "complete" /\ Finish("UPDATE_SUCCESS")
     \/ ret = "failure" /\ Finish("UPDATE_ERROR")
  /\ UNCHANGED <<input, window, parser, ret, trouble>>

-----------------------------------------------------------------------------
(***************************************************************************)
(* StartBinChunkUpdate.                                                    *)
(***************************************************************************)
Return(r) == pc' = "read" /\ ret' = r

\* SkipTargetData: what follows the zip header goes into the buffer, and is
\* looked at when the next chunk comes.
SkipTargetData ==
  /\ pc = "skip"
  /\ fed' = taken
  /\ IF skip < taken - fed
     THEN base' = fed + skip /\ skip' = 0
     ELSE base' = taken /\ skip' = skip - (taken - fed)
  /\ Return("success")
  /\ UNCHANGED <<input, taken, parser, result, trouble>>

\* As if a request for new data were never taken back.
AddRemainDataInNeed ==
  /\ pc = "add"
  /\ fed' = Smaller(taken, base + MaxBuf)
  /\ ret' = "success" /\ pc' = "buffer"
  /\ UNCHANGED <<input, taken, base, skip, parser, result, trouble>>

\* AddRemainData: as much of the chunk as there is room for.
AddRemainData ==
  /\ pc = "add"
  /\ fed' = Smaller(taken, base + MaxBuf)
  /\ need' = FALSE /\ ret' = "success" /\ pc' = "buffer"
  /\ UNCHANGED <<input, taken, base, skip, at, step, cur, open, done, result, trouble>>

\* MoveRemainingData, and the end of the loop over the chunk.
MoveRemainingData ==
  /\ pc = "move"
  /\ base' = (IF Avail > 0 THEN Pos(file, at) ELSE fed)
  /\ pc' = (IF fed < taken THEN "add" ELSE "read")
  /\ UNCHANGED <<input, taken, fed, skip, parser, ret, result, trouble>>

\* The end of ProcessBufferData's loop.
Used ==
  /\ pc = "buffer" /\ (Avail = 0 \/ need)
  /\ pc' = "move"
  /\ UNCHANGED <<input, window, parser, ret, result, trouble>>

Ready == pc = "buffer" /\ Avail > 0 /\ ~need

Fail(why) == Return("failure") /\ trouble' = trouble \cup why

\* One byte is enough to look at the type, which has two: the other is stale, and
\* unless it happens to be zero the type is none that is known.
UpdateBinOther ==
  /\ Ready /\ Avail = 1
  /\ Fail({"stale"})
  /\ UNCHANGED <<input, window, parser, result>>

\* UpdateBinHead: the package manager loads the head from the buffer.  If it is
\* not all there, or the buffer starts elsewhere, it is no package.
UpdateBinHead ==
  /\ Ready /\ at = 0
  /\ \/ fed >= Pos(file, 1) /\ base = Pos(file, 0) /\ at' = 1
        /\ UNCHANGED <<pc, ret, trouble>>
     \/ fed < Pos(file, 1) /\ Fail({"io"}) /\ UNCHANGED at
  /\ UNCHANGED <<input, window, need, step, cur, open, done, result>>

\* UpdateBinData, and the loop over the steps in it.
UpdateBinData ==
  /\ Ready /\ at \in 1..Len(file.cmds)
  /\ pc' = "data"
  /\ UNCHANGED <<input, window, parser, ret, result, trouble>>

NeedNewData ==
  /\ need' = TRUE /\ pc' = "buffer"
  /\ UNCHANGED <<at, step, cur, open, done, ret, trouble>>

\* ChunkInstallPreWrite: the devices of the partition are opened and its store is
\* made, either of which may fail.
PreWrite ==
  /\ pc = "data" /\ step = "PRE"
  /\ \/ Avail < HH + file.name /\ NeedNewData
     \/ /\ Avail >= HH + file.name
        /\ cur' = file.cmds[at].part
        /\ \/ step' = "DO" /\ open' = TRUE /\ UNCHANGED <<pc, ret, trouble>>
           \/ Fail({"io"}) /\ UNCHANGED <<step, open>>
        /\ UNCHANGED <<at, need, done>>
  /\ UNCHANGED <<input, window, result>>

\* ProcessPartition: is this still the partition that is open?
Elsewhere ==
  \/ at = HashAt(file) /\ Avail >= HH
  \/ at < HashAt(file) /\ Avail >= HH + file.name /\ file.cmds[at].part # cur

\* As if the command were executed as soon as its line is there.
DoWriteEarly ==
  /\ pc = "data" /\ step = "DO"
  /\ \/ Elsewhere /\ step' = "POST"
        /\ UNCHANGED <<pc, at, need, cur, open, done, ret, trouble>>
     \/ ~Elsewhere /\ Avail < RecLen(file, at) /\ need' = TRUE /\ pc' = "buffer"
        /\ done' = (IF at < HashAt(file) /\ Avail >= HH + file.name + HH + CmdLen
                    THEN Append(done, [cmd |-> at, dev |-> cur]) ELSE done)
        /\ UNCHANGED <<at, step, cur, open, ret, trouble>>
     \/ /\ ~Elsewhere /\ Avail >= RecLen(file, at) /\ at < HashAt(file)
        /\ done' = Append(done, [cmd |-> at, dev |-> cur]) /\ at' = at + 1
        /\ UNCHANGED <<pc, need, step, cur, open, ret, trouble>>
  /\ UNCHANGED <<input, window, result>>

\* ChunkInstallDoWrite: nothing of a record is remembered unless all of it is
\* there, and then its command is executed.
DoWrite ==
  /\ pc = "data" /\ step = "DO"
  /\ \/ Elsewhere /\ step' = "POST"
        /\ UNCHANGED <<pc, at, need, cur, open, done, ret, trouble>>
     \/ ~Elsewhere /\ Avail < RecLen(file, at) /\ NeedNewData
     \/ /\ ~Elsewhere /\ Avail >= RecLen(file, at) /\ at < HashAt(file)
        /\ \/ /\ done' = Append(done, [cmd |-> at, dev |-> cur]) /\ at' = at + 1
              /\ UNCHANGED <<pc, ret, trouble>>
           \/ Fail({"io"}) /\ UNCHANGED <<at, done>>
        /\ UNCHANGED <<need, step, cur, open>>
  /\ UNCHANGED <<input, window, result>>

\* As if the devices were left open.
PostWriteNoClose ==
  /\ pc = "data" /\ step = "POST"
  /\ step' = "PRE" /\ pc' = "buffer"
  /\ UNCHANGED <<input, window, at, need, cur, open, done, ret, result, trouble>>

\* ChunkInstallPostWrite: the devices are synced and closed, the store is freed,
\* and the loop over the steps ends.
PostWrite ==
  /\ pc = "data" /\ step = "POST"
  /\ step' = "PRE" /\ open' = FALSE /\ pc' = "buffer"
  /\ UNCHANGED <<input, window, at, need, cur, done, ret, result, trouble>>

\* The places in the hash record at which its end of the buffer goes unnoticed: a
\* name is taken without a look at how much of it is there, and what is left is
\* then less than nothing, which as an unsigned number is enough for all the rest.
CutInName ==
  \E k \in 1..Cardinality(Partitions(file)) :
    Avail \in (HashStart(file, k) + HH)..(HashStart(file, k) + HH + file.name - 1)

\* Whether a partition has the hash it should: what the package was made from is
\* what the signed hash is of, and all of it was written there.
VerifyPartitionHash(p) ==
  /\ p \in file.intact
  /\ \A i \in DOMAIN file.cmds :
       file.cmds[i].part = p => [cmd |-> i, dev |-> p] \in ToSet(done)

HashesMatch == \A p \in Partitions(file) : VerifyPartitionHash(p)

\* As if the signature were enough.
UpdateBinHashSigned ==
  /\ Ready /\ at = HashAt(file)
  /\ IF Avail < HashRecord(file) THEN need' = TRUE /\ UNCHANGED <<pc, at, ret, trouble>>
     ELSE /\ at' = at + 1
          /\ IF file.signed THEN ret' = "complete" /\ UNCHANGED <<pc, trouble>> ELSE Fail({})
          /\ UNCHANGED need
  /\ UNCHANGED <<input, window, step, cur, open, done, result>>

\* As if the record were refused where it is cut.
UpdateBinHashAtOnce ==
  /\ Ready /\ at = HashAt(file)
  /\ IF Avail < HashRecord(file) THEN Fail({}) /\ UNCHANGED at
     ELSE /\ at' = at + 1
          /\ IF file.signed /\ HashesMatch THEN ret' = "complete" /\ UNCHANGED <<pc, trouble>>
             ELSE Fail({})
  /\ UNCHANGED <<input, window, need, step, cur, open, done, result>>

\* UpdateBinHash: the record is read from its start until all of it is there, and
\* then the signature and the hashes are compared.
UpdateBinHash ==
  /\ Ready /\ at = HashAt(file)
  /\ \/ CutInName /\ Fail({"stale"}) /\ UNCHANGED <<at, need>>
     \/ CutInName /\ need' = TRUE /\ trouble' = trouble \cup {"stale"}
        /\ UNCHANGED <<pc, at, ret>>
     \/ ~CutInName /\ Avail < HashRecord(file) /\ need' = TRUE
        /\ UNCHANGED <<pc, at, ret, trouble>>
     \/ /\ Avail >= HashRecord(file) /\ at' = at + 1
        /\ IF file.signed /\ HashesMatch THEN ret' = "complete" /\ UNCHANGED <<pc, trouble>>
           ELSE Fail({})
        /\ UNCHANGED need
  /\ UNCHANGED <<input, window, step, cur, open, done, result>>

Process == Load \/ Seek \/ Read \/ ReadNoMore
Buffer  == SkipTargetData \/ AddRemainData \/ Used \/ MoveRemainingData
Records == UpdateBinOther \/ UpdateBinHead \/ UpdateBinData \/ UpdateBinHash
Steps   == PreWrite \/ DoWrite \/ PostWrite

Next == Process \/ Buffer \/ Records \/ Steps
Spec == Init /\ [][Next]_vars

\* One thread runs it all.
FairSpec == Spec /\ WF_vars(Next)

-----------------------------------------------------------------------------
(***************************************************************************)
(* Properties.                                                             *)
(***************************************************************************)
\* Wherever the chunks cut the records, each command is executed once, in the
\* order of the file, when all of it has arrived, and on the device of its own
\* partition.
CommandsInOrder ==
  /\ Len(done) = Cardinality({i \in DOMAIN file.cmds : i < at})
  /\ \A i \in DOMAIN done :
       done[i] = [cmd |-> i, dev |-> file.cmds[i].part] /\ Pos(file, i + 1) <= fed

\* The bytes the parser has not used are those from its place on: nothing is
\* dropped, read twice or overwritten when the buffer is full or moved.
NothingIsLost ==
  /\ base <= Pos(file, at) \/ at = 0
  /\ pc = "read" /\ ret = "success" /\ skip = 0 => fed = taken
  /\ Curlen <= MaxBuf

\* A file that is whole and right, and that no call fails on, is refused only if
\* stale bytes were taken for its own: when a chunk ends one byte into a record,
\* or within a name of the hash record.
RefusedForAReason ==
  ret = "failure" =>
    trouble # {} \/ ~file.signed \/ file.intact # Partitions(file)

\* What comes in one chunk with the end of the zip header is looked at when the
\* next chunk comes: here there is none.
EndsWithHeader ==
  ~seeks /\ \E k \in 0..file.zip : k * chunk < file.zip /\ end <= (k + 1) * chunk

\* "Complete" means that every command was executed and every partition has the
\* hash that was signed for it; and the process succeeds only so, unless the file
\* ended before its hashes, or in the chunk its zip header ends in.
SuccessIsVerified ==
  /\ ret = "complete" =>
       file.signed /\ HashesMatch /\ Len(done) = Len(file.cmds)
  /\ result = "UPDATE_SUCCESS" => ret = "complete" \/ end < FileLen(file) \/ EndsWithHeader

\* ResultIsTrue: what BinChunkUpdate and ProcessUpdaterStream tell their caller, success or
\* failure, is what became of the images.
ResultIsTrue == RefusedForAReason /\ SuccessIsVerified

\* What src/README.md:95 promises: each image is verified after the update.
EachImageIsVerified ==
  result = "UPDATE_SUCCESS" => ret = "complete"

\* The devices of the last partition are synced and closed before the update is
\* complete, unless what is in the buffer ends within the first bytes of the hash
\* record, with a chunk or because the buffer is full: then the record is taken up
\* as such, and not as the end of the partition.
Origin == IF seeks THEN file.zip ELSE 0
CutBeforeHashes ==
  LET start == Pos(file, HashAt(file))
  IN  \/ \E k \in 0..FileLen(file) : Origin + k * chunk \in start..(start + HH - 1)
      \/ \E n \in 0..Len(file.cmds) : Pos(file, n) + MaxBuf \in start..(start + HH - 1)

ClosedAtTheEnd == ret = "complete" /\ open => CutBeforeHashes

\* Whatever the chunks, the process comes to an end: the buffer never fills up
\* with a record that does not fit.
Ends == <>(pc = "ended")
=============================================================================
