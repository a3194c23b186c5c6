------------------------------- MODULE Archives -------------------------------
(***************************************************************************)
(* The zip, gzip and lz4 packages and the algorithms that pack and unpack   *)
(* them, as state-to-state operators.                                       *)
(*                                                                         *)
(* A file f is a sequence of cells, f.c, of which each is a header, a block *)
(* of data or a trailer, and a place in it is a number of cells: a header   *)
(* names places and sizes as it does in the code, and a file that is cut or *)
(* damaged is a shorter sequence or one with another cell.  f.mapped says   *)
(* that it is read from memory.  The checksum of a sequence of blocks is    *)
(* that sequence, and that of nothing is 0, <<>>.                           *)
(***************************************************************************)
EXTENDS Integers, Sequences

CONSTANTS
  InBuffer,   \* cells an inflating reads at once
  OutBuffer,  \* and writes at once
  UpdaterMode \* IsUpdaterMode()

Cells(s, at, n) == SubSeq(s, at + 1, at + n)
Size(f) == Len(f.c)
At(f, at) == IF at >= 0 /\ at < Size(f) THEN f.c[at + 1] ELSE [t |-> "eof"]
\* A size that came out below zero is a size_t.
SizeT(n) == IF n < 0 THEN 2^16 + n ELSE n
Least(a, b) == IF a < b THEN a ELSE b
\* The first of some indices, 0 if there is none.
First(indices) == IF indices = {} THEN 0 ELSE CHOOSE i \in indices : \A j \in indices : i <= j

Block(x) == [t |-> "data", v |-> x]
Packed(x) == [t |-> "packed", v |-> x]
Ending == [t |-> "end"]
Values(s) == [i \in DOMAIN s |-> IF s[i].t \in {"data", "packed"} THEN s[i].v ELSE "junk"]

(***************************************************************************)
(* PkgAlgorithm: the bytes as they are.  `room' is what the destination     *)
(* takes before a write to it fails.                                        *)
(***************************************************************************)
\* A read of at most n of the remaining cells: a file has one at least, or the
\* read fails; at the end of a mapped one it reads nothing and has succeeded.
ReadData(f, at, n, remain) ==
  LET want == Least(n, remain)
      got == Least(want, Size(f) - at)
  IN  IF want = 0 \/ (f.mapped /\ got = 0) THEN [ok |-> TRUE, len |-> 0]
      ELSE [ok |-> got > 0, len |-> got]

Crc32(s) == s
\* The digest a context comes with is looked at for SHA256 only.
FinalDigest(method, have, want) == method # "sha256" \/ have = want

Unpacked(ret, out, packed) == [ret |-> ret, out |-> out, packed |-> packed]

\* Whatever stops the copying is found out by the length; the end of a mapped file
\* does not stop it.
StoredUnpack(f, at, packed, room) ==
  LET n == Least(Least(packed, Size(f) - at), room)
      out == Values(Cells(f.c, at, n))
  IN  IF n = packed THEN Unpacked("ok", out, n)
      ELSE IF f.mapped /\ n < room THEN Unpacked("hangs", out, n)
      ELSE Unpacked("digest", out, n)

StoredPack(content, room) ==
  IF Len(content) > room THEN [ret |-> "digest", cells |-> <<>>, crc |-> <<>>]
  ELSE [ret |-> "ok", cells |-> [i \in DOMAIN content |-> Block(content[i])], crc |-> <<>>]

(***************************************************************************)
(* PkgAlgoDeflate.                                                         *)
(***************************************************************************)
\* Each block gives one, and an end follows; what a write refuses is lost, and
\* the loop that gave it goes on.
DeflateData(blocks, flush) ==
  [i \in DOMAIN blocks |-> Packed(blocks[i])] \o (IF flush THEN <<Ending>> ELSE <<>>)

InitStream(method) == method = "deflated"

DeflatePack(method, content, room) ==
  IF ~InitStream(method) THEN [ret |-> "no algorithm", cells |-> <<>>, crc |-> <<>>]
  ELSE [ret |-> "ok", cells |-> Cells(DeflateData(content, TRUE), 0, Least(room, Len(content) + 1)),
        crc |-> Crc32(content)]

\* The unpacking: `avail' are the cells in the input buffer, `left' what it may
\* read yet, `inflated' what is in the output buffer, and `last' what the
\* inflation returned.
ReadFully(f, s) ==
  LET n == Least(InBuffer, s.left) IN
  IF n > Size(f) - s.at THEN IF f.mapped THEN s ELSE [s EXCEPT !.done = TRUE]
  ELSE [s EXCEPT !.avail = Cells(f.c, s.at, n), !.at = @ + n, !.left = @ - n]

Filled(f, s, r) ==
  IF ~r.ok THEN [s EXCEPT !.done = TRUE]
  ELSE [s EXCEPT !.avail = Cells(f.c, s.at, r.len), !.at = @ + r.len, !.left = @ - r.len]
ReadUnpackData(f, s) ==
  IF s.avail # <<>> THEN s
  ELSE IF ~UpdaterMode THEN ReadFully(f, s)
  ELSE Filled(f, s, ReadData(f, s.at, InBuffer, s.left))

\* inflate() takes blocks up to the end of the stream, or all there are, or what
\* the output buffer holds; behind the end it takes nothing, and a call that does
\* nothing is an error.
PackedBlocks(s) == First({i \in 1..(Len(s.avail) + 1) : i > Len(s.avail) \/ s.avail[i].t # "packed"}) - 1
Take(s, n) ==
  [s EXCEPT !.avail = Cells(@, n, Len(@) - n), !.inflated = @ \o Values(Cells(s.avail, 0, n)), !.last = "ok"]
TakeEnd(s, t) ==
  IF Head(t.avail).t # "end" THEN [s EXCEPT !.last = "error"] ELSE [t EXCEPT !.avail = Tail(@), !.last = "end"]
TakeUpTo(s, stop, space) ==
  IF space < stop \/ stop = Len(s.avail) THEN Take(s, Least(stop, space)) ELSE TakeEnd(s, Take(s, stop))
InflateTake(s) ==
  IF s.last = "end" THEN s
  ELSE IF s.avail = <<>> THEN [s EXCEPT !.last = "error"]
  ELSE TakeUpTo(s, PackedBlocks(s), OutBuffer - Len(s.inflated))

\* One turn of the loop of UnpackCalculate; a turn that changes nothing is one
\* that is never left.
WriteInflated(room, t) ==
  IF Len(t.out \o t.inflated) > room THEN [t EXCEPT !.done = TRUE]
  ELSE [t EXCEPT !.out = @ \o t.inflated, !.inflated = <<>>]
AfterTake(room, t) ==
  IF t.last = "error" THEN [t EXCEPT !.done = TRUE]
  ELSE IF Len(t.inflated) = OutBuffer \/ (t.last = "end" /\ t.inflated # <<>>) THEN WriteInflated(room, t)
  ELSE t
AfterRead(room, s, r) ==
  IF r.done \/ (~UpdaterMode /\ s.avail = <<>> /\ s.left > 0 /\ r = s) THEN r ELSE AfterTake(room, InflateTake(r))
InflateTurn(f, room, s) ==
  IF s.left = 0 /\ s.last = "end" THEN [s EXCEPT !.done = TRUE] ELSE AfterRead(room, s, ReadUnpackData(f, s))

\* As if what the inflation returned were all that counts.
CalculateUnpackDataOnly(f, packed, crc, s) ==
  Unpacked(IF s.last = "error" THEN "inflate" ELSE "ok", s.out, packed - Len(s.avail) - s.left)

\* The checksum is of what was written; what the loop returns is what the last
\* inflation did, so that a read or a write that failed is not told of as such.
CalculateUnpackData(f, packed, crc, s) ==
  Unpacked(IF crc # <<>> /\ crc # Crc32(s.out) THEN "verify" ELSE IF s.last = "error" THEN "inflate" ELSE "ok",
           s.out, packed - Len(s.avail) - s.left)

RECURSIVE Inflated(_, _, _), InflatedFrom(_, _, _, _)
InflatedFrom(f, room, s, t) == IF t = s THEN s ELSE Inflated(f, room, t)
Inflated(f, room, s) == IF s.done THEN s ELSE InflatedFrom(f, room, s, InflateTurn(f, room, s))

Calculated(f, packed, crc, s) ==
  IF s.done THEN CalculateUnpackData(f, packed, crc, s) ELSE Unpacked("hangs", s.out, 0)
UnpackCalculate(f, at, packed, crc, room) ==
  Calculated(f, packed, crc,
             Inflated(f, room, [at |-> at, left |-> packed, avail |-> <<>>, inflated |-> <<>>, out |-> <<>>,
                                last |-> "ok", done |-> FALSE]))

DeflateUnpack(method, f, at, packed, crc, room) ==
  IF ~InitStream(method) THEN Unpacked("no algorithm", <<>>, 0)
  ELSE UnpackCalculate(f, at, packed, crc, room)

(***************************************************************************)
(* PkgAlgorithmBlockLz4 and PkgAlgorithmLz4.                               *)
(***************************************************************************)
AdpLz4Compress(x) == Packed(x)
AdpLz4Decompress(c) == IF c.t = "packed" THEN <<c.v>> ELSE <<>>

BlockLz4Pack(content, room) ==
  IF 1 + 2 * Len(content) > room THEN [ret |-> "stream", cells |-> <<>>, crc |-> <<>>]
  ELSE [ret |-> "ok", crc |-> <<>>,
        cells |-> <<[t |-> "magic", v |-> "block"]>>
                  \o [i \in 1..(2 * Len(content)) |->
                        IF i % 2 = 1 THEN [t |-> "size"] ELSE AdpLz4Compress(content[i \div 2])]]

\* A block is its size and its data.  Whatever ends the loop, what was written
\* up to there is all, and the unpacking has succeeded.
BlockLz4Unpack(f, at, room) ==
  LET Good(k) == /\ At(f, at + 2 * (k - 1)).t = "size"
                 /\ AdpLz4Decompress(At(f, at + 2 * k - 1)) # <<>> /\ k <= room
      n == CHOOSE m \in 0..Size(f) : (\A k \in 1..m : Good(k)) /\ ~Good(m + 1)
  IN  Unpacked("ok", [k \in 1..n |-> At(f, at + 2 * k - 1).v], 2 * n)

GetPackParam(level) == <<[t |-> "magic", v |-> "frame"], [t |-> "frame"]>>

FrameLz4Pack(content, room) ==
  LET cells == GetPackParam(0) \o [i \in DOMAIN content |-> AdpLz4Compress(content[i])] \o <<Ending>> IN
  IF Len(cells) > room THEN [ret |-> "stream", cells |-> <<>>, crc |-> <<>>]
  ELSE [ret |-> "ok", cells |-> cells, crc |-> <<>>]

GetUnpackParam(f, at) == At(f, at).t = "frame"

\* The frame says how much comes next: a block of which a part is missing gives
\* nothing, as its end does, and both end the loop with success.
UnpackDecode(f, at, room) ==
  LET Good(k) == At(f, at + k - 1).t = "packed" /\ k <= room
      n == CHOOSE m \in 0..Size(f) : (\A k \in 1..m : Good(k)) /\ ~Good(m + 1)
      next == At(f, at + n).t
  IN  Unpacked(IF next \in {"packed", "eof"} THEN "stream"
               ELSE IF next \in {"end", "half"} THEN "ok" ELSE "lz4",
               [k \in 1..n |-> At(f, at + k - 1).v], n)

FrameLz4Unpack(f, at, room) ==
  IF ~GetUnpackParam(f, at) THEN Unpacked("lz4", <<>>, 0) ELSE UnpackDecode(f, at + 1, room)

\* PkgAlgorithmFactory::GetAlgorithm: by the packing method of the entry.
PackWith(packing, method, content, room) ==
  CASE packing = "zip" \/ packing = "gzip" -> DeflatePack(method, content, room)
    [] packing = "none" -> StoredPack(content, room)
    [] packing = "lz4" -> FrameLz4Pack(content, room)
    [] packing = "lz4 block" -> BlockLz4Pack(content, room)
UnpackWith(packing, method, f, at, packed, crc, room) ==
  CASE packing = "zip" \/ packing = "gzip" -> DeflateUnpack(method, f, at, packed, crc, room)
    [] packing = "none" -> StoredUnpack(f, at, packed, room)
    [] packing = "lz4" -> FrameLz4Unpack(f, at, room)
    [] packing = "lz4 block" -> BlockLz4Unpack(f, at, room)

(***************************************************************************)
(* PkgFileImpl: the package that is loaded or made.                        *)
(***************************************************************************)
NoFile == [state |-> "idle", cells |-> <<>>, entries |-> <<>>, ret |-> "ok"]

CheckState(p, states, state) == IF p.state \in states THEN [p EXCEPT !.state = state] ELSE [p EXCEPT !.ret = "state"]

Entry(name, packing, method, crc, packed, data) ==
  [name |-> name, packing |-> packing, method |-> method, crc |-> crc, packed |-> packed, data |-> data]

\* The entry of a package that tells no name: gzip_0, lz4_0.
Unnamed == [dir |-> "", stem |-> "unnamed", ext |-> "", tmp |-> FALSE]

FindPkgEntry(p, name) == First({i \in DOMAIN p.entries : p.entries[i].name = name})
AddPkgEntry(p, e) == [p EXCEPT !.entries = Append(@, e)]

\* PkgEntry::Init: an entry without content is refused.
InitEntry(content) == content # <<>>
AddSignData(p, digest) ==
  IF digest = "none" THEN p ELSE [p EXCEPT !.cells = Append(@, [t |-> "no sign"])]
=============================================================================
