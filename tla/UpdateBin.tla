------------------------------ MODULE UpdateBin ------------------------------
(***************************************************************************)
(* update.bin, as UpgradePkgFile reads and writes it.  A file stands for    *)
(* its layout, the fields that follow one another, of which each has a tag  *)
(* and a length; the parser knows only where it is and what it is told by   *)
(* the field that starts there.                                             *)
(*                                                                         *)
(* A file b is a record: version, stream (the type of the package), sha384, *)
(* comps (the sizes of the components), parts (its partitions), hash (bytes *)
(* of the image hashes, 0 if there are none), end (where it is cut), bad    *)
(* (a byte that was changed; b.end if none was), keyed (its signer's key    *)
(* is the one it is checked with), trusted (the verifier it is loaded with  *)
(* accepts whatever it is given).                                           *)
(***************************************************************************)
EXTENDS Naturals, Sequences

Tlv == 4         \* sizeof(PkgTlv) and of every chunk tlv with a short length
HashTlv == 6     \* HASH_TLV_SIZE, and the tlv of the chunk list
HeaderLen == 136 \* sizeof(UpgradePkgHeader)
TimeLen == 32    \* sizeof(UpgradePkgTime)
CompLen == 87    \* sizeof(UpgradeCompInfo)
Reserve == 16    \* UPGRADE_RESERVE_LEN
Sha256Sign == 256
SignTotal == 640 \* SIGN_SHA256_LEN + SIGN_SHA384_LEN
SignLen == 300   \* of a signature that has a tlv of its own

UPGRADE_FILE_HEADER_LEN == 3 * Tlv + HeaderLen + TimeLen
MinLen == UPGRADE_FILE_HEADER_LEN + CompLen + SignTotal + Reserve

RECURSIVE SumOf(_)
SumOf(s) == IF s = <<>> THEN 0 ELSE Head(s) + SumOf(Tail(s))

(***************************************************************************)
(* The layout: what the packaging writes.                                  *)
(***************************************************************************)
Field(tag, head, value) == [tag |-> tag, head |-> head, len |-> head + value]

Chunked(b) == b.version >= 5 /\ b.stream

RECURSIVE SizeFields(_), ImageHashFields(_)
SizeFields(parts) ==
  IF parts = <<>> THEN <<>>
  ELSE <<Field("partition name", Tlv, Head(parts)), Field("image size", Tlv, 8)>> \o SizeFields(Tail(parts))
ImageHashFields(parts) ==
  IF parts = <<>> THEN <<>>
  ELSE <<Field("hash partition", Tlv, Head(parts)), Field("image hash", Tlv, 64)>>
       \o ImageHashFields(Tail(parts))

ChunkFields(b) ==
  IF ~Chunked(b) THEN <<>>
  ELSE <<Field("chunk list", HashTlv, 12), Field("partition num", Tlv, 2)>>
       \o SizeFields(b.parts) \o ImageHashFields(b.parts)

HashFields(b) ==
  IF b.hash = 0 THEN <<>>
  ELSE <<Field("hash header", HashTlv, 4), Field("hash data", HashTlv, b.hash)>>

\* The fields in front of the components' data.
HeadLayout(b) ==
  <<Field("header", Tlv, HeaderLen), Field("time", Tlv, TimeLen),
    Field("components", Tlv, Len(b.comps) * CompLen)>>
  \o ChunkFields(b)
  \o <<Field("reserve", 0, Reserve)>>
  \o (IF b.version = 1 THEN <<Field("signs", 0, SignTotal)>>
      ELSE HashFields(b) \o <<Field("sign", HashTlv, SignLen)>>)

RECURSIVE Start(_, _)
Start(fields, i) == IF i = 1 THEN 0 ELSE Start(fields, i - 1) + fields[i - 1].len
HeadEnd(b) == Start(HeadLayout(b), Len(HeadLayout(b)) + 1)
WholeLen(b) == HeadEnd(b) + SumOf(b.comps)

\* Where the data of a component is, and where the signature is.
DataStart(b, i) == HeadEnd(b) + SumOf(SubSeq(b.comps, 1, i - 1))
SignStart(b) == Start(HeadLayout(b), Len(HeadLayout(b)))

\* The field that starts at a byte, if there is one.
RECURSIVE FieldFrom(_, _)
FieldFrom(fields, p) ==
  IF fields = <<>> \/ p < 0 THEN Field("other", 0, 0)
  ELSE IF p = 0 THEN Head(fields)
  ELSE FieldFrom(Tail(fields), p - Head(fields).len)
FieldAt(b, p) == FieldFrom(HeadLayout(b), p)

(***************************************************************************)
(* The parser, state to state.  A read succeeds if there is a byte at least *)
(* at its start: what is missing of a cut field is not noticed there.       *)
(***************************************************************************)
\* What fails stays failed: nothing is read after it.
Fail(s) == [s EXCEPT !.ret = "invalid"]

Readable(b, p) == p < b.end
Whole(b, p, n) == p + n <= b.end

\* algorithm->Update
Digest(s, from, to) == [s EXCEPT !.digested = Append(@, <<from, to>>)]
Move(s, n) == [s EXCEPT !.at = @ + n]
AddDataOffset(s, n) == [s EXCEPT !.offsets = [i \in DOMAIN @ |-> @[i] + n]]

\* A tlv and its value, of which the type is looked at; what is read of them is
\* added to the digest.
TlvRead(b, s, tag, f) ==
  IF s.ret # "ok" \/ ~(Readable(b, s.at) /\ Whole(b, s.at, f.head) /\ f.tag = tag) THEN Fail(s)
  ELSE IF ~Readable(b, s.at + f.head) THEN Fail(s)
  ELSE Move(Digest(s, s.at, s.at + f.len), f.len)
ReadTlv(b, s, tag) == TlvRead(b, s, tag, FieldAt(b, s.at))

ReadChunkTlv(b, s, tag) == ReadTlv(b, s, tag)

\* The header and the time are read at once; the digest is the header's.
NotRead == [at |-> 0, digested |-> <<>>, offsets |-> <<>>, sizes |-> <<>>, ret |-> "ok", checks |-> FALSE]
HeadRead(b, head, time) ==
  IF b.end < MinLen \/ time.tag # "time" \/ time.len >= b.end THEN Fail(NotRead)
  ELSE Move(Digest(NotRead, 0, head.len + time.len), head.len + time.len)
ReadUpgradePkgHeader(b) == HeadRead(b, FieldAt(b, 0), FieldAt(b, FieldAt(b, 0).len))

\* One component: its entry is made, and its data begins where that of the one
\* before it ends.
SaveEntry(b, s, k) ==
  LET from == s.at IN
  IF ~Whole(b, from, CompLen) THEN Fail(s)
  ELSE Move(Digest([s EXCEPT !.sizes = Append(@, b.comps[k])], from, from + CompLen), CompLen)

\* The offsets are those behind the components and the reserve; what the file has
\* in between is added as it is found.
RECURSIVE SaveEntries(_, _, _)
SaveEntries(b, s, k) ==
  IF s.ret # "ok" \/ k > Len(b.comps) THEN s ELSE SaveEntries(b, SaveEntry(b, s, k), k + 1)
DataOffsets(b, s, from) == [s EXCEPT !.offsets = [k \in DOMAIN s.sizes |-> from + SumOf(SubSeq(b.comps, 1, k - 1))]]
ComponentsRead(b, s, f) ==
  IF s.ret # "ok" \/ f.tag # "components" \/ f.len - Tlv < CompLen \/ f.len >= b.end THEN Fail(s)
  ELSE DataOffsets(b, SaveEntries(b, Move(Digest(s, s.at, s.at + Tlv), Tlv), 1), s.at + f.len + Reserve)
ReadComponents(b, s) == ComponentsRead(b, s, FieldAt(b, s.at))

ReadChunkListInfo(b, s) == ReadChunkTlv(b, s, "chunk list")
ReadPartitionNumChunk(b, s) == ReadChunkTlv(b, s, "partition num")
ReadPartitionNameChunk(b, s) == ReadChunkTlv(b, s, "partition name")
ReadImageSizeChunk(b, s) == ReadChunkTlv(b, s, "image size")
ReadHashPartitionChunk(b, s) == ReadChunkTlv(b, s, "hash partition")
ReadImageHashChunk(b, s) == ReadChunkTlv(b, s, "image hash")

\* For a package that is streamed: the chunk list, and the size and the hash of
\* each partition, of which none may come twice.
RECURSIVE ReadSizes(_, _, _), ReadHashes(_, _, _)
ReadSizes(b, s, k) ==
  IF s.ret # "ok" \/ k > Len(b.parts) THEN s
  ELSE ReadSizes(b, ReadImageSizeChunk(b, ReadPartitionNameChunk(b, s)), k + 1)
ReadHashes(b, s, k) ==
  IF s.ret # "ok" \/ k > Len(b.parts) THEN s
  ELSE ReadHashes(b, ReadImageHashChunk(b, ReadHashPartitionChunk(b, s)), k + 1)
OffsetsBehind(b, s, from) ==
  IF \E i, j \in DOMAIN b.parts : i # j /\ b.parts[i] = b.parts[j] THEN Fail(s)
  ELSE AddDataOffset(s, s.at - from)
ReadChunkInfo(b, s) ==
  IF ~Chunked(b) THEN s
  ELSE OffsetsBehind(b, ReadHashes(b, ReadSizes(b, ReadPartitionNumChunk(b, ReadChunkListInfo(b, s)), 1), 1), s.at)

\* What an image hash says is only looked at when the update comes from a card;
\* elsewhere a file that has one does not load.
WithHashes(s, t) == [AddDataOffset(t, t.at - s.at) EXCEPT !.checks = TRUE]
ReadImgHashData(b, s, card) ==
  IF ~card \/ b.version < 2 THEN s ELSE WithHashes(s, ReadTlv(b, ReadTlv(b, s, "hash header"), "hash data"))

\* As if the data began where the signature does.
ReadSignDataBefore(b, s) == [ReadTlv(b, s, "sign") EXCEPT !.digested = s.digested]

\* The signature is not part of the digest.
SignRead(s, t) == AddDataOffset([t EXCEPT !.digested = s.digested], t.at - s.at)
ReadSignData(b, s) == SignRead(s, ReadTlv(b, s, "sign"))

\* As if the reserve were passed over.
ReadReserveDataOver(b, s) == IF s.ret # "ok" \/ ~Readable(b, s.at) THEN Fail(s) ELSE Move(s, Reserve)

ReadReserveData(b, s) ==
  IF s.ret # "ok" \/ ~Readable(b, s.at) THEN Fail(s) ELSE Move(Digest(s, s.at, s.at + Reserve), Reserve)

\* The reserve and both signatures in one read; the digest takes the signatures
\* as zeros.
ReadPackageInfo(b, s) ==
  IF s.ret # "ok" \/ ~Readable(b, s.at) THEN Fail(s)
  ELSE AddDataOffset(Move(Digest(s, s.at, s.at + Reserve + SignTotal), Reserve + SignTotal), SignTotal)

\* What the key holder signed: each byte before the data, once and in its order,
\* and in a file of the first version the data too.
Signed(b) == IF b.version = 1 THEN WholeLen(b) ELSE SignStart(b)
Covers(digested, from, to) ==
  /\ digested # <<>> /\ digested[1][1] = from /\ digested[Len(digested)][2] = to
  /\ \A i \in 1..(Len(digested) - 1) : digested[i][2] = digested[i + 1][1]

\* The place of the signature that counts: in the first version that of its
\* algorithm, of which each has one.
InSign(b, p) ==
  LET from == SignStart(b) + (IF b.version = 1 /\ b.sha384 THEN Sha256Sign ELSE 0)
      to == IF b.version = 1 /\ ~b.sha384 THEN from + Sha256Sign ELSE HeadEnd(b)
  IN  p >= from /\ p < to
InZeros(b, p) == b.version = 1 /\ p >= SignStart(b) /\ p < HeadEnd(b) /\ ~InSign(b, p)

\* A signature that verifies: the digest is that of the signed bytes, and none of
\* them nor the signature was changed or is missing.
Correct(b, digested) ==
  /\ b.keyed
  /\ Covers(digested, 0, Signed(b))
  /\ b.end >= (IF b.version = 1 THEN WholeLen(b) ELSE HeadEnd(b))
  /\ b.bad >= b.end \/ InZeros(b, b.bad) \/ (b.bad >= Signed(b) /\ ~InSign(b, b.bad))

\* From the fourth version on the head is checked with the certificate of the device
\* and not by the verifier that comes with the call.
Verifies(b, digested) == (b.trusted /\ b.version < 4) \/ Correct(b, digested)

Check(b, s) == IF s.ret = "ok" /\ Verifies(b, s.digested) THEN s ELSE Fail(s)

\* In the first version the rest of the file follows in the digest.
Verify(b, s) == Check(b, IF s.ret = "ok" /\ s.at < b.end THEN Digest(s, s.at, b.end) ELSE s)

VerifyHeader(b, s) == Check(b, s)
VerifyFileV1(b, s) == Verify(b, ReadPackageInfo(b, s))
VerifyFileV2(b, s, card) ==
  VerifyHeader(b, ReadSignData(b, ReadImgHashData(b, ReadReserveData(b, s), card)))
VerifyFile(b, s, card) == IF b.version >= 2 THEN VerifyFileV2(b, s, card) ELSE VerifyFileV1(b, s)

LoadPackage(b, card) ==
  VerifyFile(b, ReadChunkInfo(b, ReadComponents(b, ReadUpgradePkgHeader(b))), card)

\* UpgradeFileEntry::Unpack: every piece of an image that has a hash is compared
\* with it; an image without one is written as it is.
GetEntryRange(s, i) == <<s.offsets[i], s.offsets[i] + s.sizes[i]>>
Unpack(b, s, i) ==
  LET range == GetEntryRange(s, i)
      changed == b.bad >= range[1] /\ b.bad < range[2] /\ b.bad < b.end
  IN  IF range[2] > b.end THEN "invalid" ELSE IF s.checks /\ changed THEN "invalid" ELSE "ok"

(***************************************************************************)
(* The writer, for packages of which it is told how many components come.   *)
(***************************************************************************)
NewPackage(count) == [count |-> count, comps |-> <<>>, at |-> <<>>, state |-> "idle", ret |-> "ok"]

GetEntryOffset(w) ==
  UPGRADE_FILE_HEADER_LEN + w.count * CompLen + Reserve + SignTotal + SumOf(w.comps)

\* The data goes behind that of the entries there are, its description behind
\* theirs.
AddEntry(w, size) ==
  IF w.ret # "ok" \/ w.state = "close" \/ Len(w.comps) >= w.count \/ size = 0
  THEN [w EXCEPT !.ret = "invalid"]
  ELSE [w EXCEPT !.comps = Append(@, size), !.at = Append(@, GetEntryOffset(w)), !.state = "working"]

\* The head, the place of the reserve and of the signatures: the signature is put
\* behind the reserve.
SavePackage(w) ==
  IF w.ret # "ok" \/ w.state # "working" THEN [w EXCEPT !.ret = "invalid"]
  ELSE [w EXCEPT !.state = "close"]
SignOffset(w) == UPGRADE_FILE_HEADER_LEN + w.count * CompLen + Reserve

\* The file that results, for the loader; its digest is SHA256's.
Saved(w) ==
  [version |-> 1, stream |-> FALSE, sha384 |-> FALSE, comps |-> w.comps, parts |-> <<>>, hash |-> 0,
   end |-> SignOffset(w) + SignTotal + SumOf(w.comps),
   bad |-> SignOffset(w) + SignTotal + SumOf(w.comps), keyed |-> TRUE, trusted |-> FALSE]
=============================================================================
