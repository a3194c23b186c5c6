------------------------------- MODULE ZipFile -------------------------------
(***************************************************************************)
(* ZipPkgFile and ZipFileEntry: zip packages, as they are written and as    *)
(* they are read, with the signature that follows the archive as its        *)
(* comment (ZipPkgParse).                                                   *)
(***************************************************************************)
EXTENDS Archives

\* The cells: a local header, the data, a descriptor if the header says so, ...,
\* the central entries, the end of the directory (the last cell of which is the
\* length of the comment) and the comment: the signature and a footer.
EocdLen == 2
FooterLen == 1

Local(name, method, desc, crc) == [t |-> "local", name |-> name, method |-> method, desc |-> desc, crc |-> crc]
Descriptor(crc) == [t |-> "descriptor", crc |-> crc]
Central(e, header) ==
  [t |-> "central", name |-> e.name, method |-> e.method, crc |-> e.crc, packed |-> e.packed, header |-> header]
Eocd(entries, offset) == [t |-> "eocd", entries |-> entries, offset |-> offset]
Comment(n) == [t |-> "comment", len |-> n]
Footer(append, total) == [t |-> "footer", append |-> append, total |-> total]

(***************************************************************************)
(* Writing.                                                                *)
(***************************************************************************)
\* Z_STORED entries come with a descriptor and no checksum; the data of the others
\* is packed before their header is written, which has all.
HasDataDesc(method) == method # "deflated"

EncodeLocalFileHeader(name, method, crc) ==
  Local(name, method, HasDataDesc(method), IF HasDataDesc(method) THEN <<>> ELSE crc)
EncodeDataDescriptor(method, crc) == IF HasDataDesc(method) THEN <<Descriptor(crc)>> ELSE <<>>

\* The entry and where its header is.
EncodeHeader(p) == Len(p.cells)
PackStream(name, method, made) ==
  <<EncodeLocalFileHeader(name, method, made.crc)>> \o made.cells \o EncodeDataDescriptor(method, made.crc)

Pack(p, name, packing, method, content, room) ==
  LET made == PackWith(packing, method, content, room)
      e == Entry(name, packing, method, made.crc, Len(made.cells), EncodeHeader(p) + 1)
  IN  IF made.ret # "ok" THEN [AddPkgEntry(p, e) EXCEPT !.ret = made.ret]
      ELSE [AddPkgEntry(p, e) EXCEPT !.cells = @ \o PackStream(name, method, made)]

AddEntry(p, name, packing, method, content, room) ==
  LET q == CheckState(p, {"idle", "working"}, "working") IN
  IF q.ret # "ok" THEN q ELSE Pack(q, name, packing, method, content, room)

EncodeCentralDirEntry(e) == Central(e, e.data - 1)

SavePackage(p) ==
  LET q == CheckState(p, {"working"}, "close") IN
  IF q.ret # "ok" THEN q
  ELSE [q EXCEPT !.cells = @ \o [i \in DOMAIN p.entries |-> EncodeCentralDirEntry(p.entries[i])]
                             \o <<Eocd(Len(p.entries), Len(@)), Comment(0)>>]

(***************************************************************************)
(* The comment: whoever signs a package appends the signature and a footer, *)
(* and the length of both goes into the end of the directory.               *)
(***************************************************************************)
\* ZipPkgParse::ParsePkgFooter
ParsePkgFooter(c) == c.t = "footer" /\ c.append >= FooterLen /\ c.total >= FooterLen /\ c.append <= c.total

\* The end of the directory starts where the footer says, no other starts behind
\* it, and the length of its comment is what the footer says.
CheckZipEocd(f, start, total) ==
  /\ At(f, start).t = "eocd"
  /\ \A k \in (start + 1)..(Size(f) - 1) : At(f, k).t # "eocd"
  /\ At(f, start + 1) = Comment(total)

DoParseZipPkg(f, footer) ==
  LET start == Size(f) - EocdLen - footer.total IN
  IF start <= 0 \/ ~CheckZipEocd(f, start, footer.total) THEN [ok |-> FALSE, append |-> 0, total |-> 0]
  ELSE [ok |-> TRUE, append |-> footer.append, total |-> footer.total]

ReadFooterFromStream(f) == IF Size(f) <= FooterLen THEN [t |-> "eof"] ELSE At(f, Size(f) - FooterLen)

ParsePkg(f) ==
  LET footer == ReadFooterFromStream(f) IN
  IF ~ParsePkgFooter(footer) THEN [ok |-> FALSE, append |-> 0, total |-> 0] ELSE DoParseZipPkg(f, footer)

(***************************************************************************)
(* Reading.                                                                *)
(***************************************************************************)
DoDecodeCentralDirEntry(c) == Entry(c.name, "zip", c.method, c.crc, c.packed, c.header)

DecodeCentralDirEntry(f, at) ==
  IF At(f, at).t # "central" THEN [ok |-> FALSE] ELSE [ok |-> TRUE, e |-> DoDecodeCentralDirEntry(At(f, at))]

\* The checksum of the directory must be that of the header, or of the descriptor
\* behind the data.
DecodeLocalFileHeaderCheck(f, local, e, at) ==
  IF ~local.desc THEN local.crc = e.crc
  ELSE At(f, at + e.packed).t = "descriptor" /\ At(f, at + e.packed).crc = e.crc

\* The way it is packed is that of the local header.
DecodeLocalFileHeader(f, e, at) ==
  LET local == At(f, at) IN
  IF local.t # "local" THEN [ok |-> FALSE]
  ELSE IF local.name # e.name \/ ~DecodeLocalFileHeaderCheck(f, local, e, at + 1) THEN [ok |-> FALSE]
  ELSE [ok |-> TRUE, e |-> [e EXCEPT !.method = local.method, !.data = at + 1]]

DecodeHeader(f, at) ==
  LET central == DecodeCentralDirEntry(f, at) IN
  IF ~central.ok THEN central ELSE DecodeLocalFileHeader(f, central.e, central.e.data)

ParsedEntry(p, d) == IF ~d.ok THEN [p EXCEPT !.ret = "format"] ELSE AddPkgEntry(p, d.e)
RECURSIVE ParseEntriesAt(_, _, _, _)
ParseEntriesAt(p, f, at, n) ==
  IF p.ret # "ok" \/ n = 0 THEN p
  ELSE IF Size(f) <= at THEN [p EXCEPT !.ret = "format"]
  ELSE ParseEntriesAt(ParsedEntry(p, DecodeHeader(f, at)), f, at + 1, n - 1)
ParseFileEntries(p, f, eocd) == ParseEntriesAt(p, f, eocd.offset, eocd.entries)

LoadEndDir(p, f, eocd) ==
  IF eocd.t # "eocd" \/ eocd.offset >= Size(f) \/ eocd.offset + eocd.entries + EocdLen > Size(f)
  THEN [p EXCEPT !.ret = "format"]
  ELSE ParseFileEntries(p, f, eocd)

GetFileLength(p, f) ==
  LET q == CheckState(p, {"idle"}, "working") IN
  IF q.ret # "ok" THEN q
  ELSE IF f.c = <<>> THEN [q EXCEPT !.ret = "state"]
  ELSE IF Size(f) < EocdLen THEN [q EXCEPT !.ret = "file"]
  ELSE q

\* An archive ends with its directory, or it is signed.
LoadPackage(f) ==
  LET q == GetFileLength(NoFile, f)
      end == At(f, Size(f) - EocdLen)
      sign == ParsePkg(f)
  IN  IF q.ret # "ok" THEN q
      ELSE IF end.t = "eocd" THEN LoadEndDir([q EXCEPT !.cells = f.c], f, end)
      ELSE IF ~sign.ok THEN [q EXCEPT !.ret = "format"]
      ELSE LoadEndDir([q EXCEPT !.cells = f.c], f, At(f, Size(f) - EocdLen - sign.total))

Unpack(f, e, room) ==
  IF e.method = "stored" THEN StoredUnpack(f, e.data, e.packed, room)
  ELSE DeflateUnpack(e.method, f, e.data, e.packed, e.crc, room)
=============================================================================
