------------------------------- MODULE GZipFile -------------------------------
(***************************************************************************)
(* GZipPkgFile and GZipFileEntry: one file, packed behind a header and in   *)
(* front of its checksum and its length.                                    *)
(***************************************************************************)
EXTENDS Archives

BLOCK_SIZE == 1
\* The name may be missing (Unnamed), and a header of another program may have a comment and
\* a checksum: `more' is how many cells they are.
Header(name, more) == [t |-> "gzip", name |-> name, more |-> more]
Trailer(crc, size) == [t |-> "trailer", crc |-> crc, size |-> size]

GetUpGradeCompInfo(name) == <<Header(name, 0)>>
EncodeHeader(p, name) == [p EXCEPT !.cells = @ \o GetUpGradeCompInfo(name)]

Pack(p, name, packing, method, content, room) ==
  LET made == PackWith(packing, method, content, room)
      e == Entry(name, packing, method, made.crc, Len(made.cells), Len(p.cells))
  IN  IF made.ret # "ok" THEN [AddPkgEntry(p, e) EXCEPT !.ret = made.ret]
      ELSE [AddPkgEntry(p, e) EXCEPT !.cells = @ \o made.cells \o <<Trailer(made.crc, Len(content))>>]

\* A package takes one entry.
AddEntry(p, name, packing, method, content, room) ==
  LET q == CheckState(p, {"idle", "working"}, "close") IN
  IF q.ret # "ok" THEN q
  ELSE IF ~InitEntry(content) THEN [q EXCEPT !.ret = "param"]
  ELSE Pack(EncodeHeader(q, name), name, packing, method, content, room)

SavePackage(p, digest) == AddSignData(p, digest)

DecodeHeaderCalOffset(c) == 1 + c.more

\* What is between the header and the last eight bytes of the file is taken for
\* the data.
DecodeHeader(f, c) ==
  LET offset == DecodeHeaderCalOffset(c) IN
  Entry(c.name, "gzip", "deflated", <<>>,
        SizeT(Size(f) - BLOCK_SIZE - offset), offset)

LoadPackage(f) ==
  LET q == CheckState(NoFile, {"idle"}, "working") IN
  IF f.c = <<>> THEN [q EXCEPT !.ret = "stream"]
  ELSE IF f.c[1].t # "gzip" THEN [q EXCEPT !.ret = "file"]
  ELSE [AddPkgEntry(q, DecodeHeader(f, f.c[1])) EXCEPT !.cells = f.c]

\* The checksum and the length behind the data that was found.
CheckFileInfo(f, e, u) ==
  LET trailer == At(f, e.data + u.packed) IN
  IF trailer.t = "eof" THEN [u EXCEPT !.ret = "stream"]
  ELSE IF trailer # Trailer(Crc32(u.out), Len(u.out)) THEN [u EXCEPT !.ret = "verify"]
  ELSE u

Unpack(f, e, room) ==
  LET u == UnpackWith(e.packing, e.method, f, e.data, e.packed, <<>>, room) IN
  IF u.ret # "ok" THEN u ELSE CheckFileInfo(f, e, u)
=============================================================================
