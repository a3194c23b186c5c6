------------------------------- MODULE Lz4File -------------------------------
(***************************************************************************)
(* Lz4PkgFile and Lz4FileEntry: one file, as blocks or as a frame.          *)
(***************************************************************************)
EXTENDS Archives

EncodeHeader(p) == Len(p.cells)

Pack(p, name, packing, content, room) ==
  LET made == PackWith(packing, "none", content, room)
      e == Entry(name, packing, "none", <<>>, Len(made.cells), EncodeHeader(p))
  IN  IF made.ret # "ok" THEN [AddPkgEntry(p, e) EXCEPT !.ret = made.ret]
      ELSE [AddPkgEntry(p, e) EXCEPT !.cells = @ \o made.cells]

AddEntry(p, name, packing, content, room) ==
  LET q == CheckState(p, {"idle", "working"}, "close") IN
  IF q.ret # "ok" THEN q
  ELSE IF ~InitEntry(content) THEN [q EXCEPT !.ret = "param"]
  ELSE Pack(q, name, packing, content, room)

SavePackage(p, digest) == AddSignData(p, digest)

\* The data is what follows the magic number, up to the end of the file.
DecodeHeader(f, magic) ==
  Entry(Unnamed, IF magic = "frame" THEN "lz4" ELSE "lz4 block", "none", <<>>, Size(f), 1)

LoadPackage(f) ==
  LET q == CheckState(NoFile, {"idle"}, "working") IN
  IF f.c = <<>> THEN [q EXCEPT !.ret = "stream"]
  ELSE IF f.c[1].t # "magic" THEN [q EXCEPT !.ret = "file"]
  ELSE [AddPkgEntry(q, DecodeHeader(f, f.c[1].v)) EXCEPT !.cells = f.c]

Unpack(f, e, room) == UnpackWith(e.packing, e.method, f, e.data, e.packed, <<>>, room)
=============================================================================
