----------------------------- MODULE MCPackages -----------------------------
(***************************************************************************)
(* PkgManager for TLC.  The devices have a signed zip with an update.bin and *)
(* a version list, an update.bin with an inner update.zip with a gzip, and a *)
(* gzip and an lz4 of their own; nothing happened to them, or one cell or    *)
(* byte of one of them was changed, or it was cut, or there is little room.  *)
(***************************************************************************)
EXTENDS PkgManager

N(dir, stem, ext) == [dir |-> dir, stem |-> stem, ext |-> ext, tmp |-> FALSE]
File(name, packing, method, values) ==
  [name |-> name, packing |-> packing, method |-> method, values |-> values, size |-> 10 * Len(values)]

System == N("", "system", "img")
Vendor == N("", "vendor", "img")
Versions == N("", "version_list", "")
Upgrade == N("", "update_x", "bin")
InnerGz == N("", "base", "gz")

\* What goes into the entries.
MCValues ==
  [n \in {System, Vendor, Versions, Upgrade, InnerGz, UpdateZip, Unnamed} |->
     CASE n = System -> <<"s1", "s2", "s3">>
       [] n = Vendor -> <<"w1", "w2", "w3">>
       [] n = Versions -> <<"n1">>
       [] n = Upgrade -> <<"u1", "u2", "u3">>
       [] n = InnerGz -> <<"g1", "g2", "g3">>
       [] n = UpdateZip -> <<"z1", "z2", "z3">>
       [] n = Unnamed -> <<"l1", "l2", "l3">>]

Cellular(cells) == [Nothing EXCEPT !.cells = cells]
Of(type, files) == Entries(type, files, 99).cells

GzCells == Of("gz", <<File(System, "gzip", "deflated", MCValues[System])>>)
Lz4Cells(packing) == Of("lz4", <<File(Unnamed, packing, "none", MCValues[Unnamed])>>)
InnerZip == Of("zip", <<File(InnerGz, "zip", "deflated", MCValues[InnerGz])>>)
OuterZip == Of("zip", <<File(Upgrade, "zip", "deflated", MCValues[Upgrade]),
                        File(Versions, "none", "stored", MCValues[Versions])>>)
Good == Signer(TRUE, TRUE, TRUE, TRUE)
SignedZip ==
  LET body == SubSeq(OuterZip, 1, Len(OuterZip) - EocdLen) IN
  SubSeq(OuterZip, 1, Len(OuterZip) - 1)
  \o <<Comment(2), Signature(body, "sha256", <<Good>>), Footer(2, 2)>>

B(version, hash, parts) ==
  [NoBin EXCEPT !.version = version, !.comps = <<300, 300>>, !.parts = parts, !.hash = hash,
                !.stream = parts # <<>>, !.keyed = TRUE]
BinOf(b) ==
  LET w == Bin!WholeLen(b) IN
  [Nothing EXCEPT !.cells = <<[t |-> "bin"]>>, !.b = [b EXCEPT !.end = w, !.bad = w],
                  !.names = <<UpdateZip, Vendor>>, !.data = <<MCValues[UpdateZip], MCValues[Vendor]>>]

MCInside(values) ==
  CASE values = MCValues[Upgrade] -> BinOf(B(1, 0, <<>>))
    [] values = MCValues[UpdateZip] -> Cellular(InnerZip)
    [] values = MCValues[InnerGz] -> Cellular(GzCells)
    [] OTHER -> Cellular([i \in DOMAIN values |-> Block(values[i])])

ZipPath == N("pkg", "updater", "zip")
BinPath == N("pkg", "update_x", "bin")
GzPath == N("pkg", "system", "gz")
Lz4Path == N("pkg", "vendor", "lz4")

Device(path, content, damaged, room, card) ==
  [have |-> [p \in {path} |-> content], values |-> MCValues, damaged |-> damaged, room |-> room, card |-> card]

Changed(cells) ==
  UNION {{[cells EXCEPT ![i] = IF cells[i].t = "packed" THEN Packed("bad") ELSE [t |-> "junk"]],
          SubSeq(cells, 1, i - 1)} : i \in DOMAIN cells}
\* A byte of each field, and cuts within the head and the data.
ChangedBin(content) ==
  LET b == content.b
      at == {Bin!SignStart(b) + 3}
            \cup (IF b.version = 5 THEN {} ELSE {Bin!Tlv + 9, Bin!HeadEnd(b) - 1, Bin!HeadEnd(b) + 3})
      DataOf(p) == IF p < Bin!HeadEnd(b) THEN content.data
                   ELSE IF p < Bin!DataStart(b, 2) THEN <<Append(SubSeq(content.data[1], 2, 3), "bad"), content.data[2]>>
                   ELSE <<content.data[1], Append(SubSeq(content.data[2], 2, 3), "bad")>>
  IN  {[content EXCEPT !.b.bad = p, !.data = DataOf(p)] : p \in at}
      \cup {[content EXCEPT !.b.end = p, !.b.bad = p] : p \in {Bin!HeadEnd(b) + 40}}

Archived == {<<ZipPath, SignedZip>>, <<GzPath, GzCells>>}
Bins == {<<B(1, 0, <<>>), FALSE>>, <<B(3, 0, <<>>), FALSE>>, <<B(4, 40, <<>>), TRUE>>, <<B(5, 0, <<3, 4>>), FALSE>>}

MCDisks ==
  {Device(a[1], Cellular(a[2]), FALSE, room, FALSE) : a \in Archived, room \in {99}}
  \cup {Device(a[1], Cellular(a[2]), TRUE, 2, FALSE) : a \in Archived}
  \cup UNION {{Device(a[1], Cellular(c), TRUE, 99, FALSE) : c \in Changed(a[2])} : a \in Archived}
  \cup {Device(Lz4Path, Cellular(Lz4Cells(packing)), FALSE, 99, FALSE) : packing \in {"lz4", "lz4 block"}}
  \cup {Device(BinPath, BinOf(x[1]), FALSE, 99, x[2]) : x \in Bins}
  \cup UNION {{Device(BinPath, c, TRUE, 99, x[2]) : c \in ChangedBin(BinOf(x[1]))} : x \in {y \in Bins : y[1].version # 3}}

MCOrders ==
  {[path |-> N("new", "update_x", "bin"), key |-> "file", digest |-> digest,
    files |-> <<File(Vendor, "none", "none", MCValues[Vendor])>>] : digest \in {"sha256", "sha384"}}
  \cup {[path |-> N("new", "system", "gz"), key |-> "file", digest |-> "none",
         files |-> <<File(System, "gzip", "deflated", MCValues[System])>>]}
=============================================================================
