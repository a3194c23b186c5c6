----------------------------- MODULE PkgManager -----------------------------
(***************************************************************************)
(* PkgManagerImpl: the streams it opens and the packages it has loaded, of  *)
(* which one can be inside another, and what a client may ask of it: load,  *)
(* parse, verify, extract, create, close.  Each call is one step; m is the  *)
(* manager and the files of the device.                                    *)
(*                                                                         *)
(* A name is a record: dir, stem, ext, tmp (it ends with ".tmp").  What a   *)
(* file holds is a record: cells (for Archives), b (for UpdateBin; NoBin if *)
(* it is none), names and data (those of its components).                   *)
(***************************************************************************)
EXTENDS PkgVerify, FiniteSets

CONSTANTS
  Disks,       \* what a device can have: records have (names to contents), values (what
               \* each entry was made of), damaged, room (blocks it takes yet), card
  UpgradeStems,\* the stems that start with update_
  Inside(_),   \* the content that a sequence of blocks makes up
  Orders,      \* packages a client has created: records path, type, files, digest
  MaxCalls     \* calls of a client

Gzip == INSTANCE GZipFile
Lz4 == INSTANCE Lz4File
Bin == INSTANCE UpdateBin

VARIABLES
  device,\* what the device had
  m,     \* the manager
  held,  \* the stream a client has, 0 if none
  last,  \* the last call and what it returned
  calls

vars == <<device, m, held, last, calls>>

(***************************************************************************)
(* Names and contents.                                                     *)
(***************************************************************************)
NoBin == [version |-> 0, stream |-> FALSE, sha384 |-> FALSE, comps |-> <<>>, parts |-> <<>>, hash |-> 0,
          end |-> 0, bad |-> 0, keyed |-> FALSE, trusted |-> FALSE]
Nothing == [cells |-> <<>>, b |-> NoBin, names |-> <<>>, data |-> <<>>]

\* Only a name without a directory may be just update.bin; a temporary file has no
\* type.
GetPkgTypeByName(n) ==
  IF n.tmp THEN "none"
  ELSE IF n.ext = "bin" /\ (n.stem \in UpgradeStems \/ (n.dir = "" /\ n.stem = "update")) THEN "upgrade"
  ELSE IF n.ext \in {"zip", "lz4", "gz"} THEN n.ext
  ELSE "none"

\* The class that is made for a package goes by its name without the ".tmp".
GetPkgName(n) == n.ext

GetExtraPath(dir) == IF dir = "sdcard" THEN dir ELSE "updater"
TempName(dir, n) == [dir |-> GetExtraPath(dir), stem |-> n.stem, ext |-> n.ext, tmp |-> TRUE]

(***************************************************************************)
(* The streams.  Those of files and of maps are found by their name.        *)
(***************************************************************************)
Stream(name, kind, size) == [name |-> name, kind |-> kind, size |-> size, refs |-> 0, alive |-> TRUE, content |-> Nothing]

NewManager(disk, room, card) ==
  [streams |-> <<>>, reg |-> [n \in {} |-> 0], files |-> <<>>, disk |-> disk, room |-> room, card |-> card,
   key |-> FALSE, unzip |-> FALSE, touched |-> FALSE, crowded |-> FALSE, lost |-> {}, id |-> 0, ids |-> <<>>, names |-> <<>>,
   out |-> <<>>, ret |-> "ok"]

Ret(k, ret) == [k EXCEPT !.ret = ret]
Touch(k, id) == [k EXCEPT !.touched = @ \/ ~k.streams[id].alive]

ContentOf(k, id) ==
  IF k.streams[id].kind \in {"read", "write"} /\ k.streams[id].name \in DOMAIN k.disk
  THEN k.disk[k.streams[id].name] ELSE k.streams[id].content
FileOf(k, id) == [c |-> ContentOf(k, id).cells, mapped |-> k.streams[id].kind \in {"map", "file map", "buffer"}]

\* crowded is a history: a stream was given a third holder.
AddRef(k, id) ==
  [Touch(k, id) EXCEPT !.streams[id].refs = @ + 1, !.id = id,
                       !.crowded = @ \/ k.streams[id].refs >= 1]
DelRef(k, id) == [k EXCEPT !.streams[id].refs = @ - 1]
IsRef(k, id) == k.streams[id].refs = 0

New(k, name, kind, size) ==
  [k EXCEPT !.streams = Append(@, Stream(name, kind, size)), !.id = Len(k.streams) + 1]
\* pkgStreams_[fileName] = stream
Registered(k, name) ==
  [k EXCEPT !.reg = [n \in DOMAIN @ \cup {name} |-> IF n = name THEN k.id ELSE @[n]]]

\* A file that is open already is not opened again; one to write begins empty.
DoCreatePkgStream(k, name, kind) ==
  IF kind = "read" /\ name \notin DOMAIN k.disk THEN Ret([k EXCEPT !.id = 0], "file")
  ELSE IF name \in DOMAIN k.reg THEN Ret(AddRef(k, k.reg[name]), "ok")
  ELSE IF kind = "read" THEN Ret(New(k, name, kind, 0), "ok")
  ELSE [Ret(New(k, name, kind, 0), "ok") EXCEPT
          !.disk = [n \in DOMAIN @ \cup {name} |-> IF n = name THEN Nothing ELSE @[n]]]

\* A map of memory is anonymous: nothing of the file is in it.
MapLength(k, name, size) == IF size = 0 /\ name \in DOMAIN k.disk THEN Len(k.disk[name].cells) ELSE size
WithContent(k, content) == [k EXCEPT !.streams[k.id].content = content]
Mapped(k, name, kind, length) ==
  IF length = 0 \/ (kind = "file map" /\ name \notin DOMAIN k.disk) THEN Ret([k EXCEPT !.id = 0], "file")
  ELSE Ret(Registered(WithContent(New(k, name, kind, length), IF kind = "map" THEN Nothing ELSE k.disk[name]), name),
           "ok")
RegisteredIfOk(q, name) == IF q.ret # "ok" THEN q ELSE Registered(q, name)
CreatePkgStream(k, name, size, kind) ==
  IF k.ret # "ok" THEN k
  ELSE IF kind \in {"read", "write"} THEN RegisteredIfOk(DoCreatePkgStream(k, name, kind), name)
  ELSE Mapped(k, name, kind, MapLength(k, name, size))

\* Those of a buffer, of a callback and of shared memory have no place in the map.
CreateOtherStream(k, name, kind) == Ret(New(k, name, kind, 0), "ok")

\* As if there were one holder only.
Freed(k, id) ==
  [k EXCEPT !.streams[id].alive = FALSE, !.reg = [n \in DOMAIN @ \ {k.streams[id].name} |-> @[n]]]
ClosePkgStreamAtOnce(k, id) == IF id = 0 THEN k ELSE Freed(Touch(k, id), id)

\* It is the entry of the name that says whether there are references, whichever
\* stream it is of.
FreedIfLast(k, id) == IF IsRef(k, id) THEN k ELSE Freed(k, id)
ClosePkgStream(k, id) ==
  IF id = 0 THEN k
  ELSE IF k.streams[id].name \in DOMAIN k.reg THEN FreedIfLast(DelRef(Touch(k, id), id), id)
  ELSE [Touch(k, id) EXCEPT !.streams[id].alive = FALSE]

(***************************************************************************)
(* The packages.                                                           *)
(***************************************************************************)
\* ~PkgFileImpl: the stream of the package is closed, one for its components is not.
DeleteFile(k, file) ==
  [ClosePkgStream(k, file.stream) EXCEPT !.lost = IF file.entry = 0 THEN @ ELSE @ \cup {file.entry}]

RECURSIVE DeleteFiles(_, _)
DeleteFiles(k, files) == IF files = <<>> THEN k ELSE DeleteFiles(DeleteFile(k, Head(files)), Tail(files))
ClearStreams(gone) ==
  [gone EXCEPT !.touched = @ \/ \E n \in DOMAIN gone.reg : ~gone.streams[gone.reg[n]].alive,
               !.streams = [i \in DOMAIN @ |->
                              IF \E n \in DOMAIN gone.reg : gone.reg[n] = i THEN [@[i] EXCEPT !.alive = FALSE]
                              ELSE @[i]],
               !.reg = [n \in {} |-> 0]]
ClearPkgFile(k) == ClearStreams([DeleteFiles(k, k.files) EXCEPT !.files = <<>>])

\* pkgFileCreator_: the classes there are.
CreatePackageOf(name) == GetPkgName(name) \in {"bin", "zip", "lz4", "gz"}

SetSignVerifyKeyName(k, key) ==
  IF key = "on server" THEN Ret(k, "ok") ELSE IF key = "missing" THEN Ret(k, "file")
  ELSE Ret([k EXCEPT !.key = TRUE], "ok")

\* LoadPackage of the class: what it returns, its entries and, of an update.bin,
\* what its parser found.  Without a key nothing verifies that has no certificate.
LoadArchive(class, f) ==
  CASE class = "zip" -> LoadPackage(f)
    [] class = "gz" -> Gzip!LoadPackage(f)
    [] class = "lz4" -> Lz4!LoadPackage(f)
LoadBin(k, b, trusted) ==
  Bin!LoadPackage([b EXCEPT !.keyed = @ /\ (k.key \/ b.version >= 4), !.trusted = trusted], k.card)
PkgFile(class, id, trusted, p, s) ==
  [type |-> class, stream |-> id, entry |-> 0, trusted |-> trusted, p |-> p, s |-> s]
EntryNames(p) == [i \in DOMAIN p.entries |-> p.entries[i].name]
LoadedBin(id, trusted, names, s) == [ret |-> s.ret, file |-> PkgFile("bin", id, trusted, NoFile, s), names |-> names]
LoadedArchive(class, id, trusted, p) ==
  [ret |-> p.ret, file |-> PkgFile(class, id, trusted, p, Bin!NotRead), names |-> EntryNames(p)]
LoadAsBin(k, id, trusted) == LoadedBin(id, trusted, ContentOf(k, id).names, LoadBin(k, ContentOf(k, id).b, trusted))
LoadAs(k, id, trusted) ==
  IF GetPkgName(k.streams[id].name) = "bin" THEN LoadAsBin(k, id, trusted)
  ELSE LoadedArchive(GetPkgName(k.streams[id].name), id, trusted,
                     LoadArchive(GetPkgName(k.streams[id].name), FileOf(k, id)))

Kept(k, l) == [Ret(k, "ok") EXCEPT !.files = Append(@, l.file), !.names = l.names]
KeptOrDeleted(k, l) == IF l.ret # "ok" THEN Ret(DeleteFile(k, l.file), l.ret) ELSE Kept(k, l)

\* What cannot be loaded is deleted, and its stream is closed with it.
LoadPackageWithStream(k, id) ==
  IF k.ret # "ok" THEN k
  ELSE IF ~CreatePackageOf(k.streams[id].name) THEN Ret(ClosePkgStream(k, id), "param")
  ELSE KeptOrDeleted(k, LoadAs(k, id, FALSE))

WithKey(k, key, id) == LoadPackageWithStream(SetSignVerifyKeyName(k, key), id)

\* Where no class fits the stream stays open.
LoadForApp(q, id) ==
  IF q.ret # "ok" THEN q
  ELSE IF ~CreatePackageOf(q.streams[id].name) THEN Ret(q, "param")
  ELSE KeptOrDeleted(q, LoadAs(q, id, FALSE))
LoadPackageWithStreamForApp(k, key, id) == LoadForApp(SetSignVerifyKeyName(k, key), id)

\* Nothing is verified; what cannot be parsed leaves its stream to the caller.
KeptOrNot(k, l) == IF l.ret # "ok" THEN Ret(k, l.ret) ELSE Kept(k, l)
ParsePkgStream(k, id) ==
  IF ~CreatePackageOf(k.streams[id].name) THEN Ret(k, "param") ELSE KeptOrNot(k, LoadAs(k, id, TRUE))

LoadOpened(q) == LoadPackageWithStream(q, q.id)
LoadPackageOfType(k, path) == LoadOpened(CreatePkgStream(k, path, 0, "read"))

\* The components come through shared memory, the head from a file: the package
\* closes the one of the file only.
StreamLoaded(h, entry, l) ==
  IF l.ret # "ok" THEN [Ret(DeleteFile(h, l.file), "file") EXCEPT !.lost = @ \cup {entry}]
  ELSE [h EXCEPT !.files = Append(@, [l.file EXCEPT !.type = "stream", !.entry = entry]),
                 !.names = l.names]
HeadLoaded(h, entry) ==
  IF h.ret # "ok" THEN Ret(ClosePkgStream(h, entry), h.ret)
  ELSE StreamLoaded(h, entry, LoadAsBin(h, h.id, FALSE))
LoadHead(e, path, shm) ==
  IF ~shm THEN Ret(ClosePkgStream(e, e.id), "stream") ELSE HeadLoaded(CreatePkgStream(e, path, 0, "read"), e.id)
LoadStreamPackage(k, path, shm) == LoadHead(CreateOtherStream(k, path, "shm"), path, shm)

(***************************************************************************)
(* Entries.                                                                *)
(***************************************************************************)
NamesOf(k, file) ==
  IF file.type \in {"bin", "stream"} THEN ContentOf(k, file.stream).names ELSE EntryNames(file.p)

\* Of the packages that have an entry of this name, the first.
EntryIndex(k, file, name) == First({i \in DOMAIN NamesOf(k, file) : NamesOf(k, file)[i] = name})
GetPkgEntry(k, name) == First({i \in DOMAIN k.files : EntryIndex(k, k.files[i], name) # 0})

\* GetFileInfo: the size it says it has when it is unpacked.
EntrySize(e) == IF e.crc = <<>> THEN e.packed ELSE Len(e.crc)
TrailerSize(trailer) == IF trailer.t = "trailer" THEN trailer.size ELSE 1
SizeIn(f, file, i, data) ==
  CASE file.type = "zip" -> EntrySize(file.p.entries[i])
    [] file.type = "gz" -> TrailerSize(At(f, Size(f) - 1))
    [] file.type = "lz4" -> Size(f)
    [] OTHER -> Len(data[i])
UnpackedSize(k, file, i) == SizeIn(FileOf(k, file.stream), file, i, ContentOf(k, file.stream).data)

\* The entry's own Unpack, into what takes `room' blocks.
UnpackComponent(ret, out, room) ==
  IF ret = "ok" /\ Len(out) > room THEN Unpacked("stream", SubSeq(out, 1, room), room)
  ELSE Unpacked(ret, IF ret = "ok" THEN out ELSE <<>>, Len(out))
UnpackFrom(f, content, file, i, room) ==
  CASE file.type = "zip" -> Unpack(f, file.p.entries[i], room)
    [] file.type = "gz" -> Gzip!Unpack(f, file.p.entries[i], room)
    [] file.type = "lz4" -> Lz4!Unpack(f, file.p.entries[i], room)
    [] OTHER -> UnpackComponent(Bin!Unpack(content.b, file.s, i), content.data[i], room)
UnpackEntry(k, file, i, room) == UnpackFrom(FileOf(k, file.stream), ContentOf(k, file.stream), file, i, room)

\* What is written into a stream.
WrittenTo(k, id, name, content) ==
  IF k.streams[id].kind # "write" THEN [k EXCEPT !.streams[id].content = content]
  ELSE [k EXCEPT !.disk = [n \in DOMAIN @ \cup {name} |-> IF n = name THEN content ELSE @[n]]]
Written(k, id, out) == WrittenTo(k, id, k.streams[id].name, Inside(out))

RoomOf(k, id) == IF k.streams[id].kind = "map" THEN k.streams[id].size ELSE k.room

Extracted(k, file, id, u) ==
  [Written(Touch(Touch(k, file.stream), id), id, u.out) EXCEPT !.ret = u.ret, !.out = u.out]
ExtractFrom(k, file, name, id) ==
  Extracted(k, file, id, UnpackEntry(k, file, EntryIndex(k, file, name), RoomOf(k, id)))
ExtractFile(k, name, id) ==
  IF GetPkgEntry(k, name) = 0 THEN [Ret(k, "file") EXCEPT !.out = <<>>]
  ELSE ExtractFrom(k, k.files[GetPkgEntry(k, name)], name, id)

\* The entry goes to a temporary file, or to memory, and is loaded from there.
LoadExtracted(x, id) ==
  IF x.ret # "ok" THEN Ret(ClosePkgStream(x, id), x.ret) ELSE LoadPackageWithStream(x, id)
ExtractAndLoad(q, name) == IF q.ret # "ok" THEN q ELSE LoadExtracted(ExtractFile(q, name, q.id), q.id)
SizeOf(k, file, name) == UnpackedSize(k, file, EntryIndex(k, file, name))
ExtraAndLoadPackage(k, dir, name, type) ==
  IF GetPkgEntry(k, name) = 0 THEN Ret(k, "file")
  ELSE ExtractAndLoad(CreatePkgStream(k, TempName(dir, name), SizeOf(k, k.files[GetPkgEntry(k, name)], name),
                                      IF k.unzip \/ type = "upgrade" THEN "write" ELSE "map"),
                      name)

(***************************************************************************)
(* Loading by name.                                                        *)
(***************************************************************************)
UpdateZip == [dir |-> "/", stem |-> "update", ext |-> "zip", tmp |-> FALSE]
BoardList == [dir |-> "", stem |-> "board_list", ext |-> "", tmp |-> FALSE]
Has(names, n) == \E i \in DOMAIN names : names[i] = n

OrClear(q, ret) == IF q.ret = "ok" THEN q ELSE Ret(ClearPkgFile(q), ret)
AddIds(k, names) == [k EXCEPT !.ids = @ \o names]

\* The packages in the inner update.zip are loaded too; their names are not told.
RECURSIVE LoadInner(_, _, _)
LoadInner(q, dir, names) ==
  IF q.ret # "ok" \/ names = <<>> THEN q
  ELSE IF GetPkgTypeByName(Head(names)) \in {"none", "upgrade"} THEN LoadInner(q, dir, Tail(names))
  ELSE LoadInner(ExtraAndLoadPackage(q, dir, Head(names), GetPkgTypeByName(Head(names))), dir, Tail(names))
LoadInnerOf(zip, dir) == LoadInner(zip, dir, zip.names)
LoadPackageInnerZip(k, path) ==
  IF GetPkgTypeByName(path) # "upgrade" \/ ~Has(k.ids, UpdateZip) THEN Ret(k, "ok")
  ELSE LoadInnerOf(ExtraAndLoadPackage(k, path.dir, UpdateZip, "zip"), path.dir)

WithInnerZip(q, path, ret) ==
  IF q.ret # "ok" THEN Ret(ClearPkgFile(q), q.ret)
  ELSE OrClear(LoadPackageInnerZip(AddIds(q, q.names), path), ret)

LoadUpgradePackage(k, path) == WithInnerZip(LoadPackageOfType(k, path), path, "format")

\* An inner package that does not load empties the manager, and is not told of.
LoadPackageWithoutUnPack(k, path) ==
  WithInnerZip(LoadPackageOfType([k EXCEPT !.ids = <<>>], path), path, "ok")

GetPkgFile(k, path) == First({i \in DOMAIN k.files : k.streams[k.files[i].stream].name = path})

\* A package that is loaded already has been loaded, whatever its entries are. The
\* update packages for several boards stay packed.
WithNames(x) == IF x.ret = "ok" THEN AddIds(x, x.names) ELSE x
LoadEntry(k, dir, boards, n) ==
  LET inner == GetPkgTypeByName(n) IN
  IF inner = "none" \/ (inner = "upgrade" /\ boards) THEN AddIds(k, <<n>>)
  ELSE WithNames(ExtraAndLoadPackage(k, dir, n, inner))
RECURSIVE LoadEntries(_, _, _, _)
LoadEntries(q, dir, boards, names) ==
  IF q.ret # "ok" \/ names = <<>> THEN q
  ELSE LoadEntries(LoadEntry(q, dir, boards, Head(names)), dir, boards, Tail(names))
OrCleared(q) == OrClear(q, q.ret)
LoadAll(q, dir) == OrCleared(LoadEntries(q, dir, Has(q.names, BoardList), q.names))
LoadByType(g, path, type) ==
  IF type = "upgrade" THEN LoadUpgradePackage(g, path)
  ELSE IF type = "none" THEN g
  ELSE LoadAll(LoadPackageOfType(g, path), path.dir)
LoadNew(s, path) ==
  IF s.ret # "ok" \/ GetPkgFile(s, path) # 0 THEN s
  ELSE LoadByType([s EXCEPT !.unzip = @ \/ GetPkgTypeByName(path) = "gz"], path, GetPkgTypeByName(path))
LoadByPath(k, path, key) ==
  IF path \notin DOMAIN k.disk THEN Ret([k EXCEPT !.ids = <<>>], "file")
  ELSE LoadNew(SetSignVerifyKeyName([k EXCEPT !.ids = <<>>], key), path)

(***************************************************************************)
(* Verifying.                                                              *)
(***************************************************************************)
VerifiedAndClosed(q, type, old) ==
  IF q.ret # "ok" THEN q ELSE Ret(ClosePkgStream(q, q.id), VerifyPackageSign(type, FileOf(q, q.id), old))
VerifyOtaPackage(k, path, old) ==
  VerifiedAndClosed(CreatePkgStream(k, path, 0, "read"),
                    IF GetPkgTypeByName(path) = "upgrade" THEN "upgrade" ELSE path.ext, old)

\* The digest is that of the whole file as it should be.
Compared(have, wanted) == IF have = Nothing THEN "file" ELSE IF have = wanted THEN "ok" ELSE "signature"
ComparedAndClosed(q, wanted) ==
  IF q.ret # "ok" THEN q ELSE Ret(ClosePkgStream(q, q.id), Compared(ContentOf(q, q.id), wanted))
VerifyBinFile(k, path, wanted) == ComparedAndClosed(CreatePkgStream(k, path, 0, "read"), wanted)

\* An update package without a digest is loaded by a manager of its own.
VerifyWithKey(q, path, key, digest) ==
  IF q.ret # "ok" THEN q
  ELSE IF GetPkgTypeByName(path) # "upgrade" THEN VerifyOtaPackage(q, path, TRUE)
  ELSE IF digest # Nothing THEN VerifyBinFile(q, path, digest)
  ELSE Ret(q, LoadByPath(NewManager(q.disk, q.room, q.card), path, key).ret)
VerifyPackage(k, path, key, digest) == VerifyWithKey(SetSignVerifyKeyName(k, key), path, key, digest)

\* As if the stream were closed after a right signature only.
AccPackageSign(f) == IF VerifyPackageSign("zip", f, TRUE) = "ok" THEN "ok" ELSE VerifyAccPackageSign("zip", f)
CloseIf(q, ret) == IF q.ret = "ok" /\ ret = "ok" THEN ClosePkgStream(q, q.id) ELSE Ret(q, ret)
VerifyAccOpened(q) == CloseIf(q, AccPackageSign(FileOf(q, q.id)))
VerifyAccPackageOpen(k, path) == VerifyAccOpened(CreatePkgStream(k, path, 0, "read"))

VerifyAccClosed(q) == IF q.ret # "ok" THEN q ELSE Ret(ClosePkgStream(q, q.id), AccPackageSign(FileOf(q, q.id)))
VerifyAccPackage(k, path) == VerifyAccClosed(CreatePkgStream(k, path, 0, "read"))

\* PackagesInfo::GetOTAVersion: an entry is extracted to memory and read there.
ReadAndClose(q, name) == IF q.ret # "ok" THEN q ELSE ClosePkgStream(ExtractFile(q, name, q.id), q.id)
GetOTAVersion(k, name) ==
  IF GetPkgEntry(k, name) = 0 THEN Ret(k, "file")
  ELSE ReadAndClose(CreatePkgStream(k, name, SizeOf(k, k.files[GetPkgEntry(k, name)], name), "map"), name)

(***************************************************************************)
(* Creating, for the tools that make packages.                             *)
(***************************************************************************)
\* One entry after the other goes into the package, and what ends it follows.
AddTo(p, type, file, room) ==
  CASE type = "zip" -> AddEntry(p, file.name, file.packing, file.method, file.values, room)
    [] type = "gz" -> Gzip!AddEntry(p, file.name, "gzip", "deflated", file.values, room)
    [] type = "lz4" -> Lz4!AddEntry(p, file.name, file.packing, file.values, room)
RECURSIVE WithEntries(_, _, _, _)
WithEntries(p, type, files, room) ==
  IF p.ret # "ok" \/ files = <<>> THEN p ELSE WithEntries(AddTo(p, type, Head(files), room), type, Tail(files), room)
Save(p, type) ==
  CASE type = "zip" -> SavePackage(p)
    [] type = "gz" -> Gzip!SavePackage(p, "none")
    [] type = "lz4" -> Lz4!SavePackage(p, "none")
SaveIfOk(p, type) == IF p.ret # "ok" THEN p ELSE Save(p, type)
Entries(type, files, room) == SaveIfOk(WithEntries(NoFile, type, files, room), type)

\* DoGenerateFileDigest, Sign: the digest is of the file with zeros for the
\* signature, and the signature goes behind the reserve, whichever its algorithm.
Sign(b, digest) == IF digest = "none" THEN [b EXCEPT !.keyed = FALSE] ELSE [b EXCEPT !.keyed = digest = "sha256", !.sha384 = digest = "sha384"]

ComponentsOf(w, files, digest) ==
  [ret |-> w.ret, content |->
    [cells |-> <<[t |-> "bin"]>>, b |-> Sign(Bin!Saved(w), digest),
     names |-> [i \in DOMAIN files |-> files[i].name], data |-> [i \in DOMAIN files |-> files[i].values]]]
RECURSIVE WithComponents(_, _)
WithComponents(w, files) == IF files = <<>> THEN w ELSE WithComponents(Bin!AddEntry(w, Head(files).size), Tail(files))
Components(files, digest) ==
  ComponentsOf(Bin!SavePackage(WithComponents(Bin!NewPackage(Len(files)), files)), files, digest)

\* The class goes by the name of the file, whatever type the header says.  What was
\* not saved is left as far as it was written.
Archive(p) == [ret |-> p.ret, content |-> [Nothing EXCEPT !.cells = p.cells]]
Made(o, room) ==
  IF o.path.ext = "bin" THEN Components(o.files, o.digest) ELSE Archive(Entries(o.path.ext, o.files, room))
Finished(q, o, made) ==
  Ret(ClosePkgStream([q EXCEPT !.disk[o.path] = made.content], q.id), IF made.ret = "ok" THEN "ok" ELSE "file")
CreateInto(q, o) ==
  IF q.ret # "ok" THEN q
  ELSE IF CreatePackageOf(o.path) THEN Finished(q, o, Made(o, q.room))
  ELSE Ret(ClosePkgStream(q, q.id), "file")
CreateWithKey(k, o) ==
  IF k.ret # "ok" THEN k
  ELSE IF o.files = <<>> THEN Ret(k, "param")
  ELSE CreateInto(CreatePkgStream(k, o.path, 0, "write"), o)
CreatePackage(k, o) == CreateWithKey(SetSignVerifyKeyName(k, o.key), o)

\* What is packed in memory and unpacked again, without a package around it.
CompressBuffer(packing, values, room) == PackWith(packing, "deflated", values, room)
DecompressBuffer(packing, cells, room) ==
  UnpackWith(packing, "deflated", [c |-> cells, mapped |-> TRUE], 0, Len(cells), <<>>, room)

(***************************************************************************)
(* A client and its manager.                                               *)
(***************************************************************************)
Outcome(call, what, k, checked, fits) ==
  [call |-> call, what |-> what, ret |-> k.ret, out |-> k.out, checked |-> checked, fits |-> fits]
Settled(k) == [k EXCEPT !.id = 0, !.names = <<>>, !.out = <<>>, !.ret = "ok"]

Init ==
  /\ device \in Disks
  /\ m = NewManager(device.have, device.room, device.card)
  /\ held = 0
  /\ last = [call |-> "none", what |-> "none", ret |-> "ok", out |-> <<>>, checked |-> FALSE, fits |-> FALSE]
  /\ calls = 0

\* No stream that a package, the map or the client has was freed, nor used after it was.
StreamsAlive ==
  /\ ~m.touched
  /\ \A i \in DOMAIN m.files : m.streams[m.files[i].stream].alive
  /\ \A n \in DOMAIN m.reg : m.streams[m.reg[n]].alive
  /\ held # 0 => m.streams[held].alive

\* What a call does after one was is undefined, and is not followed.
ReturnsWith(call, what, k, checked, fits) ==
  /\ calls < MaxCalls /\ StreamsAlive
  /\ m' = Settled(k)
  /\ last' = Outcome(call, what, k, checked, fits)
  /\ calls' = calls + 1
  /\ UNCHANGED device

Returns(call, what, k) == ReturnsWith(call, what, k, FALSE, FALSE)

Paths == DOMAIN device.have
Out == [dir |-> "out", stem |-> "out", ext |-> "", tmp |-> FALSE]

\* A failing load closes whatever is open: a client that loads holds nothing.
Free == held = 0

Load(path, key) == Free /\ Returns("load", path, LoadByPath(m, path, key)) /\ UNCHANGED held
LoadWithoutUnPack(path) ==
  Free /\ Returns("load inner", path, LoadPackageWithoutUnPack(m, path)) /\ UNCHANGED held
LoadStream(path, shm) == Free /\ Returns("load stream", path, LoadStreamPackage(m, path, shm)) /\ UNCHANGED held
Verifying(path, key, digest) ==
  Free /\ Returns("verify", path, VerifyPackage(m, path, key, digest)) /\ UNCHANGED held
VerifyingAcc(path) == Free /\ Returns("verify acc", path, VerifyAccPackage(m, path)) /\ UNCHANGED held
Version(name) == Free /\ Returns("version", name, GetOTAVersion(m, name)) /\ UNCHANGED held
Create(o) == Free /\ Returns("create", o, CreatePackage(m, o)) /\ UNCHANGED held

Opens(call, path, q) == Free /\ Returns(call, path, q) /\ held' = q.id
Open(path) == Opens("open", path, CreatePkgStream(m, path, 0, "read"))
OpenOut(kind, size) ==
  Opens("open out", Out, IF kind \in {"write", "map", "file map"} THEN CreatePkgStream(m, Out, size, kind)
                         ELSE CreateOtherStream(m, Out, kind))

\* The stream belongs to the manager then, unless it did not get as far as that.
LoadHeld(key) ==
  /\ held # 0 /\ m.streams[held].kind = "read"
  /\ Returns("load held", m.streams[held].name, WithKey(m, key, held))
  /\ held' = IF key = "missing" THEN held ELSE 0
LoadHeldForApp(key) ==
  LET left == IF key # "missing" /\ ~CreatePackageOf(m.streams[held].name) THEN {held} ELSE {} IN
  /\ held # 0 /\ m.streams[held].kind = "read"
  /\ Returns("load app", m.streams[held].name,
             [LoadPackageWithStreamForApp(m, key, held) EXCEPT !.lost = @ \cup left])
  /\ held' = IF key = "missing" THEN held ELSE 0
\* What a head that was changed says is not looked into.
Unchanged(b) == b.bad >= (IF b = NoBin THEN 0 ELSE Bin!HeadEnd(b)) \/ Bin!InZeros(b, b.bad)
Parsed(q) ==
  /\ Returns("parse", m.streams[held].name, q)
  /\ held' = IF q.ret = "ok" THEN 0 ELSE held
Parse ==
  /\ held # 0 /\ m.streams[held].kind = "read"
  /\ Unchanged(ContentOf(m, held).b)
  /\ Parsed(ParsePkgStream(m, held))

\* What the format itself checks: the checksum of a zip's or a gzip's data, the
\* hash or the signature of a component.
FileChecks(file, name) ==
  CASE file.type = "zip" -> file.p.entries[EntryIndex(m, file, name)].method = "deflated"
    [] file.type = "gz" -> TRUE
    [] file.type = "lz4" -> FALSE
    [] OTHER -> file.s.checks \/ (ContentOf(m, file.stream).b.version = 1 /\ ~file.trusted)
HasCheck(name) == GetPkgEntry(m, name) # 0 /\ FileChecks(m.files[GetPkgEntry(m, name)], name)

Extract(name) ==
  /\ held # 0 /\ m.streams[held].kind # "read"
  /\ ReturnsWith("extract", name, ExtractFile(m, name, held), HasCheck(name),
                 RoomOf(m, held) >= Len(device.values[name]))
  /\ UNCHANGED held

Close == held # 0 /\ Returns("close", Out, ClosePkgStream(m, held)) /\ held' = 0

\* ReleasePackageInstance: the next manager finds the files as they are.
Renewed(q) == [NewManager(q.disk, q.room, q.card) EXCEPT !.touched = q.touched, !.crowded = q.crowded]
Release ==
  /\ held = 0
  /\ Returns("release", Out, Renewed(ClearPkgFile(m)))
  /\ UNCHANGED held

GivenBack(u) == [m EXCEPT !.ret = u.ret, !.out = u.out]
\* CompressBuffer and DecompressBuffer, one after the other.
Repacked(packing, made, room) ==
  IF made.ret # "ok" THEN Ret(m, made.ret) ELSE GivenBack(DecompressBuffer(packing, made.cells, room))
Repack(packing, values, room) ==
  /\ Returns("repack", values, Repacked(packing, CompressBuffer(packing, values, room), room))
  /\ UNCHANGED held

Names == DOMAIN device.values
Sizes == {Len(device.values[n]) : n \in Names}

Next ==
  \/ \E path \in Paths, key \in {"file", "on server"} : Load(path, key)
  \/ \E path \in Paths : LoadWithoutUnPack(path)
  \/ \E path \in Paths, shm \in BOOLEAN : LoadStream(path, shm)
  \/ \E path \in Paths : \E digest \in {Nothing, device.have[path]} : Verifying(path, "file", digest)
  \/ \E path \in Paths : VerifyingAcc(path)
  \/ \E name \in Names : Version(name)
  \/ \E o \in Orders : Create(o)
  \/ \E path \in Paths : Open(path)
  \/ \E kind \in {"write", "map", "processor"}, size \in Sizes : OpenOut(kind, size)
  \/ \E key \in {"file", "missing"} : LoadHeld(key) \/ LoadHeldForApp(key)
  \/ Parse
  \/ \E name \in Names : Extract(name)
  \/ Close
  \/ Release
  \/ \E packing \in {"gzip", "none", "lz4", "lz4 block"}, n \in Names : Repack(packing, device.values[n], 99)

Spec == Init /\ [][Next]_vars

(***************************************************************************)
(* Properties.                                                             *)
(***************************************************************************)
\* A call that fails half-way leaves no stream behind that nobody will close: each
\* is a package's or the client's, and has as many references as it has holders.
\* (The two calls that do are named in `lost': a stream of components, and a stream that no class of package fits.)
NothingLeaks ==
  \A i \in DOMAIN m.streams :
    m.streams[i].alive =>
      \/ i \in m.lost
      \/ \E j \in DOMAIN m.files : i = m.files[j].entry
      \/ m.streams[i].refs + 1 =
           Cardinality({j \in DOMAIN m.files : i = m.files[j].stream}) + (IF i = held THEN 1 ELSE 0)

\* StreamsHold: whatever is loaded, shared by its name, replaced under its name,
\* closed and cleared, the references PkgManagerImpl counts are those of the streams'
\* holders, and no stream goes too early or is used after it went, as long as none
\* has had a third holder: ClosePkgStream keeps a stream for its last holder only.
StreamsHold == NothingLeaks /\ (~m.crowded => StreamsAlive)

\* A stream whose count of references is above zero is referenced, and ClosePkgStream
\* does not free it.
ReferencedStay == \A i \in DOMAIN m.streams : m.streams[i].refs > 0 => m.streams[i].alive

\* An update.bin that is loaded, by whichever call and however deep inside another
\* package, has none of the bytes that were signed changed or missing, and the
\* offsets of its components are where their data is; ParsePackage alone does
\* without, up to the third version.
LoadedIsSigned ==
  \A i \in DOMAIN m.files :
    LET file == m.files[i]
        b == ContentOf(m, file.stream).b
    IN  file.type \in {"bin", "stream"} =>
          /\ \A k \in DOMAIN file.s.offsets : file.s.offsets[k] = Bin!DataStart(b, k)
          /\ (~file.trusted \/ b.version >= 4) =>
               /\ b.keyed /\ b.end >= (IF b.version = 1 THEN Bin!WholeLen(b) ELSE Bin!HeadEnd(b))
               /\ b.bad < b.end => Bin!InZeros(b, b.bad) \/ (b.bad >= Bin!HeadEnd(b) /\ b.version > 1)

\* An entry of a format that checks its data, extracted with success, is what went
\* in, whichever cell of the file was changed, wherever it was cut and however
\* little the destination took.
ExtractedIsWhole ==
  last.call = "extract" /\ last.ret = "ok" /\ last.checked => last.out = device.values[last.what]

\* An update.bin that the loader should take.
Proper(content) ==
  content.b = NoBin \/ (content.b.keyed /\ (content.b.version >= 2 => (content.b.hash > 0) = device.card))

\* What the writers make the readers read: a package that nothing happened to loads
\* with its key, and each of its entries comes out as it went in.
IntactPackagesWork ==
  ~device.damaged =>
    /\ last.call = "load" /\ (\A n \in DOMAIN m.disk : Proper(m.disk[n])) /\ m.key => last.ret = "ok"
    /\ last.call = "extract" /\ last.ret # "file" /\ last.fits => last.ret = "ok" /\ last.out = device.values[last.what]
=============================================================================
