------------------------------- MODULE MCDevice -------------------------------
(***************************************************************************)
(* Device for TLC.                                                         *)
(***************************************************************************)
EXTENDS Device, MCScripts, TLC

TableOf(entries, last) == [mbr |-> TRUE, head |-> TRUE, last |-> last, of |-> entries, entries |-> entries]
Disk(size, t) == [size |-> size, primary |-> t, backup |-> t]
Sys == Entry("SYS", "", 1, 3)
User(first, end) == Entry(Userdata, "", first, end)
System == <<Sys, User(4, 17)>>
Boot(slot) == <<Entry("BOOT", slot, 1, 4), Entry("VENDOR", slot, 5, 8)>>
Ufs(backup, startLun) ==
  [kinds |-> <<"ufs">>, startLun |-> startLun, backup |-> backup, reserved |-> 0, vab |-> FALSE,
   disk |-> (startLun :> Disk(20, TableOf(System, 17))) @@ (startLun + 1 :> Disk(12, TableOf(Boot(""), 9))) @@ (0 :> Disk(12, Blank))]
MmcDevice ==
  [kinds |-> <<"emmc">>, startLun |-> 0, backup |-> FALSE, reserved |-> 0, vab |-> FALSE,
   disk |-> (Mmc :> Disk(20, TableOf(<<Sys, User(4, 19)>>, 19)))]
Both ==
  [kinds |-> <<"ufs", "emmc">>, startLun |-> 0, backup |-> FALSE, reserved |-> 2, vab |-> FALSE,
   disk |-> (Mmc :> Disk(12, TableOf(<<Entry("BOOT", "", 1, 4)>>, 11))) @@ (0 :> Disk(20, TableOf(<<Sys, User(4, 17)>>, 17)))]
Vab ==
  [kinds |-> <<"ufs">>, startLun |-> 0, backup |-> TRUE, reserved |-> 0, vab |-> TRUE,
   disk |-> (0 :> Disk(20, TableOf(System, 17))) @@ (1 :> Disk(12, TableOf(Boot("a"), 9))) @@ (2 :> Disk(12, TableOf(Boot("b"), 9)))]
Image(emmc, luns) == [emmc |-> emmc, luns |-> luns, there |-> TRUE]
Move(name, start, size, lun) == [name |-> name, slot |-> "", start |-> start, size |-> size, lun |-> lun]

Packages(images, sdcard) == Job("packages", images, sdcard, <<>>, TRUE, 0, 0)
FromFile(modify, updater, current, slot) == Job("file", <<>>, FALSE, modify, updater, current, slot)
\* the same, another system, the user's data elsewhere, nothing for the second LUN, an
\* empty user's data, a table behind the device.
UfsImages ==
  {Image(Blank, <<TableOf(s, 10), TableOf(Boot(""), 9)>>) :
     s \in {System, <<Entry("SYS", "", 1, 2), Entry("NEW", "", 3, 3), User(4, 9)>>,
            <<Entry("SYS", "", 1, 5), User(6, 9)>>}}
  \cup {Image(Blank, <<TableOf(<<Entry("S", "", 1, 3), User(4, 9)>>, 9), Blank>>),
        Image(Blank, <<TableOf(<<Sys, User(4, 9)>>, 9), TableOf(<<Entry(Userdata, "a", 1, 0)>>, 9)>>)}
BothImages ==
  {Image(TableOf(<<Entry("BOOT", "", 1, b)>>, 9), <<TableOf(<<Sys, User(4, u)>>, 10)>>) : b \in {4, 5}, u \in {9}}
  \cup {Image(TableOf(<<Entry("BOOT", "", 1, 4)>>, 9), <<TableOf(<<Entry("SYS", "", 1, 2), User(4, 9)>>, 10)>>)}
MmcImages == {Image(TableOf(<<Entry("SYS", "", 1, e), User(f, 9)>>, 9), <<>>) : e \in {2, 3}, f \in {4, 5}}
Some(images) == {<<i>> : i \in images} \cup {<<i, j>> : i, j \in images}
UfsMoves == {<<Move("SYS", 1, 5, 0)>>, <<Move("SYS", 1, 2, 0), Move("BOOT", 1, 3, 1)>>, <<Move("SYS", 1, 17, 0)>>,
             <<Move("SYS", 1, 5, 0), Move(Userdata, 6, 12, 0)>>}
McDevices == {Ufs(TRUE, 0), Ufs(FALSE, 0), Ufs(TRUE, 1), MmcDevice, Both, Vab}
McJobs ==
  [d \in McDevices |->
    IF d.vab THEN {FromFile(<<Move("SYS", 1, 5, 0), [Move("BOOT", 1, 3, l) EXCEPT !.slot = SlotName(l)]>>, u, c, s) : l \in 1..2, u \in BOOLEAN, c \in 0..2, s \in 1..2}
                  \cup {Job("sync", <<>>, FALSE, <<>>, FALSE, c, 0) : c \in 1..2}
    ELSE IF d = MmcDevice THEN {Packages(i, c) : i \in Some(MmcImages), c \in BOOLEAN}
                               \cup {FromFile(<<Move("SYS", 1, n, 0)>>, u, 0, 0) : n \in {2, 5}, u \in BOOLEAN}
    ELSE IF d = Both THEN {Packages(i, c) : i \in Some(BothImages), c \in BOOLEAN}
    ELSE IF d.startLun = 1 THEN {Packages(<<i>>, c) : i \in UfsImages, c \in BOOLEAN}
                                \cup {FromFile(m, TRUE, 0, 0) : m \in UfsMoves}
    ELSE {Packages(i, c) : i \in Some(UfsImages), c \in BOOLEAN}
         \cup {FromFile(m, u, 0, 0) : m \in UfsMoves, u \in BOOLEAN}]

Package(n) == Option("update_package", n)
Kit(ui, table, card, battery) ==
  [ui |-> ui, table |-> table, secure |-> <<"log">>, disks |-> <<"sda">>, card |-> card, battery |-> battery]
McKits ==
  {Kit(ui, t, c, TRUE) : ui \in BOOLEAN, t \in {<<"sys", "cust", "userdata">>, <<"sys", "userdata">>},
                         c \in {<<>>, <<Package(1), Package(2)>>}}
  \cup {Kit(ui, <<>>, <<Package(1)>>, FALSE) : ui \in BOOLEAN}
McPartitions == {"userdata", "cust", "log", "sda"}
McChunks == [p \in McPartitions |-> IF p = "userdata" THEN 2 ELSE 1]
McRequests ==
  {<<Flag(o)>> : o \in {"user_wipe_data", "menu_wipe_data", "factory_wipe_data", "secure_erase", "disk_erase",
                        "sdcard_update", "factory_sd_update", "UPDATE:SD", "UPDATE:MAINIMG", "UPDATE:SDFROMDEV",
                        "sdcard_intral_update", "subpkg_update"}}
  \cup {<<Package(1), Package(2)>> \o more :
         more \in {<<>>, <<Flag("factory_reset_ota")>>, <<Flag("night_update")>>, <<Flag("force_update_action")>>}}
  \cup {<<Flag("sdcard_update"), Package(1)>>, <<Package(1), Package(3), Flag("factory_reset_ota")>>, <<Option("update_bin", 1)>>, <<>>}

Command(cmd, name) == [cmd |-> cmd, name |-> name]
McCommands == {Command("flash", "sys"), Command("update", "sys"), Command("erase", "sys"),
               Command("format", "boot"), Command("unknown", "sys")}

PartOf(name, start, length) == [name |-> <<name>>, start |-> start, length |-> length]
AsAsked(part) == part @@ [good |-> TRUE]
BadPart == [name |-> <<"bad">>, start |-> 0, length |-> 0, good |-> FALSE]
TheBoot == PartOf("boot", 0, 4)
TheSystem == PartOf("system", 4, 8)
TheUpdater == PartOf("updater", 12, 4)
TheData == PartOf("userdata", 16, 16)
McMounted == {<<"boot">>, <<"system">>}
McLayouts == {<<TheBoot, TheSystem, TheUpdater, TheData>>, <<TheBoot, TheSystem, TheData>>, <<>>}
Smaller == <<TheBoot, PartOf("system", 4, 4), PartOf("vendor", 8, 4), TheUpdater, TheData>>
McPartLists ==
  {[i \in DOMAIN l |-> AsAsked(l[i])] : l \in {<<TheBoot, TheSystem, TheUpdater, TheData>>, Smaller, <<TheBoot, TheSystem>>,
      <<TheBoot, PartOf("vendor", 4, 8), TheData>>, <<TheData, TheUpdater, TheData>>, <<TheData, TheSystem, PartOf("boot", 0, 3)>>}}
  \cup {<<AsAsked(TheData), BadPart, AsAsked(TheBoot)>>, <<BadPart, AsAsked(TheBoot), AsAsked(TheData)>>, <<>>,
        <<AsAsked(TheBoot), AsAsked(PartOf("new", 32, 5)), BadPart>>}
=============================================================================
