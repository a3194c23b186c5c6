----------------------------- MODULE UpdaterModes -----------------------------
(***************************************************************************)
(* The updater from one boot to the next, whatever it is asked to do: to    *)
(* wipe, to erase, to install packages, update.bin files or what is on a    *)
(* card; what it reads in misc, what it leaves there, and what it shows.    *)
(* How packages are installed is OtaLifecycle's: here a package is          *)
(* installed in a step.                                                     *)
(***************************************************************************)
EXTENDS FactoryReset, FiniteSetsExt

CONSTANTS
  Kits,        \* devices
  Requests,    \* lists of options a client asks with
  BadPackages, \* packages whose verification fails
  MaxAsks      \* bound: requests in a behaviour

VARIABLES
  installed,   \* packages installed for this request
  asked,       \* history: the options of the request
  asks,        \* history: requests so far
  reboot       \* what PostUpdater is followed by: "wipe", "restart" or "as asked"

modesKept == <<kit, erasing, chunk, userdata, lists, lost, due, asked, asks>>
modes == <<place, status, resetVars, installed, asked, asks, reboot>>

CardModes == {"sdcard_update", "factory_sd_update", "UPDATE:SD", "UPDATE:MAINIMG", "UPDATE:SDFROMDEV"}
UpdateModes == CardModes \cup {"sdcard_intral_update", "subpkg_update"}
NoParams == [bins |-> <<>>, pkgs |-> <<>>, retry |-> 0, loc |-> 0, reset |-> "", mode |-> "", ext |-> "",
             shutdown |-> FALSE, night |-> FALSE, hota |-> FALSE]

\* StartUpdater: each option sets what it is for; the last of a kind decides.
LastOf(args, names) ==
  LET at == {i \in DOMAIN args : args[i].name \in names} IN
  IF at = {} THEN Flag("") ELSE args[Max(at)]
OptionsOf(args, name) == Chosen(args, {o \in Options : o.name = name})
Ext(name) == IF name \in {"", "UPDATE:SDFROMDEV"} THEN name ELSE "normal"
StartUpdater(args) ==
  [bins |-> OptionsOf(args, "update_bin"), pkgs |-> OptionsOf(args, "update_package"),
   retry |-> LastOf(args, {"retry_count"}).n, loc |-> LastOf(args, {"upgraded_pkg_num"}).n,
   reset |-> LastOf(args, Wipes \cup Erasures).name,
   mode |-> LastOf(args, UpdateModes).name, ext |-> Ext(LastOf(args, CardModes).name),
   shutdown |-> CheckUpdateMode(args, "force_update_action"),
   night |-> CheckUpdateMode(args, "night_update"),
   hota |-> \E o \in {"update_bin", "update_package", "subpkg_update"} : CheckUpdateMode(args, o)]
AsksReset(args) == LastOf(args, Wipes \cup Erasures).name # ""
OnCard(u) == u.mode \notin {"", "subpkg_update"}
\* The files to install: those on the card are update packages.
Files(u) == IF u.bins # <<>> THEN u.bins ELSE u.pkgs
PackageMode(u) == IF OnCard(u) THEN "sdcard" ELSE IF u.hota THEN "hota" ELSE "unknown"

DoUpdaterEntry(u) ==
  IF u.bins # <<>> THEN "pre"
  ELSE IF OnCard(u) THEN "card"
  ELSE IF u.pkgs # <<>> THEN "pre"
  ELSE IF u.mode = "subpkg_update" THEN "subpkg"
  ELSE IF u.reset # "" THEN "reset" ELSE "ended"

\* What the kits and write_updater ask with: a reset alone, at most one mode, one
\* update.bin or packages, and a wipe after a failure of what is to be installed.
AskedAlone(r, name) ==
  \A i \in DOMAIN r : r[i].name \notin UpdateModes \cup {"update_package"}
                       /\ (r[i].name = name => \A j \in DOMAIN r : r[j].name = name => i = j)
IsRequest(r) ==
  /\ r \in Seq(Options)
  /\ \A i \in DOMAIN r : r[i].name \notin {"retry_count", "upgraded_pkg_num"}
  /\ AsksReset(r) => \E x \in Wipes \cup Erasures : r = <<Flag(x)>>
  /\ \A i, j \in DOMAIN r : r[i].name \in UpdateModes /\ r[j].name \in UpdateModes => i = j
  /\ CheckUpdateMode(r, "update_bin") => AskedAlone(r, "update_bin")
  /\ CheckUpdateMode(r, "factory_reset_ota") => \E o \in {"update_package", "update_bin"} : CheckUpdateMode(r, o)
\* A device lists each of its partitions and disks once.
IsKit(k) ==
  /\ k.ui \in BOOLEAN /\ k.battery \in BOOLEAN /\ k.card \in Seq(Options)
  /\ k.table \in Seq(STRING) /\ k.secure \in Seq(STRING) /\ k.disks \in Seq(STRING)
  /\ IsInjective(k.table) /\ IsInjective(k.secure) /\ IsInjective(k.disks)
  /\ Elements(k.table) \cap Elements(k.secure) = {} /\ Elements(k.disks) \cap Elements(k.table) = {}
  /\ Elements(k.secure) \cap Elements(k.disks) = {} /\ "userdata" \notin Elements(k.secure) \cup Elements(k.disks)
ASSUME ModesAssumption ==
  /\ Chunks \in [Partitions -> Nat]
  /\ \A k \in Kits : IsKit(k)
  /\ \A r \in Requests : IsRequest(r)

(***************************************************************************)
(* Being asked, and booting.                                               *)
(***************************************************************************)
OldChunks == [p \in Partitions |-> [i \in 1..Chunks[p] |-> "old"]]
ModesInit ==
  /\ kit \in Kits
  /\ place = "system" /\ status = "unknown" /\ page = "none"
  /\ misc = NoMessage /\ commandFile = <<>> /\ up = NoParams
  /\ erasing = NoErasure /\ chunk = OldChunks /\ userdata = "used"
  /\ lists = {} /\ lost = {} /\ due = FALSE
  /\ installed = {} /\ asked = <<>> /\ asks = 0 /\ reboot = "as asked"

\* In misc, or in the command file with a bare message in misc.
Ask(request) ==
  /\ place = "system" /\ asks < MaxAsks
  /\ \/ misc' = [command |-> "boot_updater", args |-> request] /\ UNCHANGED commandFile
     \/ misc' = [command |-> "boot_updater", args |-> <<>>] /\ commandFile' = request
  /\ asked' = request /\ asks' = asks + 1
  /\ due' = (LastOf(request, Wipes \cup Erasures).name # "")
  /\ userdata' = "used" /\ chunk' = OldChunks
  /\ installed' = {} /\ lists' = {} /\ lost' = {}
  /\ place' = "off"
  /\ UNCHANGED <<kit, status, up, erasing, page, reboot, faults>>

\* The boot loader looks at the command only.
BootSystem ==
  /\ place = "off" /\ misc.command # "boot_updater"
  /\ place' = "system"
  /\ UNCHANGED <<status, resetVars, installed, asked, asks, reboot, faults>>

\* InitSecureEraseFunc: the partitions there are, from where the erasing stopped.
Erasing(u, args, missing) ==
  IF u.reset \in Erasures
  THEN [NoErasure EXCEPT !.list = AddOverWritePartitions(u.reset, Partitions \ missing),
                         !.done = LastOf(args, Erasures).n]
  ELSE NoErasure
BootUpdater ==
  /\ place = "off" /\ misc.command = "boot_updater"
  /\ up' = StartUpdater(ParseParams(misc, commandFile))
  /\ \/ erasing' = Erasing(up', ParseParams(misc, commandFile), {}) /\ UNCHANGED faults
     \/ /\ up'.reset \in Erasures /\ Fault
        /\ \E p \in Partitions : erasing' = Erasing(up', ParseParams(misc, commandFile), {p})
  /\ lists' = IF up'.reset \in Erasures THEN lists \cup {erasing'.list} ELSE lists
  /\ place' = DoUpdaterEntry(up')
  /\ status' = "unknown" /\ page' = "none" /\ reboot' = "as asked"
  /\ UNCHANGED <<kit, misc, commandFile, chunk, userdata, lost, due, installed, asked, asks>>

(***************************************************************************)
(* The packages of a card.                                                 *)
(***************************************************************************)
\* UpdaterFromSdcard: noted in misc, behind the options there are.
UpdaterFromSdcard ==
  /\ place = "card"
  /\ misc' = SetMessageToMisc(misc, commandFile, "sdcard_update", 0)
  /\ place' = "find"
  /\ UNCHANGED <<modesKept, status, commandFile, up, page, installed, reboot, faults>>

\* FindSdPkgAction: if the packages are known the card is mounted and no more.
FindAndMountSdcard ==
  /\ place = "find"
  /\ kit.card # <<>> \/ up.pkgs # <<>>
  /\ up' = [up EXCEPT !.pkgs = IF @ = <<>> THEN kit.card ELSE @]
  /\ place' = "pre"
  /\ UNCHANGED <<modesKept, status, misc, commandFile, page, installed, reboot, faults>>
NoSdcard ==
  /\ place = "find"
  /\ \/ kit.card = <<>> /\ up.pkgs = <<>> /\ UNCHANGED faults
     \/ Fault
  /\ status' = "error" /\ place' = "ended"
  /\ UNCHANGED <<modesKept, misc, commandFile, up, page, installed, reboot>>

(***************************************************************************)
(* Installing.                                                             *)
(***************************************************************************)
Left(u) == {Files(u)[i].n : i \in {k \in DOMAIN Files(u) : k > u.loc}}
Verified == Left(up) \cap BadPackages = {}
\* Only a first try looks at the battery.
Powered == kit.battery \/ up.retry # 0

\* PreUpdatePackages and PreSdcardUpdatePackages; the first verifies first.
PreUpdate ==
  /\ place = "pre" /\ Verified /\ Powered
  /\ place' = "install"
  /\ UNCHANGED <<modesKept, status, misc, commandFile, up, page, installed, reboot, faults>>
PreFails ==
  /\ place = "pre"
  /\ \/ ~Verified /\ (OnCard(up) => Powered) /\ status' = "corrupt" /\ UNCHANGED faults
     \/ ~Powered /\ (~OnCard(up) => Verified) /\ UNCHANGED faults
        /\ status' = IF OnCard(up) THEN "error" ELSE "skip"
     \/ Fault /\ status' \in {"error", "corrupt", "unknown"}
  /\ place' = "post"
  /\ UNCHANGED <<modesKept, misc, commandFile, up, page, installed, reboot>>

\* DoUpdatePackages one after the other, DoUpdateBinfiles one only; a first try is
\* marked in misc, of packages only.
Installing == place = "install" /\ up.loc < Len(Files(up))
MarkRetry ==
  /\ Installing
  /\ misc' = IF up.bins = <<>> /\ up.retry = 0
             THEN SetMessageToMisc(misc, commandFile, "retry_count", 1) ELSE misc
  /\ place' = "installing"
  /\ UNCHANGED <<modesKept, status, commandFile, up, page, installed, reboot, faults>>
InstallPackage ==
  /\ place = "installing"
  /\ installed' = installed \cup {Files(up)[up.loc + 1].n}
  /\ place' = "count"
  /\ UNCHANGED <<modesKept, status, misc, commandFile, up, page, reboot, faults>>
InstallFails ==
  /\ place = "installing" /\ Fault
  /\ status' \in {"error", "corrupt"} /\ place' = "post"
  /\ UNCHANGED <<modesKept, misc, commandFile, up, page, installed, reboot>>
\* As if the place in the list were not counted in memory.
CountNothing ==
  /\ place = "count"
  /\ misc' = SetMessageToMisc(misc, commandFile, "upgraded_pkg_num", up.loc + 1)
  /\ place' = "install"
  /\ UNCHANGED <<modesKept, status, commandFile, up, page, installed, reboot, faults>>
CountPackage ==
  /\ place = "count"
  /\ misc' = SetMessageToMisc(misc, commandFile, "upgraded_pkg_num", up.loc + 1)
  /\ IF up.bins = <<>>
     THEN up' = [up EXCEPT !.loc = @ + 1] /\ place' = "install" /\ UNCHANGED status
     ELSE place' = "post" /\ status' = "success" /\ UNCHANGED up
  /\ UNCHANGED <<modesKept, commandFile, page, installed, reboot, faults>>
\* As if the last package did not count.
AllButOneInstalled ==
  /\ place = "install" /\ up.loc >= Len(Files(up)) - 1
  /\ status' = "success" /\ place' = "post"
  /\ UNCHANGED <<modesKept, misc, commandFile, up, page, installed, reboot, faults>>
AllInstalled ==
  /\ place = "install" /\ up.loc = Len(Files(up))
  /\ status' = "success" /\ place' = "post"
  /\ UNCHANGED <<modesKept, misc, commandFile, up, page, installed, reboot, faults>>

\* PostUpdatePackages, PostSdcardUpdatePackages: the slot may not be set.
Post ==
  /\ place = "post"
  /\ \/ UNCHANGED <<status, faults>>
     \/ status = "success" /\ Fault /\ status' = "error"
  /\ place' = "ended"
  /\ UNCHANGED <<modesKept, misc, commandFile, up, page, installed, reboot>>
\* UpdateSubPkg is the vendor's.
UpdateSubPkg ==
  /\ place = "subpkg"
  /\ \/ status' = "success" /\ UNCHANGED faults
     \/ status' = "error" /\ Fault
  /\ place' = "ended"
  /\ UNCHANGED <<modesKept, misc, commandFile, up, page, installed, reboot>>

(***************************************************************************)
(* The end of UpdaterMain.                                                 *)
(***************************************************************************)
\* A disk erasure that succeeded never returns.
DoFactoryRstEntry ==
  /\ place \in {"reset done", "reset failed"}
  /\ IF place = "reset done" /\ up.reset = "disk_erase"
     THEN place' = "forever" /\ page' = "success"
     ELSE place' = "ended" /\ UNCHANGED page
  /\ UNCHANGED <<modesKept, status, misc, commandFile, up, installed, reboot, faults>>

\* As if an error were not a failure.
ErrorIsNoFailure == kit.ui /\ status \in {"corrupt", "unknown"}
Failed == kit.ui /\ status \notin {"success", "skip"}
ShowPage == page' = IF status = "success" THEN "success" ELSE IF Failed THEN "failed" ELSE page
\* IsNeedWaitUserReboot: it is the failed update that is followed by a wipe, and a
\* failed update at night by a reboot; everybody else waits for the user.
Ending ==
  IF ~Failed THEN "as asked"
  ELSE IF PackageMode(up) # "hota" THEN "wait"
  ELSE IF CheckUpdateMode(ParseParams(misc, commandFile), "factory_reset_ota") THEN "wipe"
  ELSE IF up.night THEN "restart" ELSE "wait"
UpdaterMain ==
  /\ place = "ended"
  /\ ShowPage
  /\ reboot' = IF Ending = "wait" THEN reboot ELSE Ending
  /\ place' = IF Ending = "wait" THEN "forever" ELSE "clear"
  /\ UNCHANGED <<modesKept, status, misc, commandFile, up, installed, faults>>

\* PostUpdater: misc first, the command file after.
ClearMisc ==
  /\ place = "clear"
  /\ misc' = NoMessage /\ place' = "unlink"
  /\ UNCHANGED <<modesKept, status, commandFile, up, page, installed, reboot, faults>>
UnlinkCommandFile ==
  /\ place = "unlink"
  /\ commandFile' = <<>> /\ place' = "reboot"
  /\ UNCHANGED <<modesKept, status, misc, up, page, installed, reboot, faults>>

\* RebootAfterUpdateSuccess, and the reboots of a failed update; without a screen an
\* updater that was asked for nothing waits, and the status is not asked for.
WipeNext == reboot = "wipe" \/ (reboot = "as asked" /\ up.ext = "UPDATE:SDFROMDEV")
Idles == ~kit.ui /\ status = "unknown" /\ PackageMode(up) = "unknown"
Reboot ==
  /\ place = "reboot" /\ ~Idles
  /\ misc' = IF WipeNext THEN RebootMessage(misc, "updater", <<Flag("user_wipe_data")>>)
             ELSE RebootMessage(misc, "", <<>>)
  /\ place' = "off"
  /\ UNCHANGED <<modesKept, status, commandFile, up, page, installed, reboot, faults>>
Idle ==
  /\ place = "reboot" /\ Idles
  /\ place' = "forever"
  /\ UNCHANGED <<modesKept, status, misc, commandFile, up, page, installed, reboot, faults>>

(***************************************************************************)
(* Power: what is in memory is gone, and of what is cached any part.        *)
(***************************************************************************)
Cached == {c \in UNION {{p} \X (1..Chunks[p]) : p \in Partitions} : chunk[c[1]][c[2]] = "cached"}
\* What was written last is not noted yet.
Noted == Cached \ (IF place = "overwritten" THEN {<<Part, erasing.at>>} ELSE {})
Off(gone) ==
  /\ chunk' = [p \in Partitions |->
                [i \in 1..Chunks[p] |-> IF <<p, i>> \in gone THEN "old" ELSE Synced(chunk[p])[i]]]
  /\ lost' = lost \cup (gone \cap Noted)
  /\ up' = NoParams /\ erasing' = NoErasure /\ status' = "unknown" /\ reboot' = "as asked"
  /\ place' = "off"
  /\ UNCHANGED <<kit, misc, commandFile, userdata, page, lists, due, installed, asked, asks>>
PowerCut == place \notin {"system", "off", "forever"} /\ Fault /\ \E gone \in SUBSET Cached : Off(gone)
\* Who looks at a last page turns the device off.
PowerOff == place = "forever" /\ Off({}) /\ UNCHANGED faults

UpdaterStep ==
  \/ BootSystem \/ BootUpdater
  \/ UpdaterFromSdcard \/ FindAndMountSdcard \/ NoSdcard
  \/ PreUpdate \/ PreFails \/ MarkRetry \/ InstallPackage \/ InstallFails \/ CountPackage \/ AllInstalled
  \/ Post \/ UpdateSubPkg
  \/ (FactoryResetNext /\ UNCHANGED <<installed, asked, asks, reboot>>)
  \/ DoFactoryRstEntry \/ UpdaterMain \/ ClearMisc \/ UnlinkCommandFile \/ Reboot \/ Idle
ModesNext ==
  \/ \E request \in Requests : Ask(request)
  \/ UpdaterStep
  \/ PowerCut \/ PowerOff
ModesSpec == ModesInit /\ faults = 0 /\ [][ModesNext]_<<modes, faults>>
-----------------------------------------------------------------------------
ModesTypeOK ==
  /\ status \in {"unknown", "success", "error", "corrupt", "skip"}
  /\ page \in {"none", "success", "failed"}
  /\ userdata \in {"used", "empty"}
  /\ \A p \in Partitions : chunk[p] \in [1..Chunks[p] -> {"old", "cached", "over"}]
  /\ place \in {"pre", "install", "installing", "count"} => up.loc <= Len(Files(up))
  /\ misc.command \in {"", "boot_updater"}

\* A reset that was asked for is in misc, or in the command file under a bare message,
\* until it has succeeded, whatever is lost on the way: only a device without a screen
\* gives one up that failed.
\* And where nothing fails, what a card or a failed update is to be followed by is done
\* before the system is started again.
Asked(option) == CheckUpdateMode(asked, option)
NothingForgotten ==
  /\ kit.ui /\ due =>
       misc.command = "boot_updater" /\ AsksReset(ParseParams(misc, commandFile))
  /\ faults = 0 /\ place = "system" /\ installed # {} /\ Asked("UPDATE:SDFROMDEV") => userdata = "empty"
  /\ faults = 0 /\ place = "system" /\ kit.ui /\ Asked("factory_reset_ota") /\ installed = {} /\ kit.battery
       => userdata = "empty"

\* An erasure that is reported done has overwritten every write of every partition it
\* found, however often it was interrupted: if it found the same ones every time, and
\* what misc had noted was not lost in a cache.
EraseIsComplete ==
  place = "reset done" /\ up.reset \in Erasures /\ Cardinality(lists) = 1 /\ lost = {} =>
    \A i \in DOMAIN erasing.list :
      \A k \in 1..Chunks[erasing.list[i]] : chunk[erasing.list[i]][k] = "over"

\* The page of success is shown for nothing less than what was asked for, and of a card
\* for nothing less than all it has if none of its packages was named; a wipe that
\* follows a failed update is one of its own.
Numbers(files) == {files[i].n : i \in DOMAIN files}
ReportsAreTrue ==
  page = "success" /\ place # "system" /\ place # "off" =>
    /\ AsksReset(asked) => userdata = "empty"
    /\ up.reset = "" => Numbers(OptionsOf(asked, "update_package") \o OptionsOf(asked, "update_bin")) \subseteq installed
    /\ up.reset = "" /\ LastOf(asked, CardModes).name # "" /\ OptionsOf(asked, "update_package") = <<>>
         => Numbers(kit.card) \subseteq installed

\* ModesHold: what misc asked for is not forgotten before it is done, an erasing that a
\* power cut stopped goes on where it was (SecureErase and the offset in misc), and the
\* page and the boot status say what became of it (PostUpdater, UpdaterMain).
ModesHold == ModesTypeOK /\ NothingForgotten /\ EraseIsComplete /\ ReportsAreTrue

\* What is asked for comes to an end: the system is started, or a last page is shown.
ModesSettle == place = "off" ~> place \in {"system", "forever"}
=============================================================================
