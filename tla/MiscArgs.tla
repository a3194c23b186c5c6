------------------------------ MODULE MiscArgs ------------------------------
(***************************************************************************)
(* The update message of misc as the updater's own modes use it: a command  *)
(* and a list of options, each [name, n].  No name is part of another.      *)
(***************************************************************************)
EXTENDS Integers, Sequences, FiniteSets

\* OPTIONS, and what is looked for in a message besides; "" is no option.
OptionNames ==
  {"", "update_bin", "update_package", "subpkg_update", "retry_count", "upgraded_pkg_num",
   "user_wipe_data", "menu_wipe_data", "factory_wipe_data", "secure_erase", "disk_erase",
   "sdcard_update", "factory_sd_update", "UPDATE:SD", "UPDATE:MAINIMG", "UPDATE:SDFROMDEV", "sdcard_intral_update",
   "force_update_action", "night_update", "factory_reset_ota", "boot_flash"}
Options == [name : OptionNames, n : Nat]
Option(name, n) == [name |-> name, n |-> n]
Flag(name) == Option(name, 0)
NoMessage == [command |-> "", args |-> <<>>]

CheckUpdateMode(args, name) == \E i \in DOMAIN args : args[i].name = name
\* The options of misc, or of the command file if there are none.
ParseParams(m, commandFile) == IF m.args = <<>> THEN commandFile ELSE m.args

Elements(s) == {s[i] : i \in DOMAIN s}
\* Of a sequence the members that are in a set, in their order.
Chosen(s, those) ==
  LET upTo[i \in 0..Len(s)] ==
        IF i = 0 THEN <<>> ELSE IF s[i] \in those THEN Append(upTo[i - 1], s[i]) ELSE upTo[i - 1]
  IN  upTo[Len(s)]

Without(args, name) == Chosen(args, {o \in Options : o.name # name})
UpdateInfoInMisc(m, commandFile, name, n) ==
  [m EXCEPT !.args = Append(Without(ParseParams(m, commandFile), name), Option(name, n))]
\* SetMessageToMisc also writes the command.
SetMessageToMisc(m, commandFile, name, n) ==
  [UpdateInfoInMisc(m, commandFile, name, n) EXCEPT !.command = "boot_updater"]

\* UpdaterDoReboot: without a target nothing is left in misc.
Target(target) ==
  IF target = "updater" THEN "boot_updater" ELSE IF target = "flashd" THEN "boot_flash" ELSE "boot_loader"
RebootMessage(m, target, args) ==
  IF target = "" THEN NoMessage ELSE [m EXCEPT !.command = Target(target), !.args = args]

\* Flashd is looked for in the options, where no reboot writes it.
IsFlashd(m) == m.args # <<>> /\ m.args[1].name = "boot_flash"
IsUpdater(m) == ~IsFlashd(m) /\ m.command = "boot_updater"
=============================================================================
