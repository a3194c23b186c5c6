-------------------------------- MODULE Flashd --------------------------------
(***************************************************************************)
(* The flashing daemon: a host opens channels, and on each asks for one     *)
(* command: to flash a partition or to take an update package, whose data   *)
(* follow in packets, or to erase or format a partition.  Each channel has  *)
(* a task with a commander; one flag, shared by all, says that a command is *)
(* under way.                                                              *)
(*                                                                         *)
(* What the host sent before it heard the answer still arrives.             *)
(***************************************************************************)
EXTENDS Power, Sequences, FiniteSets

CONSTANTS
  Channels,    \* of the hosts
  Commands,    \* what is asked for: [cmd, name]
  Packets,     \* packets of a file
  EraseOnly    \* ERASE_ONLY_LIST
ASSUME FlashdAssumption ==
  /\ Packets \in Nat
  /\ 0 \notin Channels    \* which stands for nobody

VARIABLES
  locked,      \* the boot loader is locked
  running,     \* isRunning_
  task,        \* per channel, commander_: see Commander
  host,        \* per channel, what the host asked for, sent and was told;
               \* left, history: what the partition held when it was told
  flashed,     \* what the partitions hold
  upload,      \* the file under FLASHD_FILE_PATH: whose, and its packets
  next         \* "none" while flashd runs, or what the device reboots to

flashd == <<locked, running, task, host, flashed, upload, next>>
flashdVars == <<flashd, faults>>

\* kind "none" is no commander; ready: the partition is open, or the file is.
Commander(kind, name) == [kind |-> kind, name |-> name, current |-> 0, ready |-> FALSE]
NoCommander == Commander("none", "none")
Asks(c) == host[c].asked
NoCommand == [cmd |-> "none", name |-> "none"]
NoUpload == [of |-> NoCommand, packets |-> <<>>]
Filled(with) == [i \in 1..Packets |-> <<[cmd |-> with, name |-> "none"], 0, 0>>]
NothingAsked == [asked |-> NoCommand, sent |-> 0, begun |-> FALSE, told |-> "none", left |-> <<>>]
Packet(c, i) == <<Asks(c), c, i>>
Piecewise == {"flash", "update"}

FlashdInit ==
  /\ locked \in BOOLEAN
  /\ running = FALSE /\ next = "none"
  /\ task = [c \in Channels |-> NoCommander]
  /\ host = [c \in Channels |-> NothingAsked]
  /\ flashed = [p \in {k.name : k \in Commands} |-> Filled("old")]
  /\ upload = NoUpload

(***************************************************************************)
(* SendToHost: only while the flag is set; the end of a command clears it,  *)
(* whoever's it is.                                                        *)
(***************************************************************************)
\* PostCommand: PostUpdater removes what was uploaded; an update, also one that failed,
\* reboots the device to install it if its file can be read.  The file of one that was
\* not opened is another's, if there is one at its path.
PostCommand(kind, file, opened) ==
  IF kind # "update" THEN upload' = NoUpload /\ UNCHANGED next
  ELSE /\ upload' = file
       /\ \/ file.of.cmd = "update" /\ next' = "updater"
          \/ ~(opened /\ file.of.cmd = "update") /\ UNCHANGED next
NotifyHost(c, kind, file, result, left) ==
  IF running
  THEN /\ host' = [host EXCEPT ![c].told = result, ![c].sent = @ + 1, ![c].left = left]
       /\ running' = FALSE
       /\ PostCommand(kind, file, task[c].ready)
  ELSE /\ host' = [host EXCEPT ![c].sent = @ + 1]
       /\ upload' = file
       /\ UNCHANGED <<running, next>>

\* A locked device does nothing for anybody.
Locked(c, command) ==
  /\ next = "none" /\ locked /\ Asks(c).cmd = "none" /\ command.cmd # "none"
  /\ host' = [host EXCEPT ![c].asked = command, ![c].told = "fail"]
  /\ UNCHANGED <<locked, running, task, flashed, upload, next, faults>>

(***************************************************************************)
(* CheckCommand.  While a command is under way, or for a name that is none, *)
(* there is no commander and no answer; for the latter the flag stays set.  *)
(***************************************************************************)
May(c, command) == next = "none" /\ ~locked /\ Asks(c).cmd = "none" /\ command.cmd # "none"
CreateCommander(c, command) ==
  [task EXCEPT ![c] = IF command.cmd = "unknown" THEN NoCommander ELSE Commander(command.cmd, command.name)]
Busy(c, command) ==
  /\ May(c, command) /\ running
  /\ task' = [task EXCEPT ![c] = NoCommander]
  /\ host' = [host EXCEPT ![c].asked = command]
  /\ UNCHANGED <<locked, running, flashed, upload, next, faults>>
Unknown(c, command) ==
  /\ May(c, command) /\ ~running /\ command.cmd = "unknown"
  /\ running' = TRUE /\ task' = CreateCommander(c, command)
  /\ host' = [host EXCEPT ![c].asked = command]
  /\ UNCHANGED <<locked, flashed, upload, next, faults>>

\* As if a command under way were not looked for.
AcceptedAnyway(c, command) ==
  /\ May(c, command) /\ command.cmd \in Piecewise
  /\ running' = TRUE
  /\ task' = [CreateCommander(c, command) EXCEPT ![c].ready = (command.cmd = "update")]
  /\ host' = [host EXCEPT ![c].asked = command, ![c].begun = TRUE]
  /\ upload' = IF command.cmd = "update" THEN [of |-> command, packets |-> <<>>] ELSE upload
  /\ UNCHANGED <<locked, flashed, next, faults>>
\* The file of an update is opened, a partition with its first packet.
Accepted(c, command) ==
  /\ May(c, command) /\ ~running /\ command.cmd \in Piecewise
  /\ running' = TRUE
  /\ task' = [CreateCommander(c, command) EXCEPT ![c].ready = (command.cmd = "update")]
  /\ host' = [host EXCEPT ![c].asked = command, ![c].begun = TRUE]
  /\ upload' = IF command.cmd = "update" THEN [of |-> command, packets |-> <<>>] ELSE upload
  /\ UNCHANGED <<locked, flashed, next, faults>>
\* The parameters, mounting or opening: the host hears of the failure, and to begin.
AcceptedFails(c, command) ==
  /\ May(c, command) /\ ~running /\ command.cmd \in Piecewise /\ Fault
  /\ task' = CreateCommander(c, command)
  /\ host' = [host EXCEPT ![c].asked = command, ![c].begun = TRUE, ![c].told = "fail"]
  /\ PostCommand(command.cmd, upload, FALSE)
  /\ UNCHANGED <<locked, running, flashed>>

(***************************************************************************)
(* DataCommand.                                                            *)
(***************************************************************************)
\* As if nobody counted the packets.
ArrivesAnyway(c) == next = "none" /\ host[c].begun
Arrives(c) == next = "none" /\ host[c].begun /\ host[c].sent < Packets
Sent(c) == host[c].sent + 1
Whole(c) == task[c].current + 1 >= Packets
Count(c) == [task EXCEPT ![c].current = @ + 1, ![c].ready = TRUE]
Progress(c) == host' = [host EXCEPT ![c].sent = Sent(c)] /\ UNCHANGED <<running, next>>

\* A writer goes on where it stopped.
Written(c) == [flashed[task[c].name] EXCEPT ![task[c].current + 1] = Packet(c, Sent(c))]
FlashData(c) ==
  /\ Arrives(c) /\ task[c].kind = "flash"
  /\ flashed' = [flashed EXCEPT ![task[c].name] = Written(c)]
  /\ task' = Count(c)
  /\ IF Whole(c) THEN NotifyHost(c, "flash", upload, "success", Written(c))
     ELSE Progress(c) /\ UNCHANGED upload
  /\ UNCHANGED <<locked, faults>>
Appended(c) == [upload EXCEPT !.packets = Append(@, Packet(c, Sent(c)))]
UpdateData(c) ==
  /\ Arrives(c) /\ task[c].kind = "update" /\ task[c].ready
  /\ task' = Count(c)
  /\ IF Whole(c) THEN NotifyHost(c, "update", Appended(c), "success", <<>>)
     ELSE Progress(c) /\ upload' = Appended(c)
  /\ UNCHANGED <<locked, flashed, faults>>
\* As if what failed to be written were counted.
DataFailsCounted(c) ==
  /\ Arrives(c) /\ task[c].kind # "none" /\ Fault
  /\ NotifyHost(c, task[c].kind, upload, "fail", <<>>)
  /\ task' = Count(c)
  /\ UNCHANGED <<locked, flashed>>
\* An update without a file fails with every packet, and a write may.
DataFails(c) ==
  /\ Arrives(c) /\ task[c].kind # "none"
  /\ \/ task[c].kind = "update" /\ ~task[c].ready /\ UNCHANGED faults
     \/ Fault
  /\ NotifyHost(c, task[c].kind, upload, "fail", <<>>)
  /\ UNCHANGED <<locked, task, flashed>>

(***************************************************************************)
(* EraseCommand and FormatCommand: done at once.                           *)
(***************************************************************************)
Erases(command) == command.cmd = "erase" \/ command.name \in EraseOnly
EraseOrFormat(c, command) ==
  /\ May(c, command) /\ ~running /\ command.cmd \in {"erase", "format"}
  /\ task' = CreateCommander(c, command)
  /\ flashed' = [flashed EXCEPT ![command.name] = IF Erases(command) THEN Filled("zero") ELSE Filled("empty")]
  /\ host' = [host EXCEPT ![c].asked = command, ![c].told = "success"]
  /\ PostCommand(command.cmd, upload, FALSE)
  /\ UNCHANGED <<locked, running, faults>>
EraseOrFormatFails(c, command) ==
  /\ May(c, command) /\ ~running /\ command.cmd \in {"erase", "format"} /\ Fault
  /\ task' = CreateCommander(c, command)
  /\ host' = [host EXCEPT ![c].asked = command, ![c].told = "fail"]
  /\ PostCommand(command.cmd, upload, FALSE)
  /\ UNCHANGED <<locked, running, flashed>>

(***************************************************************************)
(* The hosts close channels, and open them again, and may reboot the        *)
(* device.  A task that is removed leaves the flag as it is.                *)
(***************************************************************************)
ChannelClose(c) ==
  /\ next = "none" /\ Asks(c).cmd # "none"
  /\ host' = [host EXCEPT ![c] = NothingAsked]
  /\ task' = [task EXCEPT ![c] = NoCommander]
  /\ UNCHANGED <<locked, running, flashed, upload, next, faults>>
RebootDevice ==
  /\ next = "none" /\ next' = "system"
  /\ upload' = NoUpload
  /\ UNCHANGED <<locked, running, task, host, flashed, faults>>

FlashdNext ==
  \/ \E c \in Channels :
       \/ \E command \in Commands :
            \/ Locked(c, command)
            \/ Busy(c, command) \/ Unknown(c, command) \/ Accepted(c, command) \/ AcceptedFails(c, command)
            \/ EraseOrFormat(c, command) \/ EraseOrFormatFails(c, command)
       \/ FlashData(c) \/ UpdateData(c) \/ DataFails(c)
       \/ ChannelClose(c)
  \/ RebootDevice
FlashdSpec == FlashdInit /\ faults = 0 /\ [][FlashdNext]_flashdVars
-----------------------------------------------------------------------------
FlashdTypeOK ==
  /\ running \in BOOLEAN /\ next \in {"none", "updater", "system"}
  /\ \A c \in Channels :
       /\ task[c].kind \in {"none", "flash", "update", "erase", "format"}
       /\ task[c].current \in 0..Packets /\ host[c].sent \in 0..Packets
       /\ host[c].told \in {"none", "success", "fail"}

UnderWay(c) == task[c].kind \in Piecewise /\ host[c].told = "none" /\ host[c].begun

\* When a host is told that its partition is flashed, every packet lies at its own place
\* unless somebody else wrote there since, and nothing of what was there before is left,
\* also if packets were on the way when something failed.
\* And where nothing failed at most one command is under way, whatever the channels do,
\* nobody else can begin one meanwhile, and the package the device reboots to install is
\* whole.  (A commander that failed and hears of more packets may end another's command.)
SuccessIsWhole ==
  \A c \in Channels :
    host[c].told = "success" /\ Asks(c).cmd = "flash" =>
      \A i \in 1..Packets :
        /\ host[c].left[i] # Filled("old")[i]
        /\ host[c].left[i][2] = c => host[c].left[i] = Packet(c, i)
RebootsToWhole ==
  next = "updater" /\ faults = 0 =>
    \E c \in Channels : upload = [of |-> Asks(c), packets |-> [i \in 1..Packets |-> Packet(c, i)]]
OneAtATime ==
  faults = 0 =>
    /\ Cardinality({c \in Channels : UnderWay(c)}) <= 1
    /\ \A c \in Channels : UnderWay(c) => running \/ next # "none"
\* FlashdHolds: however the channels are opened, used and closed, at most one command runs,
\* success is told only of what was written as a whole, and the device restarts to install
\* only what was uploaded as a whole (DaemonUpdater, Commander).
FlashdHolds == FlashdTypeOK /\ SuccessIsWhole /\ RebootsToWhole /\ OneAtATime
=============================================================================
