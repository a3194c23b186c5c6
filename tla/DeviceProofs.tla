---------------------------- MODULE DeviceProofs ----------------------------
(***************************************************************************)
(* Of three things a device is started for (Device): that hosts flash it,  *)
(* that the updater does what misc asks for, and that its partition tables *)
(* are written.                                                            *)
(*                                                                         *)
(* However many hosts there are, and whatever commands they send in packets *)
(* of whatever number: as long as nothing fails, one command at a time is  *)
(* under way, and what the device restarts to install is whole; and whatever *)
(* fails, a host is told of success only with its image in place.          *)
(*                                                                         *)
(* Whatever devices, requests, partitions and packages there are, and      *)
(* however often power is cut or a call fails: what was asked for is not   *)
(* forgotten before it is done, an erasing is complete when it is reported *)
(* done, and success is reported of nothing less than what was asked for.  *)
(*                                                                         *)
(* Whatever tables are on the disks, in packages or in files: the first    *)
(* fault leaves a LUN's table or its backup whole, and the slot that runs  *)
(* keeps its own.                                                          *)
(***************************************************************************)
EXTENDS Ptable, Flashd, UpdaterModes, FiniteSetTheorems, WellFoundedInduction, TLAPS
-----------------------------------------------------------------------------
\* What the two records of a channel consist of.
ShapeOf(t, h) ==
  /\ DOMAIN t = {"kind", "name", "current", "ready"}
  /\ DOMAIN h = {"asked", "sent", "begun", "told", "left"}
  /\ t.current \in Nat /\ h.sent \in Nat /\ h.begun \in BOOLEAN
  /\ h.asked.cmd = "none" => h.sent = 0 /\ h.begun = FALSE /\ h.told = "none"
Shapes ==
  /\ faults \in Nat /\ running \in BOOLEAN
  /\ task = [c \in Channels |-> task[c]] /\ host = [c \in Channels |-> host[c]]
  /\ \A c \in Channels : ShapeOf(task[c], host[c])

\* A command that takes packets has a commander that is ready and has counted what was
\* sent, and has its answer with the last packet.
CountedIn(t, h) ==
  h.begun =>
    /\ t.kind \in Piecewise /\ t.current = h.sent
    /\ t.kind = "update" => t.ready
    /\ h.told # "none" => h.sent >= Packets
Counted == \A c \in Channels : CountedIn(task[c], host[c])

\* The flag is that of the one command under way.
UnderWayIn(t, h) == t.kind \in Piecewise /\ h.told = "none" /\ h.begun
HoldsFlag == \A c \in Channels : UnderWayIn(task[c], host[c]) => running \/ next # "none"
OnlyOne ==
  \A c, d \in Channels : UnderWayIn(task[c], host[c]) /\ UnderWayIn(task[d], host[d]) => c = d

FlashInv == Shapes /\ (faults = 0 => Counted /\ HoldsFlag /\ OnlyOne)

LEMMA InitHolds == FlashdInit /\ faults = 0 => FlashInv
<1> SUFFICES ASSUME FlashdInit, faults = 0 PROVE FlashInv
  OBVIOUS
<1>1. \A c \in Channels :
        /\ task[c] = [kind |-> "none", name |-> "none", current |-> 0, ready |-> FALSE]
        /\ host[c] = [asked |-> NoCommand, sent |-> 0, begun |-> FALSE, told |-> "none", left |-> <<>>]
  BY DEF FlashdInit, NoCommander, Commander, NothingAsked
<1>2. /\ task = [c \in Channels |-> task[c]] /\ host = [c \in Channels |-> host[c]]
      /\ faults \in Nat /\ running \in BOOLEAN
  BY DEF FlashdInit
<1>3. \A c \in Channels : host[c].begun = FALSE
  BY <1>1
<1>4. \A c \in Channels : ShapeOf(task[c], host[c])
  <2> TAKE c \in Channels
  <2>1. /\ task[c].kind = "none" /\ task[c].name = "none" /\ task[c].current = 0 /\ task[c].ready = FALSE
        /\ host[c].asked = NoCommand /\ host[c].sent = 0 /\ host[c].begun = FALSE
        /\ host[c].told = "none" /\ host[c].left = <<>>
    BY <1>1
  <2>2. /\ task[c].current \in Nat /\ host[c].sent \in Nat
    BY <2>1
  <2>4. host[c].begun \in BOOLEAN
    BY <2>1
  <2>3. /\ DOMAIN task[c] = {"kind", "name", "current", "ready"}
        /\ DOMAIN host[c] = {"asked", "sent", "begun", "told", "left"}
    BY <1>1
  <2> QED
    BY <2>1, <2>2, <2>3, <2>4 DEF ShapeOf
<1>5. Shapes
  BY <1>2, <1>4 DEF Shapes
<1>6. Counted /\ HoldsFlag /\ OnlyOne
  BY <1>3 DEF Counted, CountedIn, HoldsFlag, OnlyOne, UnderWayIn
<1> QED
  BY <1>5, <1>6 DEF FlashInv
-----------------------------------------------------------------------------
\* What an action has to see to that gives the channel c the records t and h.
SeesTo(c, t, h) ==
  /\ task' = [task EXCEPT ![c] = t] /\ host' = [host EXCEPT ![c] = h]
  /\ ShapeOf(t, h) /\ faults' \in Nat /\ running' \in BOOLEAN
  /\ faults' = 0 =>
       /\ faults = 0 /\ CountedIn(t, h)
       /\ UnderWayIn(t, h) =>
            (running' \/ next' # "none") /\ \A d \in Channels \ {c} : ~UnderWayIn(task[d], host[d])
       /\ \A d \in Channels \ {c} : UnderWayIn(task[d], host[d]) => running' \/ next' # "none"

LEMMA OneChannelKeeps ==
  ASSUME FlashInv, NEW c \in Channels, NEW t, NEW h, SeesTo(c, t, h)
  PROVE  FlashInv'
<1>1. /\ task' = [d \in Channels |-> task'[d]] /\ host' = [d \in Channels |-> host'[d]]
      /\ task'[c] = t /\ host'[c] = h
      /\ \A d \in Channels \ {c} : task'[d] = task[d] /\ host'[d] = host[d]
  BY DEF FlashInv, Shapes, SeesTo
<1>2. Shapes'
  BY <1>1 DEF FlashInv, Shapes, SeesTo
<1>3. ASSUME faults' = 0 PROVE Counted'
  BY <1>1, <1>3 DEF FlashInv, Counted, SeesTo
<1>4. ASSUME faults' = 0 PROVE HoldsFlag'
  BY <1>1, <1>4 DEF HoldsFlag, SeesTo
<1>5. ASSUME faults' = 0 PROVE OnlyOne'
  BY <1>1, <1>5 DEF FlashInv, OnlyOne, SeesTo
<1> QED
  BY <1>2, <1>3, <1>4, <1>5 DEF FlashInv

-----------------------------------------------------------------------------
LEMMA FaultCounts ==
  ASSUME faults \in Nat, Fault
  PROVE  faults' \in Nat /\ faults' # 0
BY DEF Fault

\* What is known of a channel at which a host asks, or closes, or sends.
LEMMA FreeToAsk ==
  ASSUME FlashInv, NEW c \in Channels, Asks(c).cmd = "none"
  PROVE  host[c].sent = 0 /\ host[c].begun = FALSE /\ host[c].told = "none"
BY DEF FlashInv, Shapes, ShapeOf, Asks

LEMMA NobodyElse ==
  ASSUME FlashInv, faults = 0, running = FALSE, next = "none", NEW d \in Channels
  PROVE  ~UnderWayIn(task[d], host[d])
BY DEF FlashInv, HoldsFlag

\* Whoever has not begun, or asks while nothing is under way, disturbs nobody.
LEMMA NotBegunKeeps ==
  ASSUME FlashInv, NEW c \in Channels, NEW t, NEW h,
         task' = [task EXCEPT ![c] = t], host' = [host EXCEPT ![c] = h], ShapeOf(t, h),
         h.begun = FALSE, faults' = faults,
         \/ running' = running /\ next' = next
         \/ running = FALSE /\ next = "none" /\ running' \in BOOLEAN
  PROVE  FlashInv'
<1>1. faults' \in Nat /\ running' \in BOOLEAN
  BY DEF FlashInv, Shapes
<1>2. CountedIn(t, h) /\ ~UnderWayIn(t, h)
  BY DEF CountedIn, UnderWayIn
<1>3. ASSUME faults' = 0, NEW d \in Channels \ {c}, UnderWayIn(task[d], host[d])
      PROVE  running' \/ next' # "none"
  BY <1>3 DEF FlashInv, HoldsFlag
<1>4. SeesTo(c, t, h)
  BY <1>1, <1>2, <1>3 DEF SeesTo
<1> QED
  BY <1>4, OneChannelKeeps

LEMMA FaultKeeps ==
  ASSUME FlashInv, NEW c \in Channels, NEW t, NEW h,
         task' = [task EXCEPT ![c] = t], host' = [host EXCEPT ![c] = h], ShapeOf(t, h),
         Fault, running' \in BOOLEAN
  PROVE  FlashInv'
<1>1. faults' \in Nat /\ faults' # 0
  BY FaultCounts DEF FlashInv, Shapes
<1>2. SeesTo(c, t, h)
  BY <1>1 DEF SeesTo
<1> QED
  BY <1>2, OneChannelKeeps

LEMMA LockedKeeps ==
  ASSUME FlashInv, NEW c \in Channels, NEW command \in Commands, Locked(c, command)
  PROVE  FlashInv'
<1> DEFINE t == task[c]
           h == [host[c] EXCEPT !.asked = command, !.told = "fail"]
<1>1. host[c].begun = FALSE
  BY FreeToAsk DEF Locked
<1>2. task' = [task EXCEPT ![c] = t]
  BY DEF Locked, FlashInv, Shapes
<1>3. host' = [host EXCEPT ![c] = h]
  BY DEF Locked, FlashInv, Shapes, ShapeOf
<1>4. ShapeOf(t, h)
  BY DEF Locked, FlashInv, Shapes, ShapeOf
<1>5. h.begun = FALSE /\ faults' = faults /\ running' = running /\ next' = next
  BY <1>1 DEF Locked
<1> HIDE DEF t, h
<1> QED
  BY <1>2, <1>3, <1>4, <1>5, NotBegunKeeps

LEMMA BusyKeeps ==
  ASSUME FlashInv, NEW c \in Channels, NEW command \in Commands, Busy(c, command)
  PROVE  FlashInv'
<1> DEFINE t == NoCommander
           h == [host[c] EXCEPT !.asked = command]
<1>1. host[c].begun = FALSE
  BY FreeToAsk DEF Busy, May
<1>2. task' = [task EXCEPT ![c] = t]
  BY DEF Busy, FlashInv, Shapes
<1>3. host' = [host EXCEPT ![c] = h]
  BY DEF Busy, FlashInv, Shapes, ShapeOf
<1>4. ShapeOf(t, h)
  BY DEF Busy, May, FlashInv, Shapes, ShapeOf, NoCommander, Commander
<1>5. h.begun = FALSE /\ faults' = faults /\ running' = running /\ next' = next
  BY <1>1 DEF Busy
<1> HIDE DEF t, h
<1> QED
  BY <1>2, <1>3, <1>4, <1>5, NotBegunKeeps

LEMMA UnknownKeeps ==
  ASSUME FlashInv, NEW c \in Channels, NEW command \in Commands, Unknown(c, command)
  PROVE  FlashInv'
<1> DEFINE t == NoCommander
           h == [host[c] EXCEPT !.asked = command]
<1>1. host[c].begun = FALSE
  BY FreeToAsk DEF Unknown, May
<1>2. task' = [task EXCEPT ![c] = t]
  BY DEF Unknown, CreateCommander, FlashInv, Shapes
<1>3. host' = [host EXCEPT ![c] = h]
  BY DEF Unknown, FlashInv, Shapes, ShapeOf
<1>4. ShapeOf(t, h)
  BY DEF Unknown, May, FlashInv, Shapes, ShapeOf, NoCommander, Commander
<1>5. h.begun = FALSE /\ faults' = faults
  BY <1>1 DEF Unknown
<1>6. running = FALSE /\ next = "none" /\ running' \in BOOLEAN
  BY DEF Unknown, May, FlashInv, Shapes
<1> HIDE DEF t, h
<1> QED
  BY <1>2, <1>3, <1>4, <1>5, <1>6, NotBegunKeeps

LEMMA EraseOrFormatKeeps ==
  ASSUME FlashInv, NEW c \in Channels, NEW command \in Commands, EraseOrFormat(c, command)
  PROVE  FlashInv'
<1> DEFINE t == Commander(command.cmd, command.name)
           h == [host[c] EXCEPT !.asked = command, !.told = "success"]
<1>1. host[c].begun = FALSE
  BY FreeToAsk DEF EraseOrFormat, May
<1>2. task' = [task EXCEPT ![c] = t]
  BY DEF EraseOrFormat, CreateCommander, FlashInv, Shapes
<1>3. host' = [host EXCEPT ![c] = h]
  BY DEF EraseOrFormat, FlashInv, Shapes, ShapeOf
<1>4. ShapeOf(t, h)
  BY DEF EraseOrFormat, May, FlashInv, Shapes, ShapeOf, Commander
<1>5. h.begun = FALSE /\ faults' = faults
  BY <1>1 DEF EraseOrFormat
<1>6. running = FALSE /\ next = "none" /\ running' \in BOOLEAN
  BY DEF EraseOrFormat, May, FlashInv, Shapes
<1> HIDE DEF t, h
<1> QED
  BY <1>2, <1>3, <1>4, <1>5, <1>6, NotBegunKeeps

LEMMA EraseOrFormatFailsKeeps ==
  ASSUME FlashInv, NEW c \in Channels, NEW command \in Commands, EraseOrFormatFails(c, command)
  PROVE  FlashInv'
<1> DEFINE t == Commander(command.cmd, command.name)
           h == [host[c] EXCEPT !.asked = command, !.told = "fail"]
<1>1. task' = [task EXCEPT ![c] = t]
  BY DEF EraseOrFormatFails, CreateCommander, FlashInv, Shapes
<1>2. host' = [host EXCEPT ![c] = h]
  BY DEF EraseOrFormatFails, FlashInv, Shapes, ShapeOf
<1>3. ShapeOf(t, h)
  BY DEF EraseOrFormatFails, May, FlashInv, Shapes, ShapeOf, Commander
<1>4. Fault /\ running' \in BOOLEAN
  BY DEF EraseOrFormatFails, FlashInv, Shapes
<1> HIDE DEF t, h
<1> QED
  BY <1>1, <1>2, <1>3, <1>4, FaultKeeps

LEMMA AcceptedFailsKeeps ==
  ASSUME FlashInv, NEW c \in Channels, NEW command \in Commands, AcceptedFails(c, command)
  PROVE  FlashInv'
<1> DEFINE t == Commander(command.cmd, command.name)
           h == [host[c] EXCEPT !.asked = command, !.begun = TRUE, !.told = "fail"]
<1>1. task' = [task EXCEPT ![c] = t]
  BY DEF AcceptedFails, Piecewise, CreateCommander, FlashInv, Shapes
<1>2. host' = [host EXCEPT ![c] = h]
  BY DEF AcceptedFails, FlashInv, Shapes, ShapeOf
<1>3. ShapeOf(t, h)
  BY DEF AcceptedFails, May, FlashInv, Shapes, ShapeOf, Commander
<1>4. Fault /\ running' \in BOOLEAN
  BY DEF AcceptedFails, FlashInv, Shapes
<1> HIDE DEF t, h
<1> QED
  BY <1>1, <1>2, <1>3, <1>4, FaultKeeps

LEMMA ChannelCloseKeeps ==
  ASSUME FlashInv, NEW c \in Channels, ChannelClose(c)
  PROVE  FlashInv'
<1>1. ShapeOf(NoCommander, NothingAsked)
  BY DEF ShapeOf, NoCommander, Commander, NothingAsked
<1>2. NothingAsked.begun = FALSE
  BY DEF NothingAsked
<1> QED
  BY <1>1, <1>2, NotBegunKeeps DEF ChannelClose

LEMMA AcceptedKeeps ==
  ASSUME FlashInv, NEW c \in Channels, NEW command \in Commands, Accepted(c, command)
  PROVE  FlashInv'
<1> DEFINE t == [Commander(command.cmd, command.name) EXCEPT !.ready = (command.cmd = "update")]
           h == [host[c] EXCEPT !.asked = command, !.begun = TRUE]
<1>1. host[c].sent = 0 /\ host[c].told = "none"
  BY FreeToAsk DEF Accepted, May
<1>2. task' = [task EXCEPT ![c] = t]
  BY DEF Accepted, Piecewise, CreateCommander, FlashInv, Shapes
<1>3. host' = [host EXCEPT ![c] = h]
  BY DEF Accepted, FlashInv, Shapes
<1>4. ShapeOf(t, h)
  BY DEF Accepted, May, FlashInv, Shapes, ShapeOf, Commander
<1>5. t.kind \in Piecewise /\ t.current = 0 /\ h.sent = 0 /\ h.told = "none"
  BY <1>1 DEF Accepted, Commander, FlashInv, Shapes, ShapeOf
<1>6. t.kind = "update" => t.ready
  BY DEF Commander
<1>7. CountedIn(t, h)
  BY <1>5, <1>6 DEF CountedIn
<1>8. running' = TRUE /\ faults' = faults
  BY DEF Accepted
<1>9. ASSUME faults' = 0, NEW d \in Channels
      PROVE  ~UnderWayIn(task[d], host[d])
  BY <1>8, <1>9, NobodyElse DEF Accepted, May, FlashInv, Shapes
<1> HIDE DEF t, h
<1>10. SeesTo(c, t, h)
  BY <1>2, <1>3, <1>4, <1>7, <1>8, <1>9 DEF SeesTo, FlashInv, Shapes
<1> QED
  BY <1>10, OneChannelKeeps

\* Where nothing failed, who sends is under way, and nobody else is.
LEMMA SenderIsAlone ==
  ASSUME FlashInv, faults = 0, NEW c \in Channels, Arrives(c)
  PROVE  /\ task[c].current = host[c].sent /\ host[c].told = "none" /\ running = TRUE
         /\ task[c].kind = "update" => task[c].ready
         /\ UnderWayIn(task[c], host[c])
         /\ \A d \in Channels \ {c} : ~UnderWayIn(task[d], host[d])
<1>1. ShapeOf(task[c], host[c]) /\ CountedIn(task[c], host[c])
  BY DEF FlashInv, Shapes, Counted
<1>2. host[c].begun = TRUE /\ next = "none" /\ host[c].sent < Packets
  BY <1>1 DEF Arrives, ShapeOf
<1>3. /\ task[c].kind \in Piecewise /\ task[c].current = host[c].sent /\ host[c].told = "none"
      /\ task[c].kind = "update" => task[c].ready
  BY <1>1, <1>2, FlashdAssumption DEF CountedIn, ShapeOf
<1>4. UnderWayIn(task[c], host[c])
  BY <1>2, <1>3 DEF UnderWayIn
<1>5. running = TRUE
  BY <1>2, <1>4 DEF FlashInv, HoldsFlag, Shapes
<1>6. \A d \in Channels \ {c} : ~UnderWayIn(task[d], host[d])
  BY <1>4 DEF FlashInv, OnlyOne
<1> QED
  BY <1>3, <1>4, <1>5, <1>6

\* A packet that is written: t and h are the channel's records after it.
LEMMA DataKeeps ==
  ASSUME FlashInv, NEW c \in Channels, Arrives(c), task[c].kind \in Piecewise,
         NEW path, NEW result \in {"success", "fail"}, NEW left,
         task' = Count(c), faults' = faults,
         IF Whole(c) THEN NotifyHost(c, task[c].kind, path, result, left) ELSE Progress(c)
  PROVE  FlashInv'
<1> DEFINE t == [task[c] EXCEPT !.current = @ + 1, !.ready = TRUE]
           sent == [host[c] EXCEPT !.sent = @ + 1]
           told == [host[c] EXCEPT !.told = result, !.sent = @ + 1, !.left = left]
<1>1. task' = [task EXCEPT ![c] = t]
  BY DEF Count, FlashInv, Shapes
<1>2. ShapeOf(task[c], host[c]) /\ host[c].begun = TRUE /\ next = "none" /\ host[c].sent < Packets
  BY DEF FlashInv, Shapes, ShapeOf, Arrives
<1>3. ShapeOf(t, sent) /\ ShapeOf(t, told)
  BY <1>2 DEF ShapeOf
<1>4. t.kind = task[c].kind /\ t.current = task[c].current + 1
  BY <1>2 DEF ShapeOf
<1>5. t.ready = TRUE
  BY <1>2 DEF ShapeOf
<1>6. /\ sent.sent = host[c].sent + 1 /\ told.sent = host[c].sent + 1
      /\ sent.told = host[c].told /\ told.told = result
  BY <1>2 DEF ShapeOf
<1>7. faults' \in Nat /\ faults \in Nat /\ running \in BOOLEAN
  BY DEF FlashInv, Shapes
<1>8. ASSUME faults = 0
      PROVE  /\ task[c].current = host[c].sent /\ host[c].told = "none" /\ running
             /\ \A d \in Channels \ {c} : ~UnderWayIn(task[d], host[d])
  BY <1>8, SenderIsAlone
<1>9. ASSUME faults = 0 PROVE CountedIn(t, sent)
  BY <1>2, <1>4, <1>5, <1>6, <1>8, <1>9 DEF CountedIn
<1>10. ASSUME faults = 0, Whole(c) PROVE CountedIn(t, told)
  <2>1. told.sent >= Packets
    BY <1>2, <1>6, <1>8, <1>10 DEF Whole, ShapeOf
  <2> QED
    BY <1>4, <1>5, <1>6, <1>8, <1>10, <2>1 DEF CountedIn
<1>11. ~UnderWayIn(t, told)
  BY <1>6 DEF UnderWayIn
<1>12. CASE Whole(c) /\ running
  <2>1. host' = [host EXCEPT ![c] = told] /\ running' = FALSE
    BY <1>12 DEF NotifyHost, FlashInv, Shapes
  <2> HIDE DEF t, told
  <2>2. SeesTo(c, t, told)
    BY <1>1, <1>3, <1>7, <1>8, <1>10, <1>11, <1>12, <2>1 DEF SeesTo
  <2> QED
    BY <2>2, OneChannelKeeps
<1>13. CASE ~(Whole(c) /\ running)
  <2>1. host' = [host EXCEPT ![c] = sent] /\ running' = running
    BY <1>2, <1>13 DEF NotifyHost, Progress, Sent, FlashInv, Shapes
  <2> HIDE DEF t, sent
  <2>2. SeesTo(c, t, sent)
    BY <1>1, <1>3, <1>7, <1>8, <1>9, <2>1 DEF SeesTo
  <2> QED
    BY <2>2, OneChannelKeeps
<1> QED
  BY <1>12, <1>13

LEMMA DataFailsKeeps ==
  ASSUME FlashInv, NEW c \in Channels, DataFails(c)
  PROVE  FlashInv'
<1> DEFINE t == task[c]
           sent == [host[c] EXCEPT !.sent = @ + 1]
           told == [host[c] EXCEPT !.told = "fail", !.sent = @ + 1, !.left = <<>>]
<1>1. task' = [task EXCEPT ![c] = t]
  BY DEF DataFails, FlashInv, Shapes
<1>2. ShapeOf(task[c], host[c]) /\ host[c].begun = TRUE
  BY DEF FlashInv, Shapes, ShapeOf, DataFails, Arrives
<1>3. ShapeOf(t, sent) /\ ShapeOf(t, told)
  BY <1>2 DEF ShapeOf
<1>4. running' \in BOOLEAN /\ \E h \in {sent, told} : host' = [host EXCEPT ![c] = h]
  BY DEF DataFails, NotifyHost, FlashInv, Shapes
<1>5. PICK h \in {sent, told} : host' = [host EXCEPT ![c] = h]
  BY <1>4
<1>6. ShapeOf(t, h)
  BY <1>3, <1>5
<1>7. CASE Fault
  <2> HIDE DEF t, sent, told
  <2> QED
    BY <1>1, <1>4, <1>5, <1>6, <1>7, FaultKeeps
\* An update without a file comes of a fault.
<1>8. CASE task[c].kind = "update" /\ ~task[c].ready /\ faults' = faults
  <2>1. faults # 0 /\ faults' \in Nat
    BY <1>2, <1>8 DEF FlashInv, Counted, CountedIn, Shapes
  <2> HIDE DEF t, sent, told
  <2>2. SeesTo(c, t, h)
    BY <1>1, <1>4, <1>5, <1>6, <1>8, <2>1 DEF SeesTo
  <2> QED
    BY <2>2, OneChannelKeeps
<1> QED
  BY <1>7, <1>8 DEF DataFails

LEMMA StepKeeps ==
  ASSUME FlashInv, [FlashdNext]_flashdVars
  PROVE  FlashInv'
<1>1. CASE UNCHANGED flashdVars
  BY <1>1 DEF flashdVars, flashd, FlashInv, Shapes, Counted, HoldsFlag, OnlyOne
<1>2. CASE RebootDevice
  BY <1>2 DEF RebootDevice, FlashInv, Shapes, Counted, HoldsFlag, OnlyOne
<1>3. ASSUME NEW c \in Channels, NEW command \in Commands,
             \/ Locked(c, command) \/ Busy(c, command) \/ Unknown(c, command)
             \/ Accepted(c, command) \/ AcceptedFails(c, command)
             \/ EraseOrFormat(c, command) \/ EraseOrFormatFails(c, command)
      PROVE  FlashInv'
  BY <1>3, LockedKeeps, BusyKeeps, UnknownKeeps, AcceptedKeeps, AcceptedFailsKeeps,
     EraseOrFormatKeeps, EraseOrFormatFailsKeeps
<1>4. ASSUME NEW c \in Channels, FlashData(c)
      PROVE  FlashInv'
  <2>1. /\ Arrives(c) /\ task[c].kind \in Piecewise /\ task' = Count(c) /\ faults' = faults
        /\ IF Whole(c) THEN NotifyHost(c, task[c].kind, upload, "success", Written(c)) ELSE Progress(c)
    BY <1>4 DEF FlashData, Piecewise
  <2> QED
    BY <2>1, DataKeeps
<1>5. ASSUME NEW c \in Channels, UpdateData(c)
      PROVE  FlashInv'
  <2>1. /\ Arrives(c) /\ task[c].kind \in Piecewise /\ task' = Count(c) /\ faults' = faults
        /\ IF Whole(c) THEN NotifyHost(c, task[c].kind, Appended(c), "success", <<>>) ELSE Progress(c)
    BY <1>5 DEF UpdateData, Piecewise
  <2> QED
    BY <2>1, DataKeeps
<1>6. ASSUME NEW c \in Channels, DataFails(c) \/ ChannelClose(c)
      PROVE  FlashInv'
  BY <1>6, DataFailsKeeps, ChannelCloseKeeps
<1> QED
  BY <1>1, <1>2, <1>3, <1>4, <1>5, <1>6 DEF FlashdNext
-----------------------------------------------------------------------------
\* The invariant holds in every reachable state of the daemon (task.cpp, daemon_updater.cpp),
\* for any channels, commands, number of packets and of failures.
THEOREM FlashInvHolds == FlashdSpec => []FlashInv
<1>1. FlashdInit /\ faults = 0 => FlashInv
  BY InitHolds
<1>2. FlashInv /\ [FlashdNext]_flashdVars => FlashInv'
  BY StepKeeps
<1> QED
  BY <1>1, <1>2, PTL DEF FlashdSpec

\* As long as no call failed at most one command is under way, whatever the hosts send,
\* close and open again, and the flag of DaemonUpdater is set while it is: no other
\* channel gets its commander.
THEOREM CommandsAreAlone == FlashdSpec => []OneAtATime
<1>1. ASSUME FlashInv PROVE OneAtATime
  <2> SUFFICES ASSUME faults = 0
               PROVE  /\ Cardinality({c \in Channels : UnderWay(c)}) <= 1
                      /\ \A c \in Channels : UnderWay(c) => running \/ next # "none"
    BY DEF OneAtATime
  <2>1. \A c \in Channels : UnderWay(c) <=> UnderWayIn(task[c], host[c])
    BY DEF UnderWay, UnderWayIn
  <2>2. \A c \in Channels : UnderWay(c) => running \/ next # "none"
    BY <1>1, <2>1 DEF FlashInv, HoldsFlag
  <2> DEFINE Active == {c \in Channels : UnderWay(c)}
  <2>3. \A c, d \in Active : c = d
    BY <1>1, <2>1 DEF FlashInv, OnlyOne
  <2>4. Cardinality(Active) <= 1
    <3>1. CASE Active = {}
      BY <3>1, FS_EmptySet
    <3>2. CASE Active # {}
      <4>1. PICK c \in Active : TRUE
        BY <3>2
      <4>2. Active = {c}
        BY <2>3, <4>1
      <4> HIDE DEF Active
      <4> QED
        BY <4>2, FS_Singleton
    <3> QED
      BY <3>1, <3>2
  <2> QED
    BY <2>2, <2>4
<1> QED
  BY <1>1, FlashInvHolds, PTL

-----------------------------------------------------------------------------
(***************************************************************************)
(* What was written, also if something failed: a commander has counted no    *)
(* more packets than its host sent, and the places up to its count hold      *)
(* nothing old.  If it counted them all, its own packets lie at their places. *)
(***************************************************************************)
Names == {k.name : k \in Commands}
Old == <<[cmd |-> "old", name |-> "none"], 0, 0>>
\* The cell x, at place i, is as the host h of channel c wants it.
Replaced(x, h, c, i) == x # Old /\ (x[2] = c => x = <<h.asked, c, i>>)
ChannelHolds(c, t, h, f) ==
  /\ t.kind \in {"none", "flash", "update", "erase", "format"}
  /\ h.told \in {"none", "success", "fail"}
  /\ t.current <= h.sent /\ h.sent <= Packets
  /\ h.begun => t.kind = h.asked.cmd /\ t.kind \in Piecewise /\ t.name \in Names
  /\ h.begun /\ t.kind = "flash" =>
       \A i \in 1..t.current :
         f[t.name][i] # Old /\ (t.current = h.sent => Replaced(f[t.name][i], h, c, i))
  /\ h.told = "success" /\ h.asked.cmd = "flash" => \A i \in 1..Packets : Replaced(h.left[i], h, c, i)
Partitioned == flashed = [p \in Names |-> [i \in 1..Packets |-> flashed[p][i]]]
WrittenInv ==
  /\ next \in {"none", "updater", "system"} /\ Partitioned
  /\ \A c \in Channels : ChannelHolds(c, task[c], host[c], flashed)

LEMMA InitWritten == FlashdInit => WrittenInv
<1> SUFFICES ASSUME FlashdInit PROVE WrittenInv
  OBVIOUS
<1>1. flashed = [p \in Names |-> Filled("old")]
  BY DEF FlashdInit, Names
<1>2. Filled("old") = [i \in 1..Packets |-> Filled("old")[i]]
  BY DEF Filled
<1>3. Partitioned
  BY <1>1, <1>2 DEF Partitioned
<1>4. ASSUME NEW c \in Channels PROVE ChannelHolds(c, task[c], host[c], flashed)
  <2>1. /\ task[c] = [kind |-> "none", name |-> "none", current |-> 0, ready |-> FALSE]
        /\ host[c] = [asked |-> NoCommand, sent |-> 0, begun |-> FALSE, told |-> "none", left |-> <<>>]
    BY DEF FlashdInit, NoCommander, Commander, NothingAsked
  <2>2. /\ task[c].kind = "none" /\ task[c].current = 0
        /\ host[c].sent = 0 /\ host[c].begun = FALSE /\ host[c].told = "none"
    BY <2>1
  <2> QED
    BY <2>2, FlashdAssumption DEF ChannelHolds
<1> QED
  BY <1>3, <1>4 DEF WrittenInv, FlashdInit

\* What one channel does to the partitions spoils nothing for the others.
LEMMA OthersKeep ==
  ASSUME FlashInv, WrittenInv, NEW c \in Channels, NEW t, NEW h,
         task' = [task EXCEPT ![c] = t], host' = [host EXCEPT ![c] = h],
         ChannelHolds(c, t, h, flashed'), Partitioned', next' \in {"none", "updater", "system"},
         \A p \in Names, i \in 1..Packets :
           flashed'[p][i] = flashed[p][i] \/ (flashed'[p][i] # Old /\ flashed'[p][i][2] \in {0, c})
  PROVE  WrittenInv'
<1>1. /\ task'[c] = t /\ host'[c] = h
      /\ \A d \in Channels \ {c} : task'[d] = task[d] /\ host'[d] = host[d]
  BY DEF FlashInv, Shapes
<1>2. ASSUME NEW d \in Channels \ {c} PROVE ChannelHolds(d, task[d], host[d], flashed')
  <2>1. ChannelHolds(d, task[d], host[d], flashed)
    BY DEF WrittenInv
  <2>2. ASSUME host[d].begun, task[d].kind = "flash", NEW i \in 1..task[d].current
        PROVE  /\ flashed'[task[d].name][i] # Old
               /\ task[d].current = host[d].sent => Replaced(flashed'[task[d].name][i], host[d], d, i)
    <3>1. /\ flashed[task[d].name][i] # Old
          /\ task[d].current = host[d].sent => Replaced(flashed[task[d].name][i], host[d], d, i)
      BY <2>1, <2>2 DEF ChannelHolds
    <3>2. task[d].name \in Names /\ task[d].current <= Packets /\ task[d].current \in Nat
      BY <2>1, <2>2, FlashdAssumption DEF ChannelHolds, FlashInv, Shapes, ShapeOf
    <3>3. i \in 1..Packets
      BY <3>2, FlashdAssumption
    <3>4. d # 0 /\ d # c
      BY FlashdAssumption
    <3> QED
      BY <3>1, <3>2, <3>3, <3>4 DEF Replaced
  <2> QED
    BY <2>1, <2>2 DEF ChannelHolds
<1> QED
  BY <1>1, <1>2 DEF WrittenInv

LEMMA UntouchedKeeps ==
  ASSUME FlashInv, WrittenInv, NEW c \in Channels, NEW t, NEW h,
         task' = [task EXCEPT ![c] = t], host' = [host EXCEPT ![c] = h],
         ChannelHolds(c, t, h, flashed), flashed' = flashed, next' \in {"none", "updater", "system"}
  PROVE  WrittenInv'
<1>1. Partitioned'
  BY DEF WrittenInv, Partitioned
<1> QED
  BY <1>1, OthersKeep

\* A channel whose command is refused, done at once or fails to begin.
LEMMA IdleHolds ==
  ASSUME NEW c, NEW t, NEW h,
         t.kind \in {"none", "flash", "update", "erase", "format"}, h.told \in {"none", "success", "fail"},
         t.current = 0, h.sent = 0,
         h.begun => t.kind = h.asked.cmd /\ t.kind \in Piecewise /\ t.name \in Names,
         h.told = "success" => h.asked.cmd # "flash"
  PROVE  ChannelHolds(c, t, h, flashed)
BY FlashdAssumption DEF ChannelHolds

LEMMA LockedWrites ==
  ASSUME FlashInv, WrittenInv, NEW c \in Channels, NEW command \in Commands, Locked(c, command)
  PROVE  WrittenInv'
<1> DEFINE t == task[c]
           h == [host[c] EXCEPT !.asked = command, !.told = "fail"]
<1>1. host[c].sent = 0 /\ host[c].begun = FALSE /\ ShapeOf(t, host[c])
  BY FreeToAsk DEF Locked, FlashInv, Shapes
<1>2. h.sent = 0 /\ h.begun = FALSE /\ h.told = "fail"
  BY <1>1 DEF ShapeOf
<1>3. t.kind \in {"none", "flash", "update", "erase", "format"} /\ t.current <= 0 /\ t.current \in Nat
  BY <1>1 DEF WrittenInv, ChannelHolds, ShapeOf
<1>4. task' = [task EXCEPT ![c] = t] /\ host' = [host EXCEPT ![c] = h] /\ flashed' = flashed
  BY DEF Locked, FlashInv, Shapes, ShapeOf
<1>5. next' \in {"none", "updater", "system"}
  BY DEF Locked, WrittenInv
<1> HIDE DEF t, h
<1>6. ChannelHolds(c, t, h, flashed)
  BY <1>2, <1>3, IdleHolds
<1> QED
  BY <1>4, <1>5, <1>6, UntouchedKeeps

LEMMA RefusedWrites ==
  ASSUME FlashInv, WrittenInv, NEW c \in Channels, NEW command \in Commands,
         Busy(c, command) \/ Unknown(c, command)
  PROVE  WrittenInv'
<1> DEFINE t == NoCommander
           h == [host[c] EXCEPT !.asked = command]
<1>1. /\ host[c].sent = 0 /\ host[c].begun = FALSE /\ host[c].told = "none" /\ ShapeOf(task[c], host[c])
  BY FreeToAsk DEF Busy, Unknown, May, FlashInv, Shapes
<1>2. h.sent = 0 /\ h.begun = FALSE /\ h.told = "none"
  BY <1>1 DEF ShapeOf
<1>3. t.kind = "none" /\ t.current = 0
  BY DEF NoCommander, Commander
<1>4. task' = [task EXCEPT ![c] = t] /\ host' = [host EXCEPT ![c] = h] /\ flashed' = flashed
  BY DEF Busy, Unknown, CreateCommander, FlashInv, Shapes, ShapeOf
<1>5. next' \in {"none", "updater", "system"}
  BY DEF Busy, Unknown, WrittenInv
<1> HIDE DEF t, h
<1>6. ChannelHolds(c, t, h, flashed)
  BY <1>2, <1>3, IdleHolds
<1> QED
  BY <1>4, <1>5, <1>6, UntouchedKeeps

\* A commander that begins: with a file, a partition to come, or a failure.
LEMMA BeginWrites ==
  ASSUME FlashInv, WrittenInv, NEW c \in Channels, NEW command \in Commands,
         Accepted(c, command) \/ AcceptedFails(c, command),
         NEW t, NEW h, task' = [task EXCEPT ![c] = t], host' = [host EXCEPT ![c] = h],
         t.kind = command.cmd, t.name = command.name, t.current = 0,
         h.sent = 0, h.told \in {"none", "fail"}, h.asked = command
  PROVE  WrittenInv'
<1>1. command.cmd \in Piecewise /\ command.name \in Names
  BY DEF Accepted, AcceptedFails, Names
<1>2. flashed' = flashed /\ next' \in {"none", "updater", "system"}
  BY DEF Accepted, AcceptedFails, PostCommand, WrittenInv
<1>3. ChannelHolds(c, t, h, flashed)
  BY <1>1, IdleHolds DEF Piecewise
<1> QED
  BY <1>2, <1>3, UntouchedKeeps

LEMMA AcceptedWrites ==
  ASSUME FlashInv, WrittenInv, NEW c \in Channels, NEW command \in Commands, Accepted(c, command)
  PROVE  WrittenInv'
<1> DEFINE t == [Commander(command.cmd, command.name) EXCEPT !.ready = (command.cmd = "update")]
           h == [host[c] EXCEPT !.asked = command, !.begun = TRUE]
<1>1. host[c].sent = 0 /\ host[c].told = "none" /\ ShapeOf(task[c], host[c])
  BY FreeToAsk DEF Accepted, May, FlashInv, Shapes
<1>2. h.sent = 0 /\ h.told = "none" /\ h.asked = command
  BY <1>1 DEF ShapeOf
<1>3. t.kind = command.cmd /\ t.name = command.name /\ t.current = 0
  BY DEF Commander
<1>4. task' = [task EXCEPT ![c] = t]
  BY DEF Accepted, Piecewise, CreateCommander, FlashInv, Shapes
<1>5. host' = [host EXCEPT ![c] = h]
  BY DEF Accepted, FlashInv, Shapes
<1> HIDE DEF t, h
<1> QED
  BY <1>2, <1>3, <1>4, <1>5, BeginWrites

LEMMA AcceptedFailsWrites ==
  ASSUME FlashInv, WrittenInv, NEW c \in Channels, NEW command \in Commands, AcceptedFails(c, command)
  PROVE  WrittenInv'
<1> DEFINE t == Commander(command.cmd, command.name)
           h == [host[c] EXCEPT !.asked = command, !.begun = TRUE, !.told = "fail"]
<1>1. host[c].sent = 0 /\ ShapeOf(task[c], host[c])
  BY FreeToAsk DEF AcceptedFails, May, FlashInv, Shapes
<1>2. h.sent = 0 /\ h.told = "fail" /\ h.asked = command
  BY <1>1 DEF ShapeOf
<1>3. t.kind = command.cmd /\ t.name = command.name /\ t.current = 0
  BY DEF Commander
<1>4. task' = [task EXCEPT ![c] = t]
  BY DEF AcceptedFails, Piecewise, CreateCommander, FlashInv, Shapes
<1>5. host' = [host EXCEPT ![c] = h]
  BY DEF AcceptedFails, FlashInv, Shapes
<1> HIDE DEF t, h
<1> QED
  BY <1>2, <1>3, <1>4, <1>5, BeginWrites

LEMMA EraseWrites ==
  ASSUME FlashInv, WrittenInv, NEW c \in Channels, NEW command \in Commands,
         EraseOrFormat(c, command) \/ EraseOrFormatFails(c, command)
  PROVE  WrittenInv'
<1> PICK told \in {"success", "fail"} :
           host' = [host EXCEPT ![c] = [host[c] EXCEPT !.asked = command, !.told = told]]
  BY DEF EraseOrFormat, EraseOrFormatFails, FlashInv, Shapes
<1> DEFINE t == Commander(command.cmd, command.name)
           h == [host[c] EXCEPT !.asked = command, !.told = told]
<1>1. /\ host[c].sent = 0 /\ host[c].begun = FALSE /\ ShapeOf(task[c], host[c])
      /\ command.cmd \in {"erase", "format"}
  BY FreeToAsk DEF EraseOrFormat, EraseOrFormatFails, May, FlashInv, Shapes
<1>2. h.sent = 0 /\ h.begun = FALSE /\ h.told = told /\ h.asked = command
  BY <1>1 DEF ShapeOf
<1>3. t.kind = command.cmd /\ t.current = 0
  BY DEF Commander
<1>4. task' = [task EXCEPT ![c] = t] /\ host' = [host EXCEPT ![c] = h]
  BY <1>1 DEF EraseOrFormat, EraseOrFormatFails, CreateCommander, FlashInv, Shapes
<1>5. next' \in {"none", "updater", "system"}
  BY <1>1 DEF EraseOrFormat, EraseOrFormatFails, PostCommand, WrittenInv
\* What is erased is nobody's and not old.
<1>6. command.name \in Names
  BY DEF Names
<1>7. /\ Partitioned'
      /\ \A p \in Names, i \in 1..Packets :
           flashed'[p][i] = flashed[p][i] \/ (flashed'[p][i] # Old /\ flashed'[p][i][2] \in {0, c})
  <2>1. CASE flashed' = flashed
    BY <2>1 DEF WrittenInv, Partitioned
  <2>2. ASSUME NEW with \in {"zero", "empty"}, flashed' = [flashed EXCEPT ![command.name] = Filled(with)]
        PROVE  /\ Partitioned'
               /\ \A p \in Names, i \in 1..Packets :
                    flashed'[p][i] = flashed[p][i] \/ (flashed'[p][i] # Old /\ flashed'[p][i][2] \in {0, c})
    <3>1. flashed' = [p \in Names |-> IF p = command.name THEN Filled(with) ELSE flashed[p]]
      BY <2>2, <1>6 DEF WrittenInv, Partitioned
    <3>2. /\ Filled(with) = [i \in 1..Packets |-> Filled(with)[i]]
          /\ \A i \in 1..Packets : Filled(with)[i] = <<[cmd |-> with, name |-> "none"], 0, 0>>
      BY DEF Filled
    <3>3. <<[cmd |-> with, name |-> "none"], 0, 0>> # Old
      <4>1. [cmd |-> with, name |-> "none"].cmd # [cmd |-> "old", name |-> "none"].cmd
        OBVIOUS
      <4> QED
        BY <4>1 DEF Old
    <3>4. Partitioned'
      BY <3>1, <3>2 DEF WrittenInv, Partitioned
    <3>5. ASSUME NEW p \in Names, NEW i \in 1..Packets
          PROVE  flashed'[p][i] = flashed[p][i] \/ (flashed'[p][i] # Old /\ flashed'[p][i][2] \in {0, c})
      <4>1. CASE p = command.name
        <5>1. flashed'[p][i] = <<[cmd |-> with, name |-> "none"], 0, 0>>
          BY <3>1, <3>2, <4>1
        <5> QED
          BY <3>3, <5>1
      <4>2. CASE p # command.name
        BY <3>1, <4>2
      <4> QED
        BY <4>1, <4>2
    <3> QED
      BY <3>4, <3>5
  <2>3. flashed' = flashed \/ \E with \in {"zero", "empty"} : flashed' = [flashed EXCEPT ![command.name] = Filled(with)]
    BY DEF EraseOrFormat, EraseOrFormatFails
  <2> QED
    BY <2>1, <2>2, <2>3
<1> HIDE DEF t, h
<1>8. ChannelHolds(c, t, h, flashed')
  BY <1>1, <1>2, <1>3, FlashdAssumption DEF ChannelHolds
<1> QED
  BY <1>4, <1>5, <1>7, <1>8, OthersKeep

\* A packet that is not the last of a commander, that nobody is told of, or that fails.
LEMMA PacketHolds ==
  ASSUME FlashInv, WrittenInv, NEW c \in Channels, Arrives(c), NEW t, NEW h, NEW f,
         t.kind = task[c].kind, t.name = task[c].name, t.current \in {task[c].current, task[c].current + 1},
         h.asked = host[c].asked, h.begun = host[c].begun, h.sent = host[c].sent + 1,
         h.told \in {host[c].told, "success", "fail"},
         t.kind = "flash" =>
           /\ \A i \in 1..t.current : f[t.name][i] # Old /\ (t.current = h.sent => Replaced(f[t.name][i], h, c, i))
           /\ h.told = "success" => h.told = host[c].told /\ h.left = host[c].left
  PROVE  ChannelHolds(c, t, h, f)
<1>1. ChannelHolds(c, task[c], host[c], flashed) /\ ShapeOf(task[c], host[c])
  BY DEF WrittenInv, FlashInv, Shapes
<1>2. host[c].begun /\ host[c].sent < Packets /\ host[c].sent \in Nat /\ task[c].current \in Nat
  BY <1>1 DEF Arrives, ShapeOf
<1>3. t.current <= h.sent /\ h.sent <= Packets
  BY <1>1, <1>2, FlashdAssumption DEF ChannelHolds
<1>4. t.kind = h.asked.cmd /\ t.kind \in Piecewise /\ t.name \in Names
  BY <1>1, <1>2 DEF ChannelHolds
<1>5. ASSUME h.told = "success", h.asked.cmd = "flash", NEW i \in 1..Packets PROVE Replaced(h.left[i], h, c, i)
  <2>1. h.told = host[c].told /\ h.left = host[c].left
    BY <1>4, <1>5
  <2>2. Replaced(host[c].left[i], host[c], c, i)
    BY <1>1, <1>5, <2>1 DEF ChannelHolds
  <2> QED
    BY <2>1, <2>2 DEF Replaced
<1> QED
  BY <1>1, <1>3, <1>4, <1>5 DEF ChannelHolds

LEMMA FlashDataWrites ==
  ASSUME FlashInv, WrittenInv, NEW c \in Channels, FlashData(c)
  PROVE  WrittenInv'
<1> DEFINE t == [task[c] EXCEPT !.current = @ + 1, !.ready = TRUE]
           sent == [host[c] EXCEPT !.sent = @ + 1]
           told == [host[c] EXCEPT !.told = "success", !.sent = @ + 1, !.left = Written(c)]
           cell == <<host[c].asked, c, host[c].sent + 1>>
           count == task[c].current + 1
<1>1. ChannelHolds(c, task[c], host[c], flashed) /\ ShapeOf(task[c], host[c]) /\ Arrives(c) /\ Partitioned
  BY DEF WrittenInv, FlashInv, Shapes, FlashData
<1>2. /\ host[c].begun /\ host[c].sent < Packets /\ host[c].sent \in Nat /\ task[c].current \in Nat
      /\ task[c].current <= host[c].sent /\ task[c].kind = "flash" /\ task[c].name \in Names /\ next = "none"
  BY <1>1 DEF Arrives, ShapeOf, ChannelHolds, FlashData
<1>3. count \in 1..Packets
  BY <1>2, FlashdAssumption
<1>4. cell # Old /\ cell[2] = c
  BY FlashdAssumption DEF Old
<1>5. Written(c) = [i \in 1..Packets |-> IF i = count THEN cell ELSE flashed[task[c].name][i]]
  <2>1. flashed[task[c].name] = [i \in 1..Packets |-> flashed[task[c].name][i]]
    BY <1>1, <1>2 DEF Partitioned
  <2>2. Written(c) = [flashed[task[c].name] EXCEPT ![count] = cell]
    BY DEF Written, Packet, Asks, Sent
  <2> HIDE DEF cell, count
  <2> QED
    BY <2>1, <2>2
<1>6. flashed' = [p \in Names |-> IF p = task[c].name THEN Written(c) ELSE flashed[p]]
  BY <1>1 DEF FlashData, Partitioned
<1> HIDE DEF cell
<1>7. Partitioned'
  BY <1>1, <1>5, <1>6 DEF Partitioned
<1>8. ASSUME NEW p \in Names, NEW i \in 1..Packets
      PROVE  flashed'[p][i] = flashed[p][i] \/ (flashed'[p][i] # Old /\ flashed'[p][i][2] \in {0, c})
  BY <1>4, <1>5, <1>6
<1>9. /\ t.kind = task[c].kind /\ t.name = task[c].name /\ t.current = count
      /\ \A h \in {sent, told} : h.asked = host[c].asked /\ h.begun = host[c].begun /\ h.sent = host[c].sent + 1
      /\ sent.told = host[c].told /\ sent.left = host[c].left
      /\ told.told = "success" /\ told.left = Written(c)
  BY <1>1 DEF ShapeOf
<1>10. task' = [task EXCEPT ![c] = t] /\ next' \in {"none", "updater", "system"}
  BY <1>2 DEF FlashData, Count, NotifyHost, PostCommand, Progress, FlashInv, Shapes
<1>11. \/ host' = [host EXCEPT ![c] = sent]
       \/ Whole(c) /\ host' = [host EXCEPT ![c] = told]
  BY DEF FlashData, NotifyHost, Progress, Sent, FlashInv, Shapes
<1>12. Whole(c) => host[c].sent = task[c].current /\ Packets = count
  BY <1>2, FlashdAssumption DEF Whole
\* Up to the new count, and with all of them counted, each at its place.
<1>13. ASSUME NEW i \in 1..count, NEW h \in {sent, told}
       PROVE  /\ Written(c)[i] # Old
              /\ count = h.sent => Replaced(Written(c)[i], h, c, i)
  <2>1. CASE i = count
    <3>1. Written(c)[i] = cell
      BY <1>3, <1>5, <2>1
    <3> QED
      BY <1>4, <1>9, <2>1, <3>1 DEF Replaced, cell
  <2>2. CASE i # count
    <3>1. i \in 1..task[c].current /\ i \in 1..Packets
      BY <1>2, <2>2, FlashdAssumption
    <3>2. Written(c)[i] = flashed[task[c].name][i]
      BY <1>5, <2>2, <3>1
    <3>3. /\ flashed[task[c].name][i] # Old
          /\ task[c].current = host[c].sent => Replaced(flashed[task[c].name][i], host[c], c, i)
      BY <1>1, <1>2, <3>1 DEF ChannelHolds
    <3>4. count = h.sent => task[c].current = host[c].sent
      <4>1. h.sent = host[c].sent + 1
        BY <1>9
      <4> HIDE DEF sent, told
      <4> QED
        BY <1>2, <4>1
    <3> HIDE DEF sent, told, count
    <3> QED
      BY <1>9, <3>2, <3>3, <3>4 DEF Replaced
  <2> QED
    BY <2>1, <2>2
<1>14. flashed'[task[c].name] = Written(c)
  BY <1>2, <1>6
<1> HIDE DEF t, sent, told, count
<1>15. CASE host' = [host EXCEPT ![c] = sent]
  <2>1. ChannelHolds(c, t, sent, flashed')
    BY <1>1, <1>9, <1>13, <1>14, PacketHolds DEF count
  <2> QED
    BY <1>7, <1>8, <1>10, <1>15, <2>1, OthersKeep
<1>16. CASE Whole(c) /\ host' = [host EXCEPT ![c] = told]
  <2>1. \A i \in 1..Packets : Replaced(told.left[i], told, c, i)
    BY <1>2, <1>9, <1>12, <1>13, <1>16 DEF count
  <2>2. ChannelHolds(c, t, told, flashed')
    BY <1>1, <1>2, <1>3, <1>9, <1>13, <1>14, <2>1, FlashdAssumption DEF ChannelHolds, count
  <2> QED
    BY <1>7, <1>8, <1>10, <1>16, <2>2, OthersKeep
<1> QED
  BY <1>11, <1>15, <1>16

LEMMA UpdateDataWrites ==
  ASSUME FlashInv, WrittenInv, NEW c \in Channels, UpdateData(c)
  PROVE  WrittenInv'
<1> DEFINE t == [task[c] EXCEPT !.current = @ + 1, !.ready = TRUE]
           sent == [host[c] EXCEPT !.sent = @ + 1]
           told == [host[c] EXCEPT !.told = "success", !.sent = @ + 1, !.left = <<>>]
<1>1. ShapeOf(task[c], host[c]) /\ Arrives(c) /\ task[c].kind = "update"
  BY DEF FlashInv, Shapes, UpdateData
<1>2. t.kind = task[c].kind /\ t.name = task[c].name /\ t.current = task[c].current + 1
  BY <1>1 DEF ShapeOf
<1>3. /\ \A h \in {sent, told} : h.asked = host[c].asked /\ h.begun = host[c].begun /\ h.sent = host[c].sent + 1
      /\ sent.told = host[c].told /\ told.told = "success"
  BY <1>1 DEF ShapeOf
<1>4. task' = [task EXCEPT ![c] = t] /\ flashed' = flashed
  BY DEF UpdateData, Count, FlashInv, Shapes
<1>5. next' \in {"none", "updater", "system"}
  BY DEF UpdateData, NotifyHost, PostCommand, Progress, WrittenInv
<1>6. PICK h \in {sent, told} : host' = [host EXCEPT ![c] = h]
  BY DEF UpdateData, NotifyHost, Progress, Sent, FlashInv, Shapes
<1>7. /\ h.asked = host[c].asked /\ h.begun = host[c].begun /\ h.sent = host[c].sent + 1
      /\ h.told \in {host[c].told, "success", "fail"}
  BY <1>3, <1>6
<1> HIDE DEF t, sent, told
<1>8. ChannelHolds(c, t, h, flashed)
  BY <1>1, <1>2, <1>7, PacketHolds
<1> QED
  BY <1>4, <1>5, <1>6, <1>8, UntouchedKeeps

LEMMA DataFailsWrites ==
  ASSUME FlashInv, WrittenInv, NEW c \in Channels, DataFails(c)
  PROVE  WrittenInv'
<1> DEFINE t == task[c]
           sent == [host[c] EXCEPT !.sent = @ + 1]
           told == [host[c] EXCEPT !.told = "fail", !.sent = @ + 1, !.left = <<>>]
<1>1. ShapeOf(task[c], host[c]) /\ Arrives(c) /\ ChannelHolds(c, task[c], host[c], flashed)
  BY DEF FlashInv, Shapes, DataFails, WrittenInv
<1>2. /\ \A h \in {sent, told} : h.asked = host[c].asked /\ h.begun = host[c].begun /\ h.sent = host[c].sent + 1
      /\ sent.told = host[c].told /\ sent.left = host[c].left /\ told.told = "fail"
  BY <1>1 DEF ShapeOf
<1>3. task' = [task EXCEPT ![c] = t] /\ flashed' = flashed
  BY DEF DataFails, FlashInv, Shapes
<1>4. next' \in {"none", "updater", "system"}
  BY DEF DataFails, NotifyHost, PostCommand, WrittenInv
<1>5. PICK h \in {sent, told} : host' = [host EXCEPT ![c] = h]
  BY DEF DataFails, NotifyHost, FlashInv, Shapes
<1>6. /\ h.asked = host[c].asked /\ h.begun = host[c].begun /\ h.sent = host[c].sent + 1
      /\ h.told \in {host[c].told, "success", "fail"}
      /\ h.told = "success" => h.told = host[c].told /\ h.left = host[c].left
  BY <1>2, <1>5
\* What was sent is now more than what was counted.
<1>7. host[c].sent \in Nat /\ task[c].current \in Nat /\ task[c].current <= host[c].sent /\ host[c].begun
  BY <1>1 DEF ShapeOf, ChannelHolds, Arrives
<1>8. task[c].kind = "flash" => \A i \in 1..task[c].current : flashed[task[c].name][i] # Old
  BY <1>1, <1>7 DEF ChannelHolds
<1>9. task[c].current # h.sent
  <2> HIDE DEF sent, told, t
  <2> QED
    BY <1>6, <1>7
<1> HIDE DEF sent, told
<1>10. ChannelHolds(c, t, h, flashed)
  BY <1>1, <1>6, <1>8, <1>9, PacketHolds
<1> HIDE DEF t
<1> QED
  BY <1>3, <1>4, <1>5, <1>10, UntouchedKeeps

LEMMA ChannelCloseWrites ==
  ASSUME FlashInv, WrittenInv, NEW c \in Channels, ChannelClose(c)
  PROVE  WrittenInv'
<1>1. /\ NoCommander.kind = "none" /\ NoCommander.current = 0
      /\ NothingAsked.sent = 0 /\ NothingAsked.begun = FALSE /\ NothingAsked.told = "none"
  BY DEF NoCommander, Commander, NothingAsked
<1>2. ChannelHolds(c, NoCommander, NothingAsked, flashed)
  BY <1>1, IdleHolds
<1>3. next' \in {"none", "updater", "system"}
  BY DEF ChannelClose, WrittenInv
<1> QED
  BY <1>2, <1>3, UntouchedKeeps DEF ChannelClose

LEMMA StepWrites ==
  ASSUME FlashInv, WrittenInv, [FlashdNext]_flashdVars
  PROVE  WrittenInv'
<1>1. CASE UNCHANGED flashdVars
  BY <1>1 DEF flashdVars, flashd, WrittenInv, Partitioned
<1>2. CASE RebootDevice
  BY <1>2 DEF RebootDevice, WrittenInv, Partitioned
<1>3. ASSUME NEW c \in Channels, NEW command \in Commands,
             \/ Locked(c, command) \/ Busy(c, command) \/ Unknown(c, command)
             \/ Accepted(c, command) \/ AcceptedFails(c, command)
             \/ EraseOrFormat(c, command) \/ EraseOrFormatFails(c, command)
      PROVE  WrittenInv'
  BY <1>3, LockedWrites, RefusedWrites, AcceptedWrites, AcceptedFailsWrites, EraseWrites
<1>4. ASSUME NEW c \in Channels, FlashData(c) \/ UpdateData(c) \/ DataFails(c) \/ ChannelClose(c)
      PROVE  WrittenInv'
  BY <1>4, FlashDataWrites, UpdateDataWrites, DataFailsWrites, ChannelCloseWrites
<1> QED
  BY <1>1, <1>2, <1>3, <1>4 DEF FlashdNext

-----------------------------------------------------------------------------
\* What was uploaded, where nothing failed: the file is that of the command under way,
\* with the packets that were counted, and whole when the device restarts to install it.
FileOf(command, c, n) == [of |-> command, packets |-> [i \in 1..n |-> <<command, c, i>>]]
UploadInv ==
  faults = 0 =>
    /\ next = "none" =>
         \A c \in Channels :
           UnderWayIn(task[c], host[c]) /\ task[c].kind = "update"
             => upload = FileOf(host[c].asked, c, task[c].current)
    /\ next = "updater" => \E c \in Channels : upload = FileOf(host[c].asked, c, Packets)

LEMMA InitUploaded == FlashdInit => UploadInv
<1> SUFFICES ASSUME FlashdInit PROVE UploadInv
  OBVIOUS
<1>1. \A c \in Channels : host[c].begun = FALSE
  BY DEF FlashdInit, NothingAsked
<1> QED
  BY <1>1 DEF FlashdInit, UploadInv, UnderWayIn

LEMMA FileGrows ==
  ASSUME NEW command, NEW c, NEW n \in Nat
  PROVE  [FileOf(command, c, n) EXCEPT !.packets = Append(@, <<command, c, n + 1>>)] = FileOf(command, c, n + 1)
<1> DEFINE Packet3(i) == <<command, c, i>>
           S == {Packet3(i) : i \in 1..(n + 1)}
           short == [i \in 1..n |-> Packet3(i)]
           long == [i \in 1..(n + 1) |-> Packet3(i)]
<1>1. short \in Seq(S) /\ Len(short) = n /\ long \in Seq(S) /\ Len(long) = n + 1
  OBVIOUS
<1>2. Packet3(n + 1) \in S
  OBVIOUS
<1>3. \A i \in 1..n : short[i] = Packet3(i)
  OBVIOUS
<1>4. \A i \in 1..(n + 1) : long[i] = Packet3(i)
  OBVIOUS
<1>5. Append(short, Packet3(n + 1)) = long
  <2> HIDE DEF S, short, long, Packet3
  <2> QED
    BY <1>1, <1>2, <1>3, <1>4
<1>6. FileOf(command, c, n) = [of |-> command, packets |-> short] /\ FileOf(command, c, n + 1) = [of |-> command, packets |-> long]
  BY DEF FileOf
<1>7. [[of |-> command, packets |-> short] EXCEPT !.packets = Append(@, Packet3(n + 1))]
        = [of |-> command, packets |-> Append(short, Packet3(n + 1))]
  <2> DEFINE x == Packet3(n + 1)
             part == [of |-> command, packets |-> short]
  <2>1. part.packets = short
    OBVIOUS
  <2> HIDE DEF x, short
  <2>2. [part EXCEPT !.packets = Append(short, x)] = [of |-> command, packets |-> Append(short, x)]
    OBVIOUS
  <2> QED
    BY <2>1, <2>2 DEF x
<1> HIDE DEF short, long
<1> QED
  BY <1>5, <1>6, <1>7

\* While nobody is under way, or nothing is done to the file, nothing goes wrong with it.
LEMMA QuietUpload ==
  ASSUME FlashInv, UploadInv, NEW c \in Channels, NEW t, NEW h,
         task' = [task EXCEPT ![c] = t], host' = [host EXCEPT ![c] = h],
         faults' = faults, next' = "none", next = "none",
         faults = 0 /\ UnderWayIn(t, h) /\ t.kind = "update" => upload' = FileOf(h.asked, c, t.current),
         \/ upload' = upload
         \/ faults = 0 => \A d \in Channels \ {c} : ~UnderWayIn(task[d], host[d])
  PROVE  UploadInv'
<1>1. /\ task'[c] = t /\ host'[c] = h
      /\ \A d \in Channels \ {c} : task'[d] = task[d] /\ host'[d] = host[d]
  BY DEF FlashInv, Shapes
<1> QED
  BY <1>1 DEF UploadInv

LEMMA FaultUpload ==
  ASSUME FlashInv, Fault
  PROVE  UploadInv'
BY FaultCounts DEF UploadInv, FlashInv, Shapes

LEMMA AsksUpload ==
  ASSUME FlashInv, UploadInv, NEW c \in Channels, NEW command \in Commands,
         \/ Locked(c, command) \/ Busy(c, command) \/ Unknown(c, command) \/ EraseOrFormat(c, command)
  PROVE  UploadInv'
<1>1. PICK t, told : /\ task' = [task EXCEPT ![c] = t]
                     /\ host' = [host EXCEPT ![c] = [host[c] EXCEPT !.asked = command, !.told = told]]
  <2>1. ShapeOf(task[c], host[c])
    BY DEF FlashInv, Shapes
  <2>2. [host[c] EXCEPT !.asked = command] = [host[c] EXCEPT !.asked = command, !.told = host[c].told]
    BY <2>1 DEF ShapeOf
  <2>3. task = [task EXCEPT ![c] = task[c]]
    BY DEF FlashInv, Shapes
  <2>4. CASE Locked(c, command)
    BY <2>3, <2>4 DEF Locked, FlashInv, Shapes
  <2>5. CASE Busy(c, command) \/ Unknown(c, command)
    <3>1. host' = [host EXCEPT ![c] = [host[c] EXCEPT !.asked = command]]
      BY <2>5 DEF Busy, Unknown, FlashInv, Shapes
    <3>2. \E t : task' = [task EXCEPT ![c] = t]
      BY <2>5 DEF Busy, Unknown, CreateCommander
    <3> QED
      BY <2>2, <3>1, <3>2
  <2>6. CASE EraseOrFormat(c, command)
    BY <2>6 DEF EraseOrFormat, CreateCommander, FlashInv, Shapes
  <2> QED
    BY <2>4, <2>5, <2>6
<1> DEFINE h == [host[c] EXCEPT !.asked = command, !.told = told]
<1>2. h.begun = FALSE
  BY FreeToAsk DEF Locked, Busy, Unknown, EraseOrFormat, May, FlashInv, Shapes, ShapeOf
<1>3. faults' = faults /\ next = "none" /\ next' = "none"
  BY DEF Locked, Busy, Unknown, EraseOrFormat, May, PostCommand
<1>4. \/ upload' = upload
      \/ faults = 0 => \A d \in Channels \ {c} : ~UnderWayIn(task[d], host[d])
  BY NobodyElse DEF Locked, Busy, Unknown, EraseOrFormat, May, FlashInv, Shapes
<1> HIDE DEF h
<1> QED
  BY <1>1, <1>2, <1>3, <1>4, QuietUpload DEF UnderWayIn, h

LEMMA AcceptedUpload ==
  ASSUME FlashInv, UploadInv, NEW c \in Channels, NEW command \in Commands, Accepted(c, command)
  PROVE  UploadInv'
<1> DEFINE t == [Commander(command.cmd, command.name) EXCEPT !.ready = (command.cmd = "update")]
           h == [host[c] EXCEPT !.asked = command, !.begun = TRUE]
<1>1. task' = [task EXCEPT ![c] = t] /\ host' = [host EXCEPT ![c] = h]
  BY DEF Accepted, Piecewise, CreateCommander, FlashInv, Shapes
<1>2. h.asked = command /\ t.kind = command.cmd /\ t.current = 0
  BY DEF Commander, FlashInv, Shapes, ShapeOf
<1>3. faults' = faults /\ next = "none" /\ next' = "none"
  BY DEF Accepted, May
<1>4. faults = 0 => \A d \in Channels : ~UnderWayIn(task[d], host[d])
  BY NobodyElse DEF Accepted, May, FlashInv, Shapes
<1>5. FileOf(command, c, 0) = [of |-> command, packets |-> <<>>]
  <2>1. [i \in 1..0 |-> <<command, c, i>>] = <<>>
    OBVIOUS
  <2> QED
    BY <2>1 DEF FileOf
<1>6. t.kind = "update" => upload' = FileOf(h.asked, c, t.current)
  BY <1>2, <1>5 DEF Accepted
<1> HIDE DEF t, h
<1> QED
  BY <1>1, <1>3, <1>4, <1>6, QuietUpload

LEMMA FlashDataUpload ==
  ASSUME FlashInv, UploadInv, NEW c \in Channels, FlashData(c)
  PROVE  UploadInv'
<1> DEFINE t == [task[c] EXCEPT !.current = @ + 1, !.ready = TRUE]
<1>1. PICK h : host' = [host EXCEPT ![c] = h]
  BY DEF FlashData, NotifyHost, Progress
<1>2. task' = [task EXCEPT ![c] = t] /\ t.kind = "flash"
  BY DEF FlashData, Count, FlashInv, Shapes, ShapeOf
<1>3. faults' = faults /\ next = "none" /\ next' = "none" /\ Arrives(c)
  BY DEF FlashData, Arrives, NotifyHost, PostCommand, Progress
<1>4. faults = 0 => \A d \in Channels \ {c} : ~UnderWayIn(task[d], host[d])
  BY <1>3, SenderIsAlone
<1> HIDE DEF t
<1> QED
  BY <1>1, <1>2, <1>3, <1>4, QuietUpload

LEMMA UpdateDataUpload ==
  ASSUME FlashInv, UploadInv, NEW c \in Channels, UpdateData(c)
  PROVE  UploadInv'
<1> SUFFICES ASSUME faults = 0 PROVE UploadInv'
  BY DEF UpdateData, UploadInv
<1> DEFINE t == [task[c] EXCEPT !.current = @ + 1, !.ready = TRUE]
<1>1. /\ task[c].current = host[c].sent /\ running = TRUE /\ UnderWayIn(task[c], host[c])
      /\ \A d \in Channels \ {c} : ~UnderWayIn(task[d], host[d])
  BY SenderIsAlone DEF UpdateData
<1>2. /\ task' = [task EXCEPT ![c] = t] /\ t.current = task[c].current + 1 /\ ShapeOf(task[c], host[c])
      /\ task[c].kind = "update" /\ next = "none" /\ faults' = faults /\ host[c].sent < Packets
  BY DEF UpdateData, Arrives, Count, FlashInv, Shapes, ShapeOf
<1>3. task[c].current \in Nat /\ task[c].current < Packets
  BY <1>1, <1>2 DEF ShapeOf
<1>4. upload = FileOf(host[c].asked, c, task[c].current)
  BY <1>1, <1>2 DEF UploadInv
<1>5. Appended(c) = FileOf(host[c].asked, c, task[c].current + 1)
  <2>1. Appended(c) = [upload EXCEPT !.packets = Append(@, <<host[c].asked, c, task[c].current + 1>>)]
    BY <1>1 DEF Appended, Packet, Asks, Sent
  <2> DEFINE n == task[c].current
  <2>2. [FileOf(host[c].asked, c, n) EXCEPT !.packets = Append(@, <<host[c].asked, c, n + 1>>)]
          = FileOf(host[c].asked, c, n + 1)
    <3>1. n \in Nat
      BY <1>3
    <3> HIDE DEF n
    <3> QED
      BY <3>1, FileGrows
  <2> QED
    BY <1>4, <2>1, <2>2
<1>6. CASE Whole(c)
  <2>1. /\ host' = [host EXCEPT ![c] = [host[c] EXCEPT !.told = "success", !.sent = @ + 1, !.left = <<>>]]
        /\ upload' = Appended(c)
    BY <1>1, <1>6 DEF UpdateData, NotifyHost, PostCommand, FlashInv, Shapes
  <2>2. host'[c].asked = host[c].asked
    BY <1>2, <2>1 DEF FlashInv, Shapes, ShapeOf
  <2>3. Packets = task[c].current + 1
    BY <1>3, <1>6, FlashdAssumption DEF Whole
  <2> QED
    BY <1>1, <1>2, <1>5, <2>1, <2>2, <2>3 DEF UploadInv, UnderWayIn, FlashInv, Shapes, ShapeOf
<1>7. CASE ~Whole(c)
  <2> DEFINE h == [host[c] EXCEPT !.sent = @ + 1]
  <2>1. host' = [host EXCEPT ![c] = h] /\ upload' = Appended(c) /\ next' = "none"
    BY <1>2, <1>7 DEF UpdateData, Progress, Sent, FlashInv, Shapes
  <2>2. h.asked = host[c].asked
    BY <1>2 DEF ShapeOf
  <2> HIDE DEF t, h
  <2> QED
    BY <1>1, <1>2, <1>5, <2>1, <2>2, QuietUpload
<1> QED
  BY <1>6, <1>7

LEMMA StepUploads ==
  ASSUME FlashInv, UploadInv, [FlashdNext]_flashdVars
  PROVE  UploadInv'
<1>1. CASE UNCHANGED flashdVars
  BY <1>1 DEF flashdVars, flashd, UploadInv
<1>2. CASE RebootDevice
  BY <1>2 DEF RebootDevice, UploadInv
<1>3. ASSUME NEW c \in Channels, NEW command \in Commands,
             \/ Locked(c, command) \/ Busy(c, command) \/ Unknown(c, command) \/ EraseOrFormat(c, command)
      PROVE  UploadInv'
  BY <1>3, AsksUpload
<1>4. ASSUME NEW c \in Channels, NEW command \in Commands, Accepted(c, command)
      PROVE  UploadInv'
  BY <1>4, AcceptedUpload
<1>5. ASSUME NEW c \in Channels, NEW command \in Commands,
             AcceptedFails(c, command) \/ EraseOrFormatFails(c, command)
      PROVE  UploadInv'
  BY <1>5, FaultUpload DEF AcceptedFails, EraseOrFormatFails
<1>6. ASSUME NEW c \in Channels, FlashData(c) \/ UpdateData(c)
      PROVE  UploadInv'
  BY <1>6, FlashDataUpload, UpdateDataUpload
\* An update without a file comes of a fault.
<1>7. ASSUME NEW c \in Channels, DataFails(c)
      PROVE  UploadInv'
  <2>1. CASE Fault
    BY <2>1, FaultUpload
  <2>2. CASE task[c].kind = "update" /\ ~task[c].ready /\ faults' = faults
    <3>1. faults # 0
      BY <1>7, <2>2, SenderIsAlone DEF DataFails
    <3> QED
      BY <2>2, <3>1 DEF UploadInv
  <2> QED
    BY <1>7, <2>1, <2>2 DEF DataFails
<1>8. ASSUME NEW c \in Channels, ChannelClose(c)
      PROVE  UploadInv'
  <2>1. NothingAsked.begun = FALSE
    BY DEF NothingAsked
  <2>2. /\ task' = [task EXCEPT ![c] = NoCommander] /\ host' = [host EXCEPT ![c] = NothingAsked]
        /\ faults' = faults /\ next = "none" /\ next' = "none" /\ upload' = upload
    BY <1>8 DEF ChannelClose
  <2> QED
    BY <2>1, <2>2, QuietUpload DEF UnderWayIn
<1> QED
  BY <1>1, <1>2, <1>3, <1>4, <1>5, <1>6, <1>7, <1>8 DEF FlashdNext
-----------------------------------------------------------------------------
\* What a commander wrote and counted (FlashCommander), whatever failed.
THEOREM WrittenHolds == FlashdSpec => []WrittenInv
<1>1. FlashdInit => WrittenInv
  BY InitWritten
<1>2. FlashInv /\ WrittenInv /\ [FlashdNext]_flashdVars => WrittenInv'
  BY StepWrites
<1> QED
  BY <1>1, <1>2, FlashInvHolds, PTL DEF FlashdSpec

\* The file of the update under way (UpdateCommander), whatever the hosts do.
THEOREM UploadedHolds == FlashdSpec => []UploadInv
<1>1. FlashdInit => UploadInv
  BY InitUploaded
<1>2. FlashInv /\ UploadInv /\ [FlashdNext]_flashdVars => UploadInv'
  BY StepUploads
<1> QED
  BY <1>1, <1>2, FlashInvHolds, PTL DEF FlashdSpec

\* A host is told of success only with every packet of its own at its place and nothing old
\* left, whatever failed before; where nothing failed one command at a time is under way,
\* and the device is restarted only to install a whole package (DaemonUpdater, Commander).
THEOREM HostsAreToldTheTruth == FlashdSpec => []FlashdHolds
<1>1. ASSUME FlashInv, WrittenInv PROVE FlashdTypeOK
  <2> SUFFICES ASSUME NEW c \in Channels
               PROVE  /\ task[c].kind \in {"none", "flash", "update", "erase", "format"}
                      /\ task[c].current \in 0..Packets /\ host[c].sent \in 0..Packets
                      /\ host[c].told \in {"none", "success", "fail"}
    BY <1>1 DEF FlashdTypeOK, FlashInv, Shapes, WrittenInv
  <2> QED
    BY <1>1, FlashdAssumption DEF FlashInv, Shapes, ShapeOf, WrittenInv, ChannelHolds
<1>2. ASSUME WrittenInv PROVE SuccessIsWhole
  <2> SUFFICES ASSUME NEW c \in Channels, host[c].told = "success", Asks(c).cmd = "flash", NEW i \in 1..Packets
               PROVE  /\ host[c].left[i] # Filled("old")[i]
                      /\ host[c].left[i][2] = c => host[c].left[i] = Packet(c, i)
    BY DEF SuccessIsWhole
  <2>1. Replaced(host[c].left[i], host[c], c, i)
    BY <1>2 DEF WrittenInv, ChannelHolds, Asks
  <2>2. Filled("old")[i] = Old /\ Packet(c, i) = <<host[c].asked, c, i>>
    BY DEF Filled, Old, Packet, Asks
  <2> QED
    BY <2>1, <2>2 DEF Replaced
<1>3. ASSUME UploadInv PROVE RebootsToWhole
  BY <1>3 DEF UploadInv, RebootsToWhole, FileOf, Packet, Asks
<1>4. FlashInv /\ WrittenInv /\ UploadInv /\ OneAtATime => FlashdHolds
  BY <1>1, <1>2, <1>3 DEF FlashdHolds
<1> QED
  BY <1>4, FlashInvHolds, WrittenHolds, UploadedHolds, CommandsAreAlone, PTL
-----------------------------------------------------------------------------
(***************************************************************************)
(* Sequences, and the members of one that are chosen.                      *)
(***************************************************************************)
\* Induction on the numbers up to l, over a set and not over a formula.
LEMMA FromZeroTo ==
  ASSUME NEW l \in Nat, NEW Good, 0 \in Good,
         \A i \in 1..l : i - 1 \in Good => i \in Good
  PROVE  0..l \subseteq Good
<1> DEFINE Bad == (0..l) \ Good
           R == OpToRel(<, Nat)
<1> SUFFICES ASSUME Bad # {} PROVE FALSE
  OBVIOUS
<1>1. R = {ss \in Nat \X Nat : ss[1] < ss[2]}
  BY DEF OpToRel
<1>2. IsWellFoundedOn(R, Nat)
  BY NatLessThanWellFounded
<1>3. Bad \subseteq Nat
  OBVIOUS
<1> HIDE DEF R, Bad
<1>4. PICK i \in Bad : \A k \in Bad : ~(<<k, i>> \in R)
  BY <1>2, <1>3, WFMin
<1>5. i \in 1..l /\ i \notin Good
  BY DEF Bad
<1>6. i - 1 \in Bad
  BY <1>5 DEF Bad
<1>7. i - 1 \in Nat /\ i \in Nat /\ i - 1 < i
  BY <1>5
<1>8. <<i - 1, i>> \in R
  BY <1>1, <1>7
<1> QED
  BY <1>4, <1>6, <1>8

\* What holds of the empty sequence, and of one with one more at its end, holds of all.
LEMMA OneMore ==
  ASSUME NEW E, NEW Good, <<>> \in Good,
         \A s \in Seq(E), x \in E : s \in Good => Append(s, x) \in Good
  PROVE  Seq(E) \subseteq Good
<1> SUFFICES ASSUME NEW s \in Seq(E) PROVE s \in Good
  OBVIOUS
<1> DEFINE first(m) == [i \in 1..m |-> s[i]]
           G == {m \in 0..Len(s) : first(m) \in Good}
<1>0. Len(s) \in Nat /\ Len(s) \in 0..Len(s)
  OBVIOUS
<1>1. 0 \in G
  <2>1. first(0) = <<>> /\ 0 \in 0..Len(s)
    OBVIOUS
  <2> HIDE DEF first
  <2> QED
    BY <2>1
<1>2. ASSUME NEW m \in 1..Len(s), m - 1 \in G PROVE m \in G
  <2>1. first(m - 1) \in Seq(E) /\ s[m] \in E /\ first(m - 1) \in Good
    <3>1. s[m] \in E /\ m - 1 \in Nat /\ \A i \in 1..(m - 1) : s[i] \in E
      OBVIOUS
    <3>2. first(m - 1) \in [1..(m - 1) -> E]
      BY <3>1
    <3>3. first(m - 1) \in Seq(E)
      BY <3>1, <3>2
    <3> HIDE DEF first
    <3> QED
      BY <1>2, <3>1, <3>3
  <2>2. first(m) = Append(first(m - 1), s[m])
    <3>1. Len(first(m - 1)) = m - 1
      OBVIOUS
    <3>2. DOMAIN Append(first(m - 1), s[m]) = 1..m
      BY <2>1, <3>1
    <3>3. \A i \in 1..m : Append(first(m - 1), s[m])[i] = s[i]
      BY <2>1, <3>1
    <3>4. Append(first(m - 1), s[m]) \in Seq(E)
      BY <2>1
    <3> QED
      BY <3>2, <3>3, <3>4
  <2> HIDE DEF first
  <2>3. Append(first(m - 1), s[m]) \in Good
    BY <2>1
  <2>4. first(m) \in Good
    BY <2>2, <2>3
  <2>5. m \in 0..Len(s)
    BY <1>0
  <2> QED
    BY <2>4, <2>5
<1>3. 0..Len(s) \subseteq G
  <2> HIDE DEF G
  <2> QED
    BY <1>0, <1>1, <1>2, FromZeroTo
<1>4. Len(s) \in G
  <2> HIDE DEF G
  <2> QED
    BY <1>0, <1>3
<1>5. first(Len(s)) = s
  OBVIOUS
<1> QED
  BY <1>4, <1>5

\* The loop that Chosen is.
ChoosesFrom(g, s, those) ==
  g = [i \in 0..Len(s) |->
        IF i = 0 THEN <<>> ELSE IF s[i] \in those THEN Append(g[i - 1], s[i]) ELSE g[i - 1]]
\* Chosen is where its recursion ends.
LEMMA ChosenIsLoop ==
  ASSUME NEW E, NEW s \in Seq(E), NEW those
  PROVE  \E g : ChoosesFrom(g, s, those) /\ Chosen(s, those) = g[Len(s)]
<1> DEFINE Step(g, i) == IF i = 0 THEN <<>> ELSE IF s[i] \in those THEN Append(g[i - 1], s[i]) ELSE g[i - 1]
           Loop(g, m) == g = [i \in 0..m |-> Step(g, i)]
           Good == {m \in 0..Len(s) : \E g : Loop(g, m)}
<1>1. 0 \in Good
  <2>1. Loop([i \in 0..0 |-> <<>>], 0)
    <3>1. \A i \in 0..0 : i = 0
      OBVIOUS
    <3> QED
      BY <3>1
  <2> HIDE DEF Loop
  <2> QED
    BY <2>1
<1>2. ASSUME NEW m \in 1..Len(s), m - 1 \in Good PROVE m \in Good
  <2>1. PICK g : Loop(g, m - 1)
    BY <1>2
  <2> DEFINE h == [i \in 0..m |-> IF i = m THEN Step(g, m) ELSE g[i]]
  <2>2. ASSUME NEW i \in 0..m PROVE h[i] = Step(h, i)
    <3>1. CASE i = m
      <4>1. h[i - 1] = g[i - 1] /\ h[i] = Step(g, m)
        BY <3>1
      <4> HIDE DEF h
      <4> QED
        BY <3>1, <4>1
    <3>2. CASE i # m
      <4>1. i \in 0..(m - 1) /\ h[i] = g[i]
        BY <3>2
      <4>2. g[i] = Step(g, i)
        BY <2>1, <4>1
      <4>3. i # 0 => h[i - 1] = g[i - 1]
        BY <4>1
      <4> HIDE DEF h
      <4> QED
        BY <4>1, <4>2, <4>3
    <3> QED
      BY <3>1, <3>2
  <2>3. Loop(h, m)
    <3>1. h = [i \in 0..m |-> h[i]]
      OBVIOUS
    <3> HIDE DEF h, Step
    <3> QED
      BY <2>2, <3>1
  <2> HIDE DEF Loop, h
  <2> QED
    BY <2>3
<1>3. Len(s) \in 0..Len(s) /\ Len(s) \in Nat
  OBVIOUS
<1>4. 0..Len(s) \subseteq Good
  <2> HIDE DEF Good
  <2> QED
    BY <1>1, <1>2, <1>3, FromZeroTo
<1>5. \E g : ChoosesFrom(g, s, those)
  <2>1. Len(s) \in Good
    <3> HIDE DEF Good
    <3> QED
      BY <1>3, <1>4
  <2> QED
    BY <2>1 DEF ChoosesFrom
<1> DEFINE upTo == CHOOSE g : ChoosesFrom(g, s, those)
<1>6. ChoosesFrom(upTo, s, those)
  BY <1>5
<1>7. Chosen(s, those) = upTo[Len(s)]
  BY DEF Chosen, ChoosesFrom
<1> QED
  BY <1>6, <1>7

\* Of nothing, nothing.
LEMMA ChosenOfNone ==
  ASSUME NEW those PROVE Chosen(<<>>, those) = <<>>
<1>1. <<>> \in Seq({}) /\ Len(<<>>) = 0
  OBVIOUS
<1>2. PICK g : ChoosesFrom(g, <<>>, those) /\ Chosen(<<>>, those) = g[Len(<<>>)]
  BY <1>1, ChosenIsLoop
<1> QED
  BY <1>1, <1>2 DEF ChoosesFrom

\* One more at the end is chosen or not.
LEMMA ChosenOfMore ==
  ASSUME NEW E, NEW s \in Seq(E), NEW x \in E, NEW those
  PROVE  Chosen(Append(s, x), those) = IF x \in those THEN Append(Chosen(s, those), x) ELSE Chosen(s, those)
<1> DEFINE t == Append(s, x)
<1>1. /\ t \in Seq(E) /\ Len(t) = Len(s) + 1 /\ t[Len(s) + 1] = x /\ Len(s) \in Nat
      /\ \A i \in 1..Len(s) : t[i] = s[i]
  OBVIOUS
<1> HIDE DEF t
<1>2. PICK g : ChoosesFrom(g, s, those) /\ Chosen(s, those) = g[Len(s)]
  BY ChosenIsLoop
<1>3. PICK h : ChoosesFrom(h, t, those) /\ Chosen(t, those) = h[Len(t)]
  BY <1>1, ChosenIsLoop
<1> DEFINE Good == {i \in 0..Len(s) : g[i] = h[i]}
<1>4. 0 \in Good
  <2>1. 0 \in 0..Len(s) /\ 0 \in 0..Len(t)
    BY <1>1
  <2>2. g[0] = <<>> /\ h[0] = <<>>
    BY <1>2, <1>3, <2>1 DEF ChoosesFrom
  <2> QED
    BY <2>1, <2>2
<1>5. ASSUME NEW i \in 1..Len(s), i - 1 \in Good PROVE i \in Good
  <2>0. i \in 0..Len(s) /\ i # 0
    BY <1>1
  <2>1. g[i] = IF s[i] \in those THEN Append(g[i - 1], s[i]) ELSE g[i - 1]
    BY <1>2, <2>0 DEF ChoosesFrom
  <2>2. i \in 0..Len(t) /\ i # 0
    BY <1>1
  <2>3. h[i] = IF t[i] \in those THEN Append(h[i - 1], t[i]) ELSE h[i - 1]
    BY <1>3, <2>2 DEF ChoosesFrom
  <2>4. t[i] = s[i] /\ g[i - 1] = h[i - 1]
    BY <1>1, <1>5
  <2> QED
    BY <2>0, <2>1, <2>3, <2>4
<1>6. Len(s) \in Good
  <2>1. 0..Len(s) \subseteq Good
    <3> HIDE DEF Good
    <3> QED
      BY <1>1, <1>4, <1>5, FromZeroTo
  <2> QED
    BY <1>1, <2>1
<1>7. Len(t) \in 0..Len(t) /\ Len(t) # 0 /\ Len(t) - 1 = Len(s) /\ t[Len(t)] = x
  BY <1>1
<1>8. h[Len(t)] = IF x \in those THEN Append(h[Len(s)], x) ELSE h[Len(s)]
  BY <1>3, <1>7 DEF ChoosesFrom
<1> QED
  BY <1>2, <1>3, <1>6, <1>8 DEF t
\* A sequence that is appended to has one member more.
LEMMA ElementsOfMore ==
  ASSUME NEW E, NEW s \in Seq(E), NEW x \in E
  PROVE  /\ Append(s, x) \in Seq(E) /\ Append(s, x) # <<>>
         /\ Elements(Append(s, x)) = Elements(s) \cup {x}
         /\ DOMAIN Append(s, x) = (DOMAIN s) \cup {Len(s) + 1}
         /\ \A i \in DOMAIN s : Append(s, x)[i] = s[i]
         /\ Append(s, x)[Len(s) + 1] = x
<1> DEFINE t == Append(s, x)
<1>1. /\ t \in Seq(E) /\ t # <<>> /\ DOMAIN t = (DOMAIN s) \cup {Len(s) + 1} /\ \A i \in DOMAIN s : t[i] = s[i]
      /\ t[Len(s) + 1] = x
  <2>1. t \in Seq(E) /\ Len(t) = Len(s) + 1 /\ t[Len(s) + 1] = x /\ Len(s) \in Nat
    OBVIOUS
  <2>2. \A i \in DOMAIN s : t[i] = s[i]
    OBVIOUS
  <2>3. DOMAIN t = 1..(Len(s) + 1) /\ DOMAIN s = 1..Len(s)
    OBVIOUS
  <2>4. DOMAIN t = (DOMAIN s) \cup {Len(s) + 1}
    <3>1. \A n \in Nat : 1..(n + 1) = (1..n) \cup {n + 1}
      OBVIOUS
    <3> QED
      BY <2>1, <2>3, <3>1
  <2>5. t # <<>>
    BY <2>1
  <2> QED
    BY <2>1, <2>2, <2>4, <2>5
<1> HIDE DEF t
<1>2. Elements(t) = Elements(s) \cup {x}
  BY <1>1 DEF Elements
<1> QED
  BY <1>1, <1>2 DEF t

\* The empty sequence has no members.
LEMMA ElementsOfNone == Elements(<<>>) = {}
BY DEF Elements

\* Chosen are those of the sequence that are in the set.
LEMMA ChosenElements ==
  ASSUME NEW E, NEW s \in Seq(E), NEW those
  PROVE  Chosen(s, those) \in Seq(E) /\ Elements(Chosen(s, those)) = Elements(s) \cap those
<1> DEFINE Good == {r \in Seq(E) : Chosen(r, those) \in Seq(E) /\ Elements(Chosen(r, those)) = Elements(r) \cap those}
<1>1. <<>> \in Good
  <2>1. <<>> \in Seq(E)
    OBVIOUS
  <2>2. Chosen(<<>>, those) = <<>> /\ Elements(<<>>) = {} /\ {} = {} \cap those
    BY ChosenOfNone, ElementsOfNone
  <2>3. Chosen(<<>>, those) \in Seq(E) /\ Elements(Chosen(<<>>, those)) = Elements(<<>>) \cap those
    BY <2>1, <2>2
  <2> QED
    BY <2>1, <2>3
<1>2. ASSUME NEW r \in Seq(E), NEW x \in E, r \in Good PROVE Append(r, x) \in Good
  <2>1. Chosen(r, those) \in Seq(E) /\ Elements(Chosen(r, those)) = Elements(r) \cap those
    BY <1>2
  <2>2. Append(r, x) \in Seq(E) /\ Elements(Append(r, x)) = Elements(r) \cup {x}
    BY ElementsOfMore
  <2>3. Elements(Append(Chosen(r, those), x)) = Elements(Chosen(r, those)) \cup {x}
        /\ Append(Chosen(r, those), x) \in Seq(E)
    BY <2>1, ElementsOfMore
  <2>4. Chosen(Append(r, x), those) = IF x \in those THEN Append(Chosen(r, those), x) ELSE Chosen(r, those)
    BY ChosenOfMore
  <2> QED
    BY <2>1, <2>2, <2>3, <2>4
<1>3. Seq(E) \subseteq Good
  <2> HIDE DEF Good
  <2> QED
    BY <1>1, <1>2, OneMore
<1> QED
  BY <1>3

\* To choose twice is to choose what is in both.
LEMMA ChosenTwice ==
  ASSUME NEW E, NEW s \in Seq(E), NEW those, NEW these,
         \A x \in E : x \in these => x \in those
  PROVE  Chosen(Chosen(s, those), these) = Chosen(s, these)
<1> DEFINE Good == {r \in Seq(E) : Chosen(Chosen(r, those), these) = Chosen(r, these)}
<1>1. <<>> \in Good
  BY ChosenOfNone
<1>2. ASSUME NEW r \in Seq(E), NEW x \in E, r \in Good PROVE Append(r, x) \in Good
  <2>1. Chosen(Append(r, x), those) = IF x \in those THEN Append(Chosen(r, those), x) ELSE Chosen(r, those)
    BY ChosenOfMore
  <2>2. Chosen(Append(r, x), these) = IF x \in these THEN Append(Chosen(r, these), x) ELSE Chosen(r, these)
    BY ChosenOfMore
  <2>3. Chosen(r, those) \in Seq(E)
    BY ChosenElements
  <2>4. Chosen(Append(Chosen(r, those), x), these)
          = IF x \in these THEN Append(Chosen(Chosen(r, those), these), x) ELSE Chosen(Chosen(r, those), these)
    BY <2>3, ChosenOfMore
  <2>5. Chosen(Chosen(r, those), these) = Chosen(r, these) /\ Append(r, x) \in Seq(E)
    BY <1>2, ElementsOfMore
  <2> QED
    BY <2>1, <2>2, <2>4, <2>5
<1>3. Seq(E) \subseteq Good
  <2> HIDE DEF Good
  <2> QED
    BY <1>1, <1>2, OneMore
<1> QED
  BY <1>3

\* Of a list that names nothing twice nothing is chosen twice.
LEMMA ChosenOnce ==
  ASSUME NEW E, NEW s \in Seq(E), NEW those, IsInjective(s)
  PROVE  IsInjective(Chosen(s, those))
<1> DEFINE Good == {r \in Seq(E) : IsInjective(r) => IsInjective(Chosen(r, those))}
<1>1. <<>> \in Good
  <2>1. <<>> \in Seq(E) /\ Chosen(<<>>, those) = <<>>
    BY ChosenOfNone
  <2> QED
    BY <2>1
<1>2. ASSUME NEW r \in Seq(E), NEW x \in E PROVE IsInjective(Append(r, x)) <=> IsInjective(r) /\ x \notin Elements(r)
  <2>1. Len(r) + 1 \notin DOMAIN r
    OBVIOUS
  <2> DEFINE t == Append(r, x)
  <2>2. DOMAIN t = (DOMAIN r) \cup {Len(r) + 1} /\ t[Len(r) + 1] = x /\ \A i \in DOMAIN r : t[i] = r[i]
    BY ElementsOfMore
  <2> HIDE DEF t
  <2>3. IsInjective(t) <=> IsInjective(r) /\ x \notin Elements(r)
    BY <2>1, <2>2 DEF IsInjective, Elements
  <2> QED
    BY <2>3 DEF t
<1>3. ASSUME NEW r \in Seq(E), NEW x \in E, r \in Good PROVE Append(r, x) \in Good
  <2> SUFFICES ASSUME IsInjective(Append(r, x)) PROVE IsInjective(Chosen(Append(r, x), those))
    BY ElementsOfMore
  <2>1. IsInjective(Chosen(r, those)) /\ x \notin Elements(r)
    BY <1>2, <1>3
  <2>2. Chosen(r, those) \in Seq(E) /\ x \notin Elements(Chosen(r, those))
    BY <2>1, ChosenElements
  <2>3. IsInjective(Append(Chosen(r, those), x))
    BY <1>2, <2>1, <2>2
  <2>4. Chosen(Append(r, x), those) = IF x \in those THEN Append(Chosen(r, those), x) ELSE Chosen(r, those)
    BY ChosenOfMore
  <2> QED
    BY <2>1, <2>3, <2>4
<1>4. Seq(E) \subseteq Good
  <2> HIDE DEF Good
  <2> QED
    BY <1>1, <1>3, OneMore
<1> QED
  BY <1>4
-----------------------------------------------------------------------------
(***************************************************************************)
(* The options of a message.                                               *)
(***************************************************************************)
\* The greatest of a set of integers is the greatest.
LEMMA MaxIs ==
  ASSUME NEW S \in SUBSET Int, NEW top \in S, \A y \in S : top >= y
  PROVE  Max(S) = top
<1>1. \E x \in S : \A y \in S : x >= y
  OBVIOUS
<1>2. Max(S) \in S /\ \A y \in S : Max(S) >= y
  BY <1>1 DEF Max
<1>3. Max(S) >= top /\ top >= Max(S) /\ Max(S) \in Int /\ top \in Int
  BY <1>2
<1> QED
  BY <1>3

NamedAmong(s, names) == {i \in DOMAIN s : s[i].name \in names}
\* No option is the last of no options.
LEMMA LastOfNone == ASSUME NEW names PROVE LastOf(<<>>, names) = Flag("")
BY DEF LastOf

\* The last of some names is one of them, or there is none.
LEMMA LastIsThere ==
  ASSUME NEW s \in Seq(Options), NEW names
  PROVE  \/ NamedAmong(s, names) = {} /\ LastOf(s, names) = Flag("")
         \/ Max(NamedAmong(s, names)) \in NamedAmong(s, names) /\ LastOf(s, names) = s[Max(NamedAmong(s, names))]
<1> DEFINE Good == {r \in Seq(Options) : \/ NamedAmong(r, names) = {}
                                         \/ \E t \in NamedAmong(r, names) : \A y \in NamedAmong(r, names) : t >= y}
<1>1. <<>> \in Good
  BY DEF NamedAmong
<1>2. ASSUME NEW r \in Seq(Options), NEW x \in Options, r \in Good PROVE Append(r, x) \in Good
  <2> DEFINE t == Append(r, x)
  <2>1. /\ t \in Seq(Options) /\ DOMAIN t = (DOMAIN r) \cup {Len(r) + 1} /\ t[Len(r) + 1] = x
        /\ \A i \in DOMAIN r : t[i] = r[i]
    BY ElementsOfMore
  <2>2. DOMAIN r = 1..Len(r) /\ Len(r) \in Nat
    OBVIOUS
  <2> HIDE DEF t
  <2>3. NamedAmong(t, names) = NamedAmong(r, names) \cup (IF x.name \in names THEN {Len(r) + 1} ELSE {})
    BY <2>1 DEF NamedAmong
  <2>4. CASE x.name \in names
    <3>1. \A y \in NamedAmong(t, names) : Len(r) + 1 >= y
      <4>1. \A y \in DOMAIN r : Len(r) + 1 >= y
        BY <2>2
      <4> QED
        BY <2>2, <2>3, <2>4, <4>1 DEF NamedAmong
    <3>2. Len(r) + 1 \in NamedAmong(t, names)
      BY <2>3, <2>4
    <3> QED
      BY <2>1, <3>1, <3>2 DEF t
  <2>5. CASE x.name \notin names
    BY <1>2, <2>1, <2>3, <2>5 DEF t
  <2> QED
    BY <2>4, <2>5
<1>3. Seq(Options) \subseteq Good
  <2> HIDE DEF Good
  <2> QED
    BY <1>1, <1>2, OneMore
<1>4. CASE NamedAmong(s, names) = {}
  BY <1>4 DEF LastOf, NamedAmong
<1>5. CASE NamedAmong(s, names) # {}
  <2>1. PICK t \in NamedAmong(s, names) : \A y \in NamedAmong(s, names) : t >= y
    BY <1>3, <1>5
  <2>2. NamedAmong(s, names) \subseteq Int
    BY DEF NamedAmong
  <2>3. Max(NamedAmong(s, names)) = t
    BY <2>1, <2>2, MaxIs
  <2>4. LastOf(s, names) = s[Max(NamedAmong(s, names))]
    BY <1>5 DEF LastOf, NamedAmong
  <2> QED
    BY <2>1, <2>3, <2>4
<1> QED
  BY <1>4, <1>5

\* An option that is appended is the last of its kind, and of no other kind.
LEMMA LastOfMore ==
  ASSUME NEW s \in Seq(Options), NEW x \in Options, NEW names
  PROVE  LastOf(Append(s, x), names) = IF x.name \in names THEN x ELSE LastOf(s, names)
<1> DEFINE t == Append(s, x)
<1>1. /\ t \in Seq(Options) /\ DOMAIN t = (DOMAIN s) \cup {Len(s) + 1} /\ t[Len(s) + 1] = x
      /\ \A i \in DOMAIN s : t[i] = s[i]
  BY ElementsOfMore
<1>2. DOMAIN s = 1..Len(s) /\ Len(s) \in Nat
  OBVIOUS
<1> HIDE DEF t
<1>3. NamedAmong(t, names) = NamedAmong(s, names) \cup (IF x.name \in names THEN {Len(s) + 1} ELSE {})
  BY <1>1 DEF NamedAmong
<1>4. NamedAmong(s, names) \subseteq DOMAIN s
  BY DEF NamedAmong
<1>5. CASE x.name \in names
  <2>1. \A y \in NamedAmong(t, names) : Len(s) + 1 >= y
    <3>1. \A y \in DOMAIN s : Len(s) + 1 >= y
      BY <1>2
    <3> QED
      BY <1>2, <1>3, <1>4, <1>5, <3>1
  <2>2. Len(s) + 1 \in NamedAmong(t, names) /\ NamedAmong(t, names) \in SUBSET Int
    BY <1>2, <1>3, <1>4, <1>5
  <2>3. Max(NamedAmong(t, names)) = Len(s) + 1
    BY <2>1, <2>2, MaxIs
  <2>4. LastOf(t, names) = t[Max(NamedAmong(t, names))]
    BY <2>2 DEF LastOf, NamedAmong
  <2> QED
    BY <1>1, <1>5, <2>3, <2>4 DEF t
<1>6. CASE x.name \notin names
  <2>1. NamedAmong(t, names) = NamedAmong(s, names)
    BY <1>3, <1>6
  <2>2. CASE NamedAmong(s, names) = {}
    <3>1. LastOf(t, names) = Flag("") /\ LastOf(s, names) = Flag("")
      BY <2>1, <2>2 DEF LastOf, NamedAmong
    <3> QED
      BY <1>6, <3>1 DEF t
  <2>3. CASE NamedAmong(s, names) # {}
    <3>1. LastOf(t, names) = t[Max(NamedAmong(t, names))] /\ LastOf(s, names) = s[Max(NamedAmong(s, names))]
      BY <2>1, <2>3 DEF LastOf, NamedAmong
    <3>2. Max(NamedAmong(s, names)) \in DOMAIN s
      BY <1>4, <2>3, LastIsThere
    <3> QED
      BY <1>1, <1>6, <2>1, <3>1, <3>2 DEF t
  <2> QED
    BY <2>2, <2>3
<1> QED
  BY <1>5, <1>6
-----------------------------------------------------------------------------
(***************************************************************************)
(* What is noted behind the options there are.                             *)
(***************************************************************************)
\* An option consists of its name and its number.
LEMMA OptionIs ==
  ASSUME NEW name \in OptionNames, NEW n \in Nat
  PROVE  Option(name, n) \in Options /\ Option(name, n).name = name /\ Option(name, n).n = n
BY DEF Option, Options

\* A flag is an option whose number is 0.
LEMMA FlagIs ==
  ASSUME NEW name \in OptionNames
  PROVE  Flag(name) = Option(name, 0) /\ Flag(name) \in Options /\ Flag(name).name = name /\ Flag(name).n = 0
<1>1. 0 \in Nat
  OBVIOUS
<1>2. Flag(name) = Option(name, 0)
  BY DEF Flag
<1> QED
  BY <1>1, <1>2, OptionIs

\* The last of a kind is an option, of no name if there is none.
LEMMA LastIsOption ==
  ASSUME NEW s \in Seq(Options), NEW names
  PROVE  LastOf(s, names) \in Options
<1>1. Flag("") \in Options
  <2>1. "" \in OptionNames
    BY DEF OptionNames
  <2> QED
    BY <2>1, FlagIs
<1>2. ASSUME NEW i \in NamedAmong(s, names) PROVE s[i] \in Options
  BY <1>2 DEF NamedAmong
<1> QED
  BY <1>1, <1>2, LastIsThere

\* What is looked for among others is where it was when they are gone.
LEMMA LastOfWithout ==
  ASSUME NEW s \in Seq(Options), NEW names, NEW name, name \notin names
  PROVE  LastOf(Without(s, name), names) = LastOf(s, names)
<1> DEFINE Others == {o \in Options : o.name # name}
           Good == {r \in Seq(Options) : LastOf(Chosen(r, Others), names) = LastOf(r, names)}
<1>1. <<>> \in Good
  <2>1. <<>> \in Seq(Options) /\ Chosen(<<>>, Others) = <<>>
    BY ChosenOfNone
  <2> QED
    BY <2>1
<1>2. ASSUME NEW r \in Seq(Options), NEW x \in Options, r \in Good PROVE Append(r, x) \in Good
  <2>1. Chosen(r, Others) \in Seq(Options)
    BY ChosenElements
  <2>2. Chosen(Append(r, x), Others) = IF x \in Others THEN Append(Chosen(r, Others), x) ELSE Chosen(r, Others)
    BY ChosenOfMore
  <2>3. LastOf(Append(r, x), names) = IF x.name \in names THEN x ELSE LastOf(r, names)
    BY LastOfMore
  <2>4. LastOf(Append(Chosen(r, Others), x), names) = IF x.name \in names THEN x ELSE LastOf(Chosen(r, Others), names)
    BY <2>1, LastOfMore
  <2>5. x \notin Others => x.name \notin names
    OBVIOUS
  <2>6. Append(r, x) \in Seq(Options) /\ LastOf(Chosen(r, Others), names) = LastOf(r, names)
    BY <1>2, ElementsOfMore
  <2> HIDE DEF Others
  <2> QED
    BY <2>2, <2>3, <2>4, <2>5, <2>6
<1>3. Seq(Options) \subseteq Good
  <2> HIDE DEF Good
  <2> QED
    BY <1>1, <1>2, OneMore
<1> QED
  BY <1>3 DEF Without

Noting(args, name, n) == Append(Without(args, name), Option(name, n))
\* What is noted is the last of its kind, and of every other kind the last is what it was.
LEMMA NotingIsLast ==
  ASSUME NEW s \in Seq(Options), NEW name \in OptionNames, NEW n \in Nat
  PROVE  /\ Noting(s, name, n) \in Seq(Options) /\ Noting(s, name, n) # <<>>
         /\ \A names : name \in names => LastOf(Noting(s, name, n), names) = Option(name, n)
         /\ \A names : name \notin names => LastOf(Noting(s, name, n), names) = LastOf(s, names)
<1>1. Without(s, name) \in Seq(Options)
  BY ChosenElements DEF Without
<1>2. Option(name, n) \in Options /\ Option(name, n).name = name
  BY OptionIs
<1>3. Noting(s, name, n) \in Seq(Options) /\ Noting(s, name, n) # <<>>
  BY <1>1, <1>2, ElementsOfMore DEF Noting
<1>4. ASSUME NEW names
      PROVE  /\ name \in names => LastOf(Noting(s, name, n), names) = Option(name, n)
             /\ name \notin names => LastOf(Noting(s, name, n), names) = LastOf(s, names)
  <2>1. LastOf(Noting(s, name, n), names) = IF name \in names THEN Option(name, n) ELSE LastOf(Without(s, name), names)
    BY <1>1, <1>2, LastOfMore DEF Noting
  <2>2. name \notin names => LastOf(Without(s, name), names) = LastOf(s, names)
    BY LastOfWithout
  <2> QED
    BY <2>1, <2>2
<1> QED
  BY <1>3, <1>4

\* The options of another name are the same, in their order.
LEMMA NotingKeeps ==
  ASSUME NEW s \in Seq(Options), NEW name \in OptionNames, NEW n \in Nat, NEW other, other # name
  PROVE  OptionsOf(Noting(s, name, n), other) = OptionsOf(s, other)
<1> DEFINE Others == {o \in Options : o.name # name}
           These == {o \in Options : o.name = other}
<1>1. Without(s, name) \in Seq(Options) /\ Without(s, name) = Chosen(s, Others)
  BY ChosenElements DEF Without
<1>2. Chosen(Append(Without(s, name), Option(name, n)), These) = Chosen(Without(s, name), These)
  <2>1. Option(name, n) \in Options /\ Option(name, n) \notin These
    BY OptionIs
  <2> HIDE DEF These
  <2> QED
    BY <1>1, <2>1, ChosenOfMore
<1>3. \A x \in Options : x \in These => x \in Others
  OBVIOUS
<1>4. Chosen(Chosen(s, Others), These) = Chosen(s, These)
  <2> HIDE DEF Others, These
  <2> QED
    BY <1>3, ChosenTwice
<1> QED
  BY <1>1, <1>2, <1>4 DEF OptionsOf, Noting

\* CheckUpdateMode asks whether an option is there, wherever it is.
LEMMA ChecksElements ==
  ASSUME NEW s, NEW name
  PROVE  CheckUpdateMode(s, name) <=> \E o \in Elements(s) : o.name = name
BY DEF CheckUpdateMode, Elements

\* After a note there are the options there were, and the one noted.
LEMMA NotingChecks ==
  ASSUME NEW s \in Seq(Options), NEW name \in OptionNames, NEW n \in Nat, NEW other
  PROVE  CheckUpdateMode(Noting(s, name, n), other) <=> other = name \/ CheckUpdateMode(s, other)
<1>1. Without(s, name) \in Seq(Options) /\ Elements(Without(s, name)) = Elements(s) \cap {o \in Options : o.name # name}
  BY ChosenElements DEF Without
<1>2. Elements(Noting(s, name, n)) = Elements(Without(s, name)) \cup {Option(name, n)}
  BY <1>1, OptionIs, ElementsOfMore DEF Noting
<1>3. Elements(s) \subseteq Options
  BY DEF Elements
<1> QED
  BY <1>1, <1>2, <1>3, OptionIs, ChecksElements

\* A message of a single option.
LEMMA OfOne ==
  ASSUME NEW name \in OptionNames, NEW n \in Nat
  PROVE  /\ <<Option(name, n)>> \in Seq(Options) /\ <<Option(name, n)>> # <<>>
         /\ \A names : name \in names => LastOf(<<Option(name, n)>>, names) = Option(name, n)
         /\ \A names : name \notin names => LastOf(<<Option(name, n)>>, names) = Flag("")
         /\ \A other : CheckUpdateMode(<<Option(name, n)>>, other) <=> other = name
         /\ \A other : other # name => OptionsOf(<<Option(name, n)>>, other) = <<>>
         /\ Without(<<Option(name, n)>>, name) = <<>>
<1> DEFINE o == Option(name, n)
<1>1. o \in Options /\ o.name = name
  BY OptionIs
<1> HIDE DEF o
<1>2. <<o>> = Append(<<>>, o) /\ <<>> \in Seq(Options) /\ <<o>> \in Seq(Options) /\ <<o>> # <<>>
  BY <1>1
<1>3. ASSUME NEW names
      PROVE  (name \in names => LastOf(<<o>>, names) = o) /\ (name \notin names => LastOf(<<o>>, names) = Flag(""))
  <2>1. LastOf(Append(<<>>, o), names) = IF o.name \in names THEN o ELSE LastOf(<<>>, names)
    BY <1>1, <1>2, LastOfMore
  <2>2. LastOf(<<>>, names) = Flag("")
    BY LastOfNone
  <2> QED
    BY <1>1, <1>2, <2>1, <2>2
<1>4. ASSUME NEW other PROVE CheckUpdateMode(<<o>>, other) <=> other = name
  BY <1>1 DEF CheckUpdateMode
<1>5. ASSUME NEW those, o \notin those PROVE Chosen(<<o>>, those) = <<>>
  <2>1. Chosen(Append(<<>>, o), those) = IF o \in those THEN Append(Chosen(<<>>, those), o) ELSE Chosen(<<>>, those)
    BY <1>1, <1>2, ChosenOfMore
  <2>2. Chosen(<<>>, those) = <<>>
    BY ChosenOfNone
  <2> QED
    BY <1>2, <1>5, <2>1, <2>2
<1>6. \A other : other # name => OptionsOf(<<o>>, other) = <<>>
  BY <1>1, <1>5 DEF OptionsOf
<1>7. Without(<<o>>, name) = <<>>
  BY <1>1, <1>5 DEF Without
<1> QED
  BY <1>2, <1>3, <1>4, <1>6, <1>7 DEF o

\* What StartUpdater reads where there are no options.
LEMMA OfNone ==
  /\ <<>> \in Seq(Options)
  /\ \A names : LastOf(<<>>, names) = Flag("")
  /\ \A other : ~CheckUpdateMode(<<>>, other) /\ OptionsOf(<<>>, other) = <<>>
<1>1. \A other : OptionsOf(<<>>, other) = <<>>
  BY ChosenOfNone DEF OptionsOf
<1>2. \A other : ~CheckUpdateMode(<<>>, other)
  BY DEF CheckUpdateMode
<1>3. <<>> \in Seq(Options)
  OBVIOUS
<1> QED
  BY <1>1, <1>2, <1>3, LastOfNone
-----------------------------------------------------------------------------
(***************************************************************************)
(* What a client asks with.                                                *)
(***************************************************************************)
Resets == Wipes \cup Erasures
NotedIn(args) == LastOf(args, Erasures).n
CountIn(args) == LastOf(args, {"upgraded_pkg_num"}).n
RetryIn(args) == LastOf(args, {"retry_count"}).n
ModeIn(args) == LastOf(args, UpdateModes).name
CardIn(args) == LastOf(args, CardModes).name
OnACard(args) == ModeIn(args) \notin {"", "subpkg_update"}
HotaIn(args) == \E o \in {"update_bin", "update_package", "subpkg_update"} : CheckUpdateMode(args, o)

\* Which names are of which kind: no kind of the ones that are told apart has one of
\* another.
LEMMA NamesAre ==
  /\ Resets \subseteq OptionNames \ {""} /\ UpdateModes \subseteq OptionNames \ {""} /\ CardModes \subseteq UpdateModes
  /\ {"", "update_bin", "update_package", "subpkg_update", "retry_count", "upgraded_pkg_num", "sdcard_update",
      "factory_reset_ota", "user_wipe_data", "UPDATE:SDFROMDEV"} \subseteq OptionNames
  /\ {"update_bin", "update_package", "subpkg_update", "retry_count", "upgraded_pkg_num", "sdcard_update",
      "factory_reset_ota", "UPDATE:SDFROMDEV"} \cap Resets = {}
  /\ {"update_bin", "update_package", "retry_count", "upgraded_pkg_num", "factory_reset_ota"} \cap UpdateModes = {}
  /\ Resets \cap UpdateModes = {} /\ {"sdcard_update", "UPDATE:SDFROMDEV"} \subseteq CardModes /\ "subpkg_update" \in UpdateModes \ CardModes
  /\ "user_wipe_data" \in Resets \ Erasures /\ Erasures \subseteq Resets
<1>1. Resets \subseteq OptionNames \ {""} /\ UpdateModes \subseteq OptionNames \ {""} /\ CardModes \subseteq UpdateModes
  BY DEF Resets, Wipes, Erasures, UpdateModes, CardModes, OptionNames
<1>2. {"", "update_bin", "update_package", "subpkg_update", "retry_count", "upgraded_pkg_num", "sdcard_update",
       "factory_reset_ota", "user_wipe_data", "UPDATE:SDFROMDEV"} \subseteq OptionNames
  BY DEF OptionNames
<1>3. {"update_bin", "update_package", "subpkg_update", "retry_count", "upgraded_pkg_num", "sdcard_update",
       "factory_reset_ota", "UPDATE:SDFROMDEV"} \cap Resets = {}
  BY DEF Resets, Wipes, Erasures
<1>4. {"update_bin", "update_package", "retry_count", "upgraded_pkg_num", "factory_reset_ota"} \cap UpdateModes = {}
  BY DEF UpdateModes, CardModes
<1>5. Resets \cap UpdateModes = {} /\ {"sdcard_update", "UPDATE:SDFROMDEV"} \subseteq CardModes /\ "subpkg_update" \in UpdateModes \ CardModes
  BY DEF Resets, Wipes, Erasures, UpdateModes, CardModes
<1>6. "user_wipe_data" \in Resets \ Erasures /\ Erasures \subseteq Resets
  BY DEF Resets, Wipes, Erasures
<1> QED
  BY <1>1, <1>2, <1>3, <1>4, <1>5, <1>6

\* A sequence without members is the empty one.
LEMMA NothingInIt ==
  ASSUME NEW E, NEW s \in Seq(E)
  PROVE  Elements(s) = {} <=> s = <<>>
<1>1. s # <<>> => 1 \in DOMAIN s
  OBVIOUS
<1>2. s # <<>> => s[1] \in Elements(s)
  BY <1>1 DEF Elements
<1> QED
  BY <1>2, ElementsOfNone

\* What is chosen where no more than one can be.
LEMMA ChosenSingle ==
  ASSUME NEW E, NEW s \in Seq(E), NEW those,
         \A i, j \in DOMAIN s : s[i] \in those /\ s[j] \in those => i = j
  PROVE  Len(Chosen(s, those)) <= 1
<1> DEFINE Once(r) == \A i, j \in DOMAIN r : r[i] \in those /\ r[j] \in those => i = j
           Good == {r \in Seq(E) : Once(r) => Len(Chosen(r, those)) <= 1}
<1>1. <<>> \in Good
  <2>1. <<>> \in Seq(E) /\ Chosen(<<>>, those) = <<>> /\ Len(<<>>) <= 1
    BY ChosenOfNone
  <2> QED
    BY <2>1
<1>2. ASSUME NEW r \in Seq(E), NEW x \in E, r \in Good PROVE Append(r, x) \in Good
  <2> DEFINE t == Append(r, x)
  <2>1. /\ t \in Seq(E) /\ DOMAIN t = (DOMAIN r) \cup {Len(r) + 1} /\ t[Len(r) + 1] = x
        /\ \A i \in DOMAIN r : t[i] = r[i]
    BY ElementsOfMore
  <2>2. Len(r) + 1 \notin DOMAIN r
    OBVIOUS
  <2>3. Chosen(t, those) = IF x \in those THEN Append(Chosen(r, those), x) ELSE Chosen(r, those)
    BY ChosenOfMore
  <2>4. Chosen(r, those) \in Seq(E) /\ Elements(Chosen(r, those)) = Elements(r) \cap those
    BY ChosenElements
  <2> HIDE DEF t
  <2>5. ASSUME Once(t) PROVE Len(Chosen(t, those)) <= 1
    <3>1. Once(r)
      BY <2>1, <2>5
    <3>2. CASE x \in those
      <4>1. \A i \in DOMAIN r : r[i] \notin those
        BY <2>1, <2>2, <2>5, <3>2
      <4>2. Elements(Chosen(r, those)) = {}
        BY <2>4, <4>1 DEF Elements
      <4>3. Chosen(r, those) = <<>>
        BY <2>4, <4>2, NothingInIt
      <4>4. Len(Append(<<>>, x)) = 1
        OBVIOUS
      <4> QED
        BY <2>3, <3>2, <4>3, <4>4
    <3>3. CASE x \notin those
      BY <1>2, <2>3, <3>1, <3>3
    <3> QED
      BY <3>2, <3>3
  <2> HIDE DEF Once
  <2> QED
    BY <2>1, <2>5 DEF t
<1>3. Seq(E) \subseteq Good
  <2> HIDE DEF Good
  <2> QED
    BY <1>1, <1>2, OneMore
<1> QED
  BY <1>3

\* The options of a name are those of that name, and there are some if one is there.
LEMMA OptionsOfAre ==
  ASSUME NEW s \in Seq(Options), NEW name
  PROVE  /\ OptionsOf(s, name) \in Seq(Options)
         /\ Elements(OptionsOf(s, name)) = {o \in Elements(s) : o.name = name}
         /\ OptionsOf(s, name) # <<>> <=> CheckUpdateMode(s, name)
<1> DEFINE These == {o \in Options : o.name = name}
<1>1. OptionsOf(s, name) \in Seq(Options) /\ Elements(OptionsOf(s, name)) = Elements(s) \cap These
  BY ChosenElements DEF OptionsOf
<1>2. Elements(s) \subseteq Options
  BY DEF Elements
<1>3. Elements(OptionsOf(s, name)) = {o \in Elements(s) : o.name = name}
  BY <1>1, <1>2
<1>4. OptionsOf(s, name) # <<>> <=> Elements(OptionsOf(s, name)) # {}
  BY <1>1, NothingInIt
<1> QED
  BY <1>1, <1>3, <1>4, ChecksElements

\* The last of some names has a name exactly if one of them is there.
LEMMA LastIsNamed ==
  ASSUME NEW s \in Seq(Options), NEW names, "" \notin names
  PROVE  /\ LastOf(s, names).name # "" => LastOf(s, names).name \in names
         /\ LastOf(s, names).name # "" <=> \E i \in DOMAIN s : s[i].name \in names
         /\ LastOf(s, names).name # "" => \E i \in DOMAIN s : LastOf(s, names) = s[i]
         /\ LastOf(s, names).name = "" => LastOf(s, names) = Flag("") /\ LastOf(s, names).n = 0
<1>1. Flag("").name = "" /\ Flag("").n = 0
  BY NamesAre, FlagIs
<1>2. NamedAmong(s, names) = {} <=> ~\E i \in DOMAIN s : s[i].name \in names
  BY DEF NamedAmong
<1>3. \A i \in NamedAmong(s, names) : i \in DOMAIN s /\ s[i].name \in names
  BY DEF NamedAmong
<1> QED
  BY <1>1, <1>2, <1>3, LastIsThere

\* To ask for nothing is a request.
LEMMA NoneIsAsked == IsRequest(<<>>)
<1>1. LastOf(<<>>, Wipes \cup Erasures).name = ""
  BY OfNone, NamesAre, FlagIs
<1>2. ~AsksReset(<<>>)
  BY <1>1 DEF AsksReset
<1>3. <<>> \in Seq(Options) /\ DOMAIN <<>> = {}
  OBVIOUS
<1>4. ~CheckUpdateMode(<<>>, "update_bin") /\ ~CheckUpdateMode(<<>>, "factory_reset_ota")
  BY OfNone
<1> QED
  BY <1>2, <1>3, <1>4 DEF IsRequest

\* What the assumption on requests gives: what a client asks for has no note in it, and
\* one mode at most.
LEMMA RequestIs ==
  ASSUME NEW r, IsRequest(r)
  PROVE  /\ r \in Seq(Options)
         /\ AsksReset(r) => \E x \in Resets : r = <<Option(x, 0)>>
         /\ CountIn(r) = 0 /\ RetryIn(r) = 0 /\ NotedIn(r) = 0
         /\ CardIn(r) # "" => ModeIn(r) = CardIn(r)
         /\ CheckUpdateMode(r, "update_bin") =>
              /\ OptionsOf(r, "update_package") = <<>> /\ Len(OptionsOf(r, "update_bin")) <= 1
              /\ ModeIn(r) = "" /\ CardIn(r) = ""
<1>1. r \in Seq(Options)
  BY DEF IsRequest
<1>2. ASSUME AsksReset(r) PROVE \E x \in Resets : r = <<Option(x, 0)>>
  BY <1>2, FlagIs, NamesAre DEF IsRequest, Resets
<1>3. CountIn(r) = 0 /\ RetryIn(r) = 0
  <2>1. /\ "" \notin {"retry_count"} /\ "" \notin {"upgraded_pkg_num"}
        /\ \A i \in DOMAIN r : r[i].name \notin {"retry_count"} /\ r[i].name \notin {"upgraded_pkg_num"}
    BY DEF IsRequest
  <2> QED
    BY <1>1, <2>1, LastIsNamed DEF CountIn, RetryIn
<1>4. NotedIn(r) = 0
  <2>1. CASE AsksReset(r)
    <3>1. PICK x \in Resets : r = <<Option(x, 0)>>
      BY <1>2, <2>1
    <3>2. LastOf(r, Erasures) = IF x \in Erasures THEN Option(x, 0) ELSE Flag("")
      BY <3>1, OfOne, NamesAre
    <3>3. x \in OptionNames /\ "" \in OptionNames /\ 0 \in Nat
      BY NamesAre
    <3>4. Option(x, 0).n = 0 /\ Flag("").n = 0
      BY <3>3, OptionIs, FlagIs
    <3> QED
      BY <3>2, <3>4 DEF NotedIn
  <2>2. CASE ~AsksReset(r)
    <3>1. "" \notin Resets /\ "" \notin Erasures /\ Erasures \subseteq Resets
      BY NamesAre
    <3>2. \A i \in DOMAIN r : r[i].name \notin Resets
      BY <1>1, <2>2, <3>1, LastIsNamed DEF AsksReset, Resets
    <3> QED
      BY <1>1, <3>1, <3>2, LastIsNamed DEF NotedIn
  <2> QED
    BY <2>1, <2>2
<1>5. "" \notin UpdateModes /\ "" \notin CardModes /\ CardModes \subseteq UpdateModes
  BY NamesAre
<1>6. ASSUME CardIn(r) # "" PROVE ModeIn(r) = CardIn(r)
  <2>1. PICK i \in DOMAIN r : LastOf(r, CardModes) = r[i] /\ r[i].name \in CardModes
    BY <1>1, <1>5, <1>6, LastIsNamed DEF CardIn
  <2>2. PICK j \in DOMAIN r : LastOf(r, UpdateModes) = r[j] /\ r[j].name \in UpdateModes
    BY <1>1, <1>5, <2>1, LastIsNamed
  <2>3. i = j
    BY <1>5, <2>1, <2>2 DEF IsRequest
  <2> QED
    BY <2>1, <2>2, <2>3 DEF CardIn, ModeIn
<1>7. ASSUME CheckUpdateMode(r, "update_bin")
      PROVE  /\ OptionsOf(r, "update_package") = <<>> /\ Len(OptionsOf(r, "update_bin")) <= 1
             /\ ModeIn(r) = "" /\ CardIn(r) = ""
  <2>1. \A i \in DOMAIN r : r[i].name \notin UpdateModes \cup {"update_package"}
                            /\ (r[i].name = "update_bin" => \A j \in DOMAIN r : r[j].name = "update_bin" => i = j)
    BY <1>7 DEF IsRequest, AskedAlone
  <2>2. ModeIn(r) = "" /\ CardIn(r) = ""
    BY <1>1, <1>5, <2>1, LastIsNamed DEF ModeIn, CardIn
  <2>3. OptionsOf(r, "update_package") = <<>>
    BY <1>1, <2>1, OptionsOfAre DEF CheckUpdateMode
  <2>4. Len(Chosen(r, {o \in Options : o.name = "update_bin"})) <= 1
    <3> DEFINE These == {o \in Options : o.name = "update_bin"}
    <3>1. \A i, j \in DOMAIN r : r[i] \in These /\ r[j] \in These => i = j
      BY <2>1
    <3> HIDE DEF These
    <3>2. Len(Chosen(r, These)) <= 1
      BY <1>1, <3>1, ChosenSingle
    <3> QED
      BY <3>2 DEF These
  <2> QED
    BY <2>2, <2>3, <2>4 DEF OptionsOf
<1> QED
  BY <1>1, <1>2, <1>3, <1>4, <1>6, <1>7
-----------------------------------------------------------------------------
(***************************************************************************)
(* What the message keeps of what was asked for.                           *)
(***************************************************************************)
FilesIn(args, card) ==
  IF OptionsOf(args, "update_bin") # <<>> THEN OptionsOf(args, "update_bin")
  ELSE IF OptionsOf(args, "update_package") # <<>> THEN OptionsOf(args, "update_package")
  ELSE IF OnACard(args) THEN card ELSE <<>>
InstallNames == {"update_package", "update_bin", "subpkg_update", "factory_reset_ota"}
\* Of two messages: the same is to be installed, and a wipe is to follow or not.
SameFiles(args, r) ==
  /\ OptionsOf(args, "update_package") = OptionsOf(r, "update_package")
  /\ OptionsOf(args, "update_bin") = OptionsOf(r, "update_bin")
  /\ \A o \in InstallNames : CheckUpdateMode(args, o) <=> CheckUpdateMode(r, o)
SameModes(args, r) ==
  /\ ModeIn(args) = ModeIn(r) /\ CardIn(args) = CardIn(r) /\ (OnACard(args) <=> OnACard(r))
  /\ CheckUpdateMode(args, "sdcard_update") <=> CheckUpdateMode(r, "sdcard_update")
CardNoted(args) ==
  /\ ModeIn(args) = "sdcard_update" /\ CardIn(args) = "sdcard_update"
  /\ CheckUpdateMode(args, "sdcard_update") /\ OnACard(args)
Keeps(args, r) ==
  IF AsksReset(r) THEN \E x \in Resets, n \in Nat : r = <<Option(x, 0)>> /\ args = <<Option(x, n)>>
  ELSE /\ ~AsksReset(args)
       /\ SameFiles(args, r)
       /\ ModeIn(args) = ModeIn(r) \/ (OnACard(r) /\ ModeIn(args) = "sdcard_update")
       /\ CardIn(args) = CardIn(r) \/ CheckUpdateMode(args, "sdcard_update")
\* What a wipe that follows a failed update, or one from the device, is asked for with.
WipeAsked == <<Flag("user_wipe_data")>>

\* What StartUpdater reads where a reset stands alone.
LEMMA OneReset ==
  ASSUME NEW x \in Resets, NEW n \in Nat, NEW args, args = <<Option(x, n)>>
  PROVE  /\ args \in Seq(Options) /\ args # <<>> /\ AsksReset(args) /\ LastOf(args, Resets).name = x
         /\ NotedIn(args) = (IF x \in Erasures THEN n ELSE 0)
         /\ OptionsOf(args, "update_bin") = <<>> /\ OptionsOf(args, "update_package") = <<>>
         /\ ModeIn(args) = "" /\ CardIn(args) = "" /\ ~OnACard(args) /\ ~HotaIn(args) /\ ~CheckUpdateMode(args, "factory_reset_ota")
         /\ CountIn(args) = 0 /\ RetryIn(args) = 0 /\ FilesIn(args, kit.card) = <<>>
<1>1. x \in OptionNames /\ x # "" /\ 0 \in Nat /\ "" \in OptionNames
  BY NamesAre
<1>2. Option(x, n).name = x /\ Option(x, n).n = n /\ Flag("").name = "" /\ Flag("").n = 0
  BY <1>1, OptionIs, FlagIs
<1>3. /\ args \in Seq(Options) /\ args # <<>>
      /\ \A names : x \in names => LastOf(args, names) = Option(x, n)
      /\ \A names : x \notin names => LastOf(args, names) = Flag("")
      /\ \A other : CheckUpdateMode(args, other) <=> other = x
      /\ \A other : other # x => OptionsOf(args, other) = <<>>
  BY <1>1, OfOne
<1>4. LastOf(args, Resets).name = x /\ AsksReset(args)
  <2>1. LastOf(args, Resets) = Option(x, n)
    BY <1>3
  <2> QED
    BY <1>1, <1>2, <2>1 DEF AsksReset, Resets
<1>5. NotedIn(args) = (IF x \in Erasures THEN n ELSE 0)
  BY <1>2, <1>3 DEF NotedIn
<1>6. x \notin UpdateModes /\ x \notin CardModes /\ x \notin {"upgraded_pkg_num"} /\ x \notin {"retry_count"}
      /\ x \notin {"update_bin", "update_package", "subpkg_update", "factory_reset_ota"}
  BY NamesAre
<1>7. ModeIn(args) = "" /\ CardIn(args) = "" /\ CountIn(args) = 0 /\ RetryIn(args) = 0
  BY <1>2, <1>3, <1>6 DEF ModeIn, CardIn, CountIn, RetryIn
<1>8. ~OnACard(args) /\ ~HotaIn(args) /\ ~CheckUpdateMode(args, "factory_reset_ota")
  BY <1>3, <1>6, <1>7 DEF OnACard, HotaIn
<1>9. OptionsOf(args, "update_bin") = <<>> /\ OptionsOf(args, "update_package") = <<>>
  BY <1>3, <1>6
<1>10. FilesIn(args, kit.card) = <<>>
  BY <1>8, <1>9 DEF FilesIn
<1> QED
  BY <1>3, <1>4, <1>5, <1>7, <1>8, <1>9, <1>10

\* A note of a reset that stands alone leaves it alone.
LEMMA NotingReset ==
  ASSUME NEW x \in Resets, NEW n \in Nat, NEW k \in Nat
  PROVE  Noting(<<Option(x, n)>>, x, k) = <<Option(x, k)>>
<1>1. x \in OptionNames
  BY NamesAre
<1>2. Without(<<Option(x, n)>>, x) = <<>>
  BY <1>1, OfOne
<1>3. Append(<<>>, Option(x, k)) = <<Option(x, k)>>
  OBVIOUS
<1> QED
  BY <1>2, <1>3 DEF Noting

\* The wipe that follows something else is a reset, and no erasure.
LEMMA WipeIsReset ==
  WipeAsked = <<Option("user_wipe_data", 0)>> /\ "user_wipe_data" \in Resets \ Erasures /\ 0 \in Nat
BY NamesAre, FlagIs DEF WipeAsked

OwnNotes == {"retry_count", "upgraded_pkg_num", "sdcard_update"}
\* What the updater notes for itself says nothing of what is asked for.
LEMMA NotingOther ==
  ASSUME NEW args \in Seq(Options), NEW n \in Nat,
         NEW name \in OwnNotes, NEW new, new = Noting(args, name, n)
  PROVE  /\ new \in Seq(Options) /\ new # <<>> /\ LastOf(new, Resets) = LastOf(args, Resets) /\ NotedIn(new) = NotedIn(args)
         /\ AsksReset(new) <=> AsksReset(args)
         /\ SameFiles(new, args)
         /\ HotaIn(new) <=> HotaIn(args)
         /\ CheckUpdateMode(args, "sdcard_update") => CheckUpdateMode(new, "sdcard_update")
         /\ name = "sdcard_update" => CardNoted(new)
         /\ name # "sdcard_update" => SameModes(new, args)
         /\ name = "upgraded_pkg_num" => CountIn(new) = n
         /\ name # "upgraded_pkg_num" => CountIn(new) = CountIn(args)
         /\ name = "retry_count" => RetryIn(new) = n
         /\ name # "retry_count" => RetryIn(new) = RetryIn(args)
         /\ (OnACard(args) <=> OnACard(new)) => FilesIn(new, kit.card) = FilesIn(args, kit.card)
<1>1. name \in OptionNames /\ name \notin Resets /\ name \notin Erasures
  BY NamesAre DEF OwnNotes
<1>2. /\ new \in Seq(Options) /\ new # <<>>
      /\ \A names : name \in names => LastOf(new, names) = Option(name, n)
      /\ \A names : name \notin names => LastOf(new, names) = LastOf(args, names)
  <2>1. Noting(args, name, n) \in Seq(Options) /\ Noting(args, name, n) # <<>>
    BY <1>1, NotingIsLast
  <2>2. ASSUME NEW names
        PROVE  /\ name \in names => LastOf(Noting(args, name, n), names) = Option(name, n)
               /\ name \notin names => LastOf(Noting(args, name, n), names) = LastOf(args, names)
    <3>1. name \in OptionNames
      BY <1>1
    <3>2. name \in names => LastOf(Noting(args, name, n), names) = Option(name, n)
      BY <3>1, NotingIsLast
    <3>3. name \notin names => LastOf(Noting(args, name, n), names) = LastOf(args, names)
      BY <3>1, NotingIsLast
    <3> QED
      BY <3>2, <3>3
  <2> QED
    BY <2>1, <2>2
<1>3. \A other : CheckUpdateMode(new, other) <=> other = name \/ CheckUpdateMode(args, other)
  BY <1>1, NotingChecks
<1>4. \A other : other # name => OptionsOf(new, other) = OptionsOf(args, other)
  BY <1>1, NotingKeeps
<1>5. Option(name, n).name = name /\ Option(name, n).n = n
  BY <1>1, OptionIs
<1>6. LastOf(new, Resets) = LastOf(args, Resets) /\ NotedIn(new) = NotedIn(args) /\ (AsksReset(new) <=> AsksReset(args))
  BY <1>1, <1>2 DEF NotedIn, AsksReset, Resets
<1>7. OptionsOf(new, "update_package") = OptionsOf(args, "update_package") /\ OptionsOf(new, "update_bin") = OptionsOf(args, "update_bin")
  BY <1>4 DEF OwnNotes
<1>8. SameFiles(new, args)
  <2>1. \A o \in InstallNames : CheckUpdateMode(new, o) <=> CheckUpdateMode(args, o)
    BY <1>3 DEF InstallNames, OwnNotes
  <2> QED
    BY <1>7, <2>1 DEF SameFiles
<1>9. HotaIn(new) <=> HotaIn(args)
  BY <1>3 DEF HotaIn, OwnNotes
<1>10. /\ name = "upgraded_pkg_num" => CountIn(new) = n
       /\ name # "upgraded_pkg_num" => CountIn(new) = CountIn(args)
       /\ name = "retry_count" => RetryIn(new) = n
       /\ name # "retry_count" => RetryIn(new) = RetryIn(args)
  BY <1>2, <1>5 DEF CountIn, RetryIn
<1>11. CASE name = "sdcard_update"
  <2>1. name \in UpdateModes /\ name \in CardModes
    BY <1>11, NamesAre
  <2>2. ModeIn(new) = name /\ CardIn(new) = name /\ CheckUpdateMode(new, name)
    BY <1>2, <1>3, <1>5, <2>1 DEF ModeIn, CardIn
  <2>3. OnACard(new)
    BY <1>11, <2>2 DEF OnACard
  <2>4. CardNoted(new)
    BY <1>11, <2>2, <2>3 DEF CardNoted
  <2> QED
    BY <1>2, <1>3, <1>6, <1>7, <1>8, <1>9, <1>10, <1>11, <2>4 DEF FilesIn
<1>12. CASE name # "sdcard_update"
  <2>1. name \notin UpdateModes /\ name \notin CardModes
    BY <1>12, NamesAre DEF OwnNotes
  <2>2. ModeIn(new) = ModeIn(args) /\ CardIn(new) = CardIn(args)
    BY <1>2, <2>1 DEF ModeIn, CardIn
  <2>3. OnACard(new) <=> OnACard(args)
    BY <2>2 DEF OnACard
  <2>4. SameModes(new, args)
    BY <1>3, <1>12, <2>2, <2>3 DEF SameModes
  <2> QED
    BY <1>2, <1>3, <1>6, <1>7, <1>8, <1>9, <1>10, <1>12, <2>4 DEF FilesIn
<1> QED
  BY <1>11, <1>12

\* A message keeps itself.
LEMMA KeepsItself ==
  ASSUME NEW r, IsRequest(r)
  PROVE  Keeps(r, r)
BY RequestIs DEF Keeps, SameFiles

\* A note of the updater's own keeps what was asked for.
LEMMA KeepsNoting ==
  ASSUME NEW r, NEW args \in Seq(Options), NEW n \in Nat, NEW name \in OwnNotes,
         Keeps(args, r), ~AsksReset(args), name = "sdcard_update" => OnACard(args)
  PROVE  Keeps(Noting(args, name, n), r)
<1>0. PICK new : new = Noting(args, name, n)
  OBVIOUS
<1>1. ~AsksReset(r)
  <2>1. ASSUME AsksReset(r) PROVE FALSE
    <3>1. PICK x \in Resets, k \in Nat : args = <<Option(x, k)>>
      BY <2>1 DEF Keeps
    <3>2. AsksReset(args)
      BY <3>1, OneReset
    <3> QED
      BY <3>2
  <2> QED
    BY <2>1
<1>2. /\ ~AsksReset(new) /\ SameFiles(new, args)
      /\ CheckUpdateMode(args, "sdcard_update") => CheckUpdateMode(new, "sdcard_update")
  BY <1>0, NotingOther
<1>3. (name = "sdcard_update" => CardNoted(new)) /\ (name # "sdcard_update" => SameModes(new, args))
  BY <1>0, NotingOther
<1>4. /\ SameFiles(args, r)
      /\ ModeIn(args) = ModeIn(r) \/ (OnACard(r) /\ ModeIn(args) = "sdcard_update")
      /\ CardIn(args) = CardIn(r) \/ CheckUpdateMode(args, "sdcard_update")
  BY <1>1 DEF Keeps
<1>5. name = "sdcard_update" => OnACard(r)
  BY <1>4 DEF OnACard
<1>6. ModeIn(new) = ModeIn(r) \/ (OnACard(r) /\ ModeIn(new) = "sdcard_update")
  BY <1>3, <1>4, <1>5 DEF CardNoted, SameModes
<1>7. CardIn(new) = CardIn(r) \/ CheckUpdateMode(new, "sdcard_update")
  BY <1>2, <1>3, <1>4 DEF CardNoted, SameModes
<1>8. SameFiles(new, r)
  BY <1>2, <1>4 DEF SameFiles
<1> QED
  BY <1>0, <1>1, <1>2, <1>6, <1>7, <1>8 DEF Keeps
-----------------------------------------------------------------------------
(***************************************************************************)
(* Which steps change what.                                                *)
(***************************************************************************)
\* The steps of a wiping that leave misc alone, and those of the modes.
WipingSteps ==
  \/ FactoryResetPre \/ NothingToOverwrite \/ SkipPartition \/ OverWriteChunk \/ OverWriteFails
  \/ SyncPartition \/ AllOverwritten \/ Format \/ FormatFails \/ FactoryResetPost
NotingSteps == UpdaterFromSdcard \/ MarkRetry \/ CountPackage
InstallSteps == PreUpdate \/ PreFails \/ InstallPackage \/ InstallFails \/ AllInstalled \/ Post \/ UpdateSubPkg
EndSteps == ClearMisc \/ UnlinkCommandFile \/ Reboot
Steps ==
  \/ \E request \in Requests : Ask(request)
  \/ BootSystem \/ BootUpdater \/ FindAndMountSdcard \/ NoSdcard
  \/ InstallSteps \/ NotingSteps
  \/ (WipingSteps /\ UNCHANGED <<installed, asked, asks, reboot>>)
  \/ (SyncOffsetInMisc /\ UNCHANGED <<installed, asked, asks, reboot>>)
  \/ DoFactoryRstEntry \/ UpdaterMain \/ EndSteps \/ Idle \/ PowerCut \/ PowerOff

\* The next-state relation, by what its steps have in common.
LEMMA StepsAre == ModesNext <=> Steps
BY DEF ModesNext, UpdaterStep, FactoryResetNext, Steps, WipingSteps, NotingSteps, InstallSteps, EndSteps

\* What wiping does not touch.
LEMMA WipingKeeps ==
  ASSUME WipingSteps
  PROVE  UNCHANGED <<resetKept, misc>>
<1>1. CASE FactoryResetPre
  BY <1>1 DEF FactoryResetPre
<1>2. CASE NothingToOverwrite
  BY <1>2 DEF NothingToOverwrite, resetVars
<1>3. CASE SkipPartition
  BY <1>3 DEF SkipPartition
<1>4. CASE OverWriteChunk \/ OverWriteFails
  BY <1>4 DEF OverWriteChunk, OverWriteFails
<1>5. CASE SyncPartition
  BY <1>5 DEF SyncPartition
<1>6. CASE AllOverwritten
  BY <1>6 DEF AllOverwritten, resetVars
<1>7. CASE Format \/ FormatFails \/ FactoryResetPost
  BY <1>7 DEF Format, FormatFails, FactoryResetPost
<1> QED
  BY <1>1, <1>2, <1>3, <1>4, <1>5, <1>6, <1>7 DEF WipingSteps

\* Misc is written by few.
LEMMA MiscSteps ==
  ASSUME ModesNext
  PROVE  \/ \E request \in Requests : Ask(request)
         \/ UpdaterFromSdcard \/ MarkRetry \/ CountPackage
         \/ SyncOffsetInMisc /\ UNCHANGED <<installed, asked, asks, reboot>>
         \/ ClearMisc \/ UnlinkCommandFile \/ Reboot
         \/ UNCHANGED <<misc, commandFile, asked>>
<1>1. ASSUME InstallSteps \/ FindAndMountSdcard \/ NoSdcard PROVE UNCHANGED <<misc, commandFile, asked>>
  BY <1>1 DEF InstallSteps, PreUpdate, PreFails, InstallPackage, InstallFails, AllInstalled, Post, UpdateSubPkg,
             FindAndMountSdcard, NoSdcard, modesKept
<1>2. ASSUME BootSystem \/ BootUpdater \/ DoFactoryRstEntry \/ UpdaterMain \/ Idle \/ PowerCut \/ PowerOff
      PROVE  UNCHANGED <<misc, commandFile, asked>>
  BY <1>2 DEF BootSystem, BootUpdater, DoFactoryRstEntry, UpdaterMain, Idle, PowerCut, PowerOff, Off, modesKept,
             resetVars, resetKept
<1>3. ASSUME WipingSteps, UNCHANGED <<installed, asked, asks, reboot>> PROVE UNCHANGED <<misc, commandFile, asked>>
  BY <1>3, WipingKeeps DEF resetKept
<1> QED
  BY <1>1, <1>2, <1>3, StepsAre DEF Steps, NotingSteps, EndSteps

\* What the updater was started with is set when it is, when a card is mounted and when
\* a package is counted, and gone when the power is.
LEMMA UpSteps ==
  ASSUME ModesNext
  PROVE  BootUpdater \/ FindAndMountSdcard \/ CountPackage \/ PowerCut \/ PowerOff \/ UNCHANGED up
<1>1. ASSUME InstallSteps \/ NoSdcard PROVE UNCHANGED up
  BY <1>1 DEF InstallSteps, PreUpdate, PreFails, InstallPackage, InstallFails, AllInstalled, Post,
     UpdateSubPkg, NoSdcard
<1>2. ASSUME BootSystem \/ DoFactoryRstEntry \/ UpdaterMain \/ Idle \/ \E request \in Requests : Ask(request)
      PROVE  UNCHANGED up
  BY <1>2 DEF BootSystem, DoFactoryRstEntry, UpdaterMain, Idle, Ask, resetVars, resetKept
<1>3. ASSUME WipingSteps \/ SyncOffsetInMisc PROVE UNCHANGED up
  BY <1>3, WipingKeeps DEF resetKept, SyncOffsetInMisc
<1>4. ASSUME UpdaterFromSdcard \/ MarkRetry \/ EndSteps PROVE UNCHANGED up
  BY <1>4 DEF UpdaterFromSdcard, MarkRetry, EndSteps, ClearMisc, UnlinkCommandFile, Reboot
<1> QED
  BY <1>1, <1>2, <1>3, <1>4, StepsAre DEF Steps, NotingSteps

\* What is erased, and what of it is noted, changes in a reset, when one is asked for or
\* begun, and when the power is gone.
LEMMA ErasingSteps ==
  ASSUME ModesNext
  PROVE  \/ \E request \in Requests : Ask(request)
         \/ BootUpdater \/ WipingSteps \/ PowerCut \/ PowerOff
         \/ UNCHANGED <<erasing, chunk, lists, lost>>
<1>1. ASSUME InstallSteps \/ NoSdcard \/ FindAndMountSdcard PROVE UNCHANGED <<erasing, chunk, lists, lost>>
  BY <1>1 DEF InstallSteps, PreUpdate, PreFails, InstallPackage, InstallFails, AllInstalled, Post, UpdateSubPkg,
             NoSdcard, FindAndMountSdcard, modesKept
<1>2. ASSUME BootSystem \/ DoFactoryRstEntry \/ UpdaterMain \/ Idle PROVE UNCHANGED <<erasing, chunk, lists, lost>>
  BY <1>2 DEF BootSystem, DoFactoryRstEntry, UpdaterMain, Idle, modesKept, resetVars, resetKept
<1>3. ASSUME SyncOffsetInMisc PROVE UNCHANGED <<erasing, chunk, lists, lost>>
  BY <1>3 DEF resetKept, SyncOffsetInMisc
<1>4. ASSUME NotingSteps \/ EndSteps PROVE UNCHANGED <<erasing, chunk, lists, lost>>
  BY <1>4 DEF NotingSteps, UpdaterFromSdcard, MarkRetry, CountPackage, EndSteps, ClearMisc,
     UnlinkCommandFile, Reboot, modesKept
<1> QED
  BY <1>1, <1>2, <1>3, <1>4, StepsAre DEF Steps

\* Nobody changes the device, and only who asks starts a behaviour over.
LEMMA StepsKeep ==
  ASSUME ModesNext
  PROVE  /\ UNCHANGED kit
         /\ UNCHANGED asked \/ \E request \in Requests : Ask(request)
         /\ UNCHANGED installed \/ InstallPackage \/ \E request \in Requests : Ask(request)
         /\ UNCHANGED faults \/ Fault
<1>1. ASSUME InstallSteps \/ NoSdcard \/ FindAndMountSdcard
      PROVE  UNCHANGED <<kit, asked>> /\ (UNCHANGED installed \/ InstallPackage) /\ (UNCHANGED faults \/ Fault)
  BY <1>1 DEF InstallSteps, PreUpdate, PreFails, InstallPackage, InstallFails, AllInstalled, Post, UpdateSubPkg,
             NoSdcard, FindAndMountSdcard, modesKept
<1>2. ASSUME BootSystem \/ BootUpdater \/ DoFactoryRstEntry \/ UpdaterMain \/ Idle \/ PowerCut \/ PowerOff
      PROVE  UNCHANGED <<kit, asked, installed>> /\ (UNCHANGED faults \/ Fault)
  BY <1>2 DEF BootSystem, BootUpdater, DoFactoryRstEntry, UpdaterMain, Idle, PowerCut, PowerOff, Off, modesKept,
             resetVars, resetKept
<1>3. ASSUME WipingSteps \/ SyncOffsetInMisc PROVE UNCHANGED kit /\ (UNCHANGED faults \/ Fault)
  BY <1>3, WipingKeeps DEF WipingSteps, resetKept, SyncOffsetInMisc, FactoryResetPre, NothingToOverwrite,
     SkipPartition,
             OverWriteChunk, OverWriteFails, SyncPartition, AllOverwritten, Format, FormatFails,
             FactoryResetPost
<1>4. ASSUME NotingSteps \/ EndSteps PROVE UNCHANGED <<kit, asked, installed, faults>>
  BY <1>4 DEF NotingSteps, UpdaterFromSdcard, MarkRetry, CountPackage, EndSteps, ClearMisc,
     UnlinkCommandFile, Reboot, modesKept
<1>5. ASSUME NEW request \in Requests, Ask(request) PROVE UNCHANGED <<kit, faults>>
  BY <1>5 DEF Ask
<1> QED
  BY <1>1, <1>2, <1>3, <1>4, <1>5, StepsAre DEF Steps
-----------------------------------------------------------------------------
(***************************************************************************)
(* What the variables hold.                                                *)
(***************************************************************************)
Args == ParseParams(misc, commandFile)
Armed == misc.command = "boot_updater"
Exts == {"", "UPDATE:SDFROMDEV", "normal"}
Params == [bins : Seq(Options), pkgs : Seq(Options), retry : Nat, loc : Nat, reset : OptionNames, mode : OptionNames,
           ext : Exts, shutdown : BOOLEAN, night : BOOLEAN, hota : BOOLEAN]
Messages == [command : {"", "boot_updater"}, args : Seq(Options)]
MiscTypes ==
  /\ kit \in Kits /\ faults \in Nat
  /\ commandFile \in Requests \cup {<<>>} /\ asked \in Requests \cup {<<>>}
  /\ misc \in Messages
UnlinkedLast == place \in {"unlink", "reboot"} => misc = NoMessage

\* What SetUpdaterMiscMessage writes is a message.
LEMMA MessageIs ==
  ASSUME NEW args \in Seq(Options)
  PROVE  [command |-> "boot_updater", args |-> args] \in Messages
BY DEF Messages

\* What is asked for, or nothing, is a request.
LEMMA RequestsAre ==
  ASSUME NEW r \in Requests \cup {<<>>}
  PROVE  IsRequest(r) /\ r \in Seq(Options)
<1>1. IsRequest(r)
  BY ModesAssumption, NoneIsAsked
<1> QED
  BY <1>1 DEF IsRequest

\* What ParseParams returns are options.
LEMMA ArgsAre == ASSUME MiscTypes PROVE Args \in Seq(Options)
BY RequestsAre DEF MiscTypes, Messages, Args, ParseParams

\* What misc holds after a note: the options there were, with the note.
LEMMA NotedMisc ==
  ASSUME MiscTypes, NEW name \in OptionNames, NEW n \in Nat, UNCHANGED commandFile,
         \/ misc' = SetMessageToMisc(misc, commandFile, name, n)
         \/ misc' = UpdateInfoInMisc(misc, commandFile, name, n) /\ Armed
  PROVE  /\ Armed' /\ Args' = Noting(Args, name, n)
         /\ misc' \in Messages
<1>1. Args \in Seq(Options)
  BY ArgsAre
<1>2. Noting(Args, name, n) \in Seq(Options) /\ Noting(Args, name, n) # <<>>
  BY <1>1, NotingIsLast
<1>3. UpdateInfoInMisc(misc, commandFile, name, n) = [misc EXCEPT !.args = Noting(Args, name, n)]
  BY DEF UpdateInfoInMisc, Noting, Args
<1>4. SetMessageToMisc(misc, commandFile, name, n) = [[misc EXCEPT !.args = Noting(Args, name, n)] EXCEPT !.command = "boot_updater"]
  BY <1>3 DEF SetMessageToMisc
<1>5. misc' = [command |-> "boot_updater", args |-> Noting(Args, name, n)]
  BY <1>3, <1>4 DEF MiscTypes, Messages, Armed
<1> HIDE DEF Noting
<1>6. Args' = Noting(Args, name, n)
  BY <1>2, <1>5 DEF Args, ParseParams
<1>7. misc' \in Messages
  BY <1>2, <1>5, MessageIs
<1> QED
  BY <1>5, <1>6, <1>7 DEF Armed

\* A device that was not asked for anything.
LEMMA MiscTypesInit == ASSUME ModesInit, faults = 0 PROVE MiscTypes /\ UnlinkedLast
<1>1. kit \in Kits /\ commandFile = <<>> /\ asked = <<>> /\ misc = NoMessage /\ faults \in Nat
  BY DEF ModesInit
<1>2. NoMessage \in Messages
  BY DEF NoMessage, Messages
<1> QED
  BY <1>1, <1>2 DEF MiscTypes, UnlinkedLast

UpTypes == up \in Params
\* StartUpdater sets each parameter to a value of its type.
LEMMA StartUpdaterIs == ASSUME NEW args \in Seq(Options) PROVE StartUpdater(args) \in Params
<1>1. \A names : LastOf(args, names) \in Options
  BY LastIsOption
<1>2. \A names : LastOf(args, names).n \in Nat /\ LastOf(args, names).name \in OptionNames
  BY <1>1 DEF Options
<1>3. OptionsOf(args, "update_bin") \in Seq(Options) /\ OptionsOf(args, "update_package") \in Seq(Options)
  BY OptionsOfAre
<1>4. Ext(LastOf(args, CardModes).name) \in Exts
  BY DEF Ext, Exts
<1>5. \A name : CheckUpdateMode(args, name) \in BOOLEAN
  BY DEF CheckUpdateMode
<1> QED
  BY <1>2, <1>3, <1>4, <1>5 DEF StartUpdater, Params

\* Parameters that nothing was set in have their types.
LEMMA NoParamsIs == NoParams \in Params
<1>1. "" \in OptionNames /\ "" \in Exts
  BY NamesAre DEF Exts
<1>2. <<>> \in Seq(Options) /\ 0 \in Nat
  OBVIOUS
<1> QED
  BY <1>1, <1>2 DEF NoParams, Params

\* A device stays the device it is.
LEMMA KitIs ==
  ASSUME MiscTypes
  PROVE  IsKit(kit) /\ kit.card \in Seq(Options)
BY ModesAssumption DEF MiscTypes, IsKit

\* The parameters keep their types.
LEMMA UpTypesStep ==
  ASSUME MiscTypes, UpTypes, ModesNext
  PROVE  UpTypes'
<1>1. CASE UNCHANGED up
  BY <1>1 DEF UpTypes
<1>2. CASE BootUpdater
  <2>1. up' = StartUpdater(Args)
    BY <1>2 DEF BootUpdater, Args
  <2> QED
    BY <2>1, ArgsAre, StartUpdaterIs DEF UpTypes
<1>3. CASE FindAndMountSdcard
  <2>1. up' = [up EXCEPT !.pkgs = IF up.pkgs = <<>> THEN kit.card ELSE up.pkgs]
    BY <1>3 DEF FindAndMountSdcard
  <2>2. kit.card \in Seq(Options)
    BY KitIs
  <2> QED
    BY <2>1, <2>2 DEF UpTypes, Params
<1>4. CASE CountPackage
  <2>1. UNCHANGED up \/ up' = [up EXCEPT !.loc = up.loc + 1]
    BY <1>4 DEF CountPackage
  <2> QED
    BY <2>1 DEF UpTypes, Params
<1>5. CASE PowerCut \/ PowerOff
  BY <1>5, NoParamsIs DEF PowerCut, PowerOff, Off, UpTypes
<1> QED
  BY <1>1, <1>2, <1>3, <1>4, <1>5, UpSteps

-----------------------------------------------------------------------------
(***************************************************************************)
(* What is overwritten: each partition once.                               *)
(***************************************************************************)
\* A sequence is one of any set its members are in.
LEMMA OfTheirElements ==
  ASSUME NEW E, NEW s \in Seq(E), NEW F, Elements(s) \subseteq F
  PROVE  s \in Seq(F)
<1>1. \A i \in DOMAIN s : s[i] \in F
  BY DEF Elements
<1>2. DOMAIN s = 1..Len(s) /\ Len(s) \in Nat /\ s = [i \in 1..Len(s) |-> s[i]]
  OBVIOUS
<1>3. s \in [1..Len(s) -> F]
  BY <1>1, <1>2
<1> QED
  BY <1>2, <1>3

\* A sequence of a set is one of any larger set.
LEMMA AmongMore ==
  ASSUME NEW E, NEW F, E \subseteq F, NEW s \in Seq(E)
  PROVE  s \in Seq(F)
<1>1. Elements(s) \subseteq E
  BY DEF Elements
<1> QED
  BY <1>1, OfTheirElements

\* Of two sequences one after the other: the members of both, each once if they had none
\* in common.
LEMMA OneAfterOther ==
  ASSUME NEW E, NEW s \in Seq(E), NEW t \in Seq(E)
  PROVE  /\ s \o t \in Seq(E) /\ Elements(s \o t) = Elements(s) \cup Elements(t)
         /\ IsInjective(s) /\ IsInjective(t) /\ Elements(s) \cap Elements(t) = {} => IsInjective(s \o t)
<1> DEFINE u == s \o t
<1>1. u \in Seq(E) /\ Len(u) = Len(s) + Len(t) /\ Len(s) \in Nat /\ Len(t) \in Nat
  OBVIOUS
<1>2. \A i \in 1..Len(s) : u[i] = s[i]
  OBVIOUS
<1>3. \A i \in 1..Len(t) : u[Len(s) + i] = t[i]
  OBVIOUS
<1>4. DOMAIN u = 1..(Len(s) + Len(t)) /\ DOMAIN s = 1..Len(s) /\ DOMAIN t = 1..Len(t)
  BY <1>1
<1> HIDE DEF u
<1>5. \A i \in DOMAIN u : \/ i \in DOMAIN s /\ u[i] = s[i]
                          \/ (i - Len(s)) \in DOMAIN t /\ u[i] = t[i - Len(s)] /\ i \notin DOMAIN s
  <2> SUFFICES ASSUME NEW i \in DOMAIN u, i \notin DOMAIN s
      PROVE  (i - Len(s)) \in DOMAIN t /\ u[i] = t[i - Len(s)]
    BY <1>2, <1>4
  <2>1. i - Len(s) \in 1..Len(t) /\ Len(s) + (i - Len(s)) = i
    BY <1>1, <1>4
  <2> QED
    BY <1>3, <1>4, <2>1
<1>6. Elements(u) = Elements(s) \cup Elements(t)
  <2>1. Elements(u) \subseteq Elements(s) \cup Elements(t)
    BY <1>5 DEF Elements
  <2>2. Elements(s) \subseteq Elements(u)
    <3>1. \A i \in DOMAIN s : i \in DOMAIN u
      BY <1>1, <1>4
    <3> QED
      BY <1>2, <1>4, <3>1 DEF Elements
  <2>3. Elements(t) \subseteq Elements(u)
    <3>1. \A i \in DOMAIN t : Len(s) + i \in DOMAIN u
      BY <1>1, <1>4
    <3> QED
      BY <1>3, <1>4, <3>1 DEF Elements
  <2> QED
    BY <2>1, <2>2, <2>3
<1>7. ASSUME IsInjective(s), IsInjective(t), Elements(s) \cap Elements(t) = {} PROVE IsInjective(u)
  <2> SUFFICES ASSUME NEW i \in DOMAIN u, NEW j \in DOMAIN u, u[i] = u[j] PROVE i = j
    BY DEF IsInjective
  <2>0. i \in Int /\ j \in Int
    BY <1>1, <1>4
  <2>1. CASE i \in DOMAIN s /\ j \in DOMAIN s
    BY <1>2, <1>4, <1>7, <2>1 DEF IsInjective
  <2>2. CASE i \notin DOMAIN s /\ j \notin DOMAIN s
    <3>1. (i - Len(s)) \in DOMAIN t /\ (j - Len(s)) \in DOMAIN t /\ t[i - Len(s)] = t[j - Len(s)]
      BY <1>5, <2>2
    <3>2. i - Len(s) = j - Len(s)
      BY <1>7, <3>1 DEF IsInjective
    <3> QED
      BY <1>1, <2>0, <3>2
  <2>3. ASSUME NEW k \in DOMAIN u, NEW l \in DOMAIN u, k \in DOMAIN s, l \notin DOMAIN s, u[k] = u[l] PROVE FALSE
    <3>1. u[k] \in Elements(s) /\ u[l] \in Elements(t)
      BY <1>2, <1>4, <1>5, <2>3 DEF Elements
    <3> QED
      BY <1>7, <2>3, <3>1
  <2> QED
    BY <2>1, <2>2, <2>3
<1> QED
  BY <1>1, <1>6, <1>7 DEF u

\* The rest of a sequence has no other members, and none of them twice.
LEMMA FromOneOn ==
  ASSUME NEW E, NEW s \in Seq(E), NEW from \in 1..Len(s)
  PROVE  /\ SubSeq(s, from, Len(s)) \in Seq(E) /\ Elements(SubSeq(s, from, Len(s))) \subseteq Elements(s)
         /\ IsInjective(s) => IsInjective(SubSeq(s, from, Len(s)))
<1> DEFINE u == SubSeq(s, from, Len(s))
<1>1. u \in Seq(E) /\ Len(s) \in Nat /\ from \in Nat /\ from >= 1 /\ from <= Len(s) /\ DOMAIN s = 1..Len(s)
  OBVIOUS
<1>2. DOMAIN u = 1..(Len(s) - from + 1)
  OBVIOUS
<1>3. \A i \in 1..(Len(s) - from + 1) : u[i] = s[from + i - 1]
  OBVIOUS
<1> HIDE DEF u
<1>4. \A i \in DOMAIN u : from + i - 1 \in DOMAIN s
  BY <1>1, <1>2
<1>5. Elements(u) \subseteq Elements(s)
  BY <1>2, <1>3, <1>4 DEF Elements
<1>6. ASSUME IsInjective(s) PROVE IsInjective(u)
  <2> SUFFICES ASSUME NEW i \in DOMAIN u, NEW j \in DOMAIN u, u[i] = u[j] PROVE i = j
    BY DEF IsInjective
  <2>1. s[from + i - 1] = s[from + j - 1]
    BY <1>2, <1>3
  <2>2. from + i - 1 = from + j - 1
    BY <1>4, <1>6, <2>1 DEF IsInjective
  <2> QED
    BY <1>1, <1>2, <2>2
<1> QED
  BY <1>1, <1>5, <1>6 DEF u

\* A set of numbers has a first one.
LEMMA FirstOne ==
  ASSUME NEW S \in SUBSET Nat, S # {}
  PROVE  \E i \in S : \A j \in S : i <= j
<1> DEFINE R == OpToRel(<, Nat)
<1>1. R = {ss \in Nat \X Nat : ss[1] < ss[2]}
  BY DEF OpToRel
<1>2. IsWellFoundedOn(R, Nat)
  BY NatLessThanWellFounded
<1> HIDE DEF R
<1>3. PICK i \in S : \A j \in S : ~(<<j, i>> \in R)
  BY <1>2, WFMin
<1>4. ASSUME NEW j \in S PROVE i <= j
  <2>1. i \in Nat /\ j \in Nat
    OBVIOUS
  <2>2. ~(j < i)
    <3>1. j < i => <<j, i>> \in R
      BY <1>1, <2>1
    <3> QED
      BY <1>3, <3>1
  <2> QED
    BY <2>1, <2>2
<1> QED
  BY <1>4

\* A vendor's table of partitions names each once, but userdata.
LEMMA FromCustIs ==
  ASSUME NEW E, NEW table \in Seq(E), IsInjective(table)
  PROVE  /\ FromCust(table) \in Seq(E) /\ IsInjective(FromCust(table))
         /\ Elements(FromCust(table)) \subseteq Elements(table) \ {"userdata"}
<1> DEFINE cust == {i \in DOMAIN table : table[i] = "cust"}
           from == CHOOSE i \in cust : \A j \in cust : i <= j
<1>1. CASE cust = {}
  <2>1. FromCust(table) = <<>>
    BY <1>1 DEF FromCust
  <2>2. <<>> \in Seq(E) /\ DOMAIN <<>> = {}
    OBVIOUS
  <2> QED
    BY <2>1, <2>2 DEF IsInjective, Elements
<1>2. CASE cust # {}
  <2>1. cust \in SUBSET Nat
    OBVIOUS
  <2>2. from \in cust
    BY <1>2, <2>1, FirstOne
  <2>3. from \in 1..Len(table)
    BY <2>2
  <2> DEFINE u == SubSeq(table, from, Len(table))
             those == Elements(table) \ {"userdata"}
  <2>4. FromCust(table) = Chosen(u, those)
    BY <1>2 DEF FromCust
  <2> HIDE DEF from, those, cust
  <2>5. u \in Seq(E) /\ IsInjective(u)
    BY <2>3, FromOneOn
  <2> HIDE DEF u
  <2>6. Chosen(u, those) \in Seq(E) /\ Elements(Chosen(u, those)) = Elements(u) \cap those /\ IsInjective(Chosen(u, those))
    BY <2>5, ChosenElements, ChosenOnce
  <2> QED
    BY <2>4, <2>6 DEF those
<1> QED
  BY <1>1, <1>2

\* A sequence of one.
LEMMA OneIsOnce ==
  ASSUME NEW E, NEW x \in E
  PROVE  <<x>> \in Seq(E) /\ IsInjective(<<x>>) /\ Elements(<<x>>) = {x}
<1>1. <<x>> \in Seq(E) /\ DOMAIN <<x>> = {1} /\ <<x>>[1] = x
  OBVIOUS
<1> QED
  BY <1>1 DEF IsInjective, Elements

\* PartitionErase lists each partition once.
LEMMA PartitionEraseIs ==
  ASSUME IsKit(kit), NEW type
  PROVE  \E E : PartitionErase(type) \in Seq(E) /\ IsInjective(PartitionErase(type))
<1> DEFINE E == STRING \cup {"userdata"}
           users == <<"userdata">>
<1>1. /\ kit.table \in Seq(STRING) /\ kit.secure \in Seq(STRING) /\ kit.disks \in Seq(STRING)
      /\ IsInjective(kit.table) /\ IsInjective(kit.secure) /\ IsInjective(kit.disks)
      /\ Elements(kit.table) \cap Elements(kit.secure) = {} /\ Elements(kit.disks) \cap Elements(kit.table) = {}
      /\ Elements(kit.secure) \cap Elements(kit.disks) = {} /\ "userdata" \notin Elements(kit.secure) \cup Elements(kit.disks)
  BY DEF IsKit
<1>2. STRING \subseteq E /\ "userdata" \in E
  OBVIOUS
<1>3. users \in Seq(E) /\ IsInjective(users) /\ Elements(users) = {"userdata"}
  BY <1>2, OneIsOnce
<1> HIDE DEF E, users
<1>4. kit.table \in Seq(E) /\ kit.secure \in Seq(E) /\ kit.disks \in Seq(E)
  BY <1>1, <1>2, AmongMore
<1> DEFINE table == FromCust(kit.table)
<1>5. table \in Seq(E) /\ IsInjective(table) /\ Elements(table) \subseteq Elements(kit.table) \ {"userdata"}
  BY <1>1, <1>4, FromCustIs
<1> HIDE DEF table
<1>6. users \o kit.disks \in Seq(E) /\ IsInjective(users \o kit.disks)
  BY <1>1, <1>3, <1>4, OneAfterOther
<1> DEFINE a == users \o table
           b == a \o kit.secure
<1>7. a \in Seq(E) /\ Elements(a) = {"userdata"} \cup Elements(table) /\ IsInjective(a)
  BY <1>3, <1>5, OneAfterOther
<1> HIDE DEF a
<1>8. b \in Seq(E) /\ Elements(b) = Elements(a) \cup Elements(kit.secure) /\ IsInjective(b)
  <2>1. Elements(a) \cap Elements(kit.secure) = {}
    BY <1>1, <1>5, <1>7
  <2> QED
    BY <1>1, <1>4, <1>7, <2>1, OneAfterOther
<1> HIDE DEF b
<1>9. b \o kit.disks \in Seq(E) /\ IsInjective(b \o kit.disks)
  <2>1. Elements(b) \cap Elements(kit.disks) = {}
    BY <1>1, <1>5, <1>7, <1>8
  <2> QED
    BY <1>1, <1>4, <1>8, <2>1, OneAfterOther
<1>10. PartitionErase(type) \in {<<>>, users, users \o kit.disks, b \o kit.disks}
  BY DEF PartitionErase, users, table, a, b
<1>11. <<>> \in Seq(E) /\ IsInjective(<<>>)
  BY DEF IsInjective
<1> QED
  BY <1>3, <1>6, <1>9, <1>10, <1>11

\* AddOverWritePartitions lists each partition there is once.
LEMMA ErasureListIs ==
  ASSUME IsKit(kit), NEW type, NEW present
  PROVE  AddOverWritePartitions(type, present) \in Seq(present) /\ IsInjective(AddOverWritePartitions(type, present))
<1>1. PICK E : PartitionErase(type) \in Seq(E) /\ IsInjective(PartitionErase(type))
  BY PartitionEraseIs
<1> DEFINE L == Chosen(PartitionErase(type), present)
<1>2. L \in Seq(E) /\ Elements(L) \subseteq present /\ IsInjective(L)
  BY <1>1, ChosenElements, ChosenOnce
<1> HIDE DEF L
<1>3. L \in Seq(present)
  BY <1>2, OfTheirElements
<1> QED
  BY <1>2, <1>3 DEF L, AddOverWritePartitions
-----------------------------------------------------------------------------
Contents == {"old", "cached", "over"}
ErasingTypes ==
  /\ erasing \in [list : Seq(Partitions), done : Nat, at : Nat, i : Nat \ {0}]
  /\ IsFiniteSet(lists) /\ \A L \in lists : L \in Seq(Partitions) /\ IsInjective(L)
ChunkTypes ==
  /\ chunk = [p \in Partitions |-> chunk[p]]
  /\ \A p \in Partitions : chunk[p] \in [1..Chunks[p] -> Contents]

\* Partitions have sizes.
LEMMA SizesAre == \A p \in Partitions : Chunks[p] \in Nat
BY ModesAssumption

\* An erasing is begun where misc says that one stopped, with what there is to overwrite.
LEMMA BeginErasing ==
  ASSUME MiscTypes, BootUpdater
  PROVE  /\ up' = StartUpdater(Args) /\ up'.reset = LastOf(Args, Resets).name
         /\ UNCHANGED <<kit, misc, commandFile, Args>>
         /\ up'.reset \in Erasures =>
              \E L \in Seq(Partitions) :
                /\ IsInjective(L) /\ lists' = lists \cup {L}
                /\ erasing' = [list |-> L, done |-> NotedIn(Args), at |-> 0, i |-> 1]
         /\ up'.reset \notin Erasures => erasing' = NoErasure /\ UNCHANGED lists
<1>1. up' = StartUpdater(Args) /\ UNCHANGED <<kit, misc, commandFile>>
  BY DEF BootUpdater, Args
<1>2. up'.reset = LastOf(Args, Resets).name
  BY <1>1 DEF StartUpdater, Resets
<1>3. PICK missing \in {{}} \cup {{p} : p \in Partitions} : erasing' = Erasing(up', Args, missing)
  BY DEF BootUpdater, Args
<1>4. ASSUME up'.reset \in Erasures
      PROVE  \E L \in Seq(Partitions) :
                /\ IsInjective(L) /\ lists' = lists \cup {L}
                /\ erasing' = [list |-> L, done |-> NotedIn(Args), at |-> 0, i |-> 1]
  <2> DEFINE L == AddOverWritePartitions(up'.reset, Partitions \ missing)
  <2>1. L \in Seq(Partitions \ missing) /\ IsInjective(L)
    BY KitIs, ErasureListIs
  <2>2. erasing' = [list |-> L, done |-> NotedIn(Args), at |-> 0, i |-> 1]
    BY <1>3, <1>4 DEF Erasing, NoErasure, NotedIn
  <2>3. lists' = lists \cup {erasing'.list}
    BY <1>4 DEF BootUpdater
  <2> HIDE DEF L
  <2>4. L \in Seq(Partitions)
    <3>1. Partitions \ missing \subseteq Partitions
      OBVIOUS
    <3> QED
      BY <2>1, <3>1, AmongMore
  <2>5. lists' = lists \cup {L}
    BY <2>2, <2>3
  <2> QED
    BY <2>1, <2>2, <2>4, <2>5
<1>5. up'.reset \notin Erasures => erasing' = NoErasure /\ UNCHANGED lists
  BY <1>3 DEF Erasing, BootUpdater
<1> QED
  BY <1>1, <1>2, <1>4, <1>5 DEF Args

\* What is noted in misc are numbers.
LEMMA NotedIsNat == ASSUME NEW args \in Seq(Options) PROVE NotedIn(args) \in Nat /\ CountIn(args) \in Nat
<1>1. LastOf(args, Erasures) \in Options /\ LastOf(args, {"upgraded_pkg_num"}) \in Options
  BY LastIsOption
<1> QED
  BY <1>1 DEF NotedIn, CountIn, Options

\* The partition that is being overwritten is one of the list.
LEMMA PartIs ==
  ASSUME ErasingTypes, InList
  PROVE  Part \in Partitions /\ Chunks[Part] \in Nat /\ erasing.i \in 1..Len(erasing.list)
<1>1. erasing.list \in Seq(Partitions) /\ erasing.i \in Nat \ {0} /\ erasing.i <= Len(erasing.list)
  BY DEF ErasingTypes, InList
<1>2. erasing.list[erasing.i] \in Partitions /\ erasing.i \in 1..Len(erasing.list)
  BY <1>1
<1> QED
  BY <1>2, SizesAre DEF Part

\* An erasing keeps its types.
LEMMA ErasingTypesStep ==
  ASSUME MiscTypes, ErasingTypes, ModesNext
  PROVE  ErasingTypes'
<1>1. CASE UNCHANGED <<erasing, chunk, lists, lost>>
  BY <1>1 DEF ErasingTypes
<1>2. CASE BootUpdater
  <2>1. CASE up'.reset \in Erasures
    <3>1. PICK L \in Seq(Partitions) :
                /\ IsInjective(L) /\ lists' = lists \cup {L}
                /\ erasing' = [list |-> L, done |-> NotedIn(Args), at |-> 0, i |-> 1]
      BY <1>2, <2>1, BeginErasing
    <3>2. NotedIn(Args) \in Nat
      BY ArgsAre, NotedIsNat
    <3>3. IsFiniteSet(lists')
      BY <3>1, FS_AddElement DEF ErasingTypes
    <3>4. 0 \in Nat /\ 1 \in Nat \ {0}
      OBVIOUS
    <3>5. erasing' \in [list : Seq(Partitions), done : Nat, at : Nat, i : Nat \ {0}]
      BY <3>1, <3>2, <3>4
    <3> QED
      BY <3>1, <3>3, <3>5 DEF ErasingTypes
  <2>2. CASE up'.reset \notin Erasures
    <3>1. erasing' = NoErasure /\ UNCHANGED lists
      BY <1>2, <2>2, BeginErasing
    <3>2. NoErasure \in [list : Seq(Partitions), done : Nat, at : Nat, i : Nat \ {0}]
      BY DEF NoErasure
    <3> QED
      BY <3>1, <3>2 DEF ErasingTypes
  <2> QED
    BY <2>1, <2>2
<1>3. CASE WipingSteps
  <2>1. UNCHANGED lists
    BY <1>3, WipingKeeps DEF resetKept
  <2>2. erasing' \in [list : Seq(Partitions), done : Nat, at : Nat, i : Nat \ {0}]
    <3>0. erasing \in [list : Seq(Partitions), done : Nat, at : Nat, i : Nat \ {0}]
      BY DEF ErasingTypes
    <3>1. CASE FactoryResetPre
      <4>1. UNCHANGED erasing \/ erasing' = [erasing EXCEPT !.at = erasing.done, !.i = 1]
        BY <3>1 DEF FactoryResetPre
      <4>2. 1 \in Nat \ {0}
        OBVIOUS
      <4> QED
        BY <3>0, <4>1, <4>2
    <3>2. CASE SkipPartition
      <4>1. erasing' = [erasing EXCEPT !.i = erasing.i + 1, !.at = erasing.at - Chunks[Part]] /\ InList /\ erasing.at >= Chunks[Part]
        BY <3>2 DEF SkipPartition, NextPart
      <4>2. erasing.at - Chunks[Part] \in Nat /\ erasing.i + 1 \in Nat \ {0}
        BY <3>0, <4>1, PartIs
      <4> QED
        BY <3>0, <4>1, <4>2
    <3>3. CASE OverWriteChunk
      <4>1. erasing' = [erasing EXCEPT !.at = erasing.at + 1, !.done = erasing.done + 1]
        BY <3>3 DEF OverWriteChunk
      <4>2. erasing.at + 1 \in Nat /\ erasing.done + 1 \in Nat
        BY <3>0
      <4> QED
        BY <3>0, <4>1, <4>2
    <3>4. CASE SyncPartition
      <4>1. erasing' = [erasing EXCEPT !.i = erasing.i + 1, !.at = 0]
        BY <3>4 DEF SyncPartition, NextPart
      <4>2. erasing.i + 1 \in Nat \ {0} /\ 0 \in Nat
        BY <3>0
      <4> QED
        BY <3>0, <4>1, <4>2
    <3>5. CASE NothingToOverwrite \/ OverWriteFails \/ AllOverwritten \/ Format \/ FormatFails \/ FactoryResetPost
      <4>1. UNCHANGED erasing
        BY <3>5 DEF NothingToOverwrite, OverWriteFails, AllOverwritten, Format, FormatFails,
           FactoryResetPost, resetVars
      <4> QED
        BY <4>1 DEF ErasingTypes
    <3> QED
      BY <1>3, <3>1, <3>2, <3>3, <3>4, <3>5 DEF WipingSteps
  <2> QED
    BY <2>1, <2>2 DEF ErasingTypes
<1>4. NoErasure \in [list : Seq(Partitions), done : Nat, at : Nat, i : Nat \ {0}]
  BY DEF NoErasure
<1>5. CASE PowerCut \/ PowerOff
  <2>1. erasing' = NoErasure /\ UNCHANGED lists
    BY <1>5 DEF PowerCut, PowerOff, Off
  <2> QED
    BY <1>4, <2>1 DEF ErasingTypes
<1>6. ASSUME NEW request \in Requests, Ask(request) PROVE ErasingTypes'
  <2>1. UNCHANGED erasing /\ lists' = {}
    BY <1>6 DEF Ask
  <2> QED
    BY <2>1, FS_EmptySet DEF ErasingTypes
<1> QED
  BY <1>1, <1>2, <1>3, <1>5, <1>6, ErasingSteps

\* After a sync nothing is cached, and what was is written.
LEMMA SyncedIs ==
  ASSUME NEW n \in Nat, NEW c \in [1..n -> Contents]
  PROVE  /\ Synced(c) \in [1..n -> Contents]
         /\ \A k \in 1..n : Synced(c)[k] # "cached" /\ (c[k] \in {"cached", "over"} => Synced(c)[k] = "over")
BY DEF Synced, Contents

\* A partition keeps its size.
LEMMA ChunkTypesStep ==
  ASSUME ErasingTypes, ChunkTypes, ModesNext
  PROVE  ChunkTypes'
<1>1. CASE UNCHANGED chunk
  BY <1>1 DEF ChunkTypes
<1>2. \A p \in Partitions : Synced(chunk[p]) \in [1..Chunks[p] -> Contents]
  BY SizesAre, SyncedIs DEF ChunkTypes
<1>3. CASE WipingSteps /\ ~UNCHANGED chunk
  <2>1. OverWriteChunk \/ OverWriteFails \/ SyncPartition
    BY <1>3 DEF WipingSteps, FactoryResetPre, NothingToOverwrite, SkipPartition, AllOverwritten, Format,
       FormatFails,
                FactoryResetPost, resetVars
  <2>2. CASE OverWriteChunk
    <3>1. InList /\ erasing.at + 1 \in 1..Chunks[Part]
      BY <2>2, PartIs DEF OverWriteChunk, ErasingTypes
    <3>2. Part \in Partitions
      BY <3>1, PartIs
    <3>3. chunk' = [chunk EXCEPT ![Part] = [chunk[Part] EXCEPT ![erasing.at + 1] = "cached"]]
      BY <2>2 DEF OverWriteChunk
    <3>4. [chunk[Part] EXCEPT ![erasing.at + 1] = "cached"] \in [1..Chunks[Part] -> Contents]
      BY <3>1, <3>2 DEF ChunkTypes, Contents
    <3> QED
      BY <3>2, <3>3, <3>4 DEF ChunkTypes
  <2>3. CASE OverWriteFails \/ SyncPartition
    <3>1. chunk' = [chunk EXCEPT ![Part] = Synced(chunk[Part])]
      BY <2>3 DEF OverWriteFails, SyncPartition
    <3>2. \A p \in Partitions : chunk'[p] \in {chunk[p], Synced(chunk[p])}
      BY <3>1 DEF ChunkTypes
    <3>3. chunk' = [p \in Partitions |-> chunk'[p]]
      BY <3>1 DEF ChunkTypes
    <3> QED
      BY <1>2, <3>2, <3>3 DEF ChunkTypes
  <2> QED
    BY <2>1, <2>2, <2>3
<1>4. CASE BootUpdater
  BY <1>1, <1>4 DEF BootUpdater
<1>5. CASE PowerCut \/ PowerOff
  <2>1. PICK gone : Off(gone)
    BY <1>5 DEF PowerCut, PowerOff
  <2>2. chunk' = [p \in Partitions |-> [i \in 1..Chunks[p] |-> IF <<p, i>> \in gone THEN "old" ELSE Synced(chunk[p])[i]]]
    BY <2>1 DEF Off
  <2>3. \A p \in Partitions : \A i \in 1..Chunks[p] :
          (IF <<p, i>> \in gone THEN "old" ELSE Synced(chunk[p])[i]) \in Contents
    BY <1>2 DEF Contents
  <2>4. \A p \in Partitions : chunk'[p] \in [1..Chunks[p] -> Contents]
    BY <2>2, <2>3
  <2> QED
    BY <2>2, <2>4 DEF ChunkTypes
<1>6. ASSUME NEW request \in Requests, Ask(request) PROVE ChunkTypes'
  <2>1. chunk' = OldChunks
    BY <1>6 DEF Ask
  <2>2. \A p \in Partitions : OldChunks[p] \in [1..Chunks[p] -> Contents]
    BY DEF OldChunks, Contents
  <2>3. OldChunks = [p \in Partitions |-> OldChunks[p]]
    BY DEF OldChunks
  <2> QED
    BY <2>1, <2>2, <2>3 DEF ChunkTypes
<1> QED
  BY <1>1, <1>3, <1>4, <1>5, <1>6, ErasingSteps
-----------------------------------------------------------------------------
(***************************************************************************)
(* A run of the updater, from a message that starts it to the end.         *)
(***************************************************************************)
ResetRun == {"reset", "overwrite", "overwritten", "sync", "format", "reset post", "reset done", "reset failed"}
CardRun == {"card", "find"}
InstallRun == {"pre", "install", "installing", "count"}
Run == ResetRun \cup CardRun \cup InstallRun \cup {"post", "subpkg", "ended"}
After == {"clear", "unlink", "reboot"}
RunsArmed == place \in Run => Armed /\ page = "none" /\ reboot = "as asked"

\* Where DoUpdaterEntry goes.
LEMMA EntriesAre == ASSUME NEW u PROVE DoUpdaterEntry(u) \in {"pre", "card", "subpkg", "reset", "ended"}
BY DEF DoUpdaterEntry

\* The steps of a run, each from a place of it to a place of it.
RunSteps ==
  \/ UpdaterFromSdcard \/ FindAndMountSdcard \/ NoSdcard \/ InstallSteps \/ MarkRetry \/ CountPackage
  \/ (WipingSteps \/ SyncOffsetInMisc) /\ UNCHANGED <<installed, asked, asks, reboot>>
\* A step of a run stays in it.
LEMMA RunStepsStay ==
  ASSUME RunSteps
  PROVE  place \in Run /\ place' \in Run \ {"reset", "card", "subpkg"} /\ UNCHANGED <<page, reboot, asked>>
<1>1. CASE UpdaterFromSdcard \/ FindAndMountSdcard \/ NoSdcard \/ MarkRetry \/ CountPackage
  BY <1>1 DEF UpdaterFromSdcard, FindAndMountSdcard, NoSdcard, MarkRetry, CountPackage, Installing,
     modesKept, Run, CardRun, InstallRun, ResetRun
<1>2. CASE InstallSteps
  BY <1>2 DEF InstallSteps, PreUpdate, PreFails, InstallPackage, InstallFails, AllInstalled, Post,
     UpdateSubPkg, modesKept, Run, CardRun, InstallRun, ResetRun
<1>3. CASE SyncOffsetInMisc /\ UNCHANGED <<installed, asked, asks, reboot>>
  BY <1>3 DEF SyncOffsetInMisc, resetKept, Run, CardRun, InstallRun, ResetRun
<1>4. CASE WipingSteps /\ UNCHANGED <<installed, asked, asks, reboot>>
  <2>1. UNCHANGED page
    BY <1>4, WipingKeeps DEF resetKept
  <2>2. place \in ResetRun /\ place' \in ResetRun \ {"reset"}
    BY <1>4 DEF WipingSteps, FactoryResetPre, NothingToOverwrite, SkipPartition, OverWriteChunk, OverWriteFails,
                SyncPartition, AllOverwritten, Format, FormatFails, FactoryResetPost, FailReset, InList,
                ResetRun
  <2> QED
    BY <1>4, <2>1, <2>2 DEF Run, CardRun, InstallRun, ResetRun
<1> QED
  BY <1>1, <1>2, <1>3, <1>4 DEF RunSteps

\* Every other step is out of a run, or into it.
LEMMA OtherSteps ==
  ASSUME ModesNext, ~RunSteps
  PROVE  \/ BootUpdater /\ place' \in {"pre", "card", "subpkg", "reset", "ended"}
         \/ DoFactoryRstEntry
         \/ UpdaterMain /\ place' \in {"forever", "clear"}
         \/ (\E request \in Requests : Ask(request)) /\ place' = "off"
         \/ BootSystem /\ place' = "system"
         \/ ClearMisc /\ place' = "unlink"
         \/ UnlinkCommandFile /\ place' = "reboot"
         \/ Reboot /\ place' = "off"
         \/ Idle /\ place' = "forever"
         \/ (PowerCut \/ PowerOff) /\ place' = "off"
<1>1. \/ \E request \in Requests : Ask(request)
      \/ BootSystem \/ BootUpdater \/ DoFactoryRstEntry \/ UpdaterMain \/ EndSteps \/ Idle \/ PowerCut \/ PowerOff
  BY StepsAre DEF Steps, RunSteps, NotingSteps
<1>2. CASE \E request \in Requests : Ask(request)
  BY <1>2 DEF Ask
<1>3. CASE BootUpdater
  BY <1>3, EntriesAre DEF BootUpdater
<1>4. CASE UpdaterMain
  BY <1>4 DEF UpdaterMain
<1>5. CASE BootSystem \/ EndSteps \/ Idle
  <2>1. CASE BootSystem \/ Idle
    BY <2>1 DEF BootSystem, Idle
  <2>2. CASE EndSteps
    BY <2>2 DEF EndSteps, ClearMisc, UnlinkCommandFile, Reboot
  <2> QED
    BY <1>5, <2>1, <2>2
<1>6. CASE PowerCut \/ PowerOff
  BY <1>6 DEF PowerCut, PowerOff, Off
<1> QED
  BY <1>1, <1>2, <1>3, <1>4, <1>5, <1>6

\* What a reboot leaves in misc.
LEMMA RebootIs ==
  ASSUME MiscTypes, Reboot
  PROVE  /\ WipeNext => misc' = [command |-> "boot_updater", args |-> WipeAsked] /\ Args' = WipeAsked /\ Armed'
         /\ ~WipeNext => misc' = NoMessage /\ ~Armed'
<1>1. CASE WipeNext
  <2>1. misc' = [[misc EXCEPT !.command = "boot_updater"] EXCEPT !.args = WipeAsked]
    BY <1>1 DEF Reboot, RebootMessage, Target, WipeAsked
  <2>2. misc' = [command |-> "boot_updater", args |-> WipeAsked]
    BY <2>1 DEF MiscTypes, Messages
  <2>3. WipeAsked # <<>>
    BY DEF WipeAsked
  <2> QED
    BY <1>1, <2>2, <2>3 DEF Args, ParseParams, Armed
<1>2. CASE ~WipeNext
  <2>1. misc' = NoMessage
    BY <1>2 DEF Reboot, RebootMessage
  <2> QED
    BY <1>2, <2>1 DEF NoMessage, Armed
<1> QED
  BY <1>1, <1>2

\* What was written where misc is: a note of the updater's own, or of an erasing.
LEMMA NotesAre ==
  ASSUME MiscTypes, UpTypes, ErasingTypes, RunsArmed, RunSteps
  PROVE  /\ Armed' /\ misc' \in Messages /\ UNCHANGED commandFile
         /\ UpdaterFromSdcard => Args' = Noting(Args, "sdcard_update", 0)
         /\ MarkRetry => UNCHANGED Args \/ Args' = Noting(Args, "retry_count", 1)
         /\ CountPackage => Args' = Noting(Args, "upgraded_pkg_num", up.loc + 1)
         /\ SyncOffsetInMisc => Args' = Noting(Args, up.reset, erasing.done)
         /\ ~(UpdaterFromSdcard \/ MarkRetry \/ CountPackage \/ SyncOffsetInMisc) => UNCHANGED <<misc, Args>>
<1>0. Armed /\ place \in Run
  BY RunStepsStay DEF RunsArmed
<1>1. CASE UpdaterFromSdcard
  <2>1. misc' = SetMessageToMisc(misc, commandFile, "sdcard_update", 0) /\ UNCHANGED commandFile /\ place' = "find"
    BY <1>1 DEF UpdaterFromSdcard
  <2>2. "sdcard_update" \in OptionNames /\ 0 \in Nat
    BY NamesAre
  <2>3. place = "card" /\ place' = "find"
    BY <1>1 DEF UpdaterFromSdcard
  <2>4. ~MarkRetry /\ ~CountPackage /\ ~SyncOffsetInMisc
    BY <2>3 DEF MarkRetry, Installing, CountPackage, SyncOffsetInMisc
  <2> QED
    BY <1>1, <2>1, <2>2, <2>4, NotedMisc
<1>2. CASE MarkRetry
  <2>1. UNCHANGED commandFile /\ (UNCHANGED misc \/ misc' = SetMessageToMisc(misc, commandFile, "retry_count", 1))
    BY <1>2 DEF MarkRetry
  <2>2. "retry_count" \in OptionNames /\ 1 \in Nat
    BY NamesAre
  <2>3. ~UpdaterFromSdcard /\ ~CountPackage /\ ~SyncOffsetInMisc
    BY <1>2 DEF MarkRetry, Installing, UpdaterFromSdcard, CountPackage, SyncOffsetInMisc
  <2>4. CASE UNCHANGED misc
    BY <1>0, <1>2, <2>1, <2>3, <2>4 DEF Armed, Args, MiscTypes
  <2>5. CASE misc' = SetMessageToMisc(misc, commandFile, "retry_count", 1)
    BY <1>2, <2>1, <2>2, <2>3, <2>5, NotedMisc
  <2> QED
    BY <2>1, <2>4, <2>5
<1>3. CASE CountPackage
  <2>1. misc' = SetMessageToMisc(misc, commandFile, "upgraded_pkg_num", up.loc + 1) /\ UNCHANGED commandFile
    BY <1>3 DEF CountPackage
  <2>2. "upgraded_pkg_num" \in OptionNames /\ up.loc + 1 \in Nat
    <3>1. up.loc \in Nat
      BY DEF UpTypes, Params
    <3>2. up.loc + 1 \in Nat
      BY <3>1
    <3>3. "upgraded_pkg_num" \in OptionNames
      BY NamesAre
    <3> QED
      BY <3>2, <3>3
  <2>3. ~UpdaterFromSdcard /\ ~MarkRetry /\ ~SyncOffsetInMisc
    BY <1>3 DEF MarkRetry, Installing, UpdaterFromSdcard, CountPackage, SyncOffsetInMisc
  <2> QED
    BY <1>3, <2>1, <2>2, <2>3, NotedMisc
<1>4. CASE SyncOffsetInMisc
  <2>1. misc' = UpdateInfoInMisc(misc, commandFile, up.reset, erasing.done) /\ UNCHANGED commandFile
    BY <1>4 DEF SyncOffsetInMisc, resetKept
  <2>2. up.reset \in OptionNames /\ erasing.done \in Nat
    BY DEF UpTypes, Params, ErasingTypes
  <2>3. ~UpdaterFromSdcard /\ ~MarkRetry /\ ~CountPackage
    BY <1>4 DEF MarkRetry, Installing, UpdaterFromSdcard, CountPackage, SyncOffsetInMisc
  <2> QED
    BY <1>0, <1>4, <2>1, <2>2, <2>3, NotedMisc
<1>5. CASE FindAndMountSdcard \/ NoSdcard \/ InstallSteps
  <2>1. UNCHANGED <<misc, commandFile>>
    BY <1>5 DEF InstallSteps, PreUpdate, PreFails, InstallPackage, InstallFails, AllInstalled, Post,
       UpdateSubPkg,
                FindAndMountSdcard, NoSdcard
  <2>2. ~(UpdaterFromSdcard \/ MarkRetry \/ CountPackage \/ SyncOffsetInMisc)
    <3>1. CASE FindAndMountSdcard \/ NoSdcard
      BY <3>1 DEF FindAndMountSdcard, NoSdcard, UpdaterFromSdcard, MarkRetry, Installing, CountPackage,
         SyncOffsetInMisc
    <3>2. CASE InstallSteps
      BY <3>2 DEF InstallSteps, PreUpdate, PreFails, InstallPackage, InstallFails, AllInstalled, Post,
         UpdateSubPkg,
                  UpdaterFromSdcard, MarkRetry, Installing, CountPackage, SyncOffsetInMisc
    <3> QED
      BY <1>5, <3>1, <3>2
  <2> QED
    BY <1>0, <2>1, <2>2 DEF Armed, Args, MiscTypes
<1>6. CASE WipingSteps
  <2>1. UNCHANGED <<misc, commandFile>>
    BY <1>6, WipingKeeps DEF resetKept
  <2>2. ~(UpdaterFromSdcard \/ MarkRetry \/ CountPackage \/ SyncOffsetInMisc)
    BY <1>6 DEF WipingSteps, FactoryResetPre, NothingToOverwrite, SkipPartition, OverWriteChunk, OverWriteFails,
                SyncPartition, AllOverwritten, Format, FormatFails, FactoryResetPost, InList,
                UpdaterFromSdcard, MarkRetry, Installing, CountPackage, SyncOffsetInMisc
  <2> QED
    BY <1>0, <2>1, <2>2 DEF Armed, Args, MiscTypes
<1> QED
  BY <1>1, <1>2, <1>3, <1>4, <1>5, <1>6 DEF RunSteps

\* What is in misc is a message, and nothing once misc was cleared.
LEMMA MiscTypesStep ==
  ASSUME MiscTypes, UpTypes, ErasingTypes, RunsArmed, UnlinkedLast, ModesNext
  PROVE  MiscTypes' /\ UnlinkedLast'
<1>1. kit' \in Kits /\ faults' \in Nat
  <2>1. UNCHANGED kit /\ (UNCHANGED faults \/ Fault)
    BY StepsKeep
  <2> QED
    BY <2>1 DEF MiscTypes, Fault
<1>2. CASE RunSteps
  <2>1. UNCHANGED asked
    BY <1>2, RunStepsStay
  <2>2. place' \notin {"unlink", "reboot"}
    BY <1>2, RunStepsStay DEF Run, ResetRun, CardRun, InstallRun
  <2>3. misc' \in Messages /\ UNCHANGED commandFile
    BY <1>2, NotesAre
  <2> QED
    BY <1>1, <2>1, <2>2, <2>3 DEF MiscTypes, UnlinkedLast
<1>3. ASSUME NEW request \in Requests, Ask(request) PROVE MiscTypes' /\ UnlinkedLast'
  <2>1. request \in Seq(Options) /\ <<>> \in Seq(Options)
    BY RequestsAre, NoneIsAsked DEF IsRequest
  <2>2. /\ misc' \in {[command |-> "boot_updater", args |-> request], [command |-> "boot_updater", args |-> <<>>]}
        /\ commandFile' \in {commandFile, request} /\ asked' = request /\ place' = "off"
    BY <1>3 DEF Ask
  <2>3. misc' \in Messages
    BY <2>1, <2>2, MessageIs
  <2> QED
    BY <1>1, <2>2, <2>3 DEF MiscTypes, UnlinkedLast
<1>4. CASE ClearMisc
  <2>1. misc' = NoMessage /\ UNCHANGED <<commandFile, asked>>
    BY <1>4 DEF ClearMisc, modesKept
  <2>2. NoMessage \in Messages
    BY DEF NoMessage, Messages
  <2> QED
    BY <1>1, <2>1, <2>2 DEF MiscTypes, UnlinkedLast
<1>5. CASE UnlinkCommandFile
  BY <1>1, <1>5 DEF UnlinkCommandFile, modesKept, MiscTypes, UnlinkedLast
<1>6. CASE Reboot
  <2>1. UNCHANGED <<commandFile, asked>> /\ place' = "off"
    BY <1>6 DEF Reboot, modesKept
  <2>2. NoMessage \in Messages
    BY DEF NoMessage, Messages
  <2>3. WipeAsked \in Seq(Options)
    BY WipeIsReset, OneReset
  <2>4. misc' \in Messages
    BY <1>6, <2>2, <2>3, RebootIs, MessageIs
  <2> QED
    BY <1>1, <2>1, <2>4 DEF MiscTypes, UnlinkedLast
<1>7. CASE BootUpdater \/ DoFactoryRstEntry \/ UpdaterMain \/ BootSystem \/ Idle \/ PowerCut \/ PowerOff
  <2>1. UNCHANGED <<misc, commandFile, asked>>
    BY <1>7 DEF BootSystem, BootUpdater, DoFactoryRstEntry, UpdaterMain, Idle, PowerCut, PowerOff, Off,
       modesKept,
               resetVars, resetKept
  <2>2. place' \notin {"unlink", "reboot"}
    BY <1>7, EntriesAre DEF BootSystem, BootUpdater, DoFactoryRstEntry, UpdaterMain, Idle, PowerCut,
       PowerOff, Off
  <2> QED
    BY <1>1, <2>1, <2>2 DEF MiscTypes, UnlinkedLast
<1> QED
  BY <1>2, <1>3, <1>4, <1>5, <1>6, <1>7, OtherSteps

\* A run is of a message that stays in misc, and nothing is shown before its end.
LEMMA RunsArmedStep ==
  ASSUME MiscTypes, UpTypes, ErasingTypes, RunsArmed, ModesNext
  PROVE  RunsArmed'
<1>1. CASE RunSteps
  <2>1. Armed /\ page = "none" /\ reboot = "as asked" /\ UNCHANGED <<page, reboot>>
    BY <1>1, RunStepsStay DEF RunsArmed
  <2> QED
    BY <1>1, <2>1, NotesAre DEF RunsArmed
<1>2. CASE BootUpdater
  BY <1>2 DEF BootUpdater, RunsArmed, Armed
<1>3. CASE DoFactoryRstEntry
  BY <1>3 DEF DoFactoryRstEntry, RunsArmed, Armed, Run, ResetRun, CardRun, InstallRun
<1>4. CASE place' \notin Run
  BY <1>4 DEF RunsArmed
<1>5. {"forever", "clear", "off", "system", "unlink", "reboot"} \cap Run = {}
  BY DEF Run, ResetRun, CardRun, InstallRun
<1> QED
  BY <1>1, <1>2, <1>3, <1>4, <1>5, OtherSteps
-----------------------------------------------------------------------------
(***************************************************************************)
(* The message that starts the updater is what somebody asked for, with     *)
(* what the updater noted; or it is the wipe that follows something else.   *)
(***************************************************************************)
FromRequest == \E r \in Requests \cup {<<>>} : Keeps(Args, r) /\ (asked # <<>> => r = asked)
WipeInMisc == Args = WipeAsked /\ ~AsksReset(asked)
Stems == Armed => FromRequest \/ WipeInMisc

\* What the updater was started with, and what it goes on with.
Agree(u, args, card) ==
  /\ u.reset = LastOf(args, Resets).name /\ u.bins = OptionsOf(args, "update_bin")
  /\ u.hota <=> HotaIn(args)
  /\ OnCard(u) <=> OnACard(args)
  /\ \/ u.pkgs = OptionsOf(args, "update_package")
     \/ OptionsOf(args, "update_package") = <<>> /\ OnACard(args) /\ u.pkgs = card
  /\ CardIn(args) = "" => u.ext = ""
Agrees == place \in Run => Agree(up, Args, kit.card)
Installs ==
  place \in InstallRun => up.reset = "" /\ Files(up) = FilesIn(Args, kit.card) /\ Files(up) # <<>> /\ up.loc = CountIn(Args)
FromCard ==
  place \in CardRun => /\ up.reset = "" /\ up.loc = CountIn(Args) /\ OnACard(Args)
                       /\ up.bins = <<>> /\ up.pkgs = OptionsOf(Args, "update_package")
OfVendor == place = "subpkg" => up.reset = "" /\ ~OnACard(Args) /\ up.bins = <<>> /\ up.pkgs = <<>>
Resetting ==
  /\ place \in ResetRun => up.reset \in Resets
  /\ place \in {"overwrite", "overwritten", "sync"} => up.reset \in Erasures
EndsAsAsked == AsksReset(asked) /\ place \in After => reboot = "as asked" /\ up.ext = ""

Types == MiscTypes /\ UnlinkedLast /\ UpTypes /\ ErasingTypes /\ ChunkTypes
Course == RunsArmed /\ Stems /\ Agrees /\ Installs /\ FromCard /\ OfVendor /\ Resetting /\ EndsAsAsked

\* A reset in misc stands alone.
LEMMA ResetIsAlone ==
  ASSUME MiscTypes, Stems, Armed, AsksReset(Args)
  PROVE  \E x \in Resets, n \in Nat : Args = <<Option(x, n)>>
<1>1. CASE FromRequest
  <2>1. PICK r \in Requests \cup {<<>>} : Keeps(Args, r)
    BY <1>1 DEF FromRequest
  <2> QED
    BY <2>1 DEF Keeps
<1>2. CASE WipeInMisc
  BY <1>2, WipeIsReset DEF WipeInMisc
<1> QED
  BY <1>1, <1>2 DEF Stems

\* Nobody asks for a reset with nothing.
LEMMA NothingIsNoReset == ~AsksReset(<<>>)
BY OfNone, NamesAre, FlagIs DEF AsksReset

\* A reset that was asked for is what misc asks for.
LEMMA ResetIsAsked ==
  ASSUME Stems, Armed, AsksReset(asked)
  PROVE  \E x \in Resets, n \in Nat : Args = <<Option(x, n)>> /\ asked = <<Option(x, 0)>>
<1>1. asked # <<>>
  BY NothingIsNoReset
<1>2. Keeps(Args, asked)
  BY <1>1 DEF Stems, FromRequest, WipeInMisc
<1> QED
  BY <1>2 DEF Keeps

\* A reset is asked for if one is there.
LEMMA AsksInOptions ==
  ASSUME NEW args \in Seq(Options)
  PROVE  AsksReset(args) <=> LastOf(args, Resets).name # ""
BY DEF AsksReset, Resets

\* The message stays what somebody asked for, or the wipe that follows.
LEMMA StemsStep ==
  ASSUME Types, Course, ModesNext
  PROVE  Stems'
<1>0. MiscTypes /\ UpTypes /\ ErasingTypes /\ RunsArmed /\ Stems /\ Args \in Seq(Options)
  BY ArgsAre DEF Types, Course
<1>1. CASE UNCHANGED <<misc, commandFile, asked>>
  BY <1>0, <1>1 DEF Stems, Args, Armed, FromRequest, WipeInMisc
<1>2. ASSUME NEW request \in Requests, Ask(request) PROVE Stems'
  <2>1. /\ asked' = request
        /\ \/ misc' = [command |-> "boot_updater", args |-> request] /\ UNCHANGED commandFile
           \/ misc' = [command |-> "boot_updater", args |-> <<>>] /\ commandFile' = request
    BY <1>2 DEF Ask
  <2>2. Args' = request \/ (request = <<>> /\ Args' = commandFile)
    BY <2>1 DEF Args, ParseParams
  <2>3. commandFile \in Requests \cup {<<>>}
    BY <1>0 DEF MiscTypes
  <2>4. \E r \in Requests \cup {<<>>} : Args' = r /\ (asked' # <<>> => r = asked')
    BY <2>1, <2>2, <2>3
  <2>5. PICK r \in Requests \cup {<<>>} : Args' = r /\ (asked' # <<>> => r = asked')
    BY <2>4
  <2>6. Keeps(Args', r)
    BY <2>5, RequestsAre, KeepsItself
  <2> QED
    BY <2>5, <2>6 DEF Stems, FromRequest
<1>3. ASSUME NEW name \in OwnNotes, NEW n \in Nat, Args' = Noting(Args, name, n), name = "sdcard_update" => OnACard(Args),
             LastOf(Args, Resets).name = "", UNCHANGED asked, Armed
      PROVE  Stems'
  <2>1. ~AsksReset(Args)
    BY <1>0, <1>3, AsksInOptions
  <2>2. ~WipeInMisc
    <3>1. AsksReset(WipeAsked)
      BY WipeIsReset, OneReset
    <3> QED
      BY <2>1, <3>1 DEF WipeInMisc
  <2>3. PICK r \in Requests \cup {<<>>} : Keeps(Args, r) /\ (asked # <<>> => r = asked)
    BY <1>0, <1>3, <2>2 DEF Stems, FromRequest
  <2>4. Keeps(Args', r)
    BY <1>0, <1>3, <2>1, <2>3, KeepsNoting
  <2> QED
    BY <1>3, <2>3, <2>4 DEF Stems, FromRequest
<1>4. ASSUME UpdaterFromSdcard \/ MarkRetry \/ CountPackage PROVE RunSteps /\ UNCHANGED asked /\ Armed
  <2>1. RunSteps
    BY <1>4 DEF RunSteps
  <2> QED
    BY <1>0, <2>1, RunStepsStay DEF RunsArmed
<1>5. CASE UpdaterFromSdcard
  <2>1. place = "card"
    BY <1>5 DEF UpdaterFromSdcard
  <2>2. LastOf(Args, Resets).name = "" /\ OnACard(Args)
    BY <2>1 DEF Course, Agrees, Agree, FromCard, Run, CardRun
  <2>3. Args' = Noting(Args, "sdcard_update", 0) /\ 0 \in Nat /\ "sdcard_update" \in OwnNotes
    BY <1>0, <1>4, <1>5, NotesAre DEF OwnNotes
  <2> QED
    BY <1>3, <1>4, <1>5, <2>2, <2>3
<1>6. CASE MarkRetry \/ CountPackage
  <2>1. place \in InstallRun /\ place \in Run
    BY <1>6 DEF MarkRetry, Installing, CountPackage, InstallRun, Run
  <2>2. LastOf(Args, Resets).name = ""
    BY <2>1 DEF Course, Agrees, Agree, Installs
  <2>3. "retry_count" \in OwnNotes /\ "upgraded_pkg_num" \in OwnNotes /\ "retry_count" # "sdcard_update"
        /\ "upgraded_pkg_num" # "sdcard_update"
    BY DEF OwnNotes
  <2>4. 1 \in Nat /\ up.loc + 1 \in Nat
    <3>1. up.loc \in Nat
      BY <1>0 DEF UpTypes, Params
    <3> QED
      BY <3>1
  <2>5. UNCHANGED Args \/ Args' = Noting(Args, "retry_count", 1) \/ Args' = Noting(Args, "upgraded_pkg_num", up.loc + 1)
    BY <1>0, <1>4, <1>6, NotesAre
  <2>6. CASE UNCHANGED Args
    BY <1>0, <1>4, <1>6, <2>6 DEF Stems, FromRequest, WipeInMisc
  <2>7. CASE Args' = Noting(Args, "retry_count", 1)
    BY <1>3, <1>4, <1>6, <2>2, <2>3, <2>4, <2>7
  <2>8. CASE Args' = Noting(Args, "upgraded_pkg_num", up.loc + 1)
    BY <1>3, <1>4, <1>6, <2>2, <2>3, <2>4, <2>8
  <2> QED
    BY <2>5, <2>6, <2>7, <2>8
<1>7. CASE SyncOffsetInMisc /\ UNCHANGED <<installed, asked, asks, reboot>>
  <2>0. RunSteps /\ place = "overwritten" /\ place \in Run /\ UNCHANGED asked
    BY <1>7 DEF RunSteps, SyncOffsetInMisc, Run, ResetRun
  <2>1. Args' = Noting(Args, up.reset, erasing.done) /\ erasing.done \in Nat /\ Armed
    BY <1>0, <1>7, <2>0, NotesAre DEF ErasingTypes, RunsArmed
  <2>2. up.reset = LastOf(Args, Resets).name /\ up.reset \in Erasures
    BY <2>0 DEF Course, Agrees, Agree, Resetting
  <2>3. up.reset # "" /\ up.reset \in Resets
    BY <2>2, NamesAre
  <2>4. AsksReset(Args)
    BY <1>0, <2>2, <2>3, AsksInOptions
  <2>5. ~WipeInMisc
    <3>1. LastOf(WipeAsked, Resets).name = "user_wipe_data" /\ "user_wipe_data" \notin Erasures
      BY WipeIsReset, OneReset
    <3> QED
      BY <2>2, <3>1 DEF WipeInMisc
  <2>6. PICK r \in Requests \cup {<<>>} : Keeps(Args, r) /\ (asked # <<>> => r = asked)
    BY <1>0, <2>1, <2>5 DEF Stems, FromRequest
  <2>7. PICK x \in Resets, n \in Nat : r = <<Option(x, 0)>> /\ Args = <<Option(x, n)>>
    BY <2>4, <2>6 DEF Keeps
  <2>8. x = up.reset /\ Args' = <<Option(x, erasing.done)>>
    <3>1. LastOf(Args, Resets).name = x
      BY <2>7, OneReset
    <3>2. Noting(Args, x, erasing.done) = <<Option(x, erasing.done)>>
      BY <2>1, <2>7, NotingReset
    <3>3. x = up.reset
      BY <2>2, <3>1
    <3> QED
      BY <2>1, <3>2, <3>3
  <2>9. Keeps(Args', r)
    <3>1. AsksReset(r)
      BY <2>4, <2>6 DEF Keeps
    <3> QED
      BY <2>1, <2>7, <2>8, <3>1 DEF Keeps
  <2> QED
    BY <2>0, <2>6, <2>9 DEF Stems, FromRequest
<1>8. CASE ClearMisc
  BY <1>8 DEF ClearMisc, NoMessage, Stems, Armed
<1>9. CASE UnlinkCommandFile
  <2>1. misc = NoMessage /\ UNCHANGED misc
    BY <1>9 DEF UnlinkCommandFile, Types, UnlinkedLast
  <2> QED
    BY <2>1 DEF NoMessage, Stems, Armed
<1>10. CASE Reboot
  <2>1. CASE WipeNext
    <3>1. Args' = WipeAsked /\ UNCHANGED asked
      BY <1>0, <1>10, <2>1, RebootIs DEF Reboot, modesKept
    <3>2. place \in After /\ (reboot = "wipe" \/ up.ext = "UPDATE:SDFROMDEV")
      BY <1>10, <2>1 DEF Reboot, WipeNext, After
    <3>3. ~AsksReset(asked)
      BY <3>2 DEF Course, EndsAsAsked
    <3> QED
      BY <3>1, <3>3 DEF Stems, WipeInMisc
  <2>2. CASE ~WipeNext
    BY <1>0, <1>10, <2>2, RebootIs DEF Stems
  <2> QED
    BY <2>1, <2>2
<1> QED
  BY <1>1, <1>2, <1>5, <1>6, <1>7, <1>8, <1>9, <1>10, MiscSteps
-----------------------------------------------------------------------------
\* What StartUpdater reads.
LEMMA StartIs ==
  ASSUME NEW args \in Seq(Options), NEW u, u = StartUpdater(args), NEW card
  PROVE  /\ Agree(u, args, card) /\ u.pkgs = OptionsOf(args, "update_package") /\ u.bins = OptionsOf(args, "update_bin")
         /\ u.loc = CountIn(args) /\ u.retry = RetryIn(args) /\ u.mode = ModeIn(args) /\ u.ext = Ext(CardIn(args))
<1>1. /\ u.reset = LastOf(args, Resets).name /\ u.bins = OptionsOf(args, "update_bin")
      /\ u.pkgs = OptionsOf(args, "update_package") /\ u.loc = CountIn(args) /\ u.retry = RetryIn(args)
      /\ u.mode = ModeIn(args) /\ u.ext = Ext(CardIn(args))
  BY DEF StartUpdater, Resets, CountIn, RetryIn, ModeIn, CardIn
<1>2. u.hota <=> HotaIn(args)
  BY DEF StartUpdater, HotaIn
<1>3. OnCard(u) <=> OnACard(args)
  BY <1>1 DEF OnCard, OnACard
<1>4. CardIn(args) = "" => u.ext = ""
  BY <1>1 DEF Ext
<1> QED
  BY <1>1, <1>2, <1>3, <1>4 DEF Agree

\* A note of the updater's own does not change what it was started with.
LEMMA AgreesAfterNote ==
  ASSUME NEW args \in Seq(Options), NEW n \in Nat, NEW name \in OwnNotes, NEW u, NEW card, Agree(u, args, card),
         name = "sdcard_update" => OnACard(args)
  PROVE  Agree(u, Noting(args, name, n), card) /\ (OnACard(args) <=> OnACard(Noting(args, name, n)))
<1>1. PICK new : new = Noting(args, name, n)
  OBVIOUS
<1>2. LastOf(new, Resets) = LastOf(args, Resets) /\ SameFiles(new, args) /\ (HotaIn(new) <=> HotaIn(args))
  BY <1>1, NotingOther
<1>3. (name = "sdcard_update" => CardNoted(new)) /\ (name # "sdcard_update" => SameModes(new, args))
  BY <1>1, NotingOther
<1>4. OnACard(new) <=> OnACard(args)
  BY <1>3 DEF CardNoted, SameModes
<1>5. CardIn(new) = "" => CardIn(args) = ""
  BY <1>3 DEF CardNoted, SameModes
<1> QED
  BY <1>1, <1>2, <1>4, <1>5 DEF Agree, SameFiles

\* Nor does how far an erasing has come.
LEMMA AgreesAfterOffset ==
  ASSUME NEW x \in Resets, NEW n \in Nat, NEW k \in Nat, NEW u, NEW card, Agree(u, <<Option(x, n)>>, card)
  PROVE  Agree(u, <<Option(x, k)>>, card)
<1>1. PICK a, b : a = <<Option(x, n)>> /\ b = <<Option(x, k)>>
  OBVIOUS
<1>2. /\ LastOf(a, Resets).name = x /\ OptionsOf(a, "update_bin") = <<>> /\ OptionsOf(a, "update_package") = <<>>
      /\ ~OnACard(a) /\ ~HotaIn(a) /\ CardIn(a) = ""
  BY <1>1, OneReset
<1>3. /\ LastOf(b, Resets).name = x /\ OptionsOf(b, "update_bin") = <<>> /\ OptionsOf(b, "update_package") = <<>>
      /\ ~OnACard(b) /\ ~HotaIn(b) /\ CardIn(b) = ""
  BY <1>1, OneReset
<1> QED
  BY <1>1, <1>2, <1>3 DEF Agree

\* Of the own notes of the updater each is made where it is started for it.
LEMMA OwnNotesAre ==
  ASSUME Types, Course, UpdaterFromSdcard \/ MarkRetry \/ CountPackage, ~UNCHANGED Args
  PROVE  \E name \in OwnNotes, n \in Nat :
           /\ Args' = Noting(Args, name, n) /\ (name = "sdcard_update" => OnACard(Args))
           /\ name = "sdcard_update" <=> UpdaterFromSdcard
           /\ name = "upgraded_pkg_num" <=> CountPackage
           /\ name = "upgraded_pkg_num" => n = up.loc + 1
<1>0. MiscTypes /\ UpTypes /\ ErasingTypes /\ RunsArmed /\ RunSteps
  BY DEF Types, Course, RunSteps
<1>1. CASE UpdaterFromSdcard
  <2>1. place = "card"
    BY <1>1 DEF UpdaterFromSdcard
  <2>2. OnACard(Args)
    BY <2>1 DEF Course, FromCard, CardRun
  <2>3. Args' = Noting(Args, "sdcard_update", 0) /\ 0 \in Nat /\ "sdcard_update" \in OwnNotes
    BY <1>0, <1>1, NotesAre DEF OwnNotes
  <2>4. ~CountPackage
    BY <2>1 DEF CountPackage
  <2> QED
    BY <1>1, <2>2, <2>3, <2>4
<1>2. CASE MarkRetry
  <2>1. Args' = Noting(Args, "retry_count", 1) /\ 1 \in Nat /\ "retry_count" \in OwnNotes
    BY <1>0, <1>2, NotesAre DEF OwnNotes
  <2>2. ~CountPackage /\ ~UpdaterFromSdcard
    BY <1>2 DEF MarkRetry, Installing, CountPackage, UpdaterFromSdcard
  <2> QED
    BY <2>1, <2>2
<1>3. CASE CountPackage
  <2>1. up.loc \in Nat
    BY <1>0 DEF UpTypes, Params
  <2>2. up.loc + 1 \in Nat
    BY <2>1
  <2>3. Args' = Noting(Args, "upgraded_pkg_num", up.loc + 1) /\ "upgraded_pkg_num" \in OwnNotes
    BY <1>0, <1>3, NotesAre DEF OwnNotes
  <2>4. ~UpdaterFromSdcard
    BY <1>3 DEF CountPackage, UpdaterFromSdcard
  <2> QED
    BY <1>3, <2>2, <2>3, <2>4
<1> QED
  BY <1>1, <1>2, <1>3

\* What an erasing notes is all that misc says of it.
LEMMA OffsetIsNoted ==
  ASSUME Types, Course, SyncOffsetInMisc, RunSteps
  PROVE  \E n \in Nat : /\ up.reset \in Resets /\ up.reset \in Erasures /\ erasing.done \in Nat
                        /\ Args = <<Option(up.reset, n)>> /\ Args' = <<Option(up.reset, erasing.done)>>
<1>0. MiscTypes /\ UpTypes /\ ErasingTypes /\ RunsArmed /\ Stems /\ Args \in Seq(Options)
  BY ArgsAre DEF Types, Course
<1>1. place = "overwritten" /\ place \in Run
  BY DEF SyncOffsetInMisc, Run, ResetRun
<1>2. Args' = Noting(Args, up.reset, erasing.done) /\ erasing.done \in Nat /\ Armed
  BY <1>0, <1>1, NotesAre DEF ErasingTypes, RunsArmed
<1>3. up.reset = LastOf(Args, Resets).name /\ up.reset \in Erasures
  BY <1>1 DEF Course, Agrees, Agree, Resetting
<1>4. up.reset # "" /\ up.reset \in Resets
  BY <1>3, NamesAre
<1>5. AsksReset(Args)
  BY <1>0, <1>3, <1>4, AsksInOptions
<1>6. PICK x \in Resets, n \in Nat : Args = <<Option(x, n)>>
  BY <1>0, <1>2, <1>5, ResetIsAlone
<1>7. LastOf(Args, Resets).name = x
  BY <1>6, OneReset
<1>8. x = up.reset
  BY <1>3, <1>7
<1>9. Noting(Args, x, erasing.done) = <<Option(x, erasing.done)>>
  BY <1>2, <1>6, NotingReset
<1> QED
  BY <1>2, <1>3, <1>4, <1>6, <1>8, <1>9
-----------------------------------------------------------------------------
(***************************************************************************)
(* The updater does what the message says, however often it is started.    *)
(***************************************************************************)
\* In a run the parameters stay, but what FindAndMountSdcard and CountPackage set.
LEMMA UpInRun ==
  ASSUME ModesNext, RunSteps, ~FindAndMountSdcard, ~CountPackage
  PROVE  UNCHANGED up
<1>1. place \in Run /\ place' \in Run
  BY RunStepsStay
<1>2. ~BootUpdater /\ ~PowerCut /\ ~PowerOff
  BY <1>1 DEF BootUpdater, PowerCut, PowerOff, Off, Run, ResetRun, CardRun, InstallRun
<1> QED
  BY <1>2, UpSteps

\* What may change of the parameters in a run: the packages that are on a card, and the
\* place in the list.
LEMMA UpStaysParams ==
  ASSUME UpTypes, ModesNext, RunSteps
  PROVE  /\ ~CountPackage => UNCHANGED up.loc
         /\ ~FindAndMountSdcard => UNCHANGED up.pkgs
         /\ UNCHANGED <<up.reset, up.bins, up.hota, up.mode, up.ext, up.retry, up.night>>
<1>1. CASE FindAndMountSdcard
  <2>1. up' = [up EXCEPT !.pkgs = IF up.pkgs = <<>> THEN kit.card ELSE up.pkgs]
    BY <1>1 DEF FindAndMountSdcard
  <2> QED
    BY <1>1, <2>1 DEF UpTypes, Params
<1>2. CASE CountPackage
  <2>1. UNCHANGED up \/ up' = [up EXCEPT !.loc = up.loc + 1]
    BY <1>2 DEF CountPackage
  <2> QED
    BY <1>2, <2>1 DEF UpTypes, Params
<1>3. CASE ~FindAndMountSdcard /\ ~CountPackage
  BY <1>3, UpInRun
<1> QED
  BY <1>1, <1>2, <1>3

\* The parameters stay what misc says.
LEMMA AgreesStep ==
  ASSUME Types, Course, ModesNext
  PROVE  Agrees'
<1>0. MiscTypes /\ UpTypes /\ ErasingTypes /\ RunsArmed /\ Stems /\ Args \in Seq(Options) /\ UNCHANGED kit
  BY ArgsAre, StepsKeep DEF Types, Course
<1>1. CASE RunSteps
  <2>0. Agree(up, Args, kit.card)
    BY <1>1, RunStepsStay DEF Course, Agrees
  <2>1. CASE FindAndMountSdcard
    <3>1. place = "find" /\ up' = [up EXCEPT !.pkgs = IF up.pkgs = <<>> THEN kit.card ELSE up.pkgs]
      BY <2>1 DEF FindAndMountSdcard
    <3>2. OnACard(Args) /\ up.pkgs = OptionsOf(Args, "update_package")
      BY <3>1 DEF Course, FromCard, CardRun
    <3>3. up'.pkgs = IF up.pkgs = <<>> THEN kit.card ELSE up.pkgs
      BY <1>0, <3>1 DEF UpTypes, Params
    <3>4. UNCHANGED Args
      <4>1. ~(UpdaterFromSdcard \/ MarkRetry \/ CountPackage \/ SyncOffsetInMisc)
        BY <3>1 DEF UpdaterFromSdcard, MarkRetry, Installing, CountPackage, SyncOffsetInMisc
      <4> QED
        BY <1>0, <1>1, <4>1, NotesAre
    <3>5. UNCHANGED <<up.reset, up.bins, up.hota, up.mode, up.ext>>
      BY <1>0, <1>1, UpStaysParams
    <3> QED
      BY <1>0, <2>0, <3>2, <3>3, <3>4, <3>5 DEF Agrees, Agree, OnCard
  <2>2. CASE ~FindAndMountSdcard
    <3>1. UNCHANGED <<up.reset, up.bins, up.hota, up.mode, up.ext, up.pkgs>>
      BY <1>0, <1>1, <2>2, UpStaysParams
    <3>2. Agree(up', Args, kit.card)
      BY <2>0, <3>1 DEF Agree, OnCard
    <3>3. CASE UNCHANGED Args
      BY <1>0, <3>2, <3>3 DEF Agrees
    <3>4. CASE (UpdaterFromSdcard \/ MarkRetry \/ CountPackage) /\ ~UNCHANGED Args
      <4>1. PICK name \in OwnNotes, n \in Nat : Args' = Noting(Args, name, n) /\ (name = "sdcard_update" => OnACard(Args))
        BY <3>4, OwnNotesAre
      <4>2. Agree(up', Args', kit.card)
        BY <1>0, <3>2, <4>1, AgreesAfterNote
      <4> QED
        BY <1>0, <4>2 DEF Agrees
    <3>5. CASE SyncOffsetInMisc
      <4>1. PICK n \in Nat : /\ up.reset \in Resets /\ erasing.done \in Nat
                             /\ Args = <<Option(up.reset, n)>> /\ Args' = <<Option(up.reset, erasing.done)>>
        BY <1>1, <3>5, OffsetIsNoted
      <4>2. Agree(up', Args', kit.card)
        BY <3>2, <4>1, AgreesAfterOffset
      <4> QED
        BY <1>0, <4>2 DEF Agrees
    <3> QED
      BY <1>0, <1>1, <3>3, <3>4, <3>5, NotesAre
  <2> QED
    BY <2>1, <2>2
<1>2. CASE BootUpdater
  <2>1. up' = StartUpdater(Args) /\ UNCHANGED Args
    BY <1>0, <1>2, BeginErasing
  <2>2. Agree(up', Args, kit.card)
    BY <1>0, <2>1, StartIs
  <2> QED
    BY <1>0, <2>1, <2>2 DEF Agrees
<1>3. CASE DoFactoryRstEntry
  <2>1. UNCHANGED <<up, misc, commandFile>> /\ place \in Run
    BY <1>3 DEF DoFactoryRstEntry, modesKept, Run, ResetRun
  <2>2. UNCHANGED Args
    BY <2>1 DEF Args
  <2> QED
    BY <1>0, <2>1, <2>2 DEF Agrees, Course
<1>4. CASE place' \notin Run
  BY <1>4 DEF Agrees
<1>5. {"forever", "clear", "off", "system", "unlink", "reboot"} \cap Run = {}
  BY DEF Run, ResetRun, CardRun, InstallRun
<1> QED
  BY <1>1, <1>2, <1>3, <1>4, <1>5, OtherSteps

\* Where a run begins.
LEMMA EntryIs ==
  ASSUME Types, Course, BootUpdater
  PROVE  /\ Armed /\ UNCHANGED <<Args, kit>> /\ Agree(up', Args, kit.card)
         /\ up'.pkgs = OptionsOf(Args, "update_package") /\ up'.bins = OptionsOf(Args, "update_bin") /\ up'.loc = CountIn(Args)
         /\ up'.retry = RetryIn(Args) /\ up'.mode = ModeIn(Args) /\ up'.ext = Ext(CardIn(Args))
         /\ place' = DoUpdaterEntry(up')
         /\ AsksReset(Args) => place' = "reset" /\ up'.reset \in Resets
         /\ ~AsksReset(Args) => place' # "reset" /\ up'.reset = ""
<1>0. MiscTypes /\ Stems /\ Args \in Seq(Options) /\ Armed
  BY ArgsAre DEF Types, Course, BootUpdater, Armed
<1>1. up' = StartUpdater(Args) /\ UNCHANGED <<Args, kit>>
  BY <1>0, BeginErasing
<1>2. /\ Agree(up', Args, kit.card)
      /\ up'.pkgs = OptionsOf(Args, "update_package") /\ up'.bins = OptionsOf(Args, "update_bin") /\ up'.loc = CountIn(Args)
      /\ up'.retry = RetryIn(Args) /\ up'.mode = ModeIn(Args) /\ up'.ext = Ext(CardIn(Args))
  BY <1>0, <1>1, StartIs
<1>3. place' = DoUpdaterEntry(up')
  BY DEF BootUpdater
<1>4. ASSUME AsksReset(Args) PROVE place' = "reset" /\ up'.reset \in Resets
  <2>1. PICK x \in Resets, n \in Nat : Args = <<Option(x, n)>>
    BY <1>0, <1>4, ResetIsAlone
  <2>2. /\ LastOf(Args, Resets).name = x /\ OptionsOf(Args, "update_bin") = <<>>
        /\ OptionsOf(Args, "update_package") = <<>> /\ ModeIn(Args) = "" /\ ~OnACard(Args)
    BY <2>1, OneReset
  <2>3. x # ""
    BY NamesAre
  <2> QED
    BY <1>2, <1>3, <2>2, <2>3 DEF DoUpdaterEntry, Agree
<1>5. ASSUME ~AsksReset(Args) PROVE place' # "reset" /\ up'.reset = ""
  <2>1. up'.reset = ""
    BY <1>0, <1>2, <1>5, AsksInOptions DEF Agree
  <2> QED
    BY <1>3, <2>1 DEF DoUpdaterEntry
<1> QED
  BY <1>0, <1>1, <1>2, <1>3, <1>4, <1>5

\* What a note that is not of a card leaves of the message.
LEMMA NotedModes ==
  ASSUME NEW args \in Seq(Options), NEW n \in Nat, NEW name \in OwnNotes, NEW card, name # "sdcard_update"
  PROVE  /\ SameModes(Noting(args, name, n), args) /\ FilesIn(Noting(args, name, n), card) = FilesIn(args, card)
         /\ name # "upgraded_pkg_num" => CountIn(Noting(args, name, n)) = CountIn(args)
         /\ name = "upgraded_pkg_num" => CountIn(Noting(args, name, n)) = n
<1>1. PICK new : new = Noting(args, name, n)
  OBVIOUS
<1>2. SameModes(new, args) /\ SameFiles(new, args)
  BY <1>1, NotingOther
<1>3. name # "upgraded_pkg_num" => CountIn(new) = CountIn(args)
  BY <1>1, NotingOther
<1>4. name = "upgraded_pkg_num" => CountIn(new) = n
  BY <1>1, NotingOther
<1>5. FilesIn(new, card) = FilesIn(args, card)
  BY <1>2 DEF SameModes, SameFiles, FilesIn
<1> QED
  BY <1>1, <1>2, <1>3, <1>4, <1>5

\* What is being installed stays what misc names, from where it was counted to.
LEMMA InstallsStep ==
  ASSUME Types, Course, ModesNext
  PROVE  Installs'
<1>0. MiscTypes /\ UpTypes /\ ErasingTypes /\ RunsArmed /\ Args \in Seq(Options) /\ UNCHANGED kit
  BY ArgsAre, StepsKeep DEF Types, Course
<1>1. CASE BootUpdater /\ place' \in InstallRun
  <2>1. place' = DoUpdaterEntry(up') /\ place' # "reset"
    BY <1>1, EntryIs DEF InstallRun
  <2>2. Agree(up', Args, kit.card) /\ up'.pkgs = OptionsOf(Args, "update_package") /\ up'.loc = CountIn(Args)
        /\ UNCHANGED Args /\ up'.bins = OptionsOf(Args, "update_bin")
    BY <1>1, EntryIs
  <2>3. up'.reset = ""
    BY <1>1, <2>1, EntryIs
  <2>4. up'.bins # <<>> \/ (up'.pkgs # <<>> /\ ~OnCard(up'))
    BY <1>1, <2>1 DEF DoUpdaterEntry, InstallRun
  <2>5. Files(up') = FilesIn(Args, kit.card) /\ Files(up') # <<>>
    BY <2>2, <2>4 DEF Files, FilesIn
  <2> QED
    BY <1>0, <2>2, <2>3, <2>5 DEF Installs
<1>2. CASE FindAndMountSdcard
  <2>1. place = "find" /\ place' = "pre" /\ (kit.card # <<>> \/ up.pkgs # <<>>) /\ RunSteps
        /\ up' = [up EXCEPT !.pkgs = IF up.pkgs = <<>> THEN kit.card ELSE up.pkgs]
    BY <1>2 DEF FindAndMountSdcard, RunSteps
  <2>2. /\ up.reset = "" /\ up.loc = CountIn(Args) /\ OnACard(Args)
        /\ up.bins = <<>> /\ up.pkgs = OptionsOf(Args, "update_package")
    BY <2>1 DEF Course, FromCard, CardRun
  <2>3. UNCHANGED <<up.reset, up.bins, up.loc, Args>>
    <3>1. ~(UpdaterFromSdcard \/ MarkRetry \/ CountPackage \/ SyncOffsetInMisc)
      BY <2>1 DEF UpdaterFromSdcard, MarkRetry, Installing, CountPackage, SyncOffsetInMisc
    <3> QED
      BY <1>0, <2>1, <3>1, NotesAre, UpStaysParams
  <2>4. up'.pkgs = IF up.pkgs = <<>> THEN kit.card ELSE up.pkgs
    BY <1>0, <2>1 DEF UpTypes, Params
  <2>5. OptionsOf(Args, "update_bin") = <<>>
    BY <2>1, <2>2 DEF Course, Agrees, Agree, Run, CardRun
  <2>6. Files(up') = FilesIn(Args, kit.card) /\ Files(up') # <<>>
    BY <2>1, <2>2, <2>3, <2>4, <2>5 DEF Files, FilesIn
  <2> QED
    BY <1>0, <2>2, <2>3, <2>6 DEF Installs
<1>3. CASE PreUpdate \/ InstallPackage
  <2>1. place \in InstallRun /\ RunSteps /\ ~(UpdaterFromSdcard \/ MarkRetry \/ CountPackage \/ SyncOffsetInMisc) /\ UNCHANGED up
    BY <1>3 DEF PreUpdate, InstallPackage, InstallRun, RunSteps, InstallSteps, UpdaterFromSdcard, MarkRetry,
       Installing, CountPackage, SyncOffsetInMisc
  <2>2. UNCHANGED Args
    BY <1>0, <2>1, NotesAre
  <2> QED
    BY <1>0, <2>1, <2>2 DEF Course, Installs
<1>4. CASE MarkRetry
  <2>1. place \in InstallRun /\ UNCHANGED up /\ RunSteps /\ ~UpdaterFromSdcard /\ ~CountPackage
    BY <1>4 DEF MarkRetry, Installing, InstallRun, RunSteps, UpdaterFromSdcard, CountPackage
  <2>2. CASE UNCHANGED Args
    BY <1>0, <2>1, <2>2 DEF Course, Installs
  <2>3. CASE ~UNCHANGED Args
    <3>1. PICK name \in OwnNotes, n \in Nat :
             /\ Args' = Noting(Args, name, n) /\ (name = "sdcard_update" <=> UpdaterFromSdcard)
             /\ name = "upgraded_pkg_num" <=> CountPackage
      BY <1>4, <2>3, OwnNotesAre
    <3>2. name # "sdcard_update" /\ name # "upgraded_pkg_num"
      BY <2>1, <3>1
    <3>3. SameModes(Args', Args) /\ CountIn(Args') = CountIn(Args) /\ FilesIn(Args', kit.card) = FilesIn(Args, kit.card)
      BY <1>0, <3>1, <3>2, NotedModes
    <3> QED
      BY <1>0, <2>1, <3>3 DEF Course, Installs
  <2> QED
    BY <2>2, <2>3
<1>5. CASE CountPackage
  <2>1. place \in InstallRun /\ RunSteps /\ ~UpdaterFromSdcard
    BY <1>5 DEF CountPackage, InstallRun, RunSteps, UpdaterFromSdcard
  <2>2. CASE place' \in InstallRun
    <3>1. up' = [up EXCEPT !.loc = up.loc + 1]
      BY <1>5, <2>2 DEF CountPackage, InstallRun
    <3>2. up'.loc = up.loc + 1 /\ Files(up') = Files(up) /\ up'.reset = up.reset
      BY <1>0, <3>1 DEF UpTypes, Params, Files
    <3>3. Args' = Noting(Args, "upgraded_pkg_num", up.loc + 1)
      BY <1>0, <1>5, <2>1, NotesAre
    <3>4. "upgraded_pkg_num" \in OwnNotes /\ "upgraded_pkg_num" # "sdcard_update"
      BY DEF OwnNotes
    <3>5. up.loc \in Nat
      BY <1>0 DEF UpTypes, Params
    <3>6. up.loc + 1 \in Nat
      BY <3>5
    <3>7. CountIn(Args') = up.loc + 1 /\ FilesIn(Args', kit.card) = FilesIn(Args, kit.card)
      BY <1>0, <3>3, <3>4, <3>6, NotedModes
    <3> QED
      BY <1>0, <2>1, <3>2, <3>7 DEF Course, Installs
  <2> QED
    BY <2>2 DEF Installs
<1>6. CASE place' \notin InstallRun
  BY <1>6 DEF Installs
<1>7. ASSUME UpdaterFromSdcard \/ NoSdcard \/ PreFails \/ InstallFails \/ AllInstalled \/ Post \/ UpdateSubPkg \/ SyncOffsetInMisc
      PROVE  place' \notin InstallRun
  BY <1>7 DEF UpdaterFromSdcard, NoSdcard, PreFails, InstallFails, AllInstalled, Post, UpdateSubPkg,
     SyncOffsetInMisc, InstallRun
<1>8. ASSUME WipingSteps \/ DoFactoryRstEntry PROVE place' \notin InstallRun
  BY <1>8 DEF WipingSteps, FactoryResetPre, NothingToOverwrite, SkipPartition, OverWriteChunk, OverWriteFails,
              SyncPartition, AllOverwritten, Format, FormatFails, FactoryResetPost, FailReset, InList,
              DoFactoryRstEntry, InstallRun
<1>9. {"forever", "clear", "off", "system", "unlink", "reboot"} \cap InstallRun = {}
  BY DEF InstallRun
<1> QED
  BY <1>1, <1>2, <1>3, <1>4, <1>5, <1>6, <1>7, <1>8, <1>9, OtherSteps DEF RunSteps, InstallSteps
\* The packages of a card are looked for where a card was asked for, and none is known.
LEMMA FromCardStep ==
  ASSUME Types, Course, ModesNext
  PROVE  FromCard'
<1>0. MiscTypes /\ UpTypes /\ ErasingTypes /\ RunsArmed /\ Args \in Seq(Options) /\ UNCHANGED kit
  BY ArgsAre, StepsKeep DEF Types, Course
<1>1. CASE BootUpdater /\ place' \in CardRun
  <2>1. /\ UNCHANGED Args /\ Agree(up', Args, kit.card) /\ place' = DoUpdaterEntry(up') /\ up'.loc = CountIn(Args)
        /\ up'.pkgs = OptionsOf(Args, "update_package")
    BY <1>1, EntryIs
  <2>2. place' # "reset" /\ ~(AsksReset(Args) /\ place' # "reset")
    BY <1>1, EntryIs DEF CardRun
  <2>3. up'.reset = ""
    BY <1>1, <2>2, EntryIs
  <2>4. up'.bins = <<>> /\ OnCard(up')
    BY <1>1, <2>1 DEF DoUpdaterEntry, CardRun
  <2> QED
    BY <2>1, <2>3, <2>4 DEF FromCard, Agree
<1>2. CASE UpdaterFromSdcard
  <2>1. place = "card" /\ RunSteps /\ ~FindAndMountSdcard /\ ~CountPackage
    BY <1>2 DEF UpdaterFromSdcard, RunSteps, FindAndMountSdcard, CountPackage
  <2>2. UNCHANGED up
    BY <2>1, UpInRun
  <2>3. /\ up.reset = "" /\ up.loc = CountIn(Args) /\ OnACard(Args)
        /\ up.bins = <<>> /\ up.pkgs = OptionsOf(Args, "update_package")
    BY <2>1 DEF Course, FromCard, CardRun
  <2>4. PICK new : new = Noting(Args, "sdcard_update", 0)
    OBVIOUS
  <2>5. "sdcard_update" \in OwnNotes /\ 0 \in Nat /\ "sdcard_update" # "upgraded_pkg_num"
    BY DEF OwnNotes
  <2>6. CardNoted(new) /\ SameFiles(new, Args) /\ CountIn(new) = CountIn(Args)
    <3>1. CardNoted(new)
      BY <1>0, <2>4, <2>5, NotingOther
    <3>2. SameFiles(new, Args)
      BY <1>0, <2>4, <2>5, NotingOther
    <3>3. CountIn(new) = CountIn(Args)
      BY <1>0, <2>4, <2>5, NotingOther
    <3> QED
      BY <3>1, <3>2, <3>3
  <2>7. Args' = new
    BY <1>0, <1>2, <2>1, <2>4, NotesAre
  <2> QED
    BY <2>2, <2>3, <2>6, <2>7 DEF FromCard, CardNoted, SameFiles
<1>3. ASSUME InstallSteps \/ FindAndMountSdcard \/ NoSdcard \/ MarkRetry \/ CountPackage \/ SyncOffsetInMisc PROVE place' \notin CardRun
  BY <1>3 DEF InstallSteps, PreUpdate, PreFails, InstallPackage, InstallFails, AllInstalled, Post, UpdateSubPkg,
              FindAndMountSdcard, NoSdcard, MarkRetry, CountPackage, SyncOffsetInMisc, CardRun
<1>4. ASSUME WipingSteps \/ DoFactoryRstEntry PROVE place' \notin CardRun
  BY <1>4 DEF WipingSteps, FactoryResetPre, NothingToOverwrite, SkipPartition, OverWriteChunk, OverWriteFails,
              SyncPartition, AllOverwritten, Format, FormatFails, FactoryResetPost, FailReset, InList,
              DoFactoryRstEntry, CardRun
<1>5. {"forever", "clear", "off", "system", "unlink", "reboot"} \cap CardRun = {}
  BY DEF CardRun
<1>6. CASE place' \notin CardRun
  BY <1>6 DEF FromCard
<1> QED
  BY <1>1, <1>2, <1>3, <1>4, <1>5, <1>6, OtherSteps DEF RunSteps

\* A vendor's package is updated where nothing else was asked for.
LEMMA OfVendorStep ==
  ASSUME Types, Course, ModesNext
  PROVE  OfVendor'
<1>1. CASE BootUpdater /\ place' = "subpkg"
  <2>1. /\ UNCHANGED Args /\ Agree(up', Args, kit.card) /\ place' = DoUpdaterEntry(up')
        /\ up'.pkgs = OptionsOf(Args, "update_package")
    BY <1>1, EntryIs
  <2>2. up'.reset = ""
    BY <1>1, EntryIs
  <2>3. up'.bins = <<>> /\ ~OnCard(up') /\ up'.pkgs = <<>>
    BY <1>1, <2>1 DEF DoUpdaterEntry
  <2> QED
    BY <2>1, <2>2, <2>3 DEF OfVendor, Agree
<1>2. CASE RunSteps
  BY <1>2, RunStepsStay DEF OfVendor
<1>3. CASE DoFactoryRstEntry
  BY <1>3 DEF DoFactoryRstEntry, OfVendor
<1>4. CASE place' # "subpkg"
  BY <1>4 DEF OfVendor
<1> QED
  BY <1>1, <1>2, <1>3, <1>4, OtherSteps

\* The places of a wiping are left one after the other.
LEMMA WipingPlaces ==
  ASSUME WipingSteps \/ SyncOffsetInMisc
  PROVE  /\ place \in ResetRun \ {"reset done", "reset failed"} /\ UNCHANGED up
         /\ place' \in {"overwrite", "overwritten", "sync"} =>
              place \in {"overwrite", "overwritten", "sync"} \/ (place = "reset" /\ up.reset \in Erasures)
<1>1. UNCHANGED up
  BY WipingKeeps DEF resetKept, SyncOffsetInMisc
<1>2. CASE FactoryResetPre \/ Format \/ FormatFails \/ FactoryResetPost
  BY <1>1, <1>2 DEF FactoryResetPre, Format, FormatFails, FactoryResetPost, FailReset, ResetRun
<1>3. CASE NothingToOverwrite \/ SkipPartition \/ OverWriteChunk \/ OverWriteFails \/ SyncOffsetInMisc \/ SyncPartition \/ AllOverwritten
  BY <1>1, <1>3 DEF NothingToOverwrite, SkipPartition, OverWriteChunk, OverWriteFails, SyncOffsetInMisc,
              SyncPartition, AllOverwritten, InList, ResetRun
<1> QED
  BY <1>2, <1>3 DEF WipingSteps

\* A reset is done where one was asked for, and an erasing where that was an erasure.
LEMMA ResettingStep ==
  ASSUME Types, Course, ModesNext
  PROVE  Resetting'
<1>1. CASE BootUpdater
  <2>1. place' \in {"pre", "card", "subpkg", "reset", "ended"}
    BY <1>1, EntriesAre DEF BootUpdater
  <2>2. place' = "reset" => up'.reset \in Resets
    BY <1>1, EntryIs
  <2> QED
    BY <2>1, <2>2 DEF Resetting, ResetRun
<1>2. CASE WipingSteps \/ SyncOffsetInMisc
  <2>1. place \in ResetRun => up.reset \in Resets
    BY DEF Course, Resetting
  <2>2. place \in {"overwrite", "overwritten", "sync"} => up.reset \in Erasures
    BY DEF Course, Resetting
  <2> QED
    BY <1>2, <2>1, <2>2, WipingPlaces DEF Resetting
<1>3. ASSUME InstallSteps \/ FindAndMountSdcard \/ NoSdcard \/ MarkRetry \/ CountPackage \/ UpdaterFromSdcard \/ DoFactoryRstEntry
      PROVE  place' \notin ResetRun
  BY <1>3 DEF InstallSteps, PreUpdate, PreFails, InstallPackage, InstallFails, AllInstalled, Post, UpdateSubPkg,
              FindAndMountSdcard, NoSdcard, MarkRetry, CountPackage, UpdaterFromSdcard, DoFactoryRstEntry,
              ResetRun
<1>4. {"forever", "clear", "off", "system", "unlink", "reboot"} \cap ResetRun = {} /\ {"overwrite", "overwritten", "sync"} \subseteq ResetRun
  BY DEF ResetRun
<1>5. CASE place' \notin ResetRun
  BY <1>4, <1>5 DEF Resetting
<1> QED
  BY <1>1, <1>2, <1>3, <1>4, <1>5, OtherSteps DEF RunSteps

\* After a reset that was asked for the system is started, or somebody is waited for.
LEMMA ResetEnds ==
  ASSUME Types, Course, AsksReset(asked), place \in Run
  PROVE  up.ext = "" /\ PackageMode(up) = "unknown" /\ Ending \in {"wait", "as asked"} /\ reboot = "as asked"
<1>1. MiscTypes /\ Stems /\ Armed /\ Agree(up, Args, kit.card) /\ reboot = "as asked"
  BY DEF Types, Course, RunsArmed, Agrees
<1>2. PICK x \in Resets, n \in Nat : Args = <<Option(x, n)>>
  BY <1>1, ResetIsAsked
<1>3. ~OnACard(Args) /\ ~HotaIn(Args) /\ CardIn(Args) = ""
  BY <1>2, OneReset
<1>4. PackageMode(up) = "unknown" /\ up.ext = ""
  BY <1>1, <1>3 DEF PackageMode, Agree
<1>5. Ending \in {"wait", "as asked"}
  BY <1>4 DEF Ending
<1> QED
  BY <1>1, <1>4, <1>5

\* A reset is not followed by another.
LEMMA EndsAsAskedStep ==
  ASSUME Types, Course, ModesNext
  PROVE  EndsAsAsked'
<1>1. CASE UpdaterMain /\ AsksReset(asked)
  <2>1. place \in Run
    BY <1>1 DEF UpdaterMain, Run
  <2>2. up.ext = "" /\ Ending \in {"wait", "as asked"} /\ reboot = "as asked"
    BY <1>1, <2>1, ResetEnds
  <2>3. UNCHANGED up /\ reboot' = IF Ending = "wait" THEN reboot ELSE Ending
    BY <1>1 DEF UpdaterMain
  <2> QED
    BY <2>2, <2>3 DEF EndsAsAsked
<1>2. CASE ClearMisc \/ UnlinkCommandFile
  <2>1. place \in After /\ UNCHANGED <<up, reboot, asked>>
    BY <1>2 DEF ClearMisc, UnlinkCommandFile, modesKept, After
  <2> QED
    BY <2>1 DEF Course, EndsAsAsked
<1>3. After \cap (Run \cup {"forever", "off", "system"}) = {} /\ {"pre", "card", "subpkg", "reset", "ended"} \subseteq Run
  BY DEF After, Run, ResetRun, CardRun, InstallRun
<1>4. CASE DoFactoryRstEntry
  BY <1>4 DEF DoFactoryRstEntry, After, EndsAsAsked
<1>5. CASE RunSteps
  BY <1>3, <1>5, RunStepsStay DEF EndsAsAsked
<1>6. CASE place' \notin After
  BY <1>6 DEF EndsAsAsked
<1>7. CASE UpdaterMain /\ ~AsksReset(asked)
  <2>1. UNCHANGED asked
    BY <1>7 DEF UpdaterMain, modesKept
  <2> QED
    BY <1>7, <2>1 DEF EndsAsAsked
<1> QED
  BY <1>1, <1>2, <1>3, <1>4, <1>5, <1>6, <1>7, OtherSteps

\* What holds of the modes from the start, and goes on to.
LEMMA CourseStarts ==
  ASSUME ModesInit, faults = 0
  PROVE  Types /\ Course
<1>1. MiscTypes /\ UnlinkedLast
  BY MiscTypesInit
<1>2. place = "system" /\ misc = NoMessage /\ erasing = NoErasure /\ chunk = OldChunks /\ lists = {} /\ up = NoParams
  BY DEF ModesInit
<1>3. UpTypes
  BY <1>2, NoParamsIs DEF UpTypes
<1>4. ErasingTypes
  <2>1. <<>> \in Seq(Partitions) /\ 0 \in Nat /\ 1 \in Nat \ {0}
    OBVIOUS
  <2>2. IsFiniteSet({})
    BY FS_EmptySet
  <2> QED
    BY <1>2, <2>1, <2>2 DEF ErasingTypes, NoErasure
<1>5. ChunkTypes
  BY <1>2 DEF ChunkTypes, OldChunks, Contents
<1>6. place \notin Run /\ place \notin ResetRun /\ place \notin CardRun /\ place \notin InstallRun /\ place \notin After
  BY <1>2 DEF Run, ResetRun, CardRun, InstallRun, After
<1>7. ~Armed
  BY <1>2 DEF Armed, NoMessage
<1> QED
  BY <1>1, <1>2, <1>3, <1>4, <1>5, <1>6, <1>7 DEF Types, Course, RunsArmed, Stems, Agrees, Installs,
     FromCard, OfVendor,
     Resetting, EndsAsAsked

\* Types and course are kept together.
LEMMA CourseStep ==
  ASSUME Types, Course, ModesNext
  PROVE  Types' /\ Course'
<1>1. MiscTypes' /\ UnlinkedLast' /\ UpTypes' /\ ErasingTypes' /\ ChunkTypes' /\ RunsArmed'
  BY MiscTypesStep, UpTypesStep, ErasingTypesStep, ChunkTypesStep, RunsArmedStep DEF Types, Course
<1> QED
  BY <1>1, StemsStep, AgreesStep, InstallsStep, FromCardStep, OfVendorStep, ResettingStep,
     EndsAsAskedStep DEF Types, Course
-----------------------------------------------------------------------------
(***************************************************************************)
(* What the status says in each place.                                     *)
(***************************************************************************)
StatusIs ==
  /\ place \in CardRun \cup InstallRun \cup {"reset", "subpkg"} => status = "unknown"
  /\ place \in {"overwrite", "overwritten", "sync"} => status = "success"
  /\ place = "format" => status \in {"success", "error"}
  /\ place \in {"reset post", "reset done"} => status = "success" /\ userdata = "empty"
  /\ place = "reset failed" => status = "error"

\* The status is kept to what its place says.
LEMMA StatusStep ==
  ASSUME StatusIs, ModesNext
  PROVE  StatusIs'
<1>1. CASE BootUpdater
  <2>1. place' \in {"pre", "card", "subpkg", "reset", "ended"} /\ status' = "unknown"
    BY <1>1, EntriesAre DEF BootUpdater
  <2> QED
    BY <2>1 DEF StatusIs
<1>2. CASE UpdaterFromSdcard \/ FindAndMountSdcard \/ MarkRetry
  BY <1>2 DEF UpdaterFromSdcard, FindAndMountSdcard, MarkRetry, Installing, StatusIs, CardRun, InstallRun
<1>3. CASE PreUpdate \/ InstallPackage
  BY <1>3 DEF PreUpdate, InstallPackage, StatusIs, CardRun, InstallRun
<1>4. CASE CountPackage
  BY <1>4 DEF CountPackage, StatusIs, CardRun, InstallRun
<1>5. CASE NoSdcard \/ PreFails \/ InstallFails \/ AllInstalled \/ Post \/ UpdateSubPkg \/ DoFactoryRstEntry
  <2>1. place' \in {"post", "ended", "forever"}
    BY <1>5 DEF NoSdcard, PreFails, InstallFails, AllInstalled, Post, UpdateSubPkg, DoFactoryRstEntry
  <2> QED
    BY <2>1 DEF StatusIs, CardRun, InstallRun
<1>6. CASE FactoryResetPre
  BY <1>6 DEF FactoryResetPre, FailReset, StatusIs, CardRun, InstallRun
<1>7. CASE NothingToOverwrite \/ OverWriteFails
  BY <1>7 DEF NothingToOverwrite, OverWriteFails, StatusIs, CardRun, InstallRun
<1>8. CASE SkipPartition \/ OverWriteChunk \/ SyncOffsetInMisc \/ SyncPartition \/ AllOverwritten
  <2>1. place \in {"overwrite", "overwritten", "sync"} /\ UNCHANGED status /\ place' \in {"overwrite", "overwritten", "sync", "format"}
    BY <1>8 DEF SkipPartition, OverWriteChunk, SyncOffsetInMisc, SyncPartition, AllOverwritten, InList
  <2> QED
    BY <2>1 DEF StatusIs, CardRun, InstallRun
<1>9. CASE Format \/ FormatFails
  BY <1>9 DEF Format, FormatFails, FailReset, StatusIs, CardRun, InstallRun
<1>10. CASE FactoryResetPost
  BY <1>10 DEF FactoryResetPost, FailReset, StatusIs, CardRun, InstallRun
<1>11. CASE place' \in {"forever", "clear", "off", "system", "unlink", "reboot"}
  BY <1>11 DEF StatusIs, CardRun, InstallRun
<1> QED
  BY <1>1, <1>2, <1>3, <1>4, <1>5, <1>6, <1>7, <1>8, <1>9, <1>10, <1>11, OtherSteps DEF RunSteps,
     InstallSteps, WipingSteps
-----------------------------------------------------------------------------
(***************************************************************************)
(* A reset that was asked for and is due.                                  *)
(***************************************************************************)
DueIn ==
  /\ due => AsksReset(asked)
  /\ kit.ui /\ due => /\ Armed /\ place \in (ResetRun \ {"reset done"}) \cup {"off", "forever", "ended"}
                      /\ place = "ended" => status = "error"

\* A reset that is due stays due until it has succeeded.
LEMMA DueStays ==
  ASSUME ModesNext
  PROVE  \/ \E request \in Requests : Ask(request)
         \/ UNCHANGED due
         \/ FactoryResetPost /\ due' = FALSE
<1>1. ASSUME InstallSteps \/ NoSdcard \/ FindAndMountSdcard PROVE UNCHANGED due
  BY <1>1 DEF InstallSteps, PreUpdate, PreFails, InstallPackage, InstallFails, AllInstalled, Post, UpdateSubPkg,
             NoSdcard, FindAndMountSdcard, modesKept
<1>2. ASSUME BootSystem \/ BootUpdater \/ DoFactoryRstEntry \/ UpdaterMain \/ Idle \/ PowerCut \/ PowerOff PROVE UNCHANGED due
  BY <1>2 DEF BootSystem, BootUpdater, DoFactoryRstEntry, UpdaterMain, Idle, PowerCut, PowerOff, Off,
     modesKept, resetVars
<1>3. ASSUME (WipingSteps /\ ~FactoryResetPost) \/ SyncOffsetInMisc PROVE UNCHANGED due
  BY <1>3 DEF WipingSteps, SyncOffsetInMisc, FactoryResetPre, NothingToOverwrite, SkipPartition, OverWriteChunk,
             OverWriteFails, SyncPartition, AllOverwritten, Format, FormatFails, resetVars
<1>4. ASSUME FactoryResetPost PROVE UNCHANGED due \/ due' = FALSE
  BY <1>4 DEF FactoryResetPost
<1>5. ASSUME NotingSteps \/ EndSteps PROVE UNCHANGED due
  BY <1>5 DEF NotingSteps, UpdaterFromSdcard, MarkRetry, CountPackage, EndSteps, ClearMisc,
     UnlinkCommandFile, Reboot, modesKept
<1> QED
  BY <1>1, <1>2, <1>3, <1>4, <1>5, StepsAre DEF Steps

\* A reset is done where it is no longer due.
LEMMA WipingGoes ==
  ASSUME WipingSteps \/ SyncOffsetInMisc
  PROVE  place' \in ResetRun \ {"reset"} /\ (place' = "reset done" => due' = FALSE)
<1>1. CASE FactoryResetPre \/ Format \/ FormatFails \/ FactoryResetPost
  BY <1>1 DEF FactoryResetPre, Format, FormatFails, FactoryResetPost, FailReset, ResetRun
<1>2. CASE NothingToOverwrite \/ SkipPartition \/ OverWriteChunk \/ OverWriteFails \/ SyncOffsetInMisc \/ SyncPartition \/ AllOverwritten
  BY <1>2 DEF NothingToOverwrite, SkipPartition, OverWriteChunk, OverWriteFails, SyncOffsetInMisc,
              SyncPartition, AllOverwritten, InList, ResetRun
<1> QED
  BY <1>1, <1>2 DEF WipingSteps

\* A reset that is due stays in misc, until it is done or has failed.
LEMMA DueStep ==
  ASSUME Types, Course, StatusIs, DueIn, ModesNext
  PROVE  DueIn'
<1>0. MiscTypes /\ UpTypes /\ ErasingTypes /\ RunsArmed /\ Stems /\ Args \in Seq(Options) /\ UNCHANGED kit
  BY ArgsAre, StepsKeep DEF Types, Course
<1>1. ASSUME NEW request \in Requests, Ask(request) PROVE DueIn'
  <2>1. asked' = request /\ due' = (LastOf(request, Wipes \cup Erasures).name # "") /\ place' = "off"
    BY <1>1 DEF Ask
  <2>2. misc' = [command |-> "boot_updater", args |-> request] \/ misc' = [command |-> "boot_updater", args |-> <<>>]
    BY <1>1 DEF Ask
  <2>3. Armed'
    BY <2>2 DEF Armed
  <2>4. due' => AsksReset(asked')
    BY <2>1 DEF AsksReset
  <2> QED
    BY <2>1, <2>3, <2>4 DEF DueIn
<1>2. CASE ~\E request \in Requests : Ask(request)
  <2>1. UNCHANGED asked /\ (due' => due)
    <3>1. UNCHANGED asked
      BY <1>2, StepsKeep
    <3>2. UNCHANGED due \/ due' = FALSE
      BY <1>2, DueStays
    <3> QED
      BY <3>1, <3>2
  <2>2. ASSUME kit.ui, due'
        PROVE  /\ Armed' /\ place' \in (ResetRun \ {"reset done"}) \cup {"off", "forever", "ended"}
               /\ place' = "ended" => status' = "error"
    <3>1. /\ Armed /\ AsksReset(asked) /\ place \in (ResetRun \ {"reset done"}) \cup {"off", "forever", "ended"}
          /\ place = "ended" => status = "error"
      BY <2>1, <2>2 DEF DueIn
    <3>2. CASE RunSteps
      <4>1. place \notin {"off", "forever", "ended"}
        <5>1. ~(place = "ended")
          BY <3>2 DEF RunSteps, UpdaterFromSdcard, FindAndMountSdcard, NoSdcard, InstallSteps, PreUpdate,
             PreFails, InstallPackage,
            InstallFails, AllInstalled, Post, UpdateSubPkg, MarkRetry, Installing, CountPackage, WipingSteps,
            SyncOffsetInMisc,
            FactoryResetPre, NothingToOverwrite, SkipPartition, OverWriteChunk, OverWriteFails,
            SyncPartition, AllOverwritten,
            Format, FormatFails, FactoryResetPost, InList
        <5>2. place \in Run /\ Run \cap {"off", "forever"} = {}
          BY <3>2, RunStepsStay DEF Run, ResetRun, CardRun, InstallRun
        <5> QED
          BY <5>1, <5>2
      <4>2. WipingSteps \/ SyncOffsetInMisc
        <5>1. place \in ResetRun
          BY <3>1, <4>1
        <5> QED
          BY <3>2, <5>1 DEF RunSteps, UpdaterFromSdcard, FindAndMountSdcard, NoSdcard, InstallSteps,
             PreUpdate, PreFails,
             InstallPackage, InstallFails, AllInstalled, Post, UpdateSubPkg, MarkRetry, Installing,
             CountPackage, ResetRun
      <4>3. place' \in ResetRun \ {"reset done"}
        BY <2>2, <4>2, WipingGoes
      <4>4. Armed'
        BY <1>0, <3>2, NotesAre
      <4>5. place' # "ended"
        BY <4>3 DEF ResetRun
      <4> QED
        BY <4>3, <4>4, <4>5
    <3>3. CASE BootUpdater
      <4>1. PICK x \in Resets, n \in Nat : Args = <<Option(x, n)>>
        BY <1>0, <3>1, ResetIsAsked
      <4>2. AsksReset(Args)
        BY <4>1, OneReset
      <4>3. place' = "reset"
        BY <3>3, <4>2, EntryIs
      <4>4. Armed'
        BY <3>1, <3>3 DEF BootUpdater, Armed
      <4> QED
        BY <4>3, <4>4 DEF ResetRun
    <3>4. CASE DoFactoryRstEntry
      <4>1. place = "reset failed"
        BY <3>1, <3>4 DEF DoFactoryRstEntry, ResetRun
      <4>2. UNCHANGED <<misc, status>> /\ place' = "ended"
        BY <3>4, <4>1 DEF DoFactoryRstEntry
      <4> QED
        BY <3>1, <4>1, <4>2 DEF Armed, StatusIs
    <3>5. CASE UpdaterMain
      <4>1. place = "ended" /\ place \in Run /\ status = "error"
        BY <3>1, <3>5 DEF UpdaterMain, Run
      <4>2. PackageMode(up) = "unknown"
        BY <3>1, <4>1, ResetEnds
      <4>3. Ending = "wait"
        BY <2>2, <4>1, <4>2 DEF Ending, Failed
      <4> QED
        BY <3>1, <3>5, <4>3 DEF UpdaterMain, Armed
    <3>6. CASE (PowerCut \/ PowerOff) /\ place' = "off"
      BY <3>1, <3>6 DEF PowerCut, PowerOff, Off, Armed
    <3>7. ~BootSystem /\ ~ClearMisc /\ ~UnlinkCommandFile /\ ~Reboot /\ ~Idle
      BY <3>1 DEF BootSystem, ClearMisc, UnlinkCommandFile, Reboot, Idle, Armed, ResetRun
    <3> QED
      BY <1>2, <3>2, <3>3, <3>4, <3>5, <3>6, <3>7, OtherSteps
  <2> QED
    BY <1>0, <2>1, <2>2 DEF DueIn
<1> QED
  BY <1>1, <1>2

\* The first part of what is not forgotten.
LEMMA DueIsKnown ==
  ASSUME Types, Course, DueIn
  PROVE  kit.ui /\ due => misc.command = "boot_updater" /\ AsksReset(Args)
<1>1. ASSUME kit.ui, due PROVE Armed /\ AsksReset(Args)
  <2>1. Armed /\ AsksReset(asked)
    BY <1>1 DEF DueIn
  <2>2. PICK x \in Resets, n \in Nat : Args = <<Option(x, n)>>
    BY <2>1, ResetIsAsked DEF Course
  <2> QED
    BY <2>1, <2>2, OneReset
<1> QED
  BY <1>1 DEF Armed
-----------------------------------------------------------------------------
(***************************************************************************)
(* What was counted was installed.                                         *)
(***************************************************************************)
CountedFiles(args, card, done) ==
  /\ CountIn(args) <= Len(FilesIn(args, card))
  /\ \A i \in 1..CountIn(args) : FilesIn(args, card)[i].n \in done
CountsIn ==
  /\ Armed => CountedFiles(Args, kit.card, installed)
  /\ place \in {"installing", "count"} => up.loc < Len(Files(up))
  /\ place = "count" => Files(up)[up.loc + 1].n \in installed

\* What is to be installed is a list of options.
LEMMA FilesAre ==
  ASSUME NEW args \in Seq(Options), NEW card \in Seq(Options)
  PROVE  FilesIn(args, card) \in Seq(Options) /\ Len(FilesIn(args, card)) \in Nat
<1>1. OptionsOf(args, "update_bin") \in Seq(Options) /\ OptionsOf(args, "update_package") \in Seq(Options) /\ <<>> \in Seq(Options)
  BY OptionsOfAre
<1>2. FilesIn(args, card) \in Seq(Options)
  BY <1>1 DEF FilesIn
<1> QED
  BY <1>2

\* A message without a count counts nothing.
LEMMA NothingCounted ==
  ASSUME NEW args \in Seq(Options), NEW card \in Seq(Options), NEW done, CountIn(args) = 0
  PROVE  CountedFiles(args, card, done)
<1>1. Len(FilesIn(args, card)) \in Nat
  BY FilesAre
<1> QED
  BY <1>1 DEF CountedFiles

\* What is counted stays so while the count and the files do.
LEMMA StillCounted ==
  ASSUME NEW args, NEW new, NEW card, NEW done, NEW more, done \subseteq more, CountedFiles(args, card, done),
         CountIn(new) = CountIn(args), FilesIn(new, card) = FilesIn(args, card)
  PROVE  CountedFiles(new, card, more)
BY DEF CountedFiles

\* One more is counted after it was installed.
LEMMA OneMoreCounted ==
  ASSUME NEW args, NEW new, NEW card, NEW done, CountedFiles(args, card, done), CountIn(args) \in Nat,
         Len(FilesIn(args, card)) \in Nat, CountIn(args) < Len(FilesIn(args, card)),
         FilesIn(args, card)[CountIn(args) + 1].n \in done,
         CountIn(new) = CountIn(args) + 1, FilesIn(new, card) = FilesIn(args, card)
  PROVE  CountedFiles(new, card, done)
<1>1. CountIn(new) <= Len(FilesIn(new, card))
  OBVIOUS
<1>2. ASSUME NEW i \in 1..CountIn(new) PROVE FilesIn(new, card)[i].n \in done
  <2>1. i \in 1..CountIn(args) \/ i = CountIn(args) + 1
    OBVIOUS
  <2> QED
    BY <2>1 DEF CountedFiles
<1> QED
  BY <1>1, <1>2 DEF CountedFiles

\* The note of a card changes neither the packages nor their count.
LEMMA CardNotedFiles ==
  ASSUME NEW args \in Seq(Options), NEW card, OnACard(args)
  PROVE  /\ FilesIn(Noting(args, "sdcard_update", 0), card) = FilesIn(args, card)
         /\ CountIn(Noting(args, "sdcard_update", 0)) = CountIn(args)
<1>1. PICK new : new = Noting(args, "sdcard_update", 0)
  OBVIOUS
<1>2. "sdcard_update" \in OwnNotes /\ 0 \in Nat /\ "sdcard_update" # "upgraded_pkg_num"
  BY DEF OwnNotes
<1>3. CardNoted(new)
  BY <1>1, <1>2, NotingOther
<1>4. SameFiles(new, args)
  BY <1>1, <1>2, NotingOther
<1>5. CountIn(new) = CountIn(args)
  BY <1>1, <1>2, NotingOther
<1>6. FilesIn(new, card) = FilesIn(args, card)
  BY <1>3, <1>4 DEF FilesIn, CardNoted, SameFiles
<1> QED
  BY <1>1, <1>5, <1>6

\* Where a message comes from that was not noted upon.
LEMMA AskedArgs ==
  ASSUME MiscTypes, NEW request \in Requests, Ask(request)
  PROVE  Args' \in Requests \cup {<<>>} /\ (asked' # <<>> => Args' = asked') /\ asked' = request /\ Armed' /\ installed' = {}
<1>1. /\ asked' = request /\ installed' = {}
      /\ \/ misc' = [command |-> "boot_updater", args |-> request] /\ UNCHANGED commandFile
         \/ misc' = [command |-> "boot_updater", args |-> <<>>] /\ commandFile' = request
  BY DEF Ask
<1>2. Args' = request \/ (request = <<>> /\ Args' = commandFile)
  BY <1>1 DEF Args, ParseParams
<1>3. commandFile \in Requests \cup {<<>>}
  BY DEF MiscTypes
<1>4. Armed'
  BY <1>1 DEF Armed
<1> QED
  BY <1>1, <1>2, <1>3, <1>4

\* What is counted in misc stays installed.
LEMMA CountsStep ==
  ASSUME Types, Course, CountsIn, ModesNext
  PROVE  CountsIn'
<1>0. MiscTypes /\ UpTypes /\ ErasingTypes /\ RunsArmed /\ Stems /\ Args \in Seq(Options) /\ UNCHANGED kit /\ kit.card \in Seq(Options)
  BY ArgsAre, KitIs, StepsKeep DEF Types, Course
<1>1. ASSUME NEW request \in Requests, Ask(request) PROVE CountsIn'
  <2>1. Args' \in Requests \cup {<<>>} /\ place' = "off"
    BY <1>0, <1>1, AskedArgs DEF Ask
  <2>2. Args' \in Seq(Options) /\ CountIn(Args') = 0
    BY <2>1, RequestsAre, RequestIs
  <2> QED
    BY <1>0, <2>1, <2>2, NothingCounted DEF CountsIn
<1>2. CASE UpdaterFromSdcard
  <2>1. RunSteps /\ place = "card" /\ place' = "find" /\ UNCHANGED installed
    BY <1>2 DEF RunSteps, UpdaterFromSdcard
  <2>2. OnACard(Args) /\ Armed
    BY <2>1 DEF Course, FromCard, CardRun, RunsArmed, Run
  <2>3. Args' = Noting(Args, "sdcard_update", 0)
    BY <1>0, <1>2, <2>1, NotesAre
  <2>4. FilesIn(Args', kit.card) = FilesIn(Args, kit.card) /\ CountIn(Args') = CountIn(Args)
    BY <1>0, <2>2, <2>3, CardNotedFiles
  <2>5. CountedFiles(Args, kit.card, installed)
    BY <2>2 DEF CountsIn
  <2>6. CountedFiles(Args', kit.card, installed)
    BY <2>4, <2>5, StillCounted
  <2> QED
    BY <1>0, <2>1, <2>6 DEF CountsIn
<1>3. CASE MarkRetry
  <2>1. RunSteps /\ place = "install" /\ place' = "installing" /\ UNCHANGED <<installed, up>> /\ up.loc < Len(Files(up))
    BY <1>3 DEF RunSteps, MarkRetry, Installing
  <2>2. CountedFiles(Args, kit.card, installed)
    BY <2>1 DEF CountsIn, Course, RunsArmed, Run, InstallRun
  <2>3. UNCHANGED Args \/ Args' = Noting(Args, "retry_count", 1)
    BY <1>0, <1>3, <2>1, NotesAre
  <2>4. "retry_count" \in OwnNotes /\ 1 \in Nat /\ "retry_count" # "sdcard_update" /\ "retry_count" # "upgraded_pkg_num"
    BY DEF OwnNotes
  <2>5. FilesIn(Args', kit.card) = FilesIn(Args, kit.card) /\ CountIn(Args') = CountIn(Args)
    BY <1>0, <2>3, <2>4, NotedModes
  <2>6. CountedFiles(Args', kit.card, installed)
    BY <2>2, <2>5, StillCounted
  <2> QED
    BY <1>0, <2>1, <2>6 DEF CountsIn
<1>4. CASE InstallPackage
  <2>1. /\ RunSteps /\ place = "installing" /\ place' = "count" /\ UNCHANGED up
        /\ installed' = installed \cup {Files(up)[up.loc + 1].n}
    BY <1>4 DEF RunSteps, InstallSteps, InstallPackage
  <2>2. CountedFiles(Args, kit.card, installed)
    BY <2>1 DEF CountsIn, Course, RunsArmed, Run, InstallRun
  <2>3. UNCHANGED Args
    <3>1. ~(UpdaterFromSdcard \/ MarkRetry \/ CountPackage \/ SyncOffsetInMisc)
      BY <2>1 DEF UpdaterFromSdcard, MarkRetry, Installing, CountPackage, SyncOffsetInMisc
    <3> QED
      BY <1>0, <2>1, <3>1, NotesAre
  <2>4. installed \subseteq installed'
    BY <2>1
  <2>5. CountedFiles(Args', kit.card, installed')
    BY <2>2, <2>3, <2>4, StillCounted
  <2> QED
    BY <1>0, <2>1, <2>5 DEF CountsIn
<1>5. CASE CountPackage
  <2>1. /\ RunSteps /\ place = "count" /\ place' \in {"install", "post"} /\ UNCHANGED installed
    BY <1>5 DEF RunSteps, CountPackage
  <2>2. /\ CountedFiles(Args, kit.card, installed) /\ up.loc < Len(Files(up)) /\ Files(up)[up.loc + 1].n \in installed
        /\ Files(up) = FilesIn(Args, kit.card) /\ up.loc = CountIn(Args)
    BY <2>1 DEF CountsIn, Course, RunsArmed, Run, InstallRun, Installs
  <2>3. Args' = Noting(Args, "upgraded_pkg_num", up.loc + 1)
    BY <1>0, <1>5, <2>1, NotesAre
  <2>4. up.loc \in Nat
    BY <1>0 DEF UpTypes, Params
  <2>5. up.loc + 1 \in Nat
    BY <2>4
  <2>6. "upgraded_pkg_num" \in OwnNotes /\ "upgraded_pkg_num" # "sdcard_update"
    BY DEF OwnNotes
  <2>7. FilesIn(Args', kit.card) = FilesIn(Args, kit.card) /\ CountIn(Args') = up.loc + 1
    BY <1>0, <2>3, <2>5, <2>6, NotedModes
  <2>8. Len(FilesIn(Args, kit.card)) \in Nat
    BY <1>0, FilesAre
  <2>9. CountedFiles(Args', kit.card, installed)
    BY <2>2, <2>4, <2>7, <2>8, OneMoreCounted
  <2> QED
    BY <1>0, <2>1, <2>9 DEF CountsIn
<1>6. CASE SyncOffsetInMisc /\ RunSteps
  <2>1. RunSteps /\ place' \in {"sync", "overwrite"}
    BY <1>6 DEF SyncOffsetInMisc
  <2>2. up.reset \in Resets /\ erasing.done \in Nat /\ Args' = <<Option(up.reset, erasing.done)>>
    BY <1>6, <2>1, OffsetIsNoted
  <2>3. Args' \in Seq(Options) /\ CountIn(Args') = 0
    BY <2>2, OneReset
  <2> QED
    BY <1>0, <2>1, <2>3, NothingCounted DEF CountsIn
<1>7. CASE RunSteps /\ ~(UpdaterFromSdcard \/ MarkRetry \/ InstallPackage \/ CountPackage \/ SyncOffsetInMisc)
  <2>1. UNCHANGED <<misc, Args>> /\ Armed
    BY <1>0, <1>7, NotesAre, RunStepsStay DEF RunsArmed
  <2>2. UNCHANGED installed
    <3>1. ~\E request \in Requests : Ask(request)
      BY <1>7, RunStepsStay DEF Ask, Run, ResetRun, CardRun, InstallRun
    <3> QED
      BY <1>7, <3>1, StepsKeep
  <2>3. place' \notin {"installing", "count"}
    <3>1. CASE WipingSteps
      BY <3>1, WipingGoes DEF ResetRun
    <3>2. CASE InstallSteps \/ FindAndMountSdcard \/ NoSdcard
      BY <1>7, <3>2 DEF InstallSteps, PreUpdate, PreFails, InstallFails, AllInstalled, Post, UpdateSubPkg,
         FindAndMountSdcard, NoSdcard
    <3> QED
      BY <1>7, <3>1, <3>2 DEF RunSteps
  <2> QED
    BY <1>0, <2>1, <2>2, <2>3 DEF CountsIn, Armed
<1>8. CASE ClearMisc \/ UnlinkCommandFile
  <2>1. misc' = NoMessage /\ place' \in {"unlink", "reboot"}
    BY <1>8 DEF ClearMisc, UnlinkCommandFile, Types, UnlinkedLast
  <2>2. ~Armed'
    BY <2>1 DEF Armed, NoMessage
  <2> QED
    BY <2>1, <2>2 DEF CountsIn
<1>9. CASE Reboot
  <2>1. place' = "off"
    BY <1>9 DEF Reboot
  <2>2. Armed' => Args' = WipeAsked
    BY <1>0, <1>9, RebootIs
  <2>3. WipeAsked \in Seq(Options) /\ CountIn(WipeAsked) = 0
    BY WipeIsReset, OneReset
  <2> QED
    BY <1>0, <2>1, <2>2, <2>3, NothingCounted DEF CountsIn
<1>10. CASE BootUpdater \/ DoFactoryRstEntry \/ UpdaterMain \/ BootSystem \/ Idle \/ PowerCut \/ PowerOff
  <2>1. UNCHANGED <<misc, commandFile, installed>>
    BY <1>10 DEF BootUpdater, DoFactoryRstEntry, UpdaterMain, BootSystem, Idle, PowerCut, PowerOff, Off,
       modesKept, resetVars, resetKept
  <2>2. place' \notin {"installing", "count"}
    BY <1>10, EntriesAre DEF BootUpdater, DoFactoryRstEntry, UpdaterMain, BootSystem, Idle, PowerCut,
       PowerOff, Off
  <2> QED
    BY <1>0, <2>1, <2>2 DEF CountsIn, Armed, Args
<1> QED
  BY <1>1, <1>2, <1>3, <1>4, <1>5, <1>6, <1>7, <1>8, <1>9, <1>10, OtherSteps
-----------------------------------------------------------------------------
(***************************************************************************)
(* What is reported was done.                                              *)
(***************************************************************************)
Places == Run \cup After \cup {"system", "off", "forever"}
\* What was asked for is installed.
AskedDone ==
  /\ ~AsksReset(asked)
  /\ Numbers(OptionsOf(asked, "update_package")) \subseteq installed
  /\ Numbers(OptionsOf(asked, "update_bin")) \subseteq installed
  /\ CardIn(asked) # "" /\ OptionsOf(asked, "update_package") = <<>> => Numbers(kit.card) \subseteq installed
Claims == IF up.reset # "" THEN userdata = "empty" ELSE AskedDone
Reported ==
  /\ place \in Places
  /\ place \in {"post", "ended"} /\ status = "success" => Claims
  /\ place \in After \cup {"forever"} /\ page = "success" => Claims

\* No options have no numbers.
LEMMA NumbersOfNone == Numbers(<<>>) = {}
BY DEF Numbers

\* Whoever asked for nothing has it.
LEMMA NothingIsAsked == asked = <<>> => AskedDone
<1>1. OptionsOf(<<>>, "update_package") = <<>> /\ OptionsOf(<<>>, "update_bin") = <<>>
  BY OfNone
<1>2. CardIn(<<>>) = ""
  BY OfNone, NamesAre, FlagIs DEF CardIn
<1> QED
  BY <1>1, <1>2, NumbersOfNone, NothingIsNoReset DEF AskedDone

\* A request for a card has no other mode.
LEMMA CardIsMode ==
  ASSUME NEW r, IsRequest(r), CardIn(r) # ""
  PROVE  OnACard(r)
<1>1. r \in Seq(Options) /\ ModeIn(r) = CardIn(r)
  BY RequestIs
<1>2. "" \notin CardModes /\ "subpkg_update" \notin CardModes
  BY DEF CardModes
<1>3. CardIn(r) \in CardModes
  BY <1>1, <1>2, LastIsNamed DEF CardIn
<1> QED
  BY <1>1, <1>2, <1>3 DEF OnACard

\* Misc has the files that were asked for: when they are installed, what was asked is.
LEMMA FilesAreAsked ==
  ASSUME MiscTypes, Stems, Armed, ~AsksReset(Args), Numbers(FilesIn(Args, kit.card)) \subseteq installed
  PROVE  AskedDone
<1>1. CASE asked = <<>>
  BY <1>1, NothingIsAsked
<1>2. CASE asked # <<>>
  <2>1. ~WipeInMisc
    BY WipeIsReset, OneReset DEF WipeInMisc
  <2>2. Keeps(Args, asked)
    BY <1>2, <2>1 DEF Stems, FromRequest
  <2>3. IsRequest(asked) /\ asked \in Seq(Options)
    BY RequestsAre DEF MiscTypes
  <2>4. ~AsksReset(asked)
    <3>1. ASSUME AsksReset(asked) PROVE AsksReset(Args)
      <4>1. PICK x \in Resets, n \in Nat : Args = <<Option(x, n)>>
        BY <2>2, <3>1 DEF Keeps
      <4> QED
        BY <4>1, OneReset
    <3> QED
      BY <3>1
  <2>5. SameFiles(Args, asked) /\ (ModeIn(Args) = ModeIn(asked) \/ (OnACard(asked) /\ ModeIn(Args) = "sdcard_update"))
    BY <2>2, <2>4 DEF Keeps
  <2>6. OnACard(asked) => OnACard(Args)
    BY <2>5 DEF OnACard
  <2> DEFINE bins == OptionsOf(asked, "update_bin")
             pkgs == OptionsOf(asked, "update_package")
  <2>7. FilesIn(Args, kit.card) = IF bins # <<>> THEN bins ELSE IF pkgs # <<>> THEN pkgs
                                  ELSE IF OnACard(Args) THEN kit.card ELSE <<>>
    BY <2>5 DEF FilesIn, SameFiles
  <2>8. bins # <<>> => pkgs = <<>> /\ CardIn(asked) = ""
    <3>1. bins # <<>> => CheckUpdateMode(asked, "update_bin")
      BY <2>3, OptionsOfAre
    <3> QED
      BY <2>3, <3>1, RequestIs
  <2>9. CardIn(asked) # "" => OnACard(Args)
    BY <2>3, <2>6, CardIsMode
  <2> HIDE DEF bins, pkgs
  <2>10. /\ Numbers(pkgs) \subseteq installed /\ Numbers(bins) \subseteq installed
         /\ CardIn(asked) # "" /\ pkgs = <<>> => Numbers(kit.card) \subseteq installed
    BY <2>7, <2>8, <2>9, NumbersOfNone
  <2> QED
    BY <2>4, <2>10 DEF AskedDone, bins, pkgs
<1> QED
  BY <1>1, <1>2

\* No more than one update.bin is asked for.
LEMMA BinIsOne ==
  ASSUME MiscTypes, Stems, Armed, ~AsksReset(Args)
  PROVE  Len(OptionsOf(Args, "update_bin")) <= 1
<1>1. ~WipeInMisc
  BY WipeIsReset, OneReset DEF WipeInMisc
<1>2. PICK r \in Requests \cup {<<>>} : Keeps(Args, r)
  BY <1>1 DEF Stems, FromRequest
<1>3. IsRequest(r) /\ r \in Seq(Options)
  BY RequestsAre
<1>4. ~AsksReset(r)
  <2>1. ASSUME AsksReset(r) PROVE AsksReset(Args)
    <3>1. PICK x \in Resets, n \in Nat : Args = <<Option(x, n)>>
      BY <1>2, <2>1 DEF Keeps
    <3> QED
      BY <3>1, OneReset
  <2> QED
    BY <2>1
<1>5. OptionsOf(Args, "update_bin") = OptionsOf(r, "update_bin")
  BY <1>2, <1>4 DEF Keeps, SameFiles
<1>6. CASE OptionsOf(r, "update_bin") = <<>>
  <2>1. Len(<<>>) = 0
    OBVIOUS
  <2> QED
    BY <1>5, <1>6, <2>1
<1>7. CASE OptionsOf(r, "update_bin") # <<>>
  <2>1. CheckUpdateMode(r, "update_bin")
    BY <1>3, <1>7, OptionsOfAre
  <2> QED
    BY <1>3, <1>5, <2>1, RequestIs
<1> QED
  BY <1>6, <1>7

\* In a run that installs nothing is reset.
LEMMA NoResetInRun ==
  ASSUME Types, Course, place \in Run, up.reset = ""
  PROVE  Armed /\ ~AsksReset(Args)
<1>1. Armed /\ Agree(up, Args, kit.card)
  BY DEF Course, RunsArmed, Agrees
<1>2. LastOf(Args, Resets).name = ""
  BY <1>1 DEF Agree
<1>3. Args \in Seq(Options)
  BY ArgsAre DEF Types
<1> QED
  BY <1>1, <1>2, <1>3, AsksInOptions

\* Files that are all installed are installed.
LEMMA AllFilesDone ==
  ASSUME NEW files \in Seq(Options), NEW done, \A i \in 1..Len(files) : files[i].n \in done
  PROVE  Numbers(files) \subseteq done
BY DEF Numbers

\* There are no other places.
LEMMA PlacesStep ==
  ASSUME place \in Places, ModesNext
  PROVE  place' \in Places
<1>1. CASE RunSteps
  BY <1>1, RunStepsStay DEF Places
<1>2. CASE DoFactoryRstEntry
  BY <1>2 DEF DoFactoryRstEntry, Places, Run
<1>3. {"pre", "card", "subpkg", "reset", "ended", "forever", "clear", "off", "system", "unlink", "reboot"} \subseteq Places
  BY DEF Places, Run, ResetRun, CardRun, InstallRun, After
<1> QED
  BY <1>1, <1>2, <1>3, OtherSteps
\* What is claimed depends on no other state.
LEMMA ClaimsStay ==
  ASSUME UNCHANGED <<up, userdata, asked, installed, kit>>
  PROVE  Claims' <=> Claims
BY DEF Claims, AskedDone

\* The installing that says it succeeded.
LEMMA InstalledIsAsked ==
  ASSUME Types, Course, CountsIn, ModesNext, CountPackage \/ AllInstalled, place' = "post"
  PROVE  Claims'
<1>0. MiscTypes /\ UpTypes /\ Stems /\ Args \in Seq(Options) /\ UNCHANGED kit /\ kit.card \in Seq(Options)
  BY ArgsAre, KitIs, StepsKeep DEF Types, Course
<1>1. place \in InstallRun /\ place \in Run /\ UNCHANGED <<up, userdata, asked, installed>>
  BY DEF CountPackage, AllInstalled, modesKept, InstallRun, Run
<1>2. up.reset = "" /\ Files(up) = FilesIn(Args, kit.card) /\ up.loc = CountIn(Args)
  BY <1>1 DEF Course, Installs
<1>3. Armed /\ ~AsksReset(Args)
  BY <1>1, <1>2, NoResetInRun
<1>4. CountedFiles(Args, kit.card, installed)
  BY <1>3 DEF CountsIn
<1> DEFINE files == FilesIn(Args, kit.card)
<1>5. files \in Seq(Options) /\ Len(files) \in Nat
  BY <1>0, FilesAre
<1>6. \A i \in 1..CountIn(Args) : files[i].n \in installed
  BY <1>4 DEF CountedFiles
<1> HIDE DEF files
<1>7. CASE AllInstalled
  <2>1. CountIn(Args) = Len(files)
    BY <1>2, <1>7 DEF AllInstalled, files
  <2>2. Numbers(files) \subseteq installed
    BY <1>5, <1>6, <2>1, AllFilesDone
  <2>3. AskedDone
    BY <1>0, <1>3, <2>2, FilesAreAsked DEF files
  <2> QED
    BY <1>0, <1>1, <1>2, <2>3, ClaimsStay DEF Claims
<1>8. CASE CountPackage
  <2>1. place = "count" /\ up.bins # <<>>
    BY <1>8 DEF CountPackage
  <2>2. up.loc < Len(files) /\ files[up.loc + 1].n \in installed
    BY <1>2, <2>1 DEF CountsIn, files
  <2>3. up.bins = OptionsOf(Args, "update_bin")
    BY <1>1 DEF Course, Agrees, Agree
  <2>4. files = OptionsOf(Args, "update_bin")
    BY <2>1, <2>3 DEF files, FilesIn
  <2>5. Len(files) <= 1
    BY <1>0, <1>3, <2>4, BinIsOne
  <2>6. up.loc \in Nat
    BY <1>0 DEF UpTypes, Params
  <2>7. \A i \in 1..Len(files) : i = up.loc + 1
    BY <1>5, <2>2, <2>5, <2>6
  <2>8. Numbers(files) \subseteq installed
    BY <1>5, <2>2, <2>7, AllFilesDone
  <2>9. AskedDone
    BY <1>0, <1>3, <2>8, FilesAreAsked DEF files
  <2> QED
    BY <1>0, <1>1, <1>2, <2>9, ClaimsStay DEF Claims
<1> QED
  BY <1>7, <1>8

\* Of the vendor's packages nothing else was asked for.
LEMMA VendorIsAsked ==
  ASSUME Types, Course, ModesNext, UpdateSubPkg
  PROVE  Claims'
<1>0. MiscTypes /\ Stems /\ Args \in Seq(Options) /\ UNCHANGED kit
  BY ArgsAre, StepsKeep DEF Types, Course
<1>1. place = "subpkg" /\ place \in Run /\ UNCHANGED <<up, userdata, asked, installed>>
  BY DEF UpdateSubPkg, modesKept, Run
<1>2. up.reset = "" /\ ~OnACard(Args) /\ up.bins = <<>> /\ up.pkgs = <<>>
  BY <1>1 DEF Course, OfVendor
<1>3. Agree(up, Args, kit.card)
  BY <1>1 DEF Course, Agrees
<1>4. FilesIn(Args, kit.card) = <<>>
  BY <1>2, <1>3 DEF Agree, FilesIn
<1>5. Armed /\ ~AsksReset(Args)
  BY <1>1, <1>2, NoResetInRun
<1>6. Numbers(FilesIn(Args, kit.card)) \subseteq installed
  BY <1>4, NumbersOfNone
<1>7. AskedDone
  BY <1>0, <1>5, <1>6, FilesAreAsked
<1> QED
  BY <1>0, <1>1, <1>2, <1>7, ClaimsStay DEF Claims

\* What is reported stays true.
LEMMA ReportedStep ==
  ASSUME Types, Course, StatusIs, CountsIn, Reported, ModesNext
  PROVE  Reported'
<1>0. place' \in Places /\ UNCHANGED kit
  BY PlacesStep, StepsKeep DEF Reported
<1>1. CASE place' \notin {"post", "ended", "forever"} \cup After
  BY <1>0, <1>1 DEF Reported
<1>2. CASE NoSdcard \/ PreFails \/ InstallFails
  BY <1>0, <1>2 DEF NoSdcard, PreFails, InstallFails, Reported, After
<1>3. CASE CountPackage \/ AllInstalled
  <2>1. place' \in {"post", "install"}
    BY <1>3 DEF CountPackage, AllInstalled
  <2>2. place' = "post" => Claims'
    BY <1>3, InstalledIsAsked
  <2> QED
    BY <1>0, <2>1, <2>2 DEF Reported, After
<1>4. CASE Post
  <2>1. /\ place = "post" /\ place' = "ended" /\ UNCHANGED <<up, userdata, asked, installed>>
        /\ status' = "success" => status = "success"
    BY <1>4 DEF Post, modesKept
  <2>2. status = "success" => Claims
    BY <2>1 DEF Reported
  <2> QED
    BY <1>0, <2>1, <2>2, ClaimsStay DEF Reported, After
<1>5. CASE UpdateSubPkg
  <2>1. place' = "ended"
    BY <1>5 DEF UpdateSubPkg
  <2> QED
    BY <1>0, <1>5, <2>1, VendorIsAsked DEF Reported, After
<1>6. CASE DoFactoryRstEntry
  <2>1. /\ place \in {"reset done", "reset failed"} /\ place' \in {"ended", "forever"}
        /\ UNCHANGED <<up, userdata, asked, installed, status>>
        /\ place' = "forever" => place = "reset done"
    BY <1>6 DEF DoFactoryRstEntry, modesKept
  <2>2. up.reset \in Resets
    BY <2>1 DEF Course, Resetting, ResetRun
  <2>3. up.reset # ""
    BY <2>2, NamesAre
  <2>4. place = "reset done" => userdata = "empty"
    BY DEF StatusIs
  <2>5. place = "reset done" => Claims'
    BY <1>0, <2>1, <2>3, <2>4, ClaimsStay DEF Claims
  <2>6. place = "reset failed" => status' # "success"
    BY <2>1 DEF StatusIs
  <2> QED
    BY <1>0, <2>1, <2>5, <2>6 DEF Reported, After
<1>7. CASE UpdaterMain
  <2>1. /\ place = "ended" /\ place' \in {"forever", "clear"} /\ UNCHANGED <<up, userdata, asked, installed>>
        /\ page' = IF status = "success" THEN "success" ELSE IF Failed THEN "failed" ELSE page
    BY <1>7 DEF UpdaterMain, ShowPage, modesKept
  <2>2. page = "none"
    BY <2>1 DEF Course, RunsArmed, Run
  <2>3. page' = "success" => status = "success"
    BY <2>1, <2>2
  <2>4. status = "success" => Claims
    BY <2>1 DEF Reported
  <2> QED
    BY <1>0, <2>1, <2>3, <2>4, ClaimsStay DEF Reported, After
<1>8. CASE ClearMisc \/ UnlinkCommandFile \/ Idle
  <2>1. place \in After /\ place' \in After \cup {"forever"} /\ UNCHANGED <<up, userdata, asked, installed, page>>
    BY <1>8 DEF ClearMisc, UnlinkCommandFile, Idle, modesKept, After
  <2>2. page = "success" => Claims
    BY <2>1 DEF Reported
  <2>3. place' \notin {"post", "ended"}
    BY <2>1 DEF After
  <2> QED
    BY <1>0, <2>1, <2>2, <2>3, ClaimsStay DEF Reported
<1>9. CASE BootUpdater
  <2>1. place' \in {"pre", "card", "subpkg", "reset", "ended"} /\ status' = "unknown"
    BY <1>9, EntriesAre DEF BootUpdater
  <2> QED
    BY <1>0, <2>1 DEF Reported, After
<1>10. CASE WipingSteps \/ SyncOffsetInMisc \/ UpdaterFromSdcard \/ FindAndMountSdcard \/ PreUpdate \/ MarkRetry \/ InstallPackage
  <2>1. place' \in ResetRun \cup {"find", "pre", "install", "installing", "count"}
    BY <1>10, WipingGoes DEF UpdaterFromSdcard, FindAndMountSdcard, PreUpdate, MarkRetry, InstallPackage
  <2> QED
    BY <1>0, <2>1 DEF Reported, After, ResetRun
<1>11. {"off", "system"} \cap ({"post", "ended", "forever"} \cup After) = {}
  BY DEF After
<1> QED
  BY <1>1, <1>2, <1>3, <1>4, <1>5, <1>6, <1>7, <1>8, <1>9, <1>10, <1>11, OtherSteps DEF RunSteps, InstallSteps

\* The numbers of two lists are those of both.
LEMMA NumbersOfBoth ==
  ASSUME NEW s \in Seq(Options), NEW t \in Seq(Options), NEW done, Numbers(s) \subseteq done, Numbers(t) \subseteq done
  PROVE  Numbers(s \o t) \subseteq done
<1>1. Elements(s \o t) = Elements(s) \cup Elements(t)
  BY OneAfterOther
<1>2. ASSUME NEW e, e \in Elements(s \o t) PROVE e.n \in done
  BY <1>1, <1>2 DEF Elements, Numbers
<1>3. \A i \in DOMAIN (s \o t) : (s \o t)[i] \in Elements(s \o t)
  BY DEF Elements
<1> QED
  BY <1>2, <1>3 DEF Numbers

\* The page of success tells the truth.
LEMMA ReportedIsTrue ==
  ASSUME Types, Course, Reported
  PROVE  ReportsAreTrue
<1> SUFFICES ASSUME page = "success", place # "system", place # "off" PROVE ReportsAreTrue
  BY DEF ReportsAreTrue
<1>1. place \in After \cup {"forever"}
  BY DEF Reported, Places, Course, RunsArmed
<1>2. Claims
  BY <1>1 DEF Reported
<1>3. asked \in Seq(Options)
  BY RequestsAre DEF Types, MiscTypes
<1>4. OptionsOf(asked, "update_package") \in Seq(Options) /\ OptionsOf(asked, "update_bin") \in Seq(Options)
  BY <1>3, OptionsOfAre
<1>5. CASE up.reset # ""
  BY <1>2, <1>5 DEF Claims, ReportsAreTrue
<1>6. CASE up.reset = ""
  <2>1. AskedDone
    BY <1>2, <1>6 DEF Claims
  <2>2. Numbers(OptionsOf(asked, "update_package") \o OptionsOf(asked, "update_bin")) \subseteq installed
    BY <1>4, <2>1, NumbersOfBoth DEF AskedDone
  <2> QED
    BY <1>6, <2>1, <2>2 DEF AskedDone, ReportsAreTrue, CardIn
<1> QED
  BY <1>5, <1>6
-----------------------------------------------------------------------------
(***************************************************************************)
(* Where a partition begins in the writes of an erasing.                   *)
(***************************************************************************)
\* The writes of the first m partitions of a list, one after the other.
Layout(b, L, m) ==
  /\ b \in [1..(m + 1) -> Nat] /\ b[1] = 0
  /\ \A i \in 1..m : b[i + 1] = b[i] + Chunks[L[i]]
BeforeOf(L) == CHOOSE b : Layout(b, L, Len(L))

\* The partitions of a list have sizes.
LEMMA SizeOfPart ==
  ASSUME NEW L \in Seq(Partitions), NEW i \in 1..Len(L)
  PROVE  L[i] \in Partitions /\ Chunks[L[i]] \in Nat
<1>1. L[i] \in Partitions
  OBVIOUS
<1> QED
  BY <1>1, SizesAre

\* Of one partition more.
LEMMA OneMoreLayout ==
  ASSUME NEW L \in Seq(Partitions), NEW m \in 1..Len(L), NEW b, Layout(b, L, m - 1)
  PROVE  \E c : Layout(c, L, m)
<1>1. m \in Nat /\ m - 1 \in Nat /\ m >= 1 /\ (m - 1) + 1 = m
  OBVIOUS
<1>2. b \in [1..m -> Nat] /\ b[1] = 0 /\ \A i \in 1..(m - 1) : b[i + 1] = b[i] + Chunks[L[i]]
  BY <1>1 DEF Layout
<1>3. Chunks[L[m]] \in Nat /\ b[m] \in Nat
  BY <1>1, <1>2, SizeOfPart
<1>4. PICK end \in Nat : end = b[m] + Chunks[L[m]]
  BY <1>3
<1> DEFINE c == [i \in 1..(m + 1) |-> IF i <= m THEN b[i] ELSE end]
<1>5. c \in [1..(m + 1) -> Nat]
  BY <1>1, <1>2, <1>4
<1>6. c[1] = 0 /\ c[m + 1] = end /\ \A i \in 1..m : c[i] = b[i]
  BY <1>1, <1>2
<1> HIDE DEF c
<1>7. ASSUME NEW i \in 1..m PROVE c[i + 1] = c[i] + Chunks[L[i]]
  <2>1. CASE i = m
    BY <1>1, <1>4, <1>6, <2>1
  <2>2. CASE i # m
    <3>1. i \in 1..(m - 1) /\ i + 1 \in 1..m
      BY <1>1, <2>2
    <3> QED
      BY <1>2, <1>6, <3>1
  <2> QED
    BY <2>1, <2>2
<1>8. Layout(c, L, m)
  BY <1>5, <1>6, <1>7 DEF Layout
<1> QED
  BY <1>8

\* A list of partitions has a layout.
LEMMA LayoutIs ==
  ASSUME NEW L \in Seq(Partitions)
  PROVE  Layout(BeforeOf(L), L, Len(L))
<1> DEFINE Good == {m \in 0..Len(L) : \E b : Layout(b, L, m)}
<1>0. Len(L) \in Nat
  OBVIOUS
<1>1. 0 \in Good
  <2>1. Layout([i \in 1..1 |-> 0], L, 0)
    BY DEF Layout
  <2> QED
    BY <1>0, <2>1
<1>2. ASSUME NEW m \in 1..Len(L), m - 1 \in Good PROVE m \in Good
  BY <1>2, OneMoreLayout
<1> HIDE DEF Good
<1>3. 0..Len(L) \subseteq Good
  BY <1>0, <1>1, <1>2, FromZeroTo
<1>4. Len(L) \in Good
  BY <1>0, <1>3
<1> QED
  BY <1>4 DEF Good, BeforeOf

\* A later partition begins later.
LEMMA LayoutGrows ==
  ASSUME NEW L \in Seq(Partitions), NEW i \in 1..(Len(L) + 1), NEW j \in 1..(Len(L) + 1), i <= j
  PROVE  BeforeOf(L)[i] <= BeforeOf(L)[j]
<1> DEFINE b == BeforeOf(L)
           Good == {m \in 0..Len(L) : m + 1 >= i => b[i] <= b[m + 1]}
<1>0. Len(L) \in Nat /\ b \in [1..(Len(L) + 1) -> Nat] /\ \A k \in 1..Len(L) : b[k + 1] = b[k] + Chunks[L[k]]
  BY LayoutIs DEF Layout
<1> HIDE DEF b
<1>1. 0 \in Good
  <2>1. 0 + 1 >= i => i = 1
    OBVIOUS
  <2>2. b[1] \in Nat
    BY <1>0
  <2> QED
    BY <1>0, <2>1, <2>2
<1>2. ASSUME NEW m \in 1..Len(L), m - 1 \in Good PROVE m \in Good
  <2>1. Chunks[L[m]] \in Nat
    BY SizeOfPart
  <2>2. b[m] \in Nat /\ b[m + 1] \in Nat /\ b[i] \in Nat /\ b[m + 1] = b[m] + Chunks[L[m]]
    <3>1. m \in 1..(Len(L) + 1) /\ m + 1 \in 1..(Len(L) + 1)
      BY <1>0
    <3>2. b[m + 1] = b[m] + Chunks[L[m]]
      BY <1>0
    <3>3. b[m] \in Nat /\ b[m + 1] \in Nat /\ b[i] \in Nat
      BY <1>0, <3>1
    <3> QED
      BY <3>2, <3>3
  <2>3. (m - 1) + 1 = m /\ m \in 0..Len(L)
    BY <1>0
  <2>4. m >= i => b[i] <= b[m]
    BY <1>2, <2>3
  <2>5. CASE m + 1 = i
    BY <2>2, <2>3, <2>5
  <2>6. CASE m >= i
    BY <2>1, <2>2, <2>3, <2>4, <2>6
  <2>7. CASE m + 1 < i
    BY <2>3, <2>7
  <2> QED
    BY <1>0, <2>5, <2>6, <2>7
<1>3. 0..Len(L) \subseteq Good
  <2> HIDE DEF Good
  <2> QED
    BY <1>0, <1>1, <1>2, FromZeroTo
<1>4. j - 1 \in 0..Len(L) /\ (j - 1) + 1 = j
  BY <1>0
<1>5. j - 1 \in Good
  <2> HIDE DEF Good
  <2> QED
    BY <1>3, <1>4
<1> QED
  BY <1>4, <1>5 DEF b

\* Where a partition ends the next one begins.
LEMMA LayoutNext ==
  ASSUME NEW L \in Seq(Partitions), NEW i \in 1..Len(L)
  PROVE  /\ BeforeOf(L)[i] \in Nat /\ BeforeOf(L)[i + 1] \in Nat /\ Chunks[L[i]] \in Nat
         /\ BeforeOf(L)[i + 1] = BeforeOf(L)[i] + Chunks[L[i]]
<1>1. Layout(BeforeOf(L), L, Len(L)) /\ Len(L) \in Nat /\ i \in 1..(Len(L) + 1) /\ i + 1 \in 1..(Len(L) + 1)
  BY LayoutIs
<1> QED
  BY <1>1, SizeOfPart DEF Layout

\* The first partition begins at 0.
LEMMA LayoutFirst ==
  ASSUME NEW L \in Seq(Partitions)
  PROVE  BeforeOf(L)[1] = 0 /\ \A i \in 1..(Len(L) + 1) : BeforeOf(L)[i] \in Nat
BY LayoutIs DEF Layout

\* Two writes with a partition's end between them are two.
LEMMA PartsApart ==
  ASSUME NEW x \in Nat, NEW y \in Nat, NEW c \in Nat, x + c <= y, NEW m \in 1..c, NEW k \in Nat, k >= 1
  PROVE  x + m # y + k
OBVIOUS

\* Of two partitions no write has the same number.
LEMMA LaterApart ==
  ASSUME NEW L \in Seq(Partitions), NEW i \in 1..Len(L), NEW j \in 1..Len(L), i < j,
         NEW m \in 1..Chunks[L[i]], NEW k \in 1..Chunks[L[j]]
  PROVE  BeforeOf(L)[i] + m # BeforeOf(L)[j] + k
<1>1. PICK x, y, c : x = BeforeOf(L)[i] /\ y = BeforeOf(L)[j] /\ c = Chunks[L[i]]
  OBVIOUS
<1>2. x \in Nat /\ y \in Nat /\ c \in Nat /\ Chunks[L[j]] \in Nat /\ BeforeOf(L)[i + 1] = x + c
  BY <1>1, LayoutNext
<1>3. i + 1 <= j /\ i + 1 \in 1..(Len(L) + 1) /\ j \in 1..(Len(L) + 1)
  OBVIOUS
<1>4. x + c <= y
  BY <1>1, <1>2, <1>3, LayoutGrows
<1>5. m \in 1..c /\ k \in Nat /\ k >= 1
  BY <1>1, <1>2
<1>6. x + m # y + k
  BY <1>2, <1>4, <1>5, PartsApart
<1> QED
  BY <1>1, <1>6

\* A write is of one partition, and of one place in it.
LEMMA LayoutApart ==
  ASSUME NEW L \in Seq(Partitions), NEW i \in 1..Len(L), NEW j \in 1..Len(L),
         NEW m \in 1..Chunks[L[i]], NEW k \in 1..Chunks[L[j]],
         BeforeOf(L)[i] + m = BeforeOf(L)[j] + k
  PROVE  i = j /\ m = k
<1>1. ~(i < j)
  BY LaterApart
<1>2. ~(j < i)
  BY LaterApart
<1>3. i = j
  <2>1. i \in Nat /\ j \in Nat
    OBVIOUS
  <2> QED
    BY <1>1, <1>2, <2>1
<1>4. PICK x : x = BeforeOf(L)[i]
  OBVIOUS
<1>5. x \in Nat /\ m \in Nat /\ k \in Nat /\ x + m = x + k
  BY <1>3, <1>4, LayoutNext
<1>6. m = k
  BY <1>5
<1> QED
  BY <1>3, <1>6
-----------------------------------------------------------------------------
(***************************************************************************)
(* An erasing goes on where it was.                                        *)
(***************************************************************************)
Writing == {"overwrite", "overwritten", "sync"}
Overwritten == {"cached", "over"}
\* Of a list of partitions the first n writes.
WrittenTo(c, L, n) ==
  \A j \in 1..Len(L) : \A k \in 1..Chunks[L[j]] : BeforeOf(L)[j] + k <= n => c[L[j]][k] \in Overwritten
Erasure == place \in ResetRun /\ up.reset \in Erasures

CachedOnly ==
  \A p \in Partitions : \A k \in 1..Chunks[p] : chunk[p][k] = "cached" =>
    /\ place \in Writing /\ erasing.i <= Len(erasing.list) /\ p = Part
    /\ place = "overwrite" => erasing.at < Chunks[Part]
\* An erasing that was not begun noted nothing.
Begun == lists = {} /\ Armed => NotedIn(Args) = 0
\* Where an erasing is, and what it noted of it.
AtWrite ==
  Erasure =>
    /\ erasing.list \in lists /\ erasing.i <= Len(erasing.list) + 1
    /\ place = "overwritten" => erasing.done = NotedIn(Args) + 1
    /\ place # "overwritten" => erasing.done = NotedIn(Args)
    /\ place \in Writing => erasing.done = BeforeOf(erasing.list)[erasing.i] + erasing.at
    /\ place \in {"overwritten", "sync"} => erasing.i <= Len(erasing.list) /\ erasing.at <= Chunks[Part]
    /\ place = "overwritten" => erasing.at > 0
    /\ place = "sync" => erasing.at = Chunks[Part]
\* What was noted was written, if the same partitions were found whenever it was begun.
KeptOf(L) ==
  /\ Armed => WrittenTo(chunk, L, NotedIn(Args))
  /\ Erasure => WrittenTo(chunk, L, erasing.done)
Kept == lost = {} => \A L \in lists : lists = {L} => KeptOf(L)
AllOf(L) == WrittenTo(chunk, L, BeforeOf(L)[Len(L) + 1])
AllWritten ==
  /\ Erasure /\ lost = {} /\ lists = {erasing.list}
  /\ (place = "format" /\ status = "success") \/ place \in {"reset post", "reset done"}
  => AllOf(erasing.list)
Erased == CachedOnly /\ Begun /\ AtWrite /\ Kept /\ AllWritten

\* The first 0 writes are written.
LEMMA WrittenNone ==
  ASSUME NEW c, NEW L \in Seq(Partitions)
  PROVE  WrittenTo(c, L, 0)
<1>1. ASSUME NEW j \in 1..Len(L), NEW k \in 1..Chunks[L[j]] PROVE ~(BeforeOf(L)[j] + k <= 0)
  <2>1. PICK x : x = BeforeOf(L)[j]
    OBVIOUS
  <2>2. x \in Nat /\ k \in Nat /\ k >= 1
    BY <2>1, LayoutNext
  <2>3. ~(x + k <= 0)
    BY <2>2
  <2> QED
    BY <2>1, <2>3
<1> QED
  BY <1>1 DEF WrittenTo

\* Of what is written any less is written.
LEMMA WrittenLess ==
  ASSUME NEW c, NEW L \in Seq(Partitions), NEW m \in Nat, NEW n \in Nat, n <= m, WrittenTo(c, L, m)
  PROVE  WrittenTo(c, L, n)
<1>1. ASSUME NEW j \in 1..Len(L), NEW k \in 1..Chunks[L[j]], BeforeOf(L)[j] + k <= n PROVE BeforeOf(L)[j] + k <= m
  <2>1. PICK x : x = BeforeOf(L)[j]
    OBVIOUS
  <2>2. x \in Nat /\ k \in Nat /\ x + k <= n
    BY <1>1, <2>1, LayoutNext
  <2>3. x + k <= m
    BY <2>2
  <2> QED
    BY <2>1, <2>3
<1> QED
  BY <1>1 DEF WrittenTo

\* What is written stays so while no write is undone.
LEMMA WrittenStays ==
  ASSUME NEW c, NEW d, NEW L \in Seq(Partitions), NEW n, WrittenTo(c, L, n),
         \A p \in Partitions : \A k \in 1..Chunks[p] : c[p][k] \in Overwritten => d[p][k] \in Overwritten
  PROVE  WrittenTo(d, L, n)
<1>1. \A j \in 1..Len(L) : L[j] \in Partitions
  BY SizeOfPart
<1> QED
  BY <1>1 DEF WrittenTo

\* One write more.
LEMMA WrittenOne ==
  ASSUME NEW c, NEW d, NEW L \in Seq(Partitions), NEW n \in Nat, WrittenTo(c, L, n),
         \A p \in Partitions : \A k \in 1..Chunks[p] : c[p][k] \in Overwritten => d[p][k] \in Overwritten,
         NEW i \in 1..Len(L), NEW m \in 1..Chunks[L[i]], BeforeOf(L)[i] + m = n + 1, d[L[i]][m] \in Overwritten
  PROVE  WrittenTo(d, L, n + 1)
<1>1. ASSUME NEW j \in 1..Len(L), NEW k \in 1..Chunks[L[j]], BeforeOf(L)[j] + k <= n + 1
      PROVE  d[L[j]][k] \in Overwritten
  <2>1. L[j] \in Partitions
    BY SizeOfPart
  <2>2. PICK x : x = BeforeOf(L)[j]
    OBVIOUS
  <2>3. x \in Nat /\ k \in Nat /\ x + k <= n + 1
    BY <1>1, <2>2, LayoutNext
  <2>4. x + k <= n \/ x + k = n + 1
    BY <2>3
  <2>5. CASE x + k <= n
    <3>1. c[L[j]][k] \in Overwritten
      BY <2>2, <2>5 DEF WrittenTo
    <3> QED
      BY <2>1, <3>1
  <2>6. CASE x + k = n + 1
    <3>1. BeforeOf(L)[i] + m = BeforeOf(L)[j] + k
      BY <2>2, <2>6
    <3>2. i = j /\ m = k
      BY <3>1, LayoutApart
    <3> QED
      BY <3>2
  <2> QED
    BY <2>4, <2>5, <2>6
<1> QED
  BY <1>1 DEF WrittenTo

\* Everything that is to be written.
LEMMA WrittenAll ==
  ASSUME NEW c, NEW L \in Seq(Partitions), WrittenTo(c, L, BeforeOf(L)[Len(L) + 1]),
         NEW i \in 1..Len(L), NEW k \in 1..Chunks[L[i]]
  PROVE  c[L[i]][k] \in Overwritten
<1>1. PICK x, y, z, s : x = BeforeOf(L)[i] /\ y = BeforeOf(L)[i + 1] /\ z = BeforeOf(L)[Len(L) + 1] /\ s = Chunks[L[i]]
  OBVIOUS
<1>2. x \in Nat /\ y \in Nat /\ s \in Nat /\ y = x + s
  BY <1>1, LayoutNext
<1>3. i + 1 \in 1..(Len(L) + 1) /\ Len(L) + 1 \in 1..(Len(L) + 1) /\ i + 1 <= Len(L) + 1
  OBVIOUS
<1>4. y <= z /\ z \in Nat
  BY <1>1, <1>3, LayoutGrows, LayoutFirst
<1>5. k \in 1..s
  BY <1>1
<1>6. x + k <= z
  BY <1>2, <1>4, <1>5
<1>7. BeforeOf(L)[i] + k <= BeforeOf(L)[Len(L) + 1]
  BY <1>1, <1>6
<1> QED
  BY <1>7 DEF WrittenTo
-----------------------------------------------------------------------------
\* Where no partition is written nothing is cached.
LEMMA NothingCached ==
  ASSUME CachedOnly, place \notin Writing
  PROVE  \A p \in Partitions : \A k \in 1..Chunks[p] : chunk[p][k] # "cached"
BY DEF CachedOnly

\* What is not cached stays so while nothing is written.
LEMMA CachedStays ==
  ASSUME \A p \in Partitions : \A k \in 1..Chunks[p] : chunk[p][k] # "cached", UNCHANGED chunk
  PROVE  CachedOnly'
BY DEF CachedOnly

\* What leaves the erasing alone, and goes to a place where nothing is erased.
LEMMA ErasedElsewhere ==
  ASSUME Types, Erased, place \notin Writing, place' \notin ResetRun, UNCHANGED <<chunk, lists, lost>>,
         Armed' => NotedIn(Args') = 0 \/ (Armed /\ NotedIn(Args') = NotedIn(Args))
  PROVE  Erased'
<1>1. CachedOnly'
  BY NothingCached, CachedStays DEF Erased
<1>2. Begun'
  BY DEF Erased, Begun
<1>3. ~Erasure'
  BY DEF Erasure
<1>4. AtWrite' /\ AllWritten'
  BY <1>3 DEF AtWrite, AllWritten
<1>5. ASSUME NEW L \in lists, lost = {}, lists = {L}, Armed' PROVE WrittenTo(chunk, L, NotedIn(Args'))
  <2>1. L \in Seq(Partitions)
    BY DEF Types, ErasingTypes
  <2>2. CASE NotedIn(Args') = 0
    BY <2>1, <2>2, WrittenNone
  <2>3. CASE Armed /\ NotedIn(Args') = NotedIn(Args)
    BY <1>5, <2>3 DEF Erased, Kept, KeptOf
  <2> QED
    BY <1>5, <2>2, <2>3
<1>6. Kept'
  BY <1>3, <1>5 DEF Kept, KeptOf
<1> QED
  BY <1>1, <1>2, <1>4, <1>6 DEF Erased

\* The wipe that follows something else has no count of writes.
LEMMA WipeNotesNothing == NotedIn(WipeAsked) = 0
<1>1. PICK x, args : x = "user_wipe_data" /\ args = WipeAsked
  OBVIOUS
<1>2. x \in Resets /\ x \notin Erasures /\ 0 \in Nat /\ args = <<Option(x, 0)>>
  BY <1>1, WipeIsReset
<1>3. NotedIn(args) = IF x \in Erasures THEN 0 ELSE 0
  BY <1>2, OneReset
<1> QED
  BY <1>1, <1>3

\* It is a reset, and no erasure.
LEMMA WipeIsNoErasure ==
  AsksReset(WipeAsked) /\ LastOf(WipeAsked, Resets).name \notin Erasures
<1>1. PICK x, args : x = "user_wipe_data" /\ args = WipeAsked
  OBVIOUS
<1>2. x \in Resets /\ x \notin Erasures /\ 0 \in Nat /\ args = <<Option(x, 0)>>
  BY <1>1, WipeIsReset
<1>3. AsksReset(args) /\ LastOf(args, Resets).name = x
  BY <1>2, OneReset
<1> QED
  BY <1>1, <1>2, <1>3

\* The steps of that kind.
LEMMA NotedElsewhere ==
  ASSUME Types, Course, ModesNext, ~(WipingSteps \/ SyncOffsetInMisc \/ BootUpdater \/ PowerCut \/ PowerOff),
         ~\E request \in Requests : Ask(request)
  PROVE  /\ place \notin Writing /\ place' \notin ResetRun /\ UNCHANGED <<chunk, lists, lost>>
         /\ Armed' => NotedIn(Args') = 0 \/ (Armed /\ NotedIn(Args') = NotedIn(Args))
<1>0. MiscTypes /\ UpTypes /\ ErasingTypes /\ RunsArmed /\ Stems /\ Args \in Seq(Options)
  BY ArgsAre DEF Types, Course
<1>1. UNCHANGED <<chunk, lists, lost>>
  BY ErasingSteps
<1>2. CASE UpdaterFromSdcard \/ MarkRetry \/ CountPackage
  <2>1. place \notin Writing /\ place' \notin ResetRun /\ RunSteps
    BY <1>2 DEF UpdaterFromSdcard, MarkRetry, Installing, CountPackage, Writing, ResetRun, RunSteps
  <2>2. Armed
    BY <1>0, <2>1, RunStepsStay DEF RunsArmed
  <2>3. CASE UNCHANGED Args
    BY <1>1, <2>1, <2>2, <2>3
  <2>4. CASE ~UNCHANGED Args
    <3>1. PICK name \in OwnNotes, n \in Nat : Args' = Noting(Args, name, n)
      BY <1>2, <2>4, OwnNotesAre
    <3>2. NotedIn(Args') = NotedIn(Args)
      BY <1>0, <3>1, NotingOther
    <3> QED
      BY <1>1, <2>1, <2>2, <3>2
  <2> QED
    BY <2>3, <2>4
<1>3. CASE FindAndMountSdcard \/ NoSdcard \/ InstallSteps
  <2>1. place \notin Writing /\ place' \notin ResetRun /\ UNCHANGED <<misc, commandFile>>
    BY <1>3 DEF InstallSteps, PreUpdate, PreFails, InstallPackage, InstallFails, AllInstalled, Post,
       UpdateSubPkg,
                FindAndMountSdcard, NoSdcard, modesKept, Writing, ResetRun
  <2> QED
    BY <1>1, <2>1 DEF Args, Armed
<1>4. CASE BootSystem \/ DoFactoryRstEntry \/ UpdaterMain \/ Idle
  <2>1. place \notin Writing /\ place' \notin ResetRun /\ UNCHANGED <<misc, commandFile>>
    BY <1>4 DEF BootSystem, DoFactoryRstEntry, UpdaterMain, Idle, modesKept, resetVars, resetKept, Writing,
       ResetRun
  <2> QED
    BY <1>1, <2>1 DEF Args, Armed
<1>5. CASE ClearMisc \/ UnlinkCommandFile
  <2>1. place \notin Writing /\ place' \notin ResetRun /\ misc' = NoMessage
    BY <1>5 DEF ClearMisc, UnlinkCommandFile, Types, UnlinkedLast, Writing, ResetRun
  <2> QED
    BY <1>1, <2>1 DEF Armed, NoMessage
<1>6. CASE Reboot
  <2>1. place \notin Writing /\ place' \notin ResetRun
    BY <1>6 DEF Reboot, Writing, ResetRun
  <2>2. Armed' => Args' = WipeAsked
    BY <1>0, <1>6, RebootIs
  <2>3. NotedIn(WipeAsked) = 0
    BY WipeNotesNothing
  <2> QED
    BY <1>1, <2>1, <2>2, <2>3
<1> QED
  BY <1>2, <1>3, <1>4, <1>5, <1>6, StepsAre DEF Steps, NotingSteps, EndSteps

\* A request begins with nothing overwritten, and nothing noted of it.
LEMMA ErasedAsked ==
  ASSUME Types, NEW request \in Requests, Ask(request)
  PROVE  Erased'
<1>1. Args' \in Requests \cup {<<>>}
  BY AskedArgs DEF Types
<1>2. NotedIn(Args') = 0
  BY <1>1, RequestsAre, RequestIs
<1>3. lists' = {} /\ place' = "off" /\ chunk' = OldChunks
  BY DEF Ask
<1>4. \A p \in Partitions : \A k \in 1..Chunks[p] : chunk'[p][k] # "cached"
  BY <1>3 DEF OldChunks
<1>5. ~Erasure'
  BY <1>3 DEF Erasure, ResetRun
<1> QED
  BY <1>2, <1>3, <1>4, <1>5 DEF Erased, CachedOnly, Begun, AtWrite, Kept, AllWritten

\* A boot begins an erasing at what misc noted.
LEMMA ErasedBooted ==
  ASSUME Types, Course, Erased, BootUpdater
  PROVE  Erased'
<1>0. MiscTypes /\ ErasingTypes /\ Args \in Seq(Options)
  BY ArgsAre DEF Types
<1>1. place = "off" /\ UNCHANGED <<chunk, lost, misc, Args>> /\ Armed /\ place' = DoUpdaterEntry(up')
  BY <1>0, BeginErasing DEF BootUpdater, Armed
<1>2. place \notin Writing /\ place \notin ResetRun
  BY <1>1 DEF Writing, ResetRun
<1>3. CachedOnly'
  BY <1>1, <1>2, NothingCached, CachedStays DEF Erased
<1>4. Armed'
  BY <1>1 DEF Armed
<1>5. CASE up'.reset \notin Erasures
  <2>1. UNCHANGED lists /\ ~Erasure'
    BY <1>0, <1>5, BeginErasing DEF Erasure
  <2>2. Begun'
    BY <1>1, <2>1 DEF Erased, Begun
  <2>3. Kept'
    BY <1>1, <2>1 DEF Erased, Kept, KeptOf
  <2> QED
    BY <1>3, <2>1, <2>2, <2>3 DEF Erased, AtWrite, AllWritten
<1>6. CASE up'.reset \in Erasures
  <2>1. PICK L \in Seq(Partitions) :
          lists' = lists \cup {L} /\ erasing' = [list |-> L, done |-> NotedIn(Args), at |-> 0, i |-> 1]
    BY <1>0, <1>6, BeginErasing
  <2>2. place' \in {"pre", "card", "subpkg", "reset", "ended"}
    BY <1>1, EntriesAre
  <2>3. erasing'.list = L /\ erasing'.done = NotedIn(Args) /\ erasing'.i = 1
    BY <2>1
  <2>4. Len(L) \in Nat
    OBVIOUS
  <2>5. Begun' /\ AllWritten'
    BY <2>1, <2>2 DEF Begun, AllWritten
  <2>6. AtWrite'
    BY <1>1, <2>1, <2>2, <2>3, <2>4 DEF AtWrite, Writing
  <2>7. ASSUME lost = {}, NEW M \in lists', lists' = {M} PROVE WrittenTo(chunk, M, NotedIn(Args))
    <3>1. M = L
      BY <2>1, <2>7
    <3>2. CASE lists = {}
      <4>1. NotedIn(Args) = 0
        BY <1>1, <3>2 DEF Erased, Begun
      <4> QED
        BY <3>1, <4>1, WrittenNone
    <3>3. CASE lists # {}
      <4>1. lists = {L}
        BY <2>1, <2>7, <3>1, <3>3
      <4> QED
        BY <1>1, <2>7, <3>1, <4>1 DEF Erased, Kept, KeptOf
    <3> QED
      BY <3>2, <3>3
  <2>8. Kept'
    BY <1>1, <2>3, <2>7 DEF Kept, KeptOf
  <2> QED
    BY <1>3, <2>5, <2>6, <2>8 DEF Erased
<1> QED
  BY <1>5, <1>6
-----------------------------------------------------------------------------
\* What is erased while nothing is written.
LEMMA KeptUnwritten ==
  ASSUME Begun, Kept, UNCHANGED <<chunk, lists, lost, misc, commandFile, up>>, place \in ResetRun, erasing'.done = erasing.done
  PROVE  Begun' /\ Kept'
<1>1. UNCHANGED Args /\ (Armed' <=> Armed) /\ (Erasure' => Erasure)
  BY DEF Args, Armed, Erasure
<1>2. Begun'
  BY <1>1 DEF Begun
<1>3. ASSUME NEW L, KeptOf(L) PROVE KeptOf(L)'
  BY <1>1, <1>3 DEF KeptOf
<1> QED
  BY <1>2, <1>3 DEF Kept

\* The steps of an erasing that write nothing.
LEMMA UnwrittenKeeps ==
  ASSUME ErasingTypes, FactoryResetPre \/ NothingToOverwrite \/ SkipPartition \/ AllOverwritten \/ Format \/ FormatFails \/ FactoryResetPost
  PROVE  /\ UNCHANGED <<chunk, lists, lost, misc, commandFile, up>> /\ place \in ResetRun
         /\ erasing'.done = erasing.done /\ erasing'.list = erasing.list
<1>1. UNCHANGED <<chunk, lists, lost, misc, commandFile, up>> /\ place \in ResetRun
  <2>1. WipingSteps
    BY DEF WipingSteps
  <2>2. UNCHANGED <<lists, lost, misc, commandFile, up>> /\ place \in ResetRun
    BY <2>1, WipingKeeps, WipingPlaces DEF resetKept
  <2>3. UNCHANGED chunk
    BY DEF FactoryResetPre, NothingToOverwrite, SkipPartition, AllOverwritten, Format, FormatFails,
       FactoryResetPost, resetVars
  <2> QED
    BY <2>2, <2>3
<1>2. erasing \in [list : Seq(Partitions), done : Nat, at : Nat, i : Nat \ {0}]
  BY DEF ErasingTypes
<1>3. erasing'.done = erasing.done /\ erasing'.list = erasing.list
  BY <1>2 DEF FactoryResetPre, NothingToOverwrite, SkipPartition, NextPart, AllOverwritten, Format,
     FormatFails, FactoryResetPost, resetVars
<1> QED
  BY <1>1, <1>3

\* An erasing goes on at the write that is noted, wherever in the list it is.
LEMMA ErasedBegins ==
  ASSUME Types, Course, Erased, FactoryResetPre
  PROVE  Erased'
<1>1. ErasingTypes /\ CachedOnly /\ Begun /\ AtWrite /\ Kept
  BY DEF Types, Erased
<1>2. /\ UNCHANGED <<chunk, lists, lost, misc, commandFile, up>> /\ place = "reset"
      /\ erasing'.done = erasing.done /\ erasing'.list = erasing.list
  BY <1>1, UnwrittenKeeps DEF FactoryResetPre
<1>3. Begun' /\ Kept'
  BY <1>1, <1>2, KeptUnwritten DEF ResetRun
<1>4. CachedOnly'
  BY <1>1, <1>2, NothingCached, CachedStays DEF Writing
<1>5. UNCHANGED Args
  BY <1>2 DEF Args
<1>6. place' \in {"overwrite", "format", "reset failed"} /\ (place' = "format" => up.reset \notin Erasures)
  BY DEF FactoryResetPre, FailReset
<1>7. AllWritten'
  BY <1>2, <1>6 DEF AllWritten, Erasure
<1>8. CASE place' = "overwrite"
  <2>1. erasing' = [erasing EXCEPT !.at = erasing.done, !.i = 1] /\ up.reset \in Erasures
    BY <1>8 DEF FactoryResetPre, FailReset
  <2>2. erasing \in [list : Seq(Partitions), done : Nat, at : Nat, i : Nat \ {0}]
    BY <1>1 DEF ErasingTypes
  <2>3. erasing'.at = erasing.done /\ erasing'.i = 1 /\ erasing.done \in Nat /\ Len(erasing.list) \in Nat
    BY <2>1, <2>2
  <2>4. erasing.list \in lists /\ erasing.done = NotedIn(Args)
    BY <1>1, <1>2, <2>1 DEF AtWrite, Erasure, ResetRun
  <2>5. BeforeOf(erasing.list)[1] = 0
    BY <2>2, LayoutFirst
  <2>6. AtWrite'
    BY <1>2, <1>5, <1>8, <2>3, <2>4, <2>5 DEF AtWrite
  <2> QED
    BY <1>3, <1>4, <1>7, <2>6 DEF Erased
<1>9. CASE place' # "overwrite"
  <2>1. AtWrite'
    <3>1. CASE place' = "format"
      BY <1>2, <1>6, <3>1 DEF AtWrite, Erasure
    <3>2. CASE place' = "reset failed"
      <4>1. UNCHANGED erasing
        BY <3>2 DEF FactoryResetPre
      <4> QED
        BY <1>1, <1>2, <1>5, <3>2, <4>1 DEF AtWrite, Erasure, ResetRun, Writing
    <3> QED
      BY <1>6, <1>9, <3>1, <3>2
  <2> QED
    BY <1>3, <1>4, <1>7, <2>1 DEF Erased
<1> QED
  BY <1>8, <1>9

\* A partition that is over is passed by.
LEMMA ErasedSkips ==
  ASSUME Types, Course, Erased, SkipPartition
  PROVE  Erased'
<1>1. ErasingTypes /\ CachedOnly /\ Begun /\ AtWrite /\ Kept
  BY DEF Types, Erased
<1>2. /\ UNCHANGED <<chunk, lists, lost, misc, commandFile, up, place>> /\ place = "overwrite"
      /\ erasing'.done = erasing.done /\ erasing'.list = erasing.list
  BY <1>1, UnwrittenKeeps DEF SkipPartition, InList
<1>3. Begun' /\ Kept'
  BY <1>1, <1>2, KeptUnwritten DEF ResetRun
<1>4. InList /\ erasing.at >= Chunks[Part] /\ erasing' = [erasing EXCEPT !.i = erasing.i + 1, !.at = erasing.at - Chunks[Part]]
  BY DEF SkipPartition, NextPart
<1>5. /\ Part \in Partitions /\ Chunks[Part] \in Nat /\ erasing.i \in 1..Len(erasing.list)
      /\ erasing \in [list : Seq(Partitions), done : Nat, at : Nat, i : Nat \ {0}]
  BY <1>1, <1>4, PartIs DEF ErasingTypes
<1>6. \A p \in Partitions : \A k \in 1..Chunks[p] : chunk[p][k] # "cached"
  BY <1>1, <1>2, <1>4, <1>5 DEF CachedOnly, ErasingTypes
<1>7. CachedOnly'
  BY <1>2, <1>6, CachedStays
<1>8. UNCHANGED Args /\ up.reset \in Erasures /\ Erasure
  BY <1>2 DEF Args, Course, Resetting, Erasure, ResetRun
<1>9. erasing.list \in lists /\ erasing.done = NotedIn(Args) /\ erasing.done = BeforeOf(erasing.list)[erasing.i] + erasing.at
  BY <1>1, <1>2, <1>8 DEF AtWrite, Writing
<1>10. erasing'.i = erasing.i + 1 /\ erasing'.at = erasing.at - Chunks[Part] /\ erasing.i + 1 <= Len(erasing.list) + 1 /\ erasing.at \in Nat
  BY <1>4, <1>5
<1>11. erasing.done = BeforeOf(erasing.list)[erasing.i + 1] + (erasing.at - Chunks[Part])
  <2>1. PICK x, y, s : x = BeforeOf(erasing.list)[erasing.i] /\ y = BeforeOf(erasing.list)[erasing.i + 1] /\ s = Chunks[Part]
    OBVIOUS
  <2>2. x \in Nat /\ y \in Nat /\ s \in Nat /\ y = x + s
    BY <1>5, <2>1, LayoutNext DEF Part
  <2>3. x + erasing.at = y + (erasing.at - s)
    BY <1>10, <2>2
  <2> QED
    BY <1>9, <2>1, <2>3
<1>12. AtWrite'
  BY <1>2, <1>8, <1>9, <1>10, <1>11 DEF AtWrite
<1>13. AllWritten'
  BY <1>2 DEF AllWritten
<1> QED
  BY <1>3, <1>7, <1>12, <1>13 DEF Erased

\* At the end of the list every write is written.
LEMMA ErasedEnds ==
  ASSUME Types, Course, StatusIs, Erased, AllOverwritten \/ NothingToOverwrite
  PROVE  Erased'
<1>1. ErasingTypes /\ CachedOnly /\ Begun /\ AtWrite /\ Kept
  BY DEF Types, Erased
<1>2. /\ UNCHANGED <<chunk, lists, lost, misc, commandFile, up, erasing>> /\ place = "overwrite" /\ place' = "format"
  BY <1>1, UnwrittenKeeps DEF AllOverwritten, NothingToOverwrite, resetVars
<1>3. Begun' /\ Kept'
  BY <1>1, <1>2, KeptUnwritten DEF ResetRun
<1>4. erasing \in [list : Seq(Partitions), done : Nat, at : Nat, i : Nat \ {0}] /\ Len(erasing.list) \in Nat
  BY <1>1 DEF ErasingTypes
<1>5. erasing.i > Len(erasing.list)
  <2>1. Len(<<>>) = 0
    OBVIOUS
  <2>2. CASE erasing.list = <<>>
    BY <1>4, <2>1, <2>2
  <2>3. CASE erasing.list # <<>>
    BY <2>3 DEF AllOverwritten, NothingToOverwrite
  <2> QED
    BY <2>2, <2>3
<1>6. \A p \in Partitions : \A k \in 1..Chunks[p] : chunk[p][k] # "cached"
  <2>1. ~(erasing.i <= Len(erasing.list))
    BY <1>4, <1>5
  <2> QED
    BY <1>1, <2>1 DEF CachedOnly
<1>7. CachedOnly'
  BY <1>2, <1>6, CachedStays
<1>8. UNCHANGED Args /\ up.reset \in Erasures /\ Erasure
  BY <1>2 DEF Args, Course, Resetting, Erasure, ResetRun
<1>9. /\ erasing.list \in lists /\ erasing.done = NotedIn(Args) /\ erasing.i <= Len(erasing.list) + 1
      /\ erasing.done = BeforeOf(erasing.list)[erasing.i] + erasing.at
  BY <1>1, <1>2, <1>8 DEF AtWrite, Writing
<1>10. AtWrite'
  BY <1>2, <1>8, <1>9 DEF AtWrite, Writing
<1>11. ASSUME lost = {}, lists = {erasing.list} PROVE AllOf(erasing.list)
  <2>1. WrittenTo(chunk, erasing.list, erasing.done)
    BY <1>1, <1>8, <1>9, <1>11 DEF Kept, KeptOf
  <2>2. erasing.i = Len(erasing.list) + 1
    BY <1>4, <1>5, <1>9
  <2>3. PICK x : x = BeforeOf(erasing.list)[Len(erasing.list) + 1]
    OBVIOUS
  <2>4. Len(erasing.list) + 1 \in 1..(Len(erasing.list) + 1)
    BY <1>4
  <2>5. x \in Nat
    BY <1>4, <2>3, <2>4, LayoutFirst
  <2>6. x <= erasing.done /\ erasing.done \in Nat
    BY <1>4, <1>9, <2>2, <2>3, <2>5
  <2>7. WrittenTo(chunk, erasing.list, x)
    BY <1>4, <2>1, <2>5, <2>6, WrittenLess
  <2> QED
    BY <2>3, <2>7 DEF AllOf
<1>12. AllWritten'
  BY <1>2, <1>11 DEF AllWritten, AllOf
<1> QED
  BY <1>3, <1>7, <1>10, <1>12 DEF Erased

\* What is formatted after an erasing was overwritten before.
LEMMA ErasedFormats ==
  ASSUME Types, Course, StatusIs, Erased, Format \/ FormatFails \/ FactoryResetPost
  PROVE  Erased'
<1>1. ErasingTypes /\ CachedOnly /\ Begun /\ AtWrite /\ Kept /\ AllWritten
  BY DEF Types, Erased
<1>2. /\ UNCHANGED <<chunk, lists, lost, misc, commandFile, up, erasing>> /\ place \in {"format", "reset post"}
      /\ place' \in {"reset post", "reset failed", "reset done"}
      /\ place' # "reset failed" => (place = "format" /\ status = "success") \/ place = "reset post"
  BY <1>1, UnwrittenKeeps DEF Format, FormatFails, FactoryResetPost, FailReset
<1>3. Begun' /\ Kept'
  BY <1>1, <1>2, KeptUnwritten DEF ResetRun
<1>4. CachedOnly'
  BY <1>1, <1>2, NothingCached, CachedStays DEF Writing
<1>5. UNCHANGED Args /\ (Erasure' => Erasure)
  BY <1>2 DEF Args, Erasure, ResetRun
<1>6. AtWrite'
  BY <1>1, <1>2, <1>5 DEF AtWrite, Writing
<1>7. AllWritten'
  BY <1>1, <1>2, <1>5 DEF AllWritten, AllOf
<1> QED
  BY <1>3, <1>4, <1>6, <1>7 DEF Erased
-----------------------------------------------------------------------------
\* While a partition is written.
LEMMA WritingIs ==
  ASSUME Types, Course, Erased, place \in Writing
  PROVE  /\ up.reset \in Erasures /\ Erasure /\ Armed
         /\ erasing \in [list : Seq(Partitions), done : Nat, at : Nat, i : Nat \ {0}]
         /\ erasing.list \in lists /\ erasing.done = BeforeOf(erasing.list)[erasing.i] + erasing.at
         /\ place = "overwritten" => erasing.done = NotedIn(Args) + 1
         /\ place # "overwritten" => erasing.done = NotedIn(Args)
         /\ \A L \in lists : lists = {L} => L = erasing.list
<1>1. up.reset \in Erasures /\ Erasure /\ Armed
  BY DEF Course, Resetting, RunsArmed, Writing, Erasure, ResetRun, Run
<1>2. erasing \in [list : Seq(Partitions), done : Nat, at : Nat, i : Nat \ {0}]
  BY DEF Types, ErasingTypes
<1>3. erasing.list \in lists /\ erasing.done = BeforeOf(erasing.list)[erasing.i] + erasing.at
  BY <1>1 DEF Erased, AtWrite
<1>4. (place = "overwritten" => erasing.done = NotedIn(Args) + 1) /\ (place # "overwritten" => erasing.done = NotedIn(Args))
  BY <1>1 DEF Erased, AtWrite
<1> QED
  BY <1>1, <1>2, <1>3, <1>4

\* What one write changes.
LEMMA ChunkWritten ==
  ASSUME Types, OverWriteChunk
  PROVE  /\ Part \in Partitions /\ erasing.at + 1 \in 1..Chunks[Part] /\ erasing.i \in 1..Len(erasing.list)
         /\ chunk'[Part][erasing.at + 1] = "cached"
         /\ \A p \in Partitions : \A k \in 1..Chunks[p] :
              /\ chunk[p][k] \in Overwritten => chunk'[p][k] \in Overwritten
              /\ chunk'[p][k] = "cached" => chunk[p][k] = "cached" \/ p = Part
<1>1. InList /\ erasing.at < Chunks[Part] /\ ErasingTypes /\ ChunkTypes
  BY DEF OverWriteChunk, Types
<1>2. Part \in Partitions /\ Chunks[Part] \in Nat /\ erasing.i \in 1..Len(erasing.list)
  BY <1>1, PartIs
<1>3. erasing.at \in Nat
  BY <1>1 DEF ErasingTypes
<1>4. erasing.at + 1 \in 1..Chunks[Part]
  BY <1>1, <1>2, <1>3
<1>5. chunk' = [chunk EXCEPT ![Part] = [chunk[Part] EXCEPT ![erasing.at + 1] = "cached"]]
  BY DEF OverWriteChunk
<1>6. DOMAIN chunk = Partitions /\ chunk[Part] \in [1..Chunks[Part] -> Contents]
  BY <1>1, <1>2 DEF ChunkTypes
<1>7. /\ chunk'[Part] = [chunk[Part] EXCEPT ![erasing.at + 1] = "cached"]
      /\ \A p \in Partitions : p # Part => chunk'[p] = chunk[p]
  BY <1>2, <1>5, <1>6
<1>8. /\ chunk'[Part][erasing.at + 1] = "cached"
      /\ \A k \in 1..Chunks[Part] : k # erasing.at + 1 => chunk'[Part][k] = chunk[Part][k]
  BY <1>4, <1>6, <1>7
<1> QED
  BY <1>2, <1>4, <1>7, <1>8 DEF Overwritten

\* A write is one more than is noted.
LEMMA ErasedChunk ==
  ASSUME Types, Course, Erased, OverWriteChunk
  PROVE  Erased'
<1>1. /\ place = "overwrite" /\ place' = "overwritten" /\ UNCHANGED <<lists, lost, misc, commandFile, up>>
      /\ erasing' = [erasing EXCEPT !.at = erasing.at + 1, !.done = erasing.done + 1]
  BY DEF OverWriteChunk, InList, resetKept
<1>2. place \in Writing
  BY <1>1 DEF Writing
<1>3. /\ up.reset \in Erasures /\ Erasure /\ Armed
      /\ erasing \in [list : Seq(Partitions), done : Nat, at : Nat, i : Nat \ {0}]
      /\ erasing.list \in lists /\ erasing.done = BeforeOf(erasing.list)[erasing.i] + erasing.at
      /\ erasing.done = NotedIn(Args)
      /\ \A L \in lists : lists = {L} => L = erasing.list
  BY <1>1, <1>2, WritingIs
<1>4. /\ Part \in Partitions /\ erasing.at + 1 \in 1..Chunks[Part] /\ erasing.i \in 1..Len(erasing.list)
      /\ chunk'[Part][erasing.at + 1] = "cached"
      /\ \A p \in Partitions : \A k \in 1..Chunks[p] :
           /\ chunk[p][k] \in Overwritten => chunk'[p][k] \in Overwritten
           /\ chunk'[p][k] = "cached" => chunk[p][k] = "cached" \/ p = Part
  BY ChunkWritten
<1>5. /\ erasing'.list = erasing.list /\ erasing'.i = erasing.i /\ erasing'.at = erasing.at + 1
      /\ erasing'.done = erasing.done + 1 /\ erasing.at \in Nat /\ erasing.done \in Nat /\ Len(erasing.list) \in Nat
  BY <1>1, <1>3
<1>6. Part' = Part /\ Chunks[Part] \in Nat
  BY <1>4, <1>5, SizesAre DEF Part
<1>7. UNCHANGED Args /\ Armed'
  BY <1>1, <1>3 DEF Args, Armed
<1>8. CachedOnly'
  <2>1. ASSUME NEW p \in Partitions, NEW k \in 1..Chunks[p], chunk'[p][k] = "cached" PROVE p = Part
    <3>1. chunk[p][k] = "cached" => p = Part
      BY DEF Erased, CachedOnly
    <3> QED
      BY <1>4, <2>1, <3>1
  <2>2. erasing.i <= Len(erasing.list)
    BY <1>4
  <2> QED
    BY <1>1, <1>5, <1>6, <2>1, <2>2 DEF CachedOnly, Writing
<1>9. Begun'
  BY <1>1, <1>3 DEF Begun
<1>10. AtWrite'
  <2>1. erasing.done + 1 = BeforeOf(erasing.list)[erasing.i] + (erasing.at + 1)
    <3>1. PICK x : x = BeforeOf(erasing.list)[erasing.i]
      OBVIOUS
    <3>2. x \in Nat
      BY <1>3, <1>4, <3>1, LayoutNext
    <3>3. (x + erasing.at) + 1 = x + (erasing.at + 1)
      BY <1>5, <3>2
    <3> QED
      BY <1>3, <3>1, <3>3
  <2>2. erasing.i <= Len(erasing.list) /\ erasing.i <= Len(erasing.list) + 1 /\ erasing.at + 1 > 0 /\ erasing.at + 1 <= Chunks[Part]
    BY <1>4, <1>5, <1>6
  <2> QED
    BY <1>1, <1>3, <1>5, <1>6, <1>7, <2>1, <2>2 DEF AtWrite
<1>11. ASSUME lost = {}, lists = {erasing.list}
       PROVE  WrittenTo(chunk', erasing.list, NotedIn(Args)) /\ WrittenTo(chunk', erasing.list, erasing.done + 1)
  <2>1. WrittenTo(chunk, erasing.list, erasing.done)
    BY <1>3, <1>11 DEF Erased, Kept, KeptOf
  <2>2. erasing.list \in Seq(Partitions)
    BY <1>3
  <2>3. WrittenTo(chunk', erasing.list, erasing.done)
    BY <1>4, <2>1, <2>2, WrittenStays
  <2>4. Part = erasing.list[erasing.i]
    BY DEF Part
  <2>5. BeforeOf(erasing.list)[erasing.i] + (erasing.at + 1) = erasing.done + 1
    <3>1. PICK x : x = BeforeOf(erasing.list)[erasing.i]
      OBVIOUS
    <3>2. x \in Nat
      BY <1>3, <1>4, <3>1, LayoutNext
    <3>3. (x + erasing.at) + 1 = x + (erasing.at + 1)
      BY <1>5, <3>2
    <3> QED
      BY <1>3, <3>1, <3>3
  <2>6. chunk'[erasing.list[erasing.i]][erasing.at + 1] \in Overwritten /\ erasing.at + 1 \in 1..Chunks[erasing.list[erasing.i]]
    BY <1>4, <2>4 DEF Overwritten
  <2>7. WrittenTo(chunk', erasing.list, erasing.done + 1)
    <3>1. PICK c, d, L, i, m, n : c = chunk /\ d = chunk' /\ L = erasing.list /\ i = erasing.i /\ m = erasing.at + 1 /\ n = erasing.done
      OBVIOUS
    <3>2. L \in Seq(Partitions) /\ n \in Nat /\ i \in 1..Len(L) /\ m \in 1..Chunks[L[i]] /\ BeforeOf(L)[i] + m = n + 1
      BY <1>4, <1>5, <2>2, <2>5, <2>6, <3>1
    <3>3. /\ WrittenTo(c, L, n) /\ d[L[i]][m] \in Overwritten
          /\ \A p \in Partitions : \A k \in 1..Chunks[p] : c[p][k] \in Overwritten => d[p][k] \in Overwritten
      BY <1>4, <2>1, <2>6, <3>1
    <3>4. WrittenTo(d, L, n + 1)
      BY <3>2, <3>3, WrittenOne
    <3> QED
      BY <3>1, <3>4
  <2> QED
    BY <1>3, <2>3, <2>7
<1>12. Kept'
  <2>1. ASSUME NEW L \in lists, lost = {}, lists = {L}
        PROVE  WrittenTo(chunk', L, NotedIn(Args)) /\ WrittenTo(chunk', L, erasing.done + 1)
    <3>1. L = erasing.list
      BY <1>3, <2>1
    <3> QED
      BY <1>11, <2>1, <3>1
  <2> QED
    BY <1>1, <1>5, <1>7, <2>1 DEF Kept, KeptOf
<1>13. AllWritten'
  BY <1>1 DEF AllWritten
<1> QED
  BY <1>8, <1>9, <1>10, <1>12, <1>13 DEF Erased

\* A note is of what was written.
LEMMA ErasedNotes ==
  ASSUME Types, Course, Erased, SyncOffsetInMisc, RunSteps
  PROVE  Erased'
<1>1. /\ place = "overwritten" /\ place' = (IF erasing.at = Chunks[Part] THEN "sync" ELSE "overwrite")
      /\ UNCHANGED <<lists, lost, up, erasing, chunk>>
  BY DEF SyncOffsetInMisc, resetKept
<1>2. place \in Writing
  BY <1>1 DEF Writing
<1>3. /\ up.reset \in Erasures /\ Erasure /\ Armed
      /\ erasing \in [list : Seq(Partitions), done : Nat, at : Nat, i : Nat \ {0}]
      /\ erasing.list \in lists /\ erasing.done = BeforeOf(erasing.list)[erasing.i] + erasing.at
  BY <1>1, <1>2, WritingIs
<1>4. erasing.i <= Len(erasing.list) /\ erasing.at <= Chunks[Part] /\ erasing.i <= Len(erasing.list) + 1
  BY <1>1, <1>3 DEF Erased, AtWrite
<1>5. PICK x \in Resets : x = up.reset /\ x \in Erasures /\ erasing.done \in Nat /\ Args' = <<Option(x, erasing.done)>>
  BY OffsetIsNoted
<1>6. NotedIn(Args') = erasing.done
  <2>0. PICK n \in Nat : n = erasing.done
    BY <1>5
  <2>1. PICK args : args = Args'
    OBVIOUS
  <2>2. x \in Resets /\ n \in Nat /\ args = <<Option(x, n)>>
    BY <1>5, <2>0, <2>1
  <2>3. NotedIn(args) = IF x \in Erasures THEN n ELSE 0
    BY <2>2, OneReset
  <2> QED
    BY <1>5, <2>0, <2>1, <2>3
<1>7. Part' = Part /\ Part \in Partitions /\ Chunks[Part] \in Nat
  <2>1. erasing.i \in 1..Len(erasing.list)
    BY <1>3, <1>4
  <2> QED
    BY <1>1, <1>3, <2>1, SizeOfPart DEF Part
<1>8. CachedOnly'
  <2>1. ASSUME NEW p \in Partitions, NEW k \in 1..Chunks[p], chunk[p][k] = "cached" PROVE p = Part
    BY <2>1 DEF Erased, CachedOnly
  <2>2. place' = "overwrite" => erasing.at < Chunks[Part]
    BY <1>1, <1>3, <1>4, <1>7
  <2> QED
    BY <1>1, <1>4, <1>7, <2>1, <2>2 DEF CachedOnly, Writing
<1>9. Begun'
  BY <1>1, <1>3 DEF Begun
<1>10. AtWrite'
  BY <1>1, <1>3, <1>4, <1>6, <1>7 DEF AtWrite
<1>11. Kept'
  BY <1>1, <1>3, <1>6 DEF Erased, Kept, KeptOf
<1>12. AllWritten'
  BY <1>1 DEF AllWritten
<1> QED
  BY <1>8, <1>9, <1>10, <1>11, <1>12 DEF Erased
\* What a sync changes.
LEMMA PartSynced ==
  ASSUME Types, Part \in Partitions, chunk' = [chunk EXCEPT ![Part] = Synced(chunk[Part])],
         \A p \in Partitions : \A k \in 1..Chunks[p] : chunk[p][k] = "cached" => p = Part
  PROVE  \A p \in Partitions : \A k \in 1..Chunks[p] :
            chunk'[p][k] # "cached" /\ (chunk[p][k] \in Overwritten => chunk'[p][k] \in Overwritten)
<1>1. ChunkTypes /\ Chunks[Part] \in Nat
  BY SizesAre DEF Types
<1>2. DOMAIN chunk = Partitions /\ chunk[Part] \in [1..Chunks[Part] -> Contents]
  BY <1>1 DEF ChunkTypes
<1>3. chunk'[Part] = Synced(chunk[Part]) /\ \A p \in Partitions : p # Part => chunk'[p] = chunk[p]
  BY <1>2
<1>4. \A k \in 1..Chunks[Part] :
         /\ Synced(chunk[Part])[k] # "cached"
         /\ chunk[Part][k] \in {"cached", "over"} => Synced(chunk[Part])[k] = "over"
  BY <1>1, <1>2, SyncedIs
<1> QED
  BY <1>3, <1>4 DEF Overwritten

\* A sync keeps what is noted.
LEMMA ErasedSynced ==
  ASSUME Types, Course, StatusIs, Erased, SyncPartition \/ OverWriteFails
  PROVE  Erased'
<1>1. /\ place \in {"sync", "overwrite"} /\ UNCHANGED <<lists, lost, misc, commandFile, up>>
      /\ chunk' = [chunk EXCEPT ![Part] = Synced(chunk[Part])]
  BY DEF SyncPartition, OverWriteFails, InList, resetKept
<1>2. place \in Writing
  BY <1>1 DEF Writing
<1>3. /\ up.reset \in Erasures /\ Erasure /\ Armed
      /\ erasing \in [list : Seq(Partitions), done : Nat, at : Nat, i : Nat \ {0}]
      /\ erasing.list \in lists /\ erasing.done = BeforeOf(erasing.list)[erasing.i] + erasing.at
      /\ erasing.done = NotedIn(Args)
  BY <1>1, <1>2, WritingIs
<1>4. erasing.i <= Len(erasing.list) /\ (place = "sync" => erasing.at = Chunks[Part])
  BY <1>1, <1>3 DEF Erased, AtWrite, SyncPartition, OverWriteFails, InList
<1>5. erasing.i \in 1..Len(erasing.list) /\ Part \in Partitions /\ Chunks[Part] \in Nat
  <2>1. erasing.i \in 1..Len(erasing.list)
    BY <1>3, <1>4
  <2> QED
    BY <1>3, <2>1, SizeOfPart DEF Part
<1>6. \A p \in Partitions : \A k \in 1..Chunks[p] :
         chunk'[p][k] # "cached" /\ (chunk[p][k] \in Overwritten => chunk'[p][k] \in Overwritten)
  <2>1. \A p \in Partitions : \A k \in 1..Chunks[p] : chunk[p][k] = "cached" => p = Part
    BY DEF Erased, CachedOnly
  <2> QED
    BY <1>1, <1>5, <2>1, PartSynced
<1>7. CachedOnly'
  BY <1>6 DEF CachedOnly
<1>8. UNCHANGED Args /\ Armed'
  BY <1>1, <1>3 DEF Args, Armed
<1>9. Begun'
  BY <1>1, <1>3 DEF Begun
<1>10. erasing'.list = erasing.list /\ erasing'.done = erasing.done
  BY <1>3 DEF SyncPartition, OverWriteFails, NextPart
<1>11. ASSUME NEW L \in lists, NEW n, WrittenTo(chunk, L, n) PROVE WrittenTo(chunk', L, n)
  <2>1. L \in Seq(Partitions)
    BY DEF Types, ErasingTypes
  <2> QED
    BY <1>6, <1>11, <2>1, WrittenStays
<1>12. Kept'
  <2>1. ASSUME NEW L \in lists, lost = {}, lists = {L}
        PROVE  WrittenTo(chunk', L, NotedIn(Args)) /\ WrittenTo(chunk', L, erasing.done)
    <3>1. WrittenTo(chunk, L, NotedIn(Args)) /\ WrittenTo(chunk, L, erasing.done)
      BY <1>3, <2>1 DEF Erased, Kept, KeptOf
    <3> QED
      BY <1>11, <3>1
  <2> QED
    BY <1>1, <1>8, <1>10, <2>1 DEF Kept, KeptOf
<1>13. CASE OverWriteFails
  <2>1. place' = "format" /\ status' = "error" /\ UNCHANGED erasing
    BY <1>13 DEF OverWriteFails
  <2>2. AllWritten'
    BY <2>1 DEF AllWritten
  <2>3. erasing.i <= Len(erasing.list) + 1
    BY <1>5
  <2>4. AtWrite'
    BY <1>1, <1>3, <1>8, <2>1, <2>3 DEF AtWrite, Writing
  <2> QED
    BY <1>7, <1>9, <1>12, <2>2, <2>4 DEF Erased
<1>14. CASE SyncPartition
  <2>1. place = "sync" /\ place' = "overwrite" /\ erasing' = [erasing EXCEPT !.i = erasing.i + 1, !.at = 0]
    BY <1>14 DEF SyncPartition, NextPart
  <2>2. AllWritten'
    BY <2>1 DEF AllWritten
  <2>3. erasing'.i = erasing.i + 1 /\ erasing'.at = 0 /\ erasing.i + 1 <= Len(erasing.list) + 1
    BY <1>3, <1>5, <2>1
  <2>4. erasing.done = BeforeOf(erasing.list)[erasing.i + 1] + 0
    <3>1. PICK x, y, s : x = BeforeOf(erasing.list)[erasing.i] /\ y = BeforeOf(erasing.list)[erasing.i + 1] /\ s = Chunks[Part]
      OBVIOUS
    <3>2. x \in Nat /\ y \in Nat /\ s \in Nat /\ y = x + s
      BY <1>3, <1>5, <3>1, LayoutNext DEF Part
    <3>3. erasing.done = x + s
      BY <1>3, <1>4, <2>1, <3>1
    <3>4. erasing.done = y + 0
      BY <3>2, <3>3
    <3> QED
      BY <3>1, <3>4
  <2>5. AtWrite'
    BY <1>1, <1>3, <1>8, <1>10, <2>1, <2>3, <2>4 DEF AtWrite
  <2> QED
    BY <1>7, <1>9, <1>12, <2>2, <2>5 DEF Erased
<1> QED
  BY <1>13, <1>14

\* What is gone with the power is what was cached; what of it was noted is lost.
LEMMA PowerGone ==
  ASSUME Types, NEW gone \in SUBSET Cached, Off(gone)
  PROVE  /\ \A p \in Partitions : \A k \in 1..Chunks[p] :
              /\ chunk'[p][k] # "cached"
              /\ chunk[p][k] \in Overwritten /\ <<p, k>> \notin gone => chunk'[p][k] \in Overwritten
         /\ lost' = {} => lost = {} /\ gone \cap Noted = {}
         /\ UNCHANGED <<misc, commandFile, lists, Args>> /\ place' = "off" /\ (Armed' <=> Armed)
<1>1. ChunkTypes
  BY DEF Types
<1>2. chunk' = [p \in Partitions |-> [i \in 1..Chunks[p] |-> IF <<p, i>> \in gone THEN "old" ELSE Synced(chunk[p])[i]]]
  BY DEF Off
<1>3. ASSUME NEW p \in Partitions, NEW k \in 1..Chunks[p]
      PROVE  /\ chunk'[p][k] # "cached"
             /\ chunk[p][k] \in Overwritten /\ <<p, k>> \notin gone => chunk'[p][k] \in Overwritten
  <2>1. chunk'[p][k] = IF <<p, k>> \in gone THEN "old" ELSE Synced(chunk[p])[k]
    BY <1>2
  <2>2. Chunks[p] \in Nat /\ chunk[p] \in [1..Chunks[p] -> Contents]
    BY <1>1, SizesAre DEF ChunkTypes
  <2>3. Synced(chunk[p])[k] # "cached" /\ (chunk[p][k] \in {"cached", "over"} => Synced(chunk[p])[k] = "over")
    BY <2>2, SyncedIs
  <2> QED
    BY <2>1, <2>3 DEF Overwritten
<1>4. lost' = {} => lost = {} /\ gone \cap Noted = {}
  BY DEF Off
<1>5. UNCHANGED <<misc, commandFile, lists>> /\ place' = "off"
  BY DEF Off
<1> QED
  BY <1>3, <1>4, <1>5 DEF Args, Armed

\* A power cut may lose what is cached, which is noted as lost if misc counts it.
LEMMA ErasedOff ==
  ASSUME Types, Course, Erased, PowerCut \/ PowerOff
  PROVE  Erased'
<1>1. PICK gone \in SUBSET Cached : Off(gone)
  BY DEF PowerCut, PowerOff
<1>2. /\ \A p \in Partitions : \A k \in 1..Chunks[p] :
           /\ chunk'[p][k] # "cached"
           /\ chunk[p][k] \in Overwritten /\ <<p, k>> \notin gone => chunk'[p][k] \in Overwritten
      /\ lost' = {} => lost = {} /\ gone \cap Noted = {}
      /\ UNCHANGED <<misc, commandFile, lists, Args>> /\ place' = "off" /\ (Armed' <=> Armed)
  BY <1>1, PowerGone
<1>3. CachedOnly'
  BY <1>2 DEF CachedOnly
<1>4. Begun'
  BY <1>2 DEF Erased, Begun
<1>5. ~Erasure'
  BY <1>2 DEF Erasure, ResetRun
<1>6. AtWrite' /\ AllWritten'
  BY <1>5 DEF AtWrite, AllWritten
<1>7. ASSUME NEW L \in lists, lost' = {}, lists = {L}, Armed PROVE WrittenTo(chunk', L, NotedIn(Args))
  <2>1. WrittenTo(chunk, L, NotedIn(Args)) /\ gone \cap Noted = {}
    BY <1>2, <1>7 DEF Erased, Kept, KeptOf
  <2>2. L \in Seq(Partitions) /\ IsInjective(L)
    BY DEF Types, ErasingTypes
  <2>3. ASSUME NEW j \in 1..Len(L), NEW k \in 1..Chunks[L[j]], BeforeOf(L)[j] + k <= NotedIn(Args)
        PROVE  chunk'[L[j]][k] \in Overwritten
    <3>1. L[j] \in Partitions /\ chunk[L[j]][k] \in Overwritten
      BY <2>1, <2>2, <2>3, SizeOfPart DEF WrittenTo
    <3>2. ASSUME <<L[j], k>> \in gone PROVE FALSE
      <4>1. <<L[j], k>> \in Cached /\ <<L[j], k>> \notin Noted
        BY <2>1, <3>2
      <4>2. place = "overwritten" /\ L[j] = Part /\ k = erasing.at
        BY <4>1 DEF Noted
      <4>3. place \in Writing
        BY <4>2 DEF Writing
      <4>4. /\ Erasure /\ L = erasing.list
            /\ erasing \in [list : Seq(Partitions), done : Nat, at : Nat, i : Nat \ {0}]
            /\ erasing.done = BeforeOf(L)[erasing.i] + erasing.at /\ erasing.done = NotedIn(Args) + 1
        BY <1>7, <4>2, <4>3, WritingIs
      <4>5. erasing.i <= Len(L)
        BY <4>2, <4>4 DEF Erased, AtWrite
      <4>6. erasing.i \in 1..Len(L) /\ DOMAIN L = 1..Len(L)
        BY <2>2, <4>4, <4>5
      <4>7. L[erasing.i] = L[j]
        BY <4>2, <4>4 DEF Part
      <4>8. erasing.i = j
        BY <2>2, <4>6, <4>7 DEF IsInjective
      <4>9. PICK x : x = BeforeOf(L)[j]
        OBVIOUS
      <4>10. x \in Nat /\ k \in Nat /\ NotedIn(Args) \in Nat
        BY <2>2, <4>9, LayoutNext, ArgsAre, NotedIsNat DEF Types
      <4>11. x + k = NotedIn(Args) + 1 /\ x + k <= NotedIn(Args)
        BY <2>3, <4>2, <4>4, <4>8, <4>9
      <4> QED
        BY <4>10, <4>11
    <3> QED
      BY <1>2, <3>1, <3>2
  <2> QED
    BY <2>3 DEF WrittenTo
<1>8. Kept'
  BY <1>2, <1>5, <1>7 DEF Kept, KeptOf
<1> QED
  BY <1>3, <1>4, <1>6, <1>8 DEF Erased

\* Every step of the updater.
LEMMA ErasedStep ==
  ASSUME Types, Course, StatusIs, Erased, ModesNext
  PROVE  Erased'
<1>1. CASE \E request \in Requests : Ask(request)
  BY <1>1, ErasedAsked
<1>2. CASE BootUpdater
  BY <1>2, ErasedBooted
<1>3. CASE PowerCut \/ PowerOff
  BY <1>3, ErasedOff
<1>4. CASE WipingSteps
  BY <1>4, ErasedBegins, ErasedSkips, ErasedEnds, ErasedFormats, ErasedChunk, ErasedSynced DEF WipingSteps
<1>5. CASE SyncOffsetInMisc
  <2>1. /\ place = "overwritten" /\ place' \in {"sync", "overwrite"}
        /\ place' \notin {"pre", "card", "subpkg", "reset", "ended", "forever", "clear", "off", "system", "unlink", "reboot"}
    BY <1>5 DEF SyncOffsetInMisc
  <2>2. ~DoFactoryRstEntry
    BY <2>1 DEF DoFactoryRstEntry
  <2>3. RunSteps
    BY <2>1, <2>2, OtherSteps
  <2> QED
    BY <1>5, <2>3, ErasedNotes
<1>6. CASE ~(WipingSteps \/ SyncOffsetInMisc \/ BootUpdater \/ PowerCut \/ PowerOff) /\ ~\E request \in Requests : Ask(request)
  BY <1>6, NotedElsewhere, ErasedElsewhere
<1> QED
  BY <1>1, <1>2, <1>3, <1>4, <1>5, <1>6

\* A member of a sequence.
LEMMA InSequence ==
  ASSUME NEW E, NEW s \in Seq(E), NEW i \in DOMAIN s
  PROVE  i \in 1..Len(s) /\ s[i] \in E
<1>1. DOMAIN s = 1..Len(s)
  OBVIOUS
<1>2. s[i] \in E
  OBVIOUS
<1> QED
  BY <1>1, <1>2

\* An erasing that is done has overwritten all.
LEMMA ErasedIsComplete ==
  ASSUME Types, Erased
  PROVE  EraseIsComplete
<1> SUFFICES ASSUME place = "reset done", up.reset \in Erasures, Cardinality(lists) = 1, lost = {},
                    NEW i \in DOMAIN erasing.list, NEW k \in 1..Chunks[erasing.list[i]]
             PROVE  chunk[erasing.list[i]][k] = "over"
  BY DEF EraseIsComplete
<1>1. Erasure /\ erasing.list \in lists /\ erasing.list \in Seq(Partitions)
  BY DEF Erased, AtWrite, Erasure, ResetRun, Types, ErasingTypes
<1>2. lists = {erasing.list}
  <2>1. \E L : lists = {L}
    BY FS_Singleton DEF Types, ErasingTypes
  <2> QED
    BY <1>1, <2>1
<1>3. AllOf(erasing.list)
  BY <1>1, <1>2 DEF Erased, AllWritten
<1>4. i \in 1..Len(erasing.list) /\ erasing.list[i] \in Partitions
  <2>1. PICK L \in Seq(Partitions) : L = erasing.list
    BY <1>1
  <2>2. i \in DOMAIN L
    BY <2>1
  <2>3. i \in 1..Len(L) /\ L[i] \in Partitions
    BY <2>2, InSequence
  <2> QED
    BY <2>1, <2>3
<1>5. chunk[erasing.list[i]][k] \in Overwritten
  BY <1>1, <1>3, <1>4, WrittenAll DEF AllOf
<1>6. chunk[erasing.list[i]][k] # "cached"
  BY <1>4, NothingCached DEF Erased, Writing
<1> QED
  BY <1>5, <1>6 DEF Overwritten
-----------------------------------------------------------------------------
(***************************************************************************)
(* The wipe that follows something else, where nothing fails.              *)
(***************************************************************************)
ToWipe == Armed /\ WipeInMisc
WipeGoesOn == faults = 0 /\ ToWipe => userdata = "empty" \/ place \in {"off", "reset", "format"}

\* Faults are counted, and nobody forgets one.
LEMMA Faultless ==
  ASSUME faults \in Nat, ModesNext, faults' = 0
  PROVE  faults = 0 /\ ~Fault
<1>1. ~Fault
  BY DEF Fault
<1> QED
  BY <1>1, StepsKeep

\* Userdata is emptied, or used again when the next request comes.
LEMMA UserdataStays ==
  ASSUME ModesNext
  PROVE  UNCHANGED userdata \/ userdata' = "empty" \/ \E request \in Requests : Ask(request)
<1>1. ASSUME InstallSteps \/ NoSdcard \/ FindAndMountSdcard PROVE UNCHANGED userdata
  BY <1>1 DEF InstallSteps, PreUpdate, PreFails, InstallPackage, InstallFails, AllInstalled, Post, UpdateSubPkg,
             NoSdcard, FindAndMountSdcard, modesKept
<1>2. ASSUME BootSystem \/ BootUpdater \/ DoFactoryRstEntry \/ UpdaterMain \/ Idle \/ PowerCut \/ PowerOff PROVE UNCHANGED userdata
  BY <1>2 DEF BootSystem, BootUpdater, DoFactoryRstEntry, UpdaterMain, Idle, PowerCut, PowerOff, Off,
     modesKept, resetVars
<1>3. ASSUME WipingSteps \/ SyncOffsetInMisc PROVE UNCHANGED userdata \/ userdata' = "empty"
  BY <1>3 DEF WipingSteps, SyncOffsetInMisc, FactoryResetPre, NothingToOverwrite, SkipPartition, OverWriteChunk,
             OverWriteFails, SyncPartition, AllOverwritten, Format, FormatFails, FactoryResetPost, resetVars
<1>4. ASSUME NotingSteps \/ EndSteps PROVE UNCHANGED userdata
  BY <1>4 DEF NotingSteps, UpdaterFromSdcard, MarkRetry, CountPackage, EndSteps, ClearMisc,
     UnlinkCommandFile, Reboot, modesKept
<1> QED
  BY <1>1, <1>2, <1>3, <1>4, StepsAre DEF Steps

\* No note of a run is the wipe, or changes it.
LEMMA WipeInRun ==
  ASSUME Types, Course, ModesNext, RunSteps
  PROVE  (WipeInMisc' <=> WipeInMisc) /\ (WipeInMisc => UNCHANGED Args) /\ Armed /\ Armed'
<1>0. MiscTypes /\ UpTypes /\ ErasingTypes /\ RunsArmed /\ Args \in Seq(Options) /\ UNCHANGED asked /\ place \in Run
  BY ArgsAre, RunStepsStay DEF Types, Course
<1>1. Armed /\ Armed'
  BY <1>0, NotesAre DEF RunsArmed
<1>2. AsksReset(WipeAsked) /\ LastOf(WipeAsked, Resets).name \notin Erasures
  BY WipeIsNoErasure
<1>3. CASE UNCHANGED Args
  BY <1>0, <1>1, <1>3 DEF WipeInMisc
<1>4. CASE (UpdaterFromSdcard \/ MarkRetry \/ CountPackage) /\ ~UNCHANGED Args
  <2>1. place \in InstallRun \cup CardRun
    BY <1>4 DEF UpdaterFromSdcard, MarkRetry, Installing, CountPackage, InstallRun, CardRun
  <2>2. up.reset = ""
    BY <2>1 DEF Course, Installs, FromCard
  <2>3. ~AsksReset(Args)
    BY <1>0, <2>2, NoResetInRun
  <2>4. PICK name \in OwnNotes, n \in Nat : Args' = Noting(Args, name, n)
    BY <1>4, OwnNotesAre
  <2>5. ~AsksReset(Args')
    BY <1>0, <2>3, <2>4, NotingOther
  <2> QED
    BY <1>1, <1>2, <2>3, <2>5 DEF WipeInMisc
<1>5. CASE SyncOffsetInMisc
  <2>1. PICK n \in Nat : /\ up.reset \in Resets /\ up.reset \in Erasures /\ erasing.done \in Nat
                         /\ Args = <<Option(up.reset, n)>> /\ Args' = <<Option(up.reset, erasing.done)>>
    BY <1>5, OffsetIsNoted
  <2>2. LastOf(Args, Resets).name = up.reset /\ LastOf(Args', Resets).name = up.reset
    <3>1. LastOf(<<Option(up.reset, n)>>, Resets).name = up.reset
      BY <2>1, OneReset
    <3>2. LastOf(<<Option(up.reset, erasing.done)>>, Resets).name = up.reset
      BY <2>1, OneReset
    <3> QED
      BY <2>1, <3>1, <3>2
  <2> QED
    BY <1>1, <1>2, <2>1, <2>2 DEF WipeInMisc
<1> QED
  BY <1>0, <1>3, <1>4, <1>5, NotesAre

\* From a place where a wipe begins it goes on.
LEMMA WipeBegins ==
  ASSUME Types, Course, ModesNext, faults' = 0, ToWipe, place \in {"off", "reset", "format"}
  PROVE  /\ ToWipe'
         /\ userdata' = "empty" \/ place' \in {"off", "reset", "format"}
<1>0. MiscTypes /\ ~Fault /\ Armed /\ Args = WipeAsked
  BY Faultless DEF Types, MiscTypes, ToWipe, WipeInMisc
<1>1. AsksReset(Args) /\ LastOf(Args, Resets).name \notin Erasures
  BY <1>0, WipeIsNoErasure
<1>2. CASE RunSteps
  <2>1. ToWipe'
    BY <1>2, WipeInRun DEF ToWipe
  <2>2. FactoryResetPre \/ Format \/ FormatFails
    <3>1. place \in {"reset", "format"}
      BY <1>2, RunStepsStay DEF Run, ResetRun, CardRun, InstallRun
    <3> QED
      BY <1>2, <3>1 DEF RunSteps, InstallSteps, WipingSteps, UpdaterFromSdcard, FindAndMountSdcard, NoSdcard,
         PreUpdate, PreFails,
         InstallPackage, InstallFails, AllInstalled, Post, UpdateSubPkg, MarkRetry, Installing, CountPackage,
         SyncOffsetInMisc,
         NothingToOverwrite, SkipPartition, OverWriteChunk, OverWriteFails, SyncPartition, AllOverwritten,
         FactoryResetPost, InList
  <2>3. CASE FactoryResetPre
    <3>1. place = "reset" /\ place' = IF up.reset \in Erasures THEN "overwrite" ELSE "format"
      BY <1>0, <2>3 DEF FactoryResetPre
    <3>2. up.reset = LastOf(Args, Resets).name
      BY <3>1 DEF Course, Agrees, Agree, Run, ResetRun
    <3> QED
      BY <1>1, <2>1, <3>1, <3>2
  <2>4. CASE Format \/ FormatFails
    BY <1>0, <2>1, <2>4 DEF Format, FormatFails
  <2> QED
    BY <2>2, <2>3, <2>4
<1>3. CASE BootUpdater
  <2>1. place' = "reset"
    BY <1>1, <1>3, EntryIs
  <2>2. UNCHANGED <<misc, commandFile, asked>>
    BY <1>3 DEF BootUpdater
  <2> QED
    BY <2>1, <2>2 DEF ToWipe, WipeInMisc, Args, Armed
<1>4. ~DoFactoryRstEntry /\ ~UpdaterMain /\ ~BootSystem /\ ~ClearMisc /\ ~UnlinkCommandFile /\ ~Reboot /\ ~Idle
  BY <1>0 DEF DoFactoryRstEntry, UpdaterMain, BootSystem, ClearMisc, UnlinkCommandFile, Reboot, Idle, Armed
<1>5. ~PowerCut /\ ~PowerOff /\ ~\E request \in Requests : Ask(request)
  BY <1>0 DEF PowerCut, PowerOff, Ask
<1> QED
  BY <1>2, <1>3, <1>4, <1>5, OtherSteps

\* A wipe stays in misc until userdata is empty.
LEMMA WipeStays ==
  ASSUME Types, Course, WipeGoesOn, ModesNext, faults' = 0, ToWipe, ~\E request \in Requests : Ask(request)
  PROVE  ToWipe' \/ userdata' = "empty"
<1>1. faults = 0
  BY Faultless DEF Types, MiscTypes
<1>2. CASE userdata = "empty"
  BY <1>2, UserdataStays
<1>3. CASE place \in {"off", "reset", "format"}
  BY <1>3, WipeBegins
<1> QED
  BY <1>1, <1>2, <1>3 DEF WipeGoesOn

\* Every step of the updater.
LEMMA WipeGoesOnStep ==
  ASSUME Types, Course, WipeGoesOn, ModesNext
  PROVE  WipeGoesOn'
<1> SUFFICES ASSUME faults' = 0, ToWipe' PROVE userdata' = "empty" \/ place' \in {"off", "reset", "format"}
  BY DEF WipeGoesOn
<1>1. faults = 0
  BY Faultless DEF Types, MiscTypes
<1>2. CASE place' = "off"
  BY <1>2
<1>3. CASE ToWipe /\ ~\E request \in Requests : Ask(request)
  <2>1. CASE userdata = "empty"
    BY <1>3, <2>1, UserdataStays
  <2>2. CASE place \in {"off", "reset", "format"}
    BY <1>3, <2>2, WipeBegins
  <2> QED
    BY <1>1, <1>3, <2>1, <2>2 DEF WipeGoesOn
<1>4. CASE RunSteps
  <2>1. ~\E request \in Requests : Ask(request)
    BY <1>4, RunStepsStay DEF Ask, Run, ResetRun, CardRun, InstallRun
  <2>2. ToWipe
    BY <1>4, WipeInRun DEF ToWipe
  <2> QED
    BY <1>3, <2>1, <2>2
<1>5. CASE BootUpdater \/ DoFactoryRstEntry \/ UpdaterMain \/ BootSystem \/ Idle
  <2>1. UNCHANGED <<misc, commandFile, asked>> /\ place # "system"
    BY <1>5 DEF BootUpdater, DoFactoryRstEntry, UpdaterMain, BootSystem, Idle, modesKept, resetVars, resetKept
  <2>2. ToWipe /\ ~\E request \in Requests : Ask(request)
    BY <2>1 DEF ToWipe, WipeInMisc, Args, Armed, Ask
  <2> QED
    BY <1>3, <2>2
<1>6. CASE ClearMisc \/ UnlinkCommandFile
  <2>1. misc' = NoMessage
    BY <1>6 DEF ClearMisc, UnlinkCommandFile, Types, UnlinkedLast
  <2> QED
    BY <2>1 DEF ToWipe, Armed, NoMessage
<1> QED
  BY <1>2, <1>4, <1>5, <1>6, OtherSteps
-----------------------------------------------------------------------------
(***************************************************************************)
(* The wipe a failed update is to be followed by, where nothing fails.     *)
(***************************************************************************)
InWait ==
  /\ Armed /\ place \in CardRun \cup InstallRun \cup {"off", "post", "ended", "forever"}
  /\ place \in {"post", "ended"} => status \notin {"success", "skip"}
AwaitsWipe == userdata = "empty" \/ ToWipe \/ InWait \/ (place \in After /\ reboot = "wipe")
WipesAfter ==
  faults = 0 /\ Asked("factory_reset_ota") /\ kit.ui /\ installed = {} /\ kit.battery => AwaitsWipe

\* What the wipe was asked for with is still in misc.
LEMMA AskedToWipe ==
  ASSUME Types, Course, Armed, ~WipeInMisc, Asked("factory_reset_ota")
  PROVE  /\ ~AsksReset(asked) /\ ~AsksReset(Args) /\ CheckUpdateMode(Args, "factory_reset_ota") /\ HotaIn(Args)
         /\ OptionsOf(Args, "update_package") # <<>> \/ OptionsOf(Args, "update_bin") # <<>>
<1>0. MiscTypes /\ Stems /\ Args \in Seq(Options)
  BY ArgsAre DEF Types, Course
<1>1. asked # <<>>
  BY OfNone DEF Asked
<1>2. asked \in Requests \cup {<<>>}
  BY <1>0 DEF MiscTypes
<1>3. IsRequest(asked)
  BY <1>2, RequestsAre
<1>4. Keeps(Args, asked)
  BY <1>0, <1>1 DEF Stems, FromRequest
<1>5. ~AsksReset(asked)
  <2> SUFFICES ASSUME AsksReset(asked) PROVE FALSE
    OBVIOUS
  <2>1. PICK x \in Resets : asked = <<Option(x, 0)>>
    BY <1>3, RequestIs
  <2>2. PICK r : r = asked
    OBVIOUS
  <2>3. ~CheckUpdateMode(r, "factory_reset_ota")
    BY <2>1, <2>2, OneReset
  <2> QED
    BY <2>2, <2>3 DEF Asked
<1>6. ~AsksReset(Args) /\ SameFiles(Args, asked)
  BY <1>4, <1>5 DEF Keeps
<1>7. CheckUpdateMode(asked, "update_package") \/ CheckUpdateMode(asked, "update_bin")
  BY <1>3 DEF IsRequest, Asked
<1>8. CheckUpdateMode(Args, "update_package") \/ CheckUpdateMode(Args, "update_bin")
  BY <1>6, <1>7 DEF SameFiles, InstallNames
<1>9. CheckUpdateMode(Args, "factory_reset_ota")
  BY <1>6 DEF SameFiles, InstallNames, Asked
<1>10. HotaIn(Args)
  BY <1>8 DEF HotaIn
<1>11. OptionsOf(Args, "update_package") # <<>> \/ OptionsOf(Args, "update_bin") # <<>>
  <2>1. CheckUpdateMode(Args, "update_package") => OptionsOf(Args, "update_package") # <<>>
    BY <1>0, OptionsOfAre
  <2>2. CheckUpdateMode(Args, "update_bin") => OptionsOf(Args, "update_bin") # <<>>
    BY <1>0, OptionsOfAre
  <2> QED
    BY <1>8, <2>1, <2>2
<1> QED
  BY <1>5, <1>6, <1>9, <1>10, <1>11

\* Where nothing was installed nothing ends well.
LEMMA NothingIsDone ==
  ASSUME Types, Course, CountsIn, installed = {}
  PROVE  ~CountPackage /\ ~AllInstalled
<1>0. MiscTypes /\ UpTypes /\ RunsArmed /\ Args \in Seq(Options) /\ kit.card \in Seq(Options)
  BY ArgsAre, KitIs DEF Types, Course
<1>1. ~CountPackage
  BY DEF CountPackage, CountsIn
<1>2. ASSUME AllInstalled PROVE FALSE
  <2>1. place \in InstallRun /\ place \in Run /\ up.loc = Len(Files(up))
    BY <1>2 DEF AllInstalled, InstallRun, Run
  <2>2. Files(up) = FilesIn(Args, kit.card) /\ Files(up) # <<>> /\ up.loc = CountIn(Args)
    BY <2>1 DEF Course, Installs
  <2>3. CountedFiles(Args, kit.card, installed)
    BY <1>0, <2>1 DEF CountsIn, RunsArmed
  <2>4. FilesIn(Args, kit.card) \in Seq(Options)
    BY <1>0, FilesAre
  <2>5. PICK s \in Seq(Options) : s = FilesIn(Args, kit.card)
    BY <2>4
  <2>6. s # <<>> /\ CountIn(Args) = Len(s)
    BY <2>1, <2>2, <2>5
  <2>7. 1 \in 1..CountIn(Args)
    BY <2>6
  <2>8. FilesIn(Args, kit.card)[1].n \in installed
    BY <2>3, <2>7 DEF CountedFiles
  <2> QED
    BY <2>8
<1> QED
  BY <1>1, <1>2

\* A boot goes on with it.
LEMMA WaitsFromBoot ==
  ASSUME Types, Course, BootUpdater, InWait, ~ToWipe, Asked("factory_reset_ota")
  PROVE  InWait'
<1>0. Armed /\ ~WipeInMisc
  BY DEF InWait, ToWipe
<1>1. /\ ~AsksReset(Args)
      /\ OptionsOf(Args, "update_package") # <<>> \/ OptionsOf(Args, "update_bin") # <<>>
  BY <1>0, AskedToWipe
<1>2. /\ up'.pkgs = OptionsOf(Args, "update_package") /\ up'.bins = OptionsOf(Args, "update_bin")
      /\ place' = DoUpdaterEntry(up')
  BY EntryIs
<1>3. place' \in {"pre", "card"}
  BY <1>1, <1>2 DEF DoUpdaterEntry
<1>4. Armed'
  BY <1>0 DEF BootUpdater, Armed
<1> QED
  BY <1>3, <1>4 DEF InWait, CardRun, InstallRun

\* So does a run, in which nothing is installed.
LEMMA WaitsInRun ==
  ASSUME Types, Course, CountsIn, StatusIs, RunSteps, InWait, ~Fault, kit.battery, installed = {}, UNCHANGED installed
  PROVE  InWait'
<1>0. MiscTypes /\ UpTypes /\ ErasingTypes /\ RunsArmed /\ place \in Run
  BY RunStepsStay DEF Types, Course
<1>1. Armed'
  BY <1>0, NotesAre
<1>2. place \in CardRun \cup InstallRun \cup {"post", "ended"}
  BY <1>0 DEF InWait, Run, ResetRun, CardRun, InstallRun
<1>3. CASE UpdaterFromSdcard \/ FindAndMountSdcard \/ PreUpdate \/ MarkRetry
  <2>1. place' \in CardRun \cup InstallRun
    BY <1>3 DEF UpdaterFromSdcard, FindAndMountSdcard, PreUpdate, MarkRetry, CardRun, InstallRun
  <2> QED
    BY <1>1, <2>1 DEF InWait, CardRun, InstallRun
<1>4. CASE NoSdcard
  BY <1>1, <1>4 DEF NoSdcard, InWait, CardRun, InstallRun
<1>5. CASE PreFails
  <2>1. Powered
    BY DEF Powered
  <2>2. place' = "post" /\ status' = "corrupt"
    BY <1>5, <2>1 DEF PreFails
  <2> QED
    BY <1>1, <2>2 DEF InWait, CardRun, InstallRun
<1>6. CASE Post
  <2>1. place = "post" /\ place' = "ended" /\ UNCHANGED status
    BY <1>6 DEF Post
  <2> QED
    BY <1>1, <2>1 DEF InWait, CardRun, InstallRun
<1>7. ~CountPackage /\ ~AllInstalled
  BY NothingIsDone
<1>8. ~InstallPackage
  BY DEF InstallPackage
<1>9. ~InstallFails
  BY DEF InstallFails
<1>10. ~UpdateSubPkg /\ ~WipingSteps /\ ~SyncOffsetInMisc
  <2>1. ~UpdateSubPkg
    BY <1>2 DEF UpdateSubPkg, CardRun, InstallRun
  <2>2. place \notin ResetRun
    BY <1>2 DEF CardRun, InstallRun, ResetRun
  <2>3. (WipingSteps \/ SyncOffsetInMisc) => place \in ResetRun
    BY WipingPlaces
  <2> QED
    BY <2>1, <2>2, <2>3
<1> QED
  BY <1>3, <1>4, <1>5, <1>6, <1>7, <1>8, <1>9, <1>10 DEF RunSteps, InstallSteps

\* At the end of a failed update the wipe is noted.
LEMMA WaitsAtTheEnd ==
  ASSUME Types, Course, UpdaterMain, InWait, ~ToWipe, Asked("factory_reset_ota"), kit.ui
  PROVE  InWait' \/ (place' \in After /\ reboot' = "wipe")
<1>0. Armed /\ ~WipeInMisc /\ place = "ended" /\ Failed
  BY DEF InWait, ToWipe, UpdaterMain, Failed
<1>1. CheckUpdateMode(Args, "factory_reset_ota")
  BY <1>0, AskedToWipe
<1>2. Ending \in {"wait", "wipe"}
  BY <1>0, <1>1 DEF Ending, Args
<1>3. Armed'
  BY <1>0 DEF UpdaterMain, Armed
<1> QED
  BY <1>2, <1>3 DEF UpdaterMain, InWait, After, CardRun, InstallRun

\* And a reboot asks for it.
LEMMA RebootWipes ==
  ASSUME Types, Reboot, WipeNext, ~AsksReset(asked)
  PROVE  ToWipe'
<1>1. Args' = WipeAsked /\ Armed'
  BY RebootIs DEF Types
<1>2. UNCHANGED asked
  BY DEF Reboot, modesKept
<1> QED
  BY <1>1, <1>2 DEF ToWipe, WipeInMisc

\* Every step of the updater.
LEMMA WipesAfterStep ==
  ASSUME Types, Course, CountsIn, StatusIs, WipeGoesOn, WipesAfter, ModesNext
  PROVE  WipesAfter'
<1> SUFFICES ASSUME faults' = 0, Asked("factory_reset_ota")', kit'.ui, installed' = {}, kit'.battery
    PROVE  AwaitsWipe'
  BY DEF WipesAfter
<1>1. ASSUME NEW request \in Requests, Ask(request) PROVE AwaitsWipe'
  <2>1. Armed' /\ place' = "off"
    BY <1>1, AskedArgs DEF Ask, Types
  <2> QED
    BY <2>1 DEF AwaitsWipe, InWait
<1>2. CASE ~\E request \in Requests : Ask(request)
  <2>1. faults = 0 /\ ~Fault /\ UNCHANGED <<kit, asked>>
    BY <1>2, Faultless, StepsKeep DEF Types, MiscTypes
  <2>2. UNCHANGED installed
    BY <1>2, StepsKeep DEF InstallPackage
  <2>3. Asked("factory_reset_ota") /\ kit.ui /\ kit.battery /\ installed = {}
    BY <2>1, <2>2 DEF Asked
  <2>4. AwaitsWipe
    BY <2>1, <2>3 DEF WipesAfter
  <2>5. CASE userdata = "empty"
    BY <1>2, <2>5, UserdataStays DEF AwaitsWipe
  <2>6. CASE ToWipe
    BY <1>2, <2>6, WipeStays DEF AwaitsWipe
  <2>7. CASE InWait /\ ~ToWipe
    <3>1. CASE RunSteps
      BY <2>1, <2>2, <2>3, <2>7, <3>1, WaitsInRun DEF AwaitsWipe
    <3>2. CASE BootUpdater
      BY <2>3, <2>7, <3>2, WaitsFromBoot DEF AwaitsWipe
    <3>3. CASE UpdaterMain
      BY <2>3, <2>7, <3>3, WaitsAtTheEnd DEF AwaitsWipe
    <3>4. CASE PowerOff
      <4>1. UNCHANGED misc /\ place' = "off"
        BY <3>4 DEF PowerOff, Off
      <4> QED
        BY <2>7, <4>1 DEF AwaitsWipe, InWait, Armed
    <3>5. ~BootSystem /\ ~DoFactoryRstEntry /\ ~ClearMisc /\ ~UnlinkCommandFile /\ ~Reboot /\ ~Idle
      BY <2>7 DEF InWait, Armed, BootSystem, DoFactoryRstEntry, ClearMisc, UnlinkCommandFile, Reboot, Idle,
         CardRun, InstallRun
    <3>6. ~PowerCut
      BY <2>1 DEF PowerCut
    <3> QED
      BY <1>2, <3>1, <3>2, <3>3, <3>4, <3>5, <3>6, OtherSteps
  <2>8. CASE place \in After /\ reboot = "wipe"
    <3>1. CASE ClearMisc \/ UnlinkCommandFile
      BY <2>8, <3>1 DEF ClearMisc, UnlinkCommandFile, AwaitsWipe, After
    <3>2. CASE Reboot
      <4>1. WipeNext
        BY <2>8 DEF WipeNext
      <4>2. ~AsksReset(asked)
        BY <2>8 DEF Course, EndsAsAsked
      <4> QED
        BY <3>2, <4>1, <4>2, RebootWipes DEF AwaitsWipe
    <3>3. ~Idle
      BY <2>3 DEF Idle, Idles
    <3>4. ~RunSteps
      BY <2>8, RunStepsStay DEF After, Run, ResetRun, CardRun, InstallRun
    <3>5. ~BootUpdater /\ ~DoFactoryRstEntry /\ ~UpdaterMain /\ ~BootSystem
      BY <2>8 DEF After, BootUpdater, DoFactoryRstEntry, UpdaterMain, BootSystem
    <3>6. ~PowerCut /\ ~PowerOff
      BY <2>1, <2>8 DEF PowerCut, PowerOff, After
    <3> QED
      BY <1>2, <3>1, <3>2, <3>3, <3>4, <3>5, <3>6, OtherSteps
  <2> QED
    BY <2>4, <2>5, <2>6, <2>7, <2>8 DEF AwaitsWipe
<1> QED
  BY <1>1, <1>2
-----------------------------------------------------------------------------
(***************************************************************************)
(* The wipe that follows an update from the device's own card, where        *)
(* nothing fails.                                                          *)
(***************************************************************************)
FromOwn == Asked("UPDATE:SDFROMDEV")
Mine == Armed /\ ~WipeInMisc
Doomed ==
  FilesIn(asked, kit.card) = <<>> \/ Numbers(FilesIn(asked, kit.card)) \cap BadPackages # {} \/ ~kit.battery
OwnExt == up.ext = "UPDATE:SDFROMDEV"
Untried ==
  Mine /\ installed = {} /\ place # "installing" =>
    RetryIn(Args) = 0 /\ (place \in CardRun \cup InstallRun => up.retry = 0)
Ours ==
  Mine /\ ~Doomed =>
    /\ place \in Run \cup {"clear"} => OwnExt
    /\ place \notin Run \cup {"clear"} => ~CheckUpdateMode(Args, "sdcard_update")
Spared == Doomed => installed = {} /\ place \notin {"install", "installing", "count"}
EndsWell == Mine /\ place \in {"post", "ended"} => status = "success" \/ Doomed
Followed ==
  installed # {} =>
    \/ userdata = "empty" \/ ToWipe
    \/ place \in {"install", "installing", "count", "post", "ended"} /\ OwnExt
    \/ place \in After /\ OwnExt /\ reboot = "as asked" /\ OnCard(up)
FromDev == faults = 0 /\ FromOwn => Untried /\ Ours /\ Spared /\ EndsWell /\ Followed

\* A step in which nothing fails, and nobody asks.
Goes == ModesNext /\ ~Fault /\ ~\E request \in Requests : Ask(request)

\* What is asked for with it.
LEMMA OwnIsOnly ==
  ASSUME NEW r, IsRequest(r), CheckUpdateMode(r, "UPDATE:SDFROMDEV")
  PROVE  /\ CardIn(r) = "UPDATE:SDFROMDEV" /\ OnACard(r) /\ OptionsOf(r, "update_bin") = <<>>
         /\ ~AsksReset(r)
<1>0. r \in Seq(Options)
  BY DEF IsRequest
<1>1. PICK x : x = "UPDATE:SDFROMDEV"
  OBVIOUS
<1>2. x \in CardModes /\ x \in UpdateModes /\ "" \notin CardModes
  BY <1>1, NamesAre
<1>3. PICK i \in DOMAIN r : r[i].name = x
  BY <1>1 DEF CheckUpdateMode
<1>4. CardIn(r) # ""
  BY <1>0, <1>2, <1>3, LastIsNamed DEF CardIn
<1>5. PICK j \in DOMAIN r : LastOf(r, CardModes) = r[j]
  BY <1>0, <1>2, <1>4, LastIsNamed DEF CardIn
<1>6. LastOf(r, CardModes).name \in CardModes
  BY <1>0, <1>2, <1>4, LastIsNamed DEF CardIn
<1>7. r[j].name \in UpdateModes /\ r[i].name \in UpdateModes
  BY <1>2, <1>3, <1>5, <1>6, NamesAre
<1>8. \A k, l \in DOMAIN r : r[k].name \in UpdateModes /\ r[l].name \in UpdateModes => k = l
  BY DEF IsRequest
<1>9. i = j
  BY <1>7, <1>8
<1>10. CardIn(r) = x
  BY <1>3, <1>5, <1>9 DEF CardIn
<1>11. ModeIn(r) = x
  BY <1>4, <1>10, RequestIs
<1>12. OnACard(r)
  BY <1>1, <1>11 DEF OnACard
<1>13. OptionsOf(r, "update_bin") = <<>>
  <2>1. ~CheckUpdateMode(r, "update_bin")
    BY <1>4, RequestIs
  <2> QED
    BY <1>0, <2>1, OptionsOfAre
<1>14. ~AsksReset(r)
  <2> SUFFICES ASSUME AsksReset(r) PROVE FALSE
    OBVIOUS
  <2>1. PICK y \in Resets : r = <<Option(y, 0)>>
    BY RequestIs
  <2>2. ~OnACard(r)
    BY <2>1, OneReset
  <2> QED
    BY <1>12, <2>2
<1> QED
  BY <1>1, <1>10, <1>12, <1>13, <1>14

\* What is in misc of it.
LEMMA MineIs ==
  ASSUME Types, Course, Mine, FromOwn
  PROVE  /\ ~AsksReset(asked) /\ ~AsksReset(Args) /\ OnACard(Args)
         /\ FilesIn(Args, kit.card) = FilesIn(asked, kit.card)
         /\ ~CheckUpdateMode(Args, "sdcard_update") => CardIn(Args) = "UPDATE:SDFROMDEV"
         /\ OptionsOf(Args, "update_bin") = <<>>
<1>0. MiscTypes /\ Stems /\ Armed /\ ~WipeInMisc
  BY DEF Types, Course, Mine
<1>1. asked # <<>>
  BY OfNone DEF FromOwn, Asked
<1>2. asked \in Requests \cup {<<>>}
  BY <1>0 DEF MiscTypes
<1>3. IsRequest(asked)
  BY <1>2, RequestsAre
<1>4. Keeps(Args, asked)
  BY <1>0, <1>1 DEF Stems, FromRequest
<1>5. /\ CardIn(asked) = "UPDATE:SDFROMDEV" /\ OnACard(asked) /\ OptionsOf(asked, "update_bin") = <<>>
      /\ ~AsksReset(asked)
  BY <1>3, OwnIsOnly DEF FromOwn, Asked
<1>6. /\ ~AsksReset(Args) /\ SameFiles(Args, asked)
      /\ ModeIn(Args) = ModeIn(asked) \/ ModeIn(Args) = "sdcard_update"
      /\ CardIn(Args) = CardIn(asked) \/ CheckUpdateMode(Args, "sdcard_update")
  BY <1>4, <1>5 DEF Keeps
<1>7. OnACard(Args)
  BY <1>5, <1>6 DEF OnACard
<1>8. FilesIn(Args, kit.card) = FilesIn(asked, kit.card)
  BY <1>5, <1>6, <1>7 DEF FilesIn, SameFiles
<1> QED
  BY <1>5, <1>6, <1>7, <1>8 DEF SameFiles

\* It does not come back.
LEMMA MineWas ==
  ASSUME Types, Course, Goes, Mine'
  PROVE  Mine /\ (~RunSteps => UNCHANGED <<misc, commandFile, Args>> /\ ~ClearMisc /\ ~UnlinkCommandFile /\ ~Reboot)
<1>0. ModesNext /\ MiscTypes /\ Armed' /\ ~WipeInMisc'
  BY DEF Goes, Types, Mine
<1>1. CASE RunSteps
  BY <1>0, <1>1, WipeInRun DEF Mine
<1>2. CASE ~RunSteps
  <2>1. CASE BootUpdater \/ DoFactoryRstEntry \/ UpdaterMain \/ BootSystem \/ Idle \/ PowerOff
    <3>1. UNCHANGED <<misc, commandFile, asked>>
      BY <2>1 DEF BootUpdater, DoFactoryRstEntry, UpdaterMain, BootSystem, Idle, PowerOff, Off, modesKept,
         resetVars, resetKept
    <3>2. ~ClearMisc /\ ~UnlinkCommandFile /\ ~Reboot
      BY <2>1 DEF BootUpdater, DoFactoryRstEntry, UpdaterMain, BootSystem, Idle, PowerOff, ClearMisc,
         UnlinkCommandFile, Reboot
    <3> QED
      BY <1>0, <1>2, <3>1, <3>2 DEF Mine, Armed, WipeInMisc, Args
  <2>2. ~ClearMisc /\ ~UnlinkCommandFile
    <3> SUFFICES ASSUME ClearMisc \/ UnlinkCommandFile PROVE FALSE
      OBVIOUS
    <3>1. misc' = NoMessage
      BY DEF ClearMisc, UnlinkCommandFile, Types, UnlinkedLast
    <3>2. ~Armed'
      BY <3>1 DEF Armed, NoMessage
    <3> QED
      BY <1>0, <3>2
  <2>3. ASSUME Reboot PROVE FALSE
    <3>1. WipeNext
      BY <1>0, <2>3, RebootIs
    <3>2. Args' = WipeAsked
      BY <1>0, <2>3, <3>1, RebootIs
    <3>3. place = "reboot" /\ UNCHANGED asked
      BY <2>3 DEF Reboot, modesKept
    <3>4. ~AsksReset(asked)
      <4>1. AsksReset(asked) => reboot = "as asked" /\ up.ext = ""
        BY <3>3 DEF Course, EndsAsAsked, After
      <4> QED
        BY <3>1, <4>1 DEF WipeNext
    <3> QED
      BY <1>0, <3>2, <3>3, <3>4 DEF WipeInMisc
  <2>4. ~PowerCut
    BY DEF PowerCut, Goes
  <2> QED
    BY <1>2, <2>1, <2>2, <2>3, <2>4, OtherSteps DEF Goes
<1> QED
  BY <1>1, <1>2

\* It is not a run of a reset.
LEMMA MineIsNoReset ==
  ASSUME Types, Course, Mine, FromOwn, place \in Run
  PROVE  up.reset = "" /\ place \notin ResetRun /\ place # "subpkg" /\ OnCard(up)
<1>1. ~AsksReset(Args) /\ OnACard(Args)
  BY MineIs
<1>2. up.reset = LastOf(Args, Resets).name /\ (OnCard(up) <=> OnACard(Args))
  BY DEF Course, Agrees, Agree
<1>3. up.reset = ""
  BY <1>1, <1>2 DEF AsksReset, Resets
<1>4. "" \notin Resets
  BY NamesAre
<1> QED
  BY <1>1, <1>2, <1>3, <1>4 DEF Course, Resetting, OfVendor
-----------------------------------------------------------------------------
\* Where a run is, and where it was.
LEMMA RunsOn ==
  ASSUME Goes, RunSteps
  PROVE  /\ place' \in CardRun \cup InstallRun => place \in CardRun \cup InstallRun
         /\ place = "installing" => InstallPackage
         /\ place' \in {"install", "installing", "count"} => place \in {"install", "installing", "count"} \/ PreUpdate
         /\ place' = "post" => PreFails \/ CountPackage \/ AllInstalled
         /\ place' = "ended" => NoSdcard \/ (Post /\ place = "post" /\ UNCHANGED status) \/ (UpdateSubPkg /\ status' = "success")
<1>1. CASE UpdaterFromSdcard \/ FindAndMountSdcard \/ NoSdcard
  BY <1>1 DEF UpdaterFromSdcard, FindAndMountSdcard, NoSdcard, CardRun, InstallRun
<1>2. CASE PreUpdate \/ PreFails \/ AllInstalled \/ CountPackage
  BY <1>2 DEF PreUpdate, PreFails, AllInstalled, CountPackage, CardRun, InstallRun
<1>3. CASE InstallPackage \/ InstallFails \/ MarkRetry
  BY <1>3 DEF InstallPackage, InstallFails, MarkRetry, Installing, CardRun, InstallRun, Goes
<1>4. CASE Post \/ UpdateSubPkg
  BY <1>4 DEF Post, UpdateSubPkg, CardRun, InstallRun, Goes
<1>5. CASE WipingSteps \/ SyncOffsetInMisc
  <2>1. place \in ResetRun /\ place' \in ResetRun
    BY <1>5, WipingPlaces, WipingGoes
  <2> QED
    BY <2>1 DEF ResetRun, CardRun, InstallRun
<1> QED
  BY <1>1, <1>2, <1>3, <1>4, <1>5 DEF RunSteps, InstallSteps

\* In a run that goes on nothing is installed but by InstallPackage.
LEMMA GoesKeeps ==
  ASSUME Goes, faults \in Nat
  PROVE  UNCHANGED <<kit, asked>> /\ (UNCHANGED installed \/ InstallPackage) /\ (installed' = {} => UNCHANGED installed)
<1>1. UNCHANGED <<kit, asked>> /\ (UNCHANGED installed \/ InstallPackage)
  BY StepsKeep DEF Goes
<1>2. InstallPackage => installed' # {}
  BY DEF InstallPackage
<1> QED
  BY <1>1, <1>2

\* Until a package is installed misc notes no retry.
LEMMA UntriedStep ==
  ASSUME Types, Course, CountsIn, FromOwn, Untried, Goes
  PROVE  Untried'
<1> SUFFICES ASSUME Mine', installed' = {}, place' # "installing"
    PROVE  RetryIn(Args') = 0 /\ (place' \in CardRun \cup InstallRun => up'.retry = 0)
  BY DEF Untried
<1>0. ModesNext /\ MiscTypes /\ UpTypes /\ ErasingTypes /\ RunsArmed /\ Args \in Seq(Options)
  BY ArgsAre DEF Goes, Types, Course
<1>1. Mine /\ (~RunSteps => UNCHANGED <<misc, commandFile, Args>> /\ ~ClearMisc /\ ~UnlinkCommandFile /\ ~Reboot)
  BY MineWas
<1>2. installed = {} /\ ~InstallPackage
  BY <1>0, GoesKeeps DEF MiscTypes, InstallPackage
<1>3. CASE RunSteps
  <2>1. place # "installing"
    BY <1>2, <1>3, RunsOn
  <2>2. RetryIn(Args) = 0 /\ (place \in CardRun \cup InstallRun => up.retry = 0)
    BY <1>1, <1>2, <2>1 DEF Untried
  <2>3. ~CountPackage
    BY <1>2, NothingIsDone
  <2>4. ~MarkRetry
    BY DEF MarkRetry
  <2>5. ~SyncOffsetInMisc
    <3>1. place \notin ResetRun
      BY <1>1, <1>3, MineIsNoReset, RunStepsStay
    <3> QED
      BY <3>1, WipingPlaces
  <2>6. RetryIn(Args') = 0
    <3>1. CASE UpdaterFromSdcard
      <4>1. Args' = Noting(Args, "sdcard_update", 0)
        BY <1>0, <1>3, <3>1, NotesAre
      <4>2. PICK name, new : name = "sdcard_update" /\ new = Noting(Args, name, 0)
        OBVIOUS
      <4>3. name \in OwnNotes /\ name # "retry_count" /\ 0 \in Nat
        BY <4>2 DEF OwnNotes
      <4>4. RetryIn(new) = RetryIn(Args)
        BY <1>0, <4>2, <4>3, NotingOther
      <4> QED
        BY <2>2, <4>1, <4>2, <4>4
    <3>2. CASE ~UpdaterFromSdcard
      <4>1. UNCHANGED Args
        BY <1>0, <1>3, <2>3, <2>4, <2>5, <3>2, NotesAre
      <4> QED
        BY <2>2, <4>1
    <3> QED
      BY <3>1, <3>2
  <2>7. UNCHANGED up.retry
    BY <1>0, <1>3, UpStaysParams
  <2> QED
    BY <1>3, <2>2, <2>6, <2>7, RunsOn
<1>4. CASE BootUpdater
  <2>1. place = "off" /\ UNCHANGED Args /\ up'.retry = RetryIn(Args)
    BY <1>4, EntryIs DEF BootUpdater
  <2>2. RetryIn(Args) = 0
    BY <1>1, <1>2, <2>1 DEF Untried
  <2> QED
    BY <2>1, <2>2
<1>5. CASE ~RunSteps /\ ~BootUpdater
  <2>1. place # "installing" /\ place' \notin CardRun \cup InstallRun
    <3>1. ~PowerCut
      BY DEF PowerCut, Goes
    <3>2. CASE DoFactoryRstEntry \/ UpdaterMain
      BY <3>2 DEF DoFactoryRstEntry, UpdaterMain, CardRun, InstallRun
    <3>3. CASE BootSystem \/ Idle \/ PowerOff
      BY <3>3 DEF BootSystem, Idle, PowerOff, Off, CardRun, InstallRun
    <3> QED
      BY <1>0, <1>1, <1>5, <3>1, <3>2, <3>3, OtherSteps DEF Goes
  <2>2. RetryIn(Args) = 0 /\ UNCHANGED Args
    BY <1>1, <1>2, <1>5, <2>1 DEF Untried
  <2> QED
    BY <2>1, <2>2
<1> QED
  BY <1>3, <1>4, <1>5

\* Where the packages can be installed the run knows that they are from the device.
LEMMA OursStep ==
  ASSUME Types, Course, FromOwn, Ours, EndsWell, Goes
  PROVE  Ours'
<1> SUFFICES ASSUME Mine', ~Doomed'
    PROVE  /\ place' \in Run \cup {"clear"} => OwnExt'
           /\ place' \notin Run \cup {"clear"} => ~CheckUpdateMode(Args', "sdcard_update")
  BY DEF Ours
<1>0. ModesNext /\ MiscTypes /\ UpTypes /\ UNCHANGED <<kit, asked>>
  BY GoesKeeps DEF Goes, Types, MiscTypes
<1>1. Mine /\ (~RunSteps => UNCHANGED <<misc, commandFile, Args>> /\ ~ClearMisc /\ ~UnlinkCommandFile /\ ~Reboot)
  BY MineWas
<1>2. ~Doomed
  BY <1>0 DEF Doomed
<1>3. /\ place \in Run \cup {"clear"} => OwnExt
      /\ place \notin Run \cup {"clear"} => ~CheckUpdateMode(Args, "sdcard_update")
  BY <1>1, <1>2 DEF Ours
<1>4. CASE RunSteps
  <2>1. place \in Run /\ place' \in Run /\ UNCHANGED up.ext
    BY <1>0, <1>4, RunStepsStay, UpStaysParams
  <2> QED
    BY <1>3, <2>1 DEF OwnExt
<1>5. CASE BootUpdater
  <2>1. place = "off" /\ place' \in Run /\ up'.ext = Ext(CardIn(Args))
    <3>1. place' \in {"pre", "card", "subpkg", "reset", "ended"}
      BY <1>5, EntriesAre DEF BootUpdater
    <3> QED
      BY <1>5, <3>1, EntryIs DEF BootUpdater, Run, ResetRun, CardRun, InstallRun
  <2>2. ~CheckUpdateMode(Args, "sdcard_update")
    BY <1>3, <2>1 DEF Run, ResetRun, CardRun, InstallRun
  <2>3. CardIn(Args) = "UPDATE:SDFROMDEV"
    BY <1>1, <2>2, MineIs
  <2>4. OwnExt'
    BY <2>1, <2>3 DEF Ext, OwnExt
  <2> QED
    BY <2>1, <2>4
<1>6. CASE UpdaterMain
  <2>1. place = "ended" /\ place \in Run
    BY <1>6 DEF UpdaterMain, Run
  <2>2. status = "success"
    BY <1>1, <1>2, <2>1 DEF EndsWell
  <2>3. place' = "clear" /\ UNCHANGED up
    BY <1>6, <2>2 DEF UpdaterMain, Ending, Failed
  <2> QED
    BY <1>3, <2>1, <2>3 DEF OwnExt
<1>7. ~DoFactoryRstEntry
  <2>1. DoFactoryRstEntry => place \in ResetRun /\ place \in Run
    BY DEF DoFactoryRstEntry, ResetRun, Run
  <2> QED
    BY <1>1, <2>1, MineIsNoReset
<1>8. ~BootSystem
  BY <1>1 DEF BootSystem, Mine, Armed
<1>9. ~Idle
  <2> SUFFICES ASSUME Idle PROVE FALSE
    OBVIOUS
  <2>1. misc = NoMessage
    BY DEF Idle, Types, UnlinkedLast
  <2>2. ~Armed
    BY <2>1 DEF NoMessage, Armed
  <2> QED
    BY <1>1, <2>2 DEF Mine
<1>10. CASE PowerOff
  <2>1. place = "forever" /\ place' = "off"
    BY <1>10 DEF PowerOff, Off
  <2>2. ~RunSteps
    BY <2>1, RunStepsStay DEF Run, ResetRun, CardRun, InstallRun
  <2>3. ~CheckUpdateMode(Args', "sdcard_update")
    BY <1>1, <1>3, <2>1, <2>2 DEF Run, ResetRun, CardRun, InstallRun
  <2> QED
    BY <2>1, <2>3 DEF Run, ResetRun, CardRun, InstallRun
<1>11. ~PowerCut
  BY DEF PowerCut, Goes
<1> QED
  BY <1>0, <1>1, <1>4, <1>5, <1>6, <1>7, <1>8, <1>9, <1>10, <1>11, OtherSteps DEF Goes
-----------------------------------------------------------------------------
\* What is left of the files of a first try is all of them.
LEMMA AllLeft ==
  ASSUME Types, Course, CountsIn, FromOwn, place \in InstallRun
  PROVE  /\ Mine /\ Left(up) \subseteq Numbers(FilesIn(asked, kit.card)) /\ FilesIn(asked, kit.card) # <<>>
         /\ installed = {} => Left(up) = Numbers(FilesIn(asked, kit.card))
<1>0. MiscTypes /\ UpTypes /\ place \in Run /\ Args \in Seq(Options) /\ kit.card \in Seq(Options)
  BY ArgsAre, KitIs DEF Types, Run
<1>1. up.reset = "" /\ Files(up) = FilesIn(Args, kit.card) /\ Files(up) # <<>> /\ up.loc = CountIn(Args)
  BY DEF Course, Installs
<1>2. Armed /\ ~AsksReset(Args)
  BY <1>0, <1>1, NoResetInRun
<1>3. ~WipeInMisc
  BY <1>2, WipeIsNoErasure DEF WipeInMisc
<1>4. Mine
  BY <1>2, <1>3 DEF Mine
<1>5. FilesIn(Args, kit.card) = FilesIn(asked, kit.card)
  BY <1>4, MineIs
<1>6. Left(up) \subseteq Numbers(Files(up))
  BY DEF Left, Numbers
<1>7. ASSUME installed = {} PROVE Left(up) = Numbers(Files(up))
  <2>1. CountIn(Args) \in Nat
    BY <1>0, NotedIsNat
  <2>2. CountedFiles(Args, kit.card, installed)
    BY <1>2 DEF CountsIn
  <2>3. \A i \in 1..CountIn(Args) : FALSE
    BY <1>7, <2>2 DEF CountedFiles
  <2>4. CountIn(Args) = 0
    BY <2>1, <2>3
  <2>5. PICK s \in Seq(Options) : s = Files(up)
    BY <1>0, <1>1, FilesAre
  <2>6. {k \in DOMAIN s : k > 0} = DOMAIN s
    <3>1. DOMAIN s = 1..Len(s) /\ Len(s) \in Nat
      OBVIOUS
    <3> QED
      BY <3>1
  <2> QED
    BY <1>1, <2>4, <2>5, <2>6 DEF Left, Numbers
<1> QED
  BY <1>1, <1>4, <1>5, <1>6, <1>7

\* Packages that cannot be installed are not.
LEMMA SparedStep ==
  ASSUME Types, Course, CountsIn, FromOwn, Untried, Spared, Goes
  PROVE  Spared'
<1> SUFFICES ASSUME Doomed' PROVE installed' = {} /\ place' \notin {"install", "installing", "count"}
  BY DEF Spared
<1>0. ModesNext /\ MiscTypes /\ UNCHANGED <<kit, asked>> /\ (UNCHANGED installed \/ InstallPackage)
  BY GoesKeeps DEF Goes, Types, MiscTypes
<1>1. Doomed
  BY <1>0 DEF Doomed
<1>2. installed = {} /\ place \notin {"install", "installing", "count"}
  BY <1>1 DEF Spared
<1>3. installed' = {}
  BY <1>0, <1>2 DEF InstallPackage
<1>4. ~PreUpdate
  <2> SUFFICES ASSUME PreUpdate PROVE FALSE
    OBVIOUS
  <2>1. place = "pre" /\ Verified /\ Powered
    BY DEF PreUpdate
  <2>2. /\ Mine /\ FilesIn(asked, kit.card) # <<>>
        /\ Left(up) = Numbers(FilesIn(asked, kit.card))
    BY <1>2, <2>1, AllLeft DEF InstallRun
  <2>3. up.retry = 0
    BY <1>2, <2>1, <2>2 DEF Untried, InstallRun
  <2> QED
    BY <1>1, <2>1, <2>2, <2>3 DEF Doomed, Verified, Powered
<1>5. CASE RunSteps
  BY <1>2, <1>3, <1>4, <1>5, RunsOn
<1>6. CASE ~RunSteps
  <2>1. place' \notin {"install", "installing", "count"}
    <3>1. CASE DoFactoryRstEntry
      BY <3>1 DEF DoFactoryRstEntry
    <3> QED
      BY <1>0, <1>6, <3>1, OtherSteps
  <2> QED
    BY <1>3, <2>1
<1> QED
  BY <1>5, <1>6

\* Packages that can be installed are, with success.
LEMMA EndsWellStep ==
  ASSUME Types, Course, CountsIn, FromOwn, EndsWell, Goes
  PROVE  EndsWell'
<1> SUFFICES ASSUME Mine', place' \in {"post", "ended"} PROVE status' = "success" \/ Doomed'
  BY DEF EndsWell
<1>0. ModesNext /\ MiscTypes /\ UNCHANGED <<kit, asked>>
  BY GoesKeeps DEF Goes, Types, MiscTypes
<1>1. Mine /\ (~RunSteps => UNCHANGED <<misc, commandFile, Args>> /\ ~ClearMisc /\ ~UnlinkCommandFile /\ ~Reboot)
  BY MineWas
<1>2. Doomed => Doomed'
  BY <1>0 DEF Doomed
<1>3. CASE PreFails
  <2>1. place = "pre" /\ (~Verified \/ ~Powered)
    BY <1>3 DEF PreFails, Goes
  <2>2. Left(up) \subseteq Numbers(FilesIn(asked, kit.card))
    BY <2>1, AllLeft DEF InstallRun
  <2> QED
    BY <1>2, <2>1, <2>2 DEF Doomed, Verified, Powered
<1>4. CASE CountPackage \/ AllInstalled
  BY <1>4 DEF CountPackage, AllInstalled
<1>5. CASE NoSdcard
  <2>1. place = "find" /\ kit.card = <<>> /\ up.pkgs = <<>>
    BY <1>5 DEF NoSdcard, Goes
  <2>2. OptionsOf(Args, "update_package") = <<>>
    BY <2>1 DEF Course, FromCard, CardRun
  <2>3. OptionsOf(Args, "update_bin") = <<>> /\ OnACard(Args) /\ FilesIn(Args, kit.card) = FilesIn(asked, kit.card)
    BY <1>1, MineIs
  <2>4. FilesIn(asked, kit.card) = <<>>
    BY <2>1, <2>2, <2>3 DEF FilesIn
  <2> QED
    BY <1>2, <2>4 DEF Doomed
<1>6. CASE Post /\ place = "post" /\ UNCHANGED status
  BY <1>1, <1>2, <1>6 DEF EndsWell
<1>7. CASE BootUpdater
  <2>1. OnACard(Args)
    BY <1>1, MineIs
  <2>2. OnCard(up') /\ place' = DoUpdaterEntry(up')
    BY <1>7, <2>1, EntryIs DEF Agree
  <2>3. place' \in {"pre", "card"}
    BY <2>2 DEF DoUpdaterEntry
  <2> QED
    BY <2>3
<1>8. ~DoFactoryRstEntry
  <2>1. DoFactoryRstEntry => place \in ResetRun /\ place \in Run
    BY DEF DoFactoryRstEntry, ResetRun, Run
  <2> QED
    BY <1>1, <2>1, MineIsNoReset
<1>9. CASE RunSteps
  BY <1>3, <1>4, <1>5, <1>6, <1>9, RunsOn
<1> QED
  BY <1>0, <1>7, <1>8, <1>9, OtherSteps

\* What was installed is followed by the wipe.
LEMMA FollowedStep ==
  ASSUME Types, Course, WipeGoesOn, FromOwn, Ours, Spared, EndsWell, Followed, Goes, faults' = 0
  PROVE  Followed'
<1> SUFFICES ASSUME installed' # {}
    PROVE  \/ userdata' = "empty" \/ ToWipe'
           \/ place' \in {"install", "installing", "count", "post", "ended"} /\ OwnExt'
           \/ place' \in After /\ OwnExt' /\ reboot' = "as asked" /\ OnCard(up')
  BY DEF Followed
<1>0. ModesNext /\ MiscTypes /\ UpTypes /\ RunsArmed /\ (UNCHANGED installed \/ InstallPackage)
      /\ ~\E request \in Requests : Ask(request)
  BY GoesKeeps DEF Goes, Types, MiscTypes, Course
<1>1. CASE InstallPackage
  <2>1. place = "installing" /\ place \in Run /\ place' = "count" /\ UNCHANGED up
    BY <1>1 DEF InstallPackage, Run, InstallRun
  <2>2. Armed /\ ~Doomed
    BY <1>0, <2>1 DEF RunsArmed, Spared
  <2>3. CASE WipeInMisc
    <3>1. RunSteps
      BY <1>1 DEF RunSteps, InstallSteps
    <3> QED
      BY <1>0, <2>2, <2>3, <3>1, WipeInRun DEF ToWipe
  <2>4. CASE ~WipeInMisc
    BY <2>1, <2>2, <2>4 DEF Ours, Mine, OwnExt
  <2> QED
    BY <2>3, <2>4
<1>2. CASE ~InstallPackage
  <2>0. installed # {}
    BY <1>0, <1>2
  <2>1. CASE userdata = "empty"
    BY <1>0, <2>1, UserdataStays
  <2>2. CASE ToWipe
    BY <1>0, <2>2, WipeStays
  <2>3. CASE ~ToWipe /\ place \in {"install", "installing", "count", "post", "ended"} /\ OwnExt
    <3>0. place \in Run /\ Mine /\ ~Doomed
      <4>1. place \in Run
        BY <2>3 DEF Run, InstallRun
      <4> QED
        BY <1>0, <2>0, <2>3, <4>1 DEF RunsArmed, Mine, ToWipe, Spared
    <3>1. CASE RunSteps
      <4>1. UNCHANGED up.ext
        BY <1>0, <3>1, UpStaysParams
      <4>2. place' \in {"install", "installing", "count", "post", "ended"}
        <5>1. ~WipingSteps /\ ~SyncOffsetInMisc
          <6>1. place \notin ResetRun
            BY <2>3 DEF ResetRun
          <6> QED
            BY <6>1, WipingPlaces
        <5>2. CASE UpdaterFromSdcard \/ FindAndMountSdcard \/ NoSdcard \/ PreUpdate \/ PreFails \/ UpdateSubPkg
          BY <2>3, <5>2 DEF UpdaterFromSdcard, FindAndMountSdcard, NoSdcard, PreUpdate, PreFails, UpdateSubPkg
        <5>3. CASE MarkRetry \/ CountPackage \/ InstallFails \/ AllInstalled \/ Post
          BY <5>3 DEF MarkRetry, CountPackage, InstallFails, AllInstalled, Post
        <5> QED
          BY <1>2, <3>1, <5>1, <5>2, <5>3 DEF RunSteps, InstallSteps
      <4> QED
        BY <2>3, <4>1, <4>2 DEF OwnExt
    <3>2. CASE UpdaterMain
      <4>1. place = "ended"
        BY <3>2 DEF UpdaterMain
      <4>2. status = "success"
        BY <3>0, <4>1 DEF EndsWell
      <4>3. place' = "clear" /\ UNCHANGED up /\ reboot' = "as asked"
        BY <3>2, <4>2 DEF UpdaterMain, Ending, Failed
      <4>4. OnCard(up)
        BY <3>0, MineIsNoReset
      <4> QED
        BY <2>3, <4>3, <4>4 DEF OwnExt, After
    <3>3. ~BootUpdater /\ ~DoFactoryRstEntry /\ ~BootSystem /\ ~ClearMisc /\ ~UnlinkCommandFile /\ ~Reboot /\ ~Idle
      BY <2>3 DEF BootUpdater, DoFactoryRstEntry, BootSystem, ClearMisc, UnlinkCommandFile, Reboot, Idle
    <3>4. ~PowerCut /\ ~PowerOff
      BY <2>3 DEF PowerCut, PowerOff, Goes
    <3> QED
      BY <1>0, <3>1, <3>2, <3>3, <3>4, OtherSteps
  <2>4. CASE place \in After /\ OwnExt /\ reboot = "as asked" /\ OnCard(up)
    <3>1. CASE ClearMisc \/ UnlinkCommandFile
      BY <2>4, <3>1 DEF ClearMisc, UnlinkCommandFile, After, OwnExt
    <3>2. CASE Reboot
      <4>1. WipeNext
        BY <2>4 DEF WipeNext, OwnExt
      <4>2. ~AsksReset(asked)
        <5>1. AsksReset(asked) => up.ext = ""
          BY <2>4 DEF Course, EndsAsAsked
        <5> QED
          BY <2>4, <5>1 DEF OwnExt
      <4> QED
        BY <3>2, <4>1, <4>2, RebootWipes
    <3>3. ~Idle
      BY <2>4 DEF Idle, Idles, PackageMode
    <3>4. ~RunSteps
      BY <2>4, RunStepsStay DEF After, Run, ResetRun, CardRun, InstallRun
    <3>5. ~BootUpdater /\ ~DoFactoryRstEntry /\ ~UpdaterMain /\ ~BootSystem
      BY <2>4 DEF After, BootUpdater, DoFactoryRstEntry, UpdaterMain, BootSystem
    <3>6. ~PowerCut /\ ~PowerOff
      BY <2>4 DEF PowerCut, PowerOff, After, Goes
    <3> QED
      BY <1>0, <3>1, <3>2, <3>3, <3>4, <3>5, <3>6, OtherSteps
  <2> QED
    BY <2>0, <2>1, <2>2, <2>3, <2>4 DEF Followed
<1> QED
  BY <1>1, <1>2

\* Every step of the updater.
LEMMA FromDevStep ==
  ASSUME Types, Course, CountsIn, WipeGoesOn, FromDev, ModesNext
  PROVE  FromDev'
<1> SUFFICES ASSUME faults' = 0, FromOwn' PROVE (Untried /\ Ours /\ Spared /\ EndsWell /\ Followed)'
  BY DEF FromDev
<1>1. faults = 0 /\ ~Fault
  BY Faultless DEF Types, MiscTypes
<1>2. ASSUME NEW request \in Requests, Ask(request) PROVE (Untried /\ Ours /\ Spared /\ EndsWell /\ Followed)'
  <2>1. Args' \in Requests \cup {<<>>} /\ (asked' # <<>> => Args' = asked') /\ asked' = request /\ Armed' /\ installed' = {}
        /\ place' = "off"
    BY <1>2, AskedArgs DEF Ask, Types
  <2>2. IsRequest(Args') /\ RetryIn(Args') = 0
    BY <2>1, RequestsAre, RequestIs
  <2>3. asked' # <<>>
    BY OfNone DEF FromOwn, Asked
  <2>4. Args' = request /\ IsRequest(request) /\ CheckUpdateMode(request, "UPDATE:SDFROMDEV")
    BY <2>1, <2>2, <2>3 DEF FromOwn, Asked
  <2>5. ~CheckUpdateMode(request, "sdcard_update")
    <3> SUFFICES ASSUME CheckUpdateMode(request, "sdcard_update") PROVE FALSE
      OBVIOUS
    <3>1. PICK i \in DOMAIN request : request[i].name = "sdcard_update"
      BY DEF CheckUpdateMode
    <3>2. PICK j \in DOMAIN request : request[j].name = "UPDATE:SDFROMDEV"
      BY <2>4 DEF CheckUpdateMode
    <3>3. request[i].name \in UpdateModes /\ request[j].name \in UpdateModes
      BY <3>1, <3>2 DEF UpdateModes, CardModes
    <3>4. \A k, l \in DOMAIN request : request[k].name \in UpdateModes /\ request[l].name \in UpdateModes => k = l
      BY <2>4 DEF IsRequest
    <3>5. i = j
      BY <3>3, <3>4
    <3> QED
      BY <3>1, <3>2, <3>5
  <2>6. Untried'
    BY <2>1, <2>2 DEF Untried, CardRun, InstallRun
  <2>7. Ours'
    BY <2>1, <2>4, <2>5 DEF Ours, Run, ResetRun, CardRun, InstallRun
  <2>8. Spared' /\ EndsWell' /\ Followed'
    BY <2>1 DEF Spared, EndsWell, Followed
  <2> QED
    BY <2>6, <2>7, <2>8
<1>3. CASE ~\E request \in Requests : Ask(request)
  <2>1. Goes
    BY <1>1, <1>3 DEF Goes
  <2>2. FromOwn
    BY <2>1, GoesKeeps DEF Types, MiscTypes, FromOwn, Asked
  <2>3. Untried /\ Ours /\ Spared /\ EndsWell /\ Followed
    BY <1>1, <2>2 DEF FromDev
  <2>4. Untried'
    BY <2>1, <2>2, <2>3, UntriedStep
  <2>5. Ours'
    BY <2>1, <2>2, <2>3, OursStep
  <2>6. Spared'
    BY <2>1, <2>2, <2>3, SparedStep
  <2>7. EndsWell'
    BY <2>1, <2>2, <2>3, EndsWellStep
  <2>8. Followed'
    BY <2>1, <2>2, <2>3, FollowedStep
  <2> QED
    BY <2>4, <2>5, <2>6, <2>7, <2>8
<1> QED
  BY <1>2, <1>3
-----------------------------------------------------------------------------
(***************************************************************************)
(* Of every behaviour.                                                     *)
(***************************************************************************)
ShownIs ==
  /\ status \in {"unknown", "success", "error", "corrupt", "skip"} /\ page \in {"none", "success", "failed"}
  /\ userdata \in {"used", "empty"}
ModesInv ==
  /\ Types /\ Course /\ StatusIs /\ ShownIs
  /\ DueIn /\ CountsIn /\ Reported /\ Erased
  /\ WipeGoesOn /\ WipesAfter /\ FromDev

\* Status, page and userdata keep their types.
LEMMA ShownStep ==
  ASSUME ShownIs, ModesNext
  PROVE  ShownIs'
<1>1. CASE RunSteps
  <2>1. UNCHANGED page
    BY <1>1, RunStepsStay
  <2>2. ~\E request \in Requests : Ask(request)
    BY <1>1, RunStepsStay DEF Ask, Run, ResetRun, CardRun, InstallRun
  <2>3. UNCHANGED userdata \/ userdata' = "empty"
    BY <2>2, UserdataStays
  <2>4. status' \in {"unknown", "success", "error", "corrupt", "skip"}
    <3>1. CASE UpdaterFromSdcard \/ FindAndMountSdcard \/ NoSdcard \/ MarkRetry \/ CountPackage
      BY <3>1 DEF UpdaterFromSdcard, FindAndMountSdcard, NoSdcard, MarkRetry, CountPackage, ShownIs
    <3>2. CASE InstallSteps
      BY <3>2 DEF InstallSteps, PreUpdate, PreFails, InstallPackage, InstallFails, AllInstalled, Post,
         UpdateSubPkg, ShownIs
    <3>3. CASE WipingSteps
      BY <3>3 DEF WipingSteps, FactoryResetPre, NothingToOverwrite, SkipPartition, OverWriteChunk,
         OverWriteFails,
                  SyncPartition, AllOverwritten, Format, FormatFails, FactoryResetPost, FailReset, ShownIs
    <3>4. CASE SyncOffsetInMisc
      BY <3>4 DEF SyncOffsetInMisc, ShownIs
    <3> QED
      BY <1>1, <3>1, <3>2, <3>3, <3>4 DEF RunSteps
  <2> QED
    BY <2>1, <2>3, <2>4 DEF ShownIs
<1>2. CASE ~RunSteps
  <2>1. UNCHANGED status \/ status' = "unknown"
    BY <1>2, OtherSteps DEF BootUpdater, DoFactoryRstEntry, UpdaterMain, Ask, BootSystem, ClearMisc,
       UnlinkCommandFile, Reboot, Idle,
                            PowerCut, PowerOff, Off
  <2>2. UNCHANGED page \/ page' \in {"none", "success", "failed"}
    BY <1>2, OtherSteps DEF BootUpdater, DoFactoryRstEntry, UpdaterMain, ShowPage, Ask, BootSystem,
       ClearMisc, UnlinkCommandFile, Reboot,
                            Idle, PowerCut, PowerOff, Off, resetVars, resetKept
  <2>3. UNCHANGED userdata \/ userdata' \in {"used", "empty"}
    BY UserdataStays DEF Ask
  <2> QED
    BY <2>1, <2>2, <2>3 DEF ShownIs
<1> QED
  BY <1>1, <1>2

\* The inductive invariant holds of a device nobody asked for anything.
LEMMA ModesStart ==
  ASSUME ModesInit, faults = 0
  PROVE  ModesInv
<1>1. Types /\ Course
  BY CourseStarts
<1>2. /\ place = "system" /\ ~Armed /\ lists = {} /\ installed = {} /\ page = "none" /\ status = "unknown" /\ due = FALSE
      /\ userdata = "used" /\ chunk = OldChunks
  BY DEF ModesInit, Armed, NoMessage
<1>3. place \notin Run /\ place \notin After /\ place \notin ResetRun /\ place \notin Writing /\ place \notin CardRun \cup InstallRun
  BY <1>2 DEF Run, ResetRun, CardRun, InstallRun, After, Writing
<1>4. StatusIs /\ ShownIs /\ DueIn
  BY <1>2, <1>3 DEF StatusIs, ShownIs, DueIn
<1>5. CountsIn /\ Reported
  BY <1>2, <1>3 DEF CountsIn, Reported, Places
<1>6. Erased
  <2>1. CachedOnly
    BY <1>2 DEF CachedOnly, OldChunks
  <2>2. ~Erasure
    BY <1>3 DEF Erasure
  <2>3. Begun /\ Kept
    BY <1>2 DEF Begun, Kept
  <2>4. AtWrite /\ AllWritten
    BY <2>2 DEF AtWrite, AllWritten
  <2> QED
    BY <2>1, <2>3, <2>4 DEF Erased
<1>7. WipeGoesOn
  BY <1>2 DEF WipeGoesOn, ToWipe
<1>8. asked = <<>>
  BY DEF ModesInit
<1>9. WipesAfter /\ FromDev
  BY <1>8, OfNone DEF WipesAfter, FromDev, FromOwn, Asked
<1> QED
  BY <1>1, <1>4, <1>5, <1>6, <1>7, <1>9 DEF ModesInv

\* Every step of the updater keeps it.
LEMMA ModesStep ==
  ASSUME ModesInv, ModesNext
  PROVE  ModesInv'
<1>0. Types /\ Course /\ StatusIs /\ ShownIs /\ DueIn /\ CountsIn /\ Reported /\ Erased /\ WipeGoesOn /\ WipesAfter /\ FromDev
  BY DEF ModesInv
<1>1. Types' /\ Course'
  BY <1>0, CourseStep
<1>2. StatusIs' /\ ShownIs' /\ DueIn'
  BY <1>0, StatusStep, ShownStep, DueStep
<1>3. CountsIn'
  BY <1>0, CountsStep
<1>4. Reported'
  BY <1>0, ReportedStep
<1>5. Erased'
  BY <1>0, ErasedStep
<1>6. WipeGoesOn' /\ WipesAfter'
  BY <1>0, WipeGoesOnStep, WipesAfterStep
<1>7. FromDev'
  BY <1>0, FromDevStep
<1> QED
  BY <1>1, <1>2, <1>3, <1>4, <1>5, <1>6, <1>7 DEF ModesInv

\* Nothing of it depends on what is not of the updater.
LEMMA ModesStutter ==
  ASSUME ModesInv, UNCHANGED <<modes, faults>>
  PROVE  ModesInv'
<1>1. UNCHANGED <<place, status, kit, commandFile, up, page, lists, lost, misc, erasing, chunk, userdata, due, installed, asked, asks,
                  reboot, faults, Args>>
  BY DEF modes, resetVars, resetKept, Args
<1>2. (Armed' <=> Armed) /\ (WipeInMisc' <=> WipeInMisc) /\ (FromRequest' <=> FromRequest) /\ (ToWipe' <=> ToWipe)
  BY <1>1 DEF Armed, WipeInMisc, FromRequest, ToWipe
<1>3. (AskedDone' <=> AskedDone) /\ (Claims' <=> Claims) /\ (Doomed' <=> Doomed) /\ (Mine' <=> Mine) /\ (OwnExt' <=> OwnExt)
  <2>1. Claims' <=> Claims
    BY <1>1, ClaimsStay
  <2>2. AskedDone' <=> AskedDone
    BY <1>1 DEF AskedDone
  <2>3. Doomed' <=> Doomed
    BY <1>1 DEF Doomed
  <2>4. (Mine' <=> Mine) /\ (OwnExt' <=> OwnExt)
    BY <1>1, <1>2 DEF Mine, OwnExt
  <2> QED
    BY <2>1, <2>2, <2>3, <2>4
<1>4. Types' /\ Course'
  <2>1. MiscTypes' /\ UnlinkedLast' /\ UpTypes'
    BY <1>1 DEF ModesInv, Types, MiscTypes, UnlinkedLast, UpTypes
  <2>2. ErasingTypes' /\ ChunkTypes'
    BY <1>1 DEF ModesInv, Types, ErasingTypes, ChunkTypes
  <2>3. RunsArmed' /\ Stems'
    BY <1>1, <1>2 DEF ModesInv, Course, RunsArmed, Stems
  <2>4. Agrees'
    BY <1>1 DEF ModesInv, Course, Agrees
  <2>5. Installs' /\ FromCard' /\ OfVendor' /\ Resetting' /\ EndsAsAsked'
    BY <1>1 DEF ModesInv, Course, Installs, FromCard, OfVendor, Resetting, EndsAsAsked
  <2> QED
    BY <2>1, <2>2, <2>3, <2>4, <2>5 DEF Types, Course
<1>5. StatusIs' /\ ShownIs' /\ DueIn' /\ CountsIn' /\ Reported'
  <2>1. StatusIs' /\ ShownIs'
    BY <1>1 DEF ModesInv, StatusIs, ShownIs
  <2>2. DueIn'
    BY <1>1, <1>2 DEF ModesInv, DueIn
  <2>3. CountsIn'
    BY <1>1, <1>2 DEF ModesInv, CountsIn
  <2>4. Reported'
    BY <1>1, <1>3 DEF ModesInv, Reported
  <2> QED
    BY <2>1, <2>2, <2>3, <2>4
<1>6. Erased'
  BY <1>1, <1>2 DEF ModesInv, Erased, CachedOnly, Begun, AtWrite, Kept, KeptOf, AllWritten, AllOf, Erasure, Part
<1>7. WipeGoesOn' /\ WipesAfter'
  BY <1>1, <1>2 DEF ModesInv, WipeGoesOn, WipesAfter, AwaitsWipe, InWait, Asked
<1>8. FromDev'
  BY <1>1, <1>2, <1>3 DEF ModesInv, FromDev, FromOwn, Asked, Untried, Ours, Spared, EndsWell, Followed
<1> QED
  BY <1>4, <1>5, <1>6, <1>7, <1>8 DEF ModesInv

\* It implies NothingForgotten: at "system" no wipe is under way.
LEMMA NothingIsForgotten ==
  ASSUME ModesInv
  PROVE  NothingForgotten
<1>1. kit.ui /\ due => misc.command = "boot_updater" /\ AsksReset(ParseParams(misc, commandFile))
  BY DueIsKnown DEF ModesInv, Args
<1>2. ASSUME faults = 0, place = "system", ToWipe PROVE userdata = "empty"
  BY <1>2 DEF ModesInv, WipeGoesOn
<1>3. faults = 0 /\ place = "system" /\ installed # {} /\ Asked("UPDATE:SDFROMDEV") => userdata = "empty"
  BY <1>2 DEF ModesInv, FromDev, FromOwn, Followed, After
<1>4. faults = 0 /\ place = "system" /\ kit.ui /\ Asked("factory_reset_ota") /\ installed = {} /\ kit.battery => userdata = "empty"
  BY <1>2 DEF ModesInv, WipesAfter, AwaitsWipe, InWait, After, CardRun, InstallRun
<1> QED
  BY <1>1, <1>3, <1>4 DEF NothingForgotten

\* It implies the type invariant.
LEMMA TypesAreHeld ==
  ASSUME ModesInv
  PROVE  ModesTypeOK
<1>0. MiscTypes /\ ChunkTypes /\ ShownIs /\ UpTypes /\ Args \in Seq(Options) /\ kit.card \in Seq(Options)
  BY ArgsAre, KitIs DEF ModesInv, Types
<1>1. \A p \in Partitions : chunk[p] \in [1..Chunks[p] -> {"old", "cached", "over"}]
  BY <1>0 DEF ChunkTypes, Contents
<1>2. misc.command \in {"", "boot_updater"}
  BY <1>0 DEF MiscTypes, Messages
<1>3. ASSUME place \in {"pre", "install", "installing", "count"} PROVE up.loc <= Len(Files(up))
  <2>1. place \in InstallRun /\ place \in Run
    BY <1>3 DEF InstallRun, Run
  <2>2. Files(up) = FilesIn(Args, kit.card) /\ up.loc = CountIn(Args) /\ Armed
    BY <2>1 DEF ModesInv, Course, Installs, RunsArmed
  <2>3. CountedFiles(Args, kit.card, installed)
    BY <2>2 DEF ModesInv, CountsIn
  <2> QED
    BY <2>2, <2>3 DEF CountedFiles
<1> QED
  BY <1>0, <1>1, <1>2, <1>3 DEF ModesTypeOK, ShownIs

\* The inductive invariant of everything UpdaterMain does, whatever is asked, however
\* often power is cut.
THEOREM ModesInvHolds == ModesSpec => []ModesInv
<1>1. ModesInit /\ faults = 0 => ModesInv
  BY ModesStart
<1>2. ModesInv /\ [ModesNext]_<<modes, faults>> => ModesInv'
  BY ModesStep, ModesStutter
<1> QED
  BY <1>1, <1>2, PTL DEF ModesSpec

\* ModesTypeOK: the states of the updater are of their types, and no place in the list
\* of packages is behind its end (InstallPackage, DoUpdatePackages).
THEOREM ModesAreTyped == ModesSpec => []ModesTypeOK
<1>1. ModesInv => ModesTypeOK
  BY TypesAreHeld
<1> QED
  BY <1>1, ModesInvHolds, PTL

\* ModesHold: whatever is asked for, of any device, and however often power is cut or a
\* call fails: a reset is not forgotten before it is done, an erasing that is reported
\* done is complete, and no page of success is shown for less than was asked for
\* (PostUpdater, SecureErase, UpdaterMain).
THEOREM ModesAreHeld == ModesSpec => []ModesHold
<1>1. ModesInv => NothingForgotten
  BY NothingIsForgotten
<1>2. ModesInv => EraseIsComplete
  BY ErasedIsComplete DEF ModesInv
<1>3. ModesInv => ReportsAreTrue
  BY ReportedIsTrue DEF ModesInv
<1>4. ModesInv => ModesTypeOK
  BY TypesAreHeld
<1>5. ModesInv => ModesHold
  BY <1>1, <1>2, <1>3, <1>4 DEF ModesHold
<1> QED
  BY <1>5, ModesInvHolds, PTL
-----------------------------------------------------------------------------
(***************************************************************************)
(* The partition tables.                                                   *)
(***************************************************************************)
TableData == [valid : BOOLEAN, place : Int, table : GptTables, need : BOOLEAN, copy : GptTables]
MidTable == {"entries", "backup", "backup entries"}
TableSteps == MidTable \cup {"load", "write", "edited", "success", "failed", "nothing"}
TableTypes ==
  /\ device \in Devices /\ job \in Jobs[device]
  /\ disk \in [DOMAIN device.disk -> DiskStates]
  /\ \A p \in DOMAIN device.disk : disk[p].size = device.disk[p].size
  /\ at \in 1..Len(job.images) + 1 /\ step \in TableSteps /\ data \in Seq(TableData) /\ file \in Images
  /\ step \in MidTable => data # <<>> /\ Table.valid /\ Table.need
  /\ faults \in Nat
  /\ step \in MidTable \cup {"write"} /\ job.kind = "packages" => at <= Len(job.images)

\* What is written to a LUN is a whole table, and so is what follows it to the backup.
TableWhole(t, size) == t.mbr /\ CheckGptHeader(t, size)
FromImage(d) ==
  d.valid /\ d.place # Mmc /\ device.startLun = 0 => TableWhole(d.table, Size(d.place)) /\ d.copy = d.table
CopiedFrom(written) ==
  \A i \in 1..Len(written) : IF job.kind = "sync" THEN written[i].copy = NoTable ELSE FromImage(written[i])
Copied == CopiedFrom(data)

\* The backup is written when the table is.
AtBackup ==
  /\ step \in {"backup", "backup entries"} =>
       HasBackup /\ (Table.place \in DOMAIN disk => disk[Table.place].primary = Table.table)
  /\ step = "backup entries" => CopyThere
BackupsWhole ==
  device.backup /\ device.startLun = 0 /\ faults = 0 =>
    \A lun \in DOMAIN disk \ {Mmc} :
      TableWhole(device.disk[lun].primary, Size(lun)) /\ TableWhole(device.disk[lun].backup, Size(lun)) =>
        \/ TableWhole(disk[lun].backup, Size(lun))
        \/ step = "backup entries" /\ lun = Table.place /\ TableWhole(disk[lun].primary, Size(lun))

\* The slot that runs: what is written is not for it.
Running ==
  /\ device.vab /\ job.kind # "packages" /\ ~job.updater /\ job.current \in 1..2
  /\ job.kind = "file" => job.slot # job.current
OwnLun == LunOfSlot(job.current)
NamesOwn(t) == MatchSuffix(t, SlotName(job.current))
OwnInFile ==
  job.kind = "file" /\ file.there =>
    /\ device.startLun = 0
    /\ OwnLun + 1 <= Len(file.luns) /\ file.luns[OwnLun + 1].mbr => NamesOwn(file.luns[OwnLun + 1])
SparesOwn(written) ==
  \A i \in 1..Len(written) : written[i].valid /\ written[i].need => written[i].place # OwnLun
OwnSlotKept == Running => disk[OwnLun] = device.disk[OwnLun] /\ OwnInFile /\ SparesOwn(data)

TablesInv == TableTypes /\ Copied /\ AtBackup /\ BackupsWhole /\ OwnSlotKept
-----------------------------------------------------------------------------
\* What the assumption says of a device and of what is asked for.
LEMMA TableDeviceIs ==
  ASSUME TableTypes
  PROVE  /\ device.kinds \in Seq({"ufs", "emmc"}) /\ Len(device.kinds) \in 1..2
         /\ device.startLun \in Nat /\ device.backup \in BOOLEAN /\ device.reserved \in Int /\ device.vab \in BOOLEAN
         /\ device.disk \in [DOMAIN device.disk -> DiskStates]
         /\ BackupBlocks \in Nat /\ SlotALun \in Nat
         /\ device.vab => \A slot \in 1..2 :
              LunOfSlot(slot) \in DOMAIN device.disk
              /\ MatchSuffix(device.disk[LunOfSlot(slot)].primary, SlotName(slot))
  BY TablesAssumption DEF TableTypes, IsTableDevice

LEMMA TableJobIs ==
  ASSUME TableTypes
  PROVE  /\ job.kind \in {"packages", "file", "sync"} /\ job.images \in Seq(Images) /\ job.modify \in Seq(Moves)
         /\ job.sdcard \in BOOLEAN /\ job.updater \in BOOLEAN /\ job.current \in Int /\ job.slot \in Int
         /\ job.kind = "sync" => device.vab /\ job.current \in 1..2
  BY TablesAssumption DEF TableTypes, IsTableJob

\* There are as many LUNs as can be counted.
LEMMA LunCountIs ==
  ASSUME TableTypes PROVE LunCount \in Nat
<1>1. DOMAIN disk = DOMAIN device.disk /\ IsFiniteSet(DOMAIN device.disk)
  BY TablesAssumption DEF TableTypes, IsTableDevice
<1>2. IsFiniteSet(DOMAIN disk \ {Mmc})
  BY <1>1, FS_Subset
<1> QED
  BY <1>2, FS_CardinalityType DEF LunCount

\* The LUNs are counted from 0.
LEMMA LunsAre ==
  ASSUME TableTypes PROVE DOMAIN disk = DOMAIN device.disk /\ DOMAIN disk \ {Mmc} = 0..LunCount - 1
<1>1. DOMAIN disk = DOMAIN device.disk
  BY DEF TableTypes
<1>2. DOMAIN device.disk \ {Mmc} = 0..Cardinality(DOMAIN device.disk \ {Mmc}) - 1
  BY TablesAssumption DEF TableTypes, IsTableDevice
<1> QED
  BY <1>1, <1>2 DEF LunCount

\* An empty table is one, and no file is an image of tables.
LEMMA BlankIs == Blank \in GptTables /\ NoTable \in GptTables /\ NoFile \in Images
<1>1. <<>> \in Seq(Entries) /\ <<>> \in Seq(GptTables)
  OBVIOUS
<1>2. Blank \in GptTables
  BY <1>1 DEF Blank, GptTables
<1>3. NoTable \in GptTables
  BY <1>2 DEF NoTable, GptTables
<1> QED
  BY <1>1, <1>2, <1>3 DEF NoFile, Images

\* The size of a disk is a number, and 0 where there is none.
LEMMA SizeIs ==
  ASSUME TableTypes, NEW p
  PROVE  Size(p) \in Int /\ (p \notin DOMAIN disk => Size(p) = 0)
<1>1. p \in DOMAIN disk => disk[p].size \in Int
  BY DEF TableTypes, DiskStates
<1> QED
  BY <1>1 DEF Size

\* A table that is fitted to its disk has the partitions it had.
LEMMA StretchedIs ==
  ASSUME NEW t \in GptTables, NEW last \in Int, t.entries # <<>>
  PROVE  /\ Stretched(t, last) \in Seq(Entries) /\ Len(Stretched(t, last)) = Len(t.entries)
         /\ Stretched(t, last) # <<>> /\ Stretched(t, last)[1].slot = t.entries[1].slot
<1> DEFINE e == t.entries
           n == Len(e)
<1>1. e \in Seq(Entries) /\ n \in Nat /\ n >= 1 /\ n \in DOMAIN e /\ 1 \in DOMAIN e
  BY DEF GptTables
<1>2. e[n] \in Entries /\ e[1] \in Entries
  BY <1>1
<1>3. [e[n] EXCEPT !.end = last] \in Entries /\ [e[n] EXCEPT !.end = last].slot = e[n].slot
  BY <1>2 DEF Entries
<1> DEFINE x == [e[n] EXCEPT !.end = last]
           s == [e EXCEPT ![n] = x]
<1>4. Stretched(t, last) \in {e, s}
  BY DEF Stretched
<1> HIDE DEF x, e, n
<1>5. s \in Seq(Entries) /\ Len(s) = Len(e)
  BY <1>1, <1>3 DEF x
<1>6. s[1] = IF n = 1 THEN x ELSE e[1]
  BY <1>1
<1>7. s[1].slot = e[1].slot
  BY <1>6, <1>3 DEF x
<1>8. s # <<>> /\ e # <<>>
  BY <1>1, <1>5 DEF n
<1> HIDE DEF s
<1> QED
  BY <1>1, <1>4, <1>5, <1>7, <1>8 DEF e

\* It may name a slot where the other one does.
Fitted(u, t) ==
  /\ u \in GptTables /\ u.mbr = t.mbr
  /\ u.entries # <<>> => t.entries # <<>> /\ u.entries[1].slot = t.entries[1].slot
LEMMA PatchIs ==
  ASSUME NEW t \in GptTables, NEW size \in Int, NEW backup \in BOOLEAN, NEW reserved \in Int,
         BackupBlocks \in Nat
  PROVE  Fitted(UfsPatchGptHeader(t, size, backup, reserved), t)
<1>0. PICK u : u = UfsPatchGptHeader(t, size, backup, reserved)
  OBVIOUS
<1> DEFINE last == UfsLast(LastBlock(size, backup), reserved)
<1>1. last \in Int
  BY DEF UfsLast, LastBlock
<1>2. u = IF size = 0 THEN t ELSE PatchGptHeader(t, last)
  BY <1>0 DEF UfsPatchGptHeader
<1> HIDE DEF last
<1> SUFFICES Fitted(u, t)
  BY <1>0
<1>3. CASE size = 0
  BY <1>2, <1>3 DEF Fitted
<1>4. CASE size # 0 /\ t.entries = <<>>
  <2>1. u = [t EXCEPT !.last = last]
    BY <1>2, <1>4 DEF PatchGptHeader
  <2>2. u \in GptTables /\ u.mbr = t.mbr /\ u.entries = t.entries
    BY <1>1, <2>1 DEF GptTables
  <2> QED
    BY <1>4, <2>2 DEF Fitted
<1>5. CASE size # 0 /\ t.entries # <<>>
  <2> DEFINE s == Stretched(t, last)
  <2>1. s \in Seq(Entries) /\ s # <<>> /\ s[1].slot = t.entries[1].slot
    BY <1>1, <1>5, StretchedIs
  <2>2. u = [t EXCEPT !.last = last, !.entries = s, !.of = s]
    BY <1>2, <1>5 DEF PatchGptHeader, Patched
  <2> HIDE DEF s
  <2>3. u \in GptTables /\ u.mbr = t.mbr /\ u.entries = s
    BY <1>1, <2>1, <2>2 DEF GptTables
  <2> QED
    BY <1>5, <2>1, <2>3 DEF Fitted
<1> QED
  BY <1>3, <1>4, <1>5

\* On the device at hand.
LEMMA PatchedIs ==
  ASSUME TableTypes, NEW t \in GptTables, NEW size \in Int
  PROVE  Fitted(UfsPatchGptHeader(t, size, device.backup, device.reserved), t)
<1>1. BackupBlocks \in Nat /\ device.backup \in BOOLEAN /\ device.reserved \in Int
  BY TableDeviceIs
<1> QED
  BY <1>1, PatchIs

\* So is one that is fitted to an eMMC disk.
LEMMA EmmcPatchIs ==
  ASSUME NEW t \in GptTables, NEW size \in Int
  PROVE  EmmcPatchGptHeader(t, size) \in GptTables
<1> DEFINE last == size - 1
           s == Stretched(t, last)
<1>1. last \in Int
  OBVIOUS
<1> HIDE DEF last
<1>2. CASE t.entries = <<>>
  BY <1>1, <1>2 DEF EmmcPatchGptHeader, PatchGptHeader, GptTables, last
<1>3. CASE t.entries # <<>>
  <2>1. s \in Seq(Entries)
    BY <1>1, <1>3, StretchedIs
  <2>2. EmmcPatchGptHeader(t, size) = [t EXCEPT !.last = last, !.entries = s, !.of = s]
    BY <1>3 DEF EmmcPatchGptHeader, PatchGptHeader, Patched, last
  <2> HIDE DEF s
  <2> QED
    BY <1>1, <2>1, <2>2 DEF GptTables
<1> QED
  BY <1>2, <1>3

-----------------------------------------------------------------------------
(***************************************************************************)
(* What is parsed of an image.                                             *)
(***************************************************************************)
\* A table that is given with an image, or none.
LEMMA ImageTableIs ==
  ASSUME NEW img \in Images, NEW i \in Nat
  PROVE  ImageTable(img, i) \in GptTables /\ (ImageTable(img, i).mbr => i + 1 <= Len(img.luns) /\ ImageTable(img, i) = img.luns[i + 1])
<1>1. img.luns \in Seq(GptTables)
  BY DEF Images
<1>2. CASE i + 1 <= Len(img.luns)
  <2>1. img.luns[i + 1] \in GptTables
    BY <1>1, <1>2
  <2> QED
    BY <1>2, <2>1 DEF ImageTable
<1>3. CASE ~(i + 1 <= Len(img.luns))
  <2>1. ImageTable(img, i) = Blank /\ Blank.mbr = FALSE
    BY <1>3 DEF ImageTable, Blank
  <2> QED
    BY <2>1, BlankIs
<1> QED
  BY <1>2, <1>3

\* Of the LUN that is i-th in the image.
ReadOf(d, img, i) ==
  /\ d \in TableData /\ d.place = i - 1 + device.startLun /\ d.copy = NoTable
  /\ d.valid =>
       LET raw == ImageTable(img, i - 1) IN
       /\ raw.mbr /\ CheckGptHeader(d.table, Size(d.place))
       /\ d.table = UfsPatchGptHeader(raw, Size(d.place), device.backup, device.reserved)
       /\ d.need = SetLunPtnDataInfoNeedWrite(d.table, d.place)
AllRead(s, img, n) ==
  /\ s = [ok |-> s.ok, info |-> s.info, data |-> s.data]
  /\ s.ok => /\ s.data \in Seq(TableData) /\ Len(s.data) = n
             /\ \A i \in 1..n : ReadOf(s.data[i], img, i)

\* What is needed is a truth value.
LEMMA NeedIs ==
  ASSUME TableTypes, NEW t \in GptTables, NEW lun
  PROVE  SetLunPtnDataInfoNeedWrite(t, lun) \in BOOLEAN
<1>1. \A n : MatchSuffix(t, n) \in BOOLEAN
  BY DEF MatchSuffix
<1>2. OfUnusedSlot(t) \in BOOLEAN
  BY <1>1, TableJobIs DEF OfUnusedSlot
<1> QED
  BY <1>2, TableJobIs DEF SetLunPtnDataInfoNeedWrite

\* One LUN more is read (ParseLun).
LEMMA ReadOne ==
  ASSUME TableTypes, NEW img \in Images, NEW n \in Nat, n >= 1, NEW s, AllRead(s, img, n - 1), s.ok
  PROVE  AllRead(ParseLun(s, ImageTable(img, n - 1), n - 1 + device.startLun), img, n)
<1> DEFINE raw == ImageTable(img, n - 1)
           lun == n - 1 + device.startLun
           t == UfsPatchGptHeader(raw, Size(lun), device.backup, device.reserved)
           r == ParseLun(s, raw, lun)
<1>1. raw \in GptTables
  <2>1. n - 1 \in Nat
    OBVIOUS
  <2> QED
    BY <2>1, ImageTableIs
<1>2. lun \in Int /\ Size(lun) \in Int
  BY TableDeviceIs, SizeIs
<1>3. t \in GptTables
  <2> HIDE DEF raw, lun
  <2> QED
    BY <1>1, <1>2, PatchedIs DEF Fitted
<1>4. SetLunPtnDataInfoNeedWrite(t, lun) \in BOOLEAN
  BY <1>3, NeedIs
<1>5. /\ s = [ok |-> s.ok, info |-> s.info, data |-> s.data]
      /\ s.data \in Seq(TableData) /\ Len(s.data) = n - 1
      /\ \A i \in 1..(n - 1) : ReadOf(s.data[i], img, i)
  BY DEF AllRead
<1>6. CASE LooksLikeGpt(raw)
  <2> DEFINE d == Datum(TRUE, lun, t, SetLunPtnDataInfoNeedWrite(t, lun))
  <2>1. r = [ok |-> CheckGptHeader(t, Size(lun)), info |-> UfsReadGpt(s.info, t, lun), data |-> Append(s.data, d)]
    BY <1>6 DEF ParseLun, ParsedLun
  <2>2. d \in TableData
    BY <1>2, <1>3, <1>4, BlankIs DEF Datum, TableData
  <2>3. r.ok => ReadOf(d, img, n)
    <3>1. /\ d.place = lun /\ d.copy = NoTable /\ d.table = t
          /\ d.need = SetLunPtnDataInfoNeedWrite(t, lun)
      BY DEF Datum
    <3>2. raw.mbr
      BY <1>6 DEF LooksLikeGpt
    <3>3. r.ok = CheckGptHeader(t, Size(lun))
      BY <2>1
    <3> HIDE DEF d, r
    <3> QED
      BY <2>2, <3>1, <3>2, <3>3 DEF ReadOf
  <2> HIDE DEF d, r
  <2>4. r.data = Append(s.data, d) /\ r.data \in Seq(TableData) /\ Len(r.data) = n
    BY <1>5, <2>1, <2>2
  <2>5. \A i \in 1..n : r.data[i] = IF i = n THEN d ELSE s.data[i]
    BY <1>5, <2>2, <2>4
  <2>6. r.ok => \A i \in 1..n : ReadOf(r.data[i], img, i)
    BY <1>5, <2>3, <2>5
  <2>7. r = [ok |-> r.ok, info |-> r.info, data |-> r.data]
    BY <2>1
  <2> QED
    BY <2>4, <2>6, <2>7 DEF AllRead, r
<1>7. CASE ~LooksLikeGpt(raw)
  <2> DEFINE d == Datum(FALSE, lun, Blank, FALSE)
  <2>1. r = [ok |-> s.ok, info |-> s.info, data |-> Append(s.data, d)]
    BY <1>5, <1>7 DEF ParseLun
  <2>2. d \in TableData
    BY <1>2, BlankIs DEF Datum, TableData
  <2>3. ReadOf(d, img, n)
    <3>1. d.place = lun /\ d.copy = NoTable /\ d.valid = FALSE
      BY DEF Datum
    <3> HIDE DEF d
    <3> QED
      BY <2>2, <3>1 DEF ReadOf
  <2> HIDE DEF d, r
  <2>4. r.data = Append(s.data, d) /\ r.data \in Seq(TableData) /\ Len(r.data) = n
    BY <1>5, <2>1, <2>2
  <2>5. \A i \in 1..n : r.data[i] = IF i = n THEN d ELSE s.data[i]
    BY <1>5, <2>2, <2>4
  <2>6. \A i \in 1..n : ReadOf(r.data[i], img, i)
    BY <1>5, <2>3, <2>5
  <2>7. r = [ok |-> r.ok, info |-> r.info, data |-> r.data]
    BY <2>1
  <2> QED
    BY <2>4, <2>6, <2>7 DEF AllRead, r
<1> QED
  BY <1>6, <1>7

\* The loop that ParseLuns is.
ParsesFrom(g, img, known) ==
  g = [n \in 0..LunCount |->
        IF n = 0 THEN [ok |-> LunCount > 0, info |-> known, data |-> <<>>]
        ELSE LET s == g[n - 1] IN
             IF s.ok THEN ParseLun(s, ImageTable(img, n - 1), n - 1 + device.startLun) ELSE s]
LEMMA ParseLunsIsLoop ==
  ASSUME LunCount \in Nat, NEW img, NEW known
  PROVE  \E g : ParsesFrom(g, img, known) /\ ParseLuns(img, known) = g[LunCount]
<1> DEFINE Step(g, n) ==
             IF n = 0 THEN [ok |-> LunCount > 0, info |-> known, data |-> <<>>]
             ELSE LET s == g[n - 1] IN
                  IF s.ok THEN ParseLun(s, ImageTable(img, n - 1), n - 1 + device.startLun) ELSE s
           Loop(g, m) == g = [n \in 0..m |-> Step(g, n)]
           Good == {m \in 0..LunCount : \E g : Loop(g, m)}
<1>1. 0 \in Good
  <2> DEFINE g == [n \in 0..0 |-> [ok |-> LunCount > 0, info |-> known, data |-> <<>>]]
  <2>1. \A n \in 0..0 : n = 0
    OBVIOUS
  <2>2. Loop(g, 0)
    BY <2>1
  <2> HIDE DEF Loop, g
  <2> QED
    BY <2>2
<1>2. ASSUME NEW m \in 1..LunCount, m - 1 \in Good PROVE m \in Good
  <2>1. PICK g : Loop(g, m - 1)
    BY <1>2
  <2> DEFINE h == [n \in 0..m |-> IF n = m THEN Step(g, m) ELSE g[n]]
  <2>2. ASSUME NEW n \in 0..m PROVE h[n] = Step(h, n)
    <3>1. CASE n = m
      <4>1. h[n - 1] = g[n - 1] /\ h[n] = Step(g, m)
        BY <3>1
      <4> HIDE DEF h
      <4> QED
        BY <3>1, <4>1
    <3>2. CASE n # m
      <4>1. n \in 0..(m - 1) /\ h[n] = g[n]
        BY <3>2
      <4>2. g[n] = Step(g, n)
        BY <2>1, <4>1
      <4>3. n # 0 => h[n - 1] = g[n - 1]
        BY <4>1
      <4> HIDE DEF h
      <4> QED
        BY <4>1, <4>2, <4>3
    <3> QED
      BY <3>1, <3>2
  <2>3. Loop(h, m)
    <3>1. h = [n \in 0..m |-> h[n]]
      OBVIOUS
    <3> HIDE DEF h, Step
    <3> QED
      BY <2>2, <3>1
  <2> HIDE DEF Loop, h
  <2> QED
    BY <2>3
<1>3. LunCount \in Good
  <2>1. LunCount \in 0..LunCount
    OBVIOUS
  <2> HIDE DEF Good
  <2> QED
    BY <1>1, <1>2, <2>1, FromZeroTo
<1>4. \E g : ParsesFrom(g, img, known)
  BY <1>3 DEF ParsesFrom
<1> DEFINE upTo == CHOOSE g : ParsesFrom(g, img, known)
<1>5. ParsesFrom(upTo, img, known)
  BY <1>4
<1>6. ParseLuns(img, known) = upTo[LunCount]
  BY DEF ParseLuns, ParsesFrom
<1> QED
  BY <1>5, <1>6

\* All LUNs of an image are read, or there is a reason to refuse it.
LEMMA ParseLunsIs ==
  ASSUME TableTypes, NEW img \in Images, NEW known
  PROVE  AllRead(ParseLuns(img, known), img, LunCount)
<1>1. LunCount \in Nat
  BY LunCountIs
<1>2. PICK g : ParsesFrom(g, img, known) /\ ParseLuns(img, known) = g[LunCount]
  BY <1>1, ParseLunsIsLoop
<1> DEFINE Good == {n \in 0..LunCount : AllRead(g[n], img, n)}
<1>3. 0 \in Good
  <2>1. g[0] = [ok |-> LunCount > 0, info |-> known, data |-> <<>>]
    BY <1>1, <1>2 DEF ParsesFrom
  <2>2. AllRead(g[0], img, 0)
    BY <2>1 DEF AllRead
  <2> QED
    BY <1>1, <2>2
<1>4. ASSUME NEW n \in 1..LunCount, n - 1 \in Good PROVE n \in Good
  <2>1. g[n] = IF g[n - 1].ok THEN ParseLun(g[n - 1], ImageTable(img, n - 1), n - 1 + device.startLun) ELSE g[n - 1]
    BY <1>1, <1>2 DEF ParsesFrom
  <2>2. AllRead(g[n - 1], img, n - 1) /\ n \in Nat /\ n >= 1
    BY <1>1, <1>4
  <2>3. CASE g[n - 1].ok
    <3>1. PICK s : s = g[n - 1]
      OBVIOUS
    <3>2. AllRead(ParseLun(s, ImageTable(img, n - 1), n - 1 + device.startLun), img, n)
      BY <2>2, <2>3, <3>1, ReadOne
    <3>3. AllRead(g[n], img, n)
      BY <2>1, <2>3, <3>1, <3>2
    <3> QED
      BY <3>3
  <2>4. CASE ~g[n - 1].ok
    <3>1. g[n] = g[n - 1]
      BY <2>1, <2>4
    <3>2. AllRead(g[n], img, n)
      BY <2>2, <2>4, <3>1 DEF AllRead
    <3> QED
      BY <3>2
  <2> QED
    BY <2>3, <2>4
<1>5. LunCount \in Good
  <2>1. LunCount \in 0..LunCount
    BY <1>1
  <2> HIDE DEF Good
  <2> QED
    BY <1>1, <1>3, <1>4, <2>1, FromZeroTo
<1> QED
  BY <1>2, <1>5

\* What is written of the LUN that is i-th in the image.
ParsedOf(d, img, i) ==
  /\ d.place = i - 1 + device.startLun
  /\ device.startLun = 0 => d.copy = d.table
  /\ d.valid =>
       LET raw == ImageTable(img, i - 1) IN
       /\ raw.mbr /\ CheckGptHeader(d.table, Size(d.place))
       /\ d.table = UfsPatchGptHeader(raw, Size(d.place), device.backup, device.reserved)
       /\ d.need = SetLunPtnDataInfoNeedWrite(d.table, d.place)
OfImage(d, img) == d.place = Mmc \/ \E i \in 1..LunCount : ParsedOf(d, img, i)
AllOfImage(written, img) ==
  written \in Seq(TableData) /\ \A i \in 1..Len(written) : OfImage(written[i], img)

\* Where the LUNs are counted from 0, the backup gets what the LUN gets.
LEMMA UfsParseIs ==
  ASSUME TableTypes, NEW img \in Images, NEW known, UfsParse(img, known).ok
  PROVE  AllOfImage(UfsParse(img, known).data, img)
<1> DEFINE s == ParseLuns(img, known)
           Copy(i) == BackupTable(s.data, s.data[i].place)
           w == [i \in DOMAIN s.data |-> [s.data[i] EXCEPT !.copy = Copy(i)]]
<1>1. AllRead(s, img, LunCount) /\ LunCount \in Nat
  BY ParseLunsIs, LunCountIs
<1>2. UfsParse(img, known) = [s EXCEPT !.data = w]
  BY DEF UfsParse, WithCopies
<1> HIDE DEF s, w
<1>3. s = [ok |-> s.ok, info |-> s.info, data |-> s.data]
  BY <1>1 DEF AllRead
<1>4. UfsParse(img, known).ok = s.ok /\ UfsParse(img, known).data = w
  BY <1>2, <1>3
<1>5. /\ s.data \in Seq(TableData) /\ Len(s.data) = LunCount
      /\ \A i \in 1..LunCount : ReadOf(s.data[i], img, i)
  BY <1>1, <1>4 DEF AllRead
<1>6. DOMAIN s.data = 1..LunCount
  BY <1>5
<1>7. ASSUME NEW i \in 1..LunCount
      PROVE  w[i] \in TableData /\ OfImage(w[i], img)
  <2> DEFINE r == s.data[i]
             d == w[i]
  <2>1. ReadOf(r, img, i) /\ r \in TableData
    BY <1>5 DEF ReadOf
  <2>2. d = [r EXCEPT !.copy = Copy(i)]
    BY <1>6 DEF w
  <2>3. Copy(i) \in GptTables
    <3>1. CASE r.place + 1 \in DOMAIN s.data
      <4>1. s.data[r.place + 1] \in TableData
        BY <1>5, <3>1
      <4>2. Copy(i) = s.data[r.place + 1].table
        BY <3>1 DEF BackupTable
      <4> QED
        BY <4>1, <4>2 DEF TableData
    <3>2. CASE r.place + 1 \notin DOMAIN s.data
      BY <3>2, BlankIs DEF BackupTable
    <3> QED
      BY <3>1, <3>2
  <2>4. device.startLun = 0 => Copy(i) = r.table
    <3> SUFFICES ASSUME device.startLun = 0 PROVE Copy(i) = r.table
      OBVIOUS
    <3>1. r.place + 1 = i
      BY <2>1 DEF ReadOf
    <3>2. r.place + 1 \in DOMAIN s.data
      BY <1>6, <3>1
    <3>3. Copy(i) = s.data[r.place + 1].table
      BY <3>2 DEF BackupTable
    <3> QED
      BY <3>1, <3>3
  <2> HIDE DEF d, r, Copy
  <2>5. /\ d \in TableData /\ d.copy = Copy(i)
        /\ d.valid = r.valid /\ d.place = r.place /\ d.table = r.table /\ d.need = r.need
    BY <2>1, <2>2, <2>3 DEF TableData
  <2>6. ParsedOf(d, img, i)
    BY <2>1, <2>4, <2>5 DEF ParsedOf, ReadOf
  <2>7. OfImage(d, img)
    BY <2>6 DEF OfImage
  <2> QED
    BY <2>5, <2>7 DEF d
<1>8. w \in Seq(TableData) /\ Len(w) = LunCount
  <2>1. w = [i \in 1..LunCount |-> w[i]]
    BY <1>6 DEF w
  <2>2. w \in [1..LunCount -> TableData]
    BY <1>7, <2>1
  <2> QED
    BY <1>1, <2>2
<1> QED
  BY <1>4, <1>7, <1>8 DEF AllOfImage

\* The table of an eMMC disk has no backup.
LEMMA EmmcParseIs ==
  ASSUME TableTypes, NEW img \in Images
  PROVE  AllOfImage(EmmcParse(img).data, img)
<1> DEFINE t == EmmcPatchGptHeader(img.emmc, Size(Mmc))
           d == Datum(LooksLikeGpt(t), Mmc, t, TRUE)
<1>1. img.emmc \in GptTables /\ Size(Mmc) \in Int
  BY SizeIs DEF Images
<1>2. t \in GptTables
  BY <1>1, EmmcPatchIs
<1>3. EmmcParse(img).data = <<d>>
  BY DEF EmmcParse, EmmcParsed
<1> HIDE DEF t
<1>4. LooksLikeGpt(t) \in BOOLEAN
  BY <1>2 DEF GptTables, LooksLikeGpt
<1>5. d \in TableData /\ d.place = Mmc
  BY <1>2, <1>4, BlankIs DEF Datum, TableData, Mmc
<1> HIDE DEF d
<1>6. <<d>> \in Seq(TableData) /\ Len(<<d>>) = 1 /\ <<d>>[1] = d
  BY <1>5
<1>7. OfImage(d, img)
  BY <1>5 DEF OfImage
<1>8. \A i \in 1..1 : OfImage(<<d>>[i], img)
  BY <1>6, <1>7
<1> QED
  BY <1>3, <1>6, <1>8 DEF AllOfImage

LEMMA ParseChildIs ==
  ASSUME TableTypes, NEW img \in Images, NEW k, NEW known, ParseChild(k, img, known).ok
  PROVE  AllOfImage(ParseChild(k, img, known).data, img)
<1>1. CASE device.kinds[k] = "ufs"
  <2>1. PICK info : info = IF Composite THEN known[k] ELSE <<>>
    OBVIOUS
  <2>2. ParseChild(k, img, known) = UfsParse(img, info)
    BY <1>1, <2>1 DEF ParseChild
  <2> QED
    BY <2>2, UfsParseIs
<1>2. CASE device.kinds[k] # "ufs"
  <2>1. ParseChild(k, img, known) = EmmcParse(img)
    BY <1>2 DEF ParseChild
  <2> QED
    BY <2>1, EmmcParseIs
<1> QED
  BY <1>1, <1>2

\* One after the other.
LEMMA AllOfBoth ==
  ASSUME NEW img, NEW s, NEW t, AllOfImage(s, img), AllOfImage(t, img)
  PROVE  AllOfImage(s \o t, img)
<1>1. s \in Seq(TableData) /\ t \in Seq(TableData) /\ Len(s) \in Nat /\ Len(t) \in Nat
  BY DEF AllOfImage
<1>2. s \o t \in Seq(TableData) /\ Len(s \o t) = Len(s) + Len(t)
  BY <1>1
<1>3. ASSUME NEW i \in 1..Len(s \o t) PROVE OfImage((s \o t)[i], img)
  <2>1. CASE i <= Len(s)
    <3>1. (s \o t)[i] = s[i] /\ i \in 1..Len(s)
      BY <1>1, <2>1
    <3> QED
      BY <3>1 DEF AllOfImage
  <2>2. CASE i > Len(s)
    <3>1. (s \o t)[i] = t[i - Len(s)] /\ i - Len(s) \in 1..Len(t)
      BY <1>1, <1>2, <2>2
    <3> QED
      BY <3>1 DEF AllOfImage
  <2> QED
    BY <1>1, <1>2, <2>1, <2>2
<1> QED
  BY <1>2, <1>3 DEF AllOfImage

\* What is to be written is all of the image.
LEMMA AllDataIs ==
  ASSUME TableTypes, NEW img \in Images, NEW known, Parses(ParsePartitionFromBuffer(img, known))
  PROVE  AllOfImage(AllData(ParsePartitionFromBuffer(img, known)), img)
<1> DEFINE parsed == ParsePartitionFromBuffer(img, known)
           each == [k \in Children |-> parsed[k].data]
<1>1. Children = 1..Len(device.kinds) /\ Len(device.kinds) \in 1..2
  BY TableDeviceIs DEF Children
<1>2. ASSUME NEW k \in Children PROVE AllOfImage(each[k], img)
  <2>1. parsed[k] = ParseChild(k, img, known)
    <3>0. PICK len \in 1..2 : len = Len(device.kinds)
      BY <1>1
    <3>1. k \in 1..2 /\ (k = 2 => Composite)
      <4>1. k \in 1..len
        BY <1>1, <3>0
      <4>2. len = 1 \/ len = 2
        OBVIOUS
      <4>3. k \in Int /\ 1 <= k /\ k <= len
        BY <4>1
      <4>4. k \in 1..2 /\ (k = 2 => len > 1)
        BY <4>2, <4>3
      <4> QED
        BY <3>0, <4>4 DEF Composite
    <3>2. PICK a, b : a = ParseChild(1, img, known) /\ b = ParseChild(2, img, known)
      OBVIOUS
    <3>3. parsed = IF Composite THEN <<a, b>> ELSE <<a>>
      BY <3>2 DEF ParsePartitionFromBuffer
    <3> HIDE DEF parsed
    <3>4. parsed[1] = a /\ (Composite => parsed[2] = b)
      BY <3>3
    <3>5. k = 1 \/ k = 2
      BY <3>1
    <3> QED
      BY <3>1, <3>2, <3>4, <3>5
  <2>2. ParseChild(k, img, known).ok
    BY <2>1 DEF Parses
  <2>3. AllOfImage(ParseChild(k, img, known).data, img)
    BY <2>2, ParseChildIs
  <2> QED
    BY <2>1, <2>3
<1>3. AllData(parsed) = IF Composite THEN each[1] \o each[2] ELSE each[1]
  BY DEF AllData, Concat
<1> HIDE DEF parsed, each
<1>4. AllOfImage(each[1], img)
  BY <1>1, <1>2
<1>5. CASE Composite
  <2>1. 2 \in Children
    BY <1>1, <1>5 DEF Composite
  <2>2. AllOfImage(each[2], img)
    BY <1>2, <2>1
  <2>3. AllOfImage(each[1] \o each[2], img)
    BY <1>4, <2>2, AllOfBoth
  <2> QED
    BY <1>3, <1>5, <2>3 DEF parsed
<1>6. CASE ~Composite
  BY <1>3, <1>4, <1>6 DEF parsed
<1> QED
  BY <1>5, <1>6

\* So it is whole.
LEMMA CopiedOfImage ==
  ASSUME TableTypes, NEW img \in Images, NEW written, AllOfImage(written, img), job.kind # "sync"
  PROVE  CopiedFrom(written)
<1>1. ASSUME NEW n \in 1..Len(written),
             written[n].valid, written[n].place # Mmc, device.startLun = 0
      PROVE  TableWhole(written[n].table, Size(written[n].place)) /\ written[n].copy = written[n].table
  <2>1. PICK d : d = written[n]
    OBVIOUS
  <2>2. OfImage(d, img)
    BY <2>1 DEF AllOfImage
  <2>3. PICK i \in 1..LunCount : ParsedOf(d, img, i)
    BY <1>1, <2>1, <2>2 DEF OfImage
  <2>4. PICK raw : raw = ImageTable(img, i - 1)
    OBVIOUS
  <2>5. i - 1 \in Nat
    BY LunCountIs
  <2>6. raw \in GptTables
    BY <2>4, <2>5, ImageTableIs
  <2>7. PICK size \in Int : size = Size(d.place)
    BY SizeIs
  <2>8. /\ raw.mbr /\ CheckGptHeader(d.table, size) /\ d.copy = d.table
        /\ d.table = UfsPatchGptHeader(raw, size, device.backup, device.reserved)
    BY <1>1, <2>1, <2>3, <2>4, <2>7 DEF ParsedOf
  <2>9. d.table.mbr = raw.mbr
    <3>1. Fitted(UfsPatchGptHeader(raw, size, device.backup, device.reserved), raw)
      BY <2>6, PatchedIs
    <3>2. Fitted(d.table, raw)
      BY <2>8, <3>1
    <3> QED
      BY <3>2 DEF Fitted
  <2> QED
    BY <2>1, <2>7, <2>8, <2>9 DEF TableWhole
<1> QED
  BY <1>1 DEF CopiedFrom, FromImage

\* The file of the slot that runs has nothing for it.
LEMMA SparedOfImage ==
  ASSUME TableTypes, Running, OwnInFile, job.kind = "file", file.there,
         NEW written, AllOfImage(written, file)
  PROVE  SparesOwn(written)
<1> SUFFICES ASSUME NEW n \in 1..Len(written), written[n].valid, written[n].need, written[n].place = OwnLun
             PROVE  FALSE
  BY DEF SparesOwn
<1>1. PICK d : d = written[n]
  OBVIOUS
<1>2. OfImage(d, file) /\ d \in TableData
  BY <1>1 DEF AllOfImage
<1>3. OwnLun \in Nat /\ OwnLun # Mmc /\ job.current \in 1..2
  BY TableDeviceIs, SMT DEF Running, OwnLun, LunOfSlot, Mmc
<1>4. PICK i \in 1..LunCount : ParsedOf(d, file, i)
  BY <1>1, <1>2, <1>3 DEF OfImage
<1>5. device.startLun = 0 /\ (OwnLun + 1 <= Len(file.luns) /\ file.luns[OwnLun + 1].mbr => NamesOwn(file.luns[OwnLun + 1]))
  BY DEF OwnInFile
<1>6. i - 1 = OwnLun /\ i - 1 \in Nat
  <2>1. d.place = i - 1 + device.startLun
    BY <1>4 DEF ParsedOf
  <2> QED
    BY <1>1, <1>3, <1>5, <2>1, LunCountIs
<1>7. PICK raw : raw = ImageTable(file, i - 1)
  OBVIOUS
<1>8. PICK size \in Int : size = Size(d.place)
  BY SizeIs
<1>9. /\ raw.mbr /\ CheckGptHeader(d.table, size)
      /\ d.table = UfsPatchGptHeader(raw, size, device.backup, device.reserved)
      /\ d.need = SetLunPtnDataInfoNeedWrite(d.table, d.place)
  BY <1>1, <1>4, <1>7, <1>8 DEF ParsedOf
<1>10. raw \in GptTables /\ i <= Len(file.luns) /\ raw = file.luns[i]
  <2>1. file \in Images
    BY DEF TableTypes
  <2>2. raw \in GptTables /\ i - 1 + 1 <= Len(file.luns) /\ raw = file.luns[i - 1 + 1]
    BY <1>6, <1>7, <1>9, <2>1, ImageTableIs
  <2>3. i - 1 + 1 = i
    BY <1>6
  <2> QED
    BY <2>2, <2>3
<1>11. NamesOwn(raw)
  <2>1. OwnLun + 1 = i
    BY <1>3, <1>6
  <2> QED
    BY <1>5, <1>9, <1>10, <2>1
<1>12. d.table.entries # <<>> /\ d.table.entries[1].slot = SlotName(job.current)
  <2>1. d.table.entries # <<>>
    BY <1>9 DEF CheckGptHeader
  <2>2. d.table.entries[1].slot = raw.entries[1].slot
    <3>1. PICK u : u = UfsPatchGptHeader(raw, size, device.backup, device.reserved)
      OBVIOUS
    <3>2. d.table = u
      BY <1>9, <3>1
    <3>3. u.entries # <<>>
      BY <2>1, <3>2
    <3>4. Fitted(u, raw)
      BY <1>10, <3>1, PatchedIs
    <3>5. u.entries[1].slot = raw.entries[1].slot
      BY <3>3, <3>4 DEF Fitted
    <3> QED
      BY <3>2, <3>5
  <2> QED
    BY <1>11, <2>1, <2>2 DEF NamesOwn, MatchSuffix
<1>13. job.slot \in 1..2 /\ job.current # job.slot /\ MatchSuffix(d.table, SlotName(job.slot))
  <2>1. device.vab /\ job.updater = FALSE /\ job.current # job.slot
    BY TableJobIs DEF Running
  <2>2. SetLunPtnDataInfoNeedWrite(d.table, d.place)
    BY <1>1, <1>9
  <2> QED
    BY <2>1, <2>2 DEF SetLunPtnDataInfoNeedWrite, OfUnusedSlot
<1> QED
  <2>1. SlotName(job.current) = SlotName(job.slot)
    BY <1>12, <1>13 DEF MatchSuffix
  <2>2. SlotName(1) = "a" /\ SlotName(2) = "b"
    BY DEF SlotName
  <2>3. CASE job.current = 1
    <3>1. job.slot = 2
      BY <1>13, <2>3
    <3> QED
      BY <2>1, <2>2, <2>3, <3>1
  <2>4. CASE job.current = 2
    <3>1. job.slot = 1
      BY <1>13, <2>4
    <3> QED
      BY <2>1, <2>2, <2>4, <3>1
  <2> QED
    BY <1>3, <2>3, <2>4

-----------------------------------------------------------------------------
(***************************************************************************)
(* A table whose partitions are moved, or renamed.                         *)
(***************************************************************************)
\* It is a table that names the slot it named.
KeepsNames(u, t) ==
  /\ u \in GptTables /\ u.mbr = t.mbr
  /\ t.entries # <<>> => u.entries # <<>> /\ u.entries[1].slot = t.entries[1].slot
MovedSo(s, t) ==
  s.previous \in Int /\ s.out \in Seq(Entries) /\ Len(s.out) >= 1 /\ s.out[1].slot = t.entries[1].slot

\* The partition that is moved is where it was in the table.
LEMMA MovedIs ==
  ASSUME NEW t \in GptTables, NEW m \in Moves, NEW last, NEW i \in 1..Len(t.entries)
  PROVE  MovedSo(Moved(t, m, last, i), t)
<1> DEFINE es == t.entries
           x == MoveTo(es[i], m)
           ahead == SubSeq(es, 1, i - 1)
           s == Moved(t, m, last, i)
<1>1. es \in Seq(Entries)
  BY DEF GptTables
<1>2. es[i] \in Entries
  BY <1>1
<1>3. m.start \in Int /\ m.size \in Int
  BY DEF Moves
<1>4. x \in Entries /\ x.slot = es[i].slot
  <2>1. PICK e \in Entries, first \in Int, end \in Int :
          e = es[i] /\ first = m.start /\ end = m.start + m.size - 1
    BY <1>2, <1>3
  <2>2. x = [e EXCEPT !.first = first, !.end = end]
    BY <2>1 DEF MoveTo
  <2> HIDE DEF x
  <2> QED
    BY <2>1, <2>2 DEF Entries
<1>5. s.previous = m.start + m.size - 1 /\ s.out = Append(ahead, x)
  BY DEF Moved
<1> HIDE DEF x, s
<1>6. /\ ahead \in Seq(Entries) /\ Len(ahead) = i - 1
      /\ \A k \in 1..(i - 1) : ahead[k] = es[k]
  BY <1>1
<1> HIDE DEF ahead
<1>7. s.out \in Seq(Entries) /\ Len(s.out) = i
  BY <1>4, <1>5, <1>6
<1>8. CASE i = 1
  <2>1. s.out[1] = x
    BY <1>4, <1>5, <1>6, <1>8
  <2>2. s.out[1].slot = es[1].slot
    BY <1>4, <1>8, <2>1
  <2> QED
    BY <1>3, <1>5, <1>7, <1>8, <2>2 DEF MovedSo, s
<1>9. CASE i # 1
  <2>1. s.out[1] = ahead[1]
    BY <1>4, <1>5, <1>6, <1>9
  <2>2. s.out[1] = es[1] /\ i >= 1
    BY <1>6, <1>9, <2>1
  <2> QED
    BY <1>3, <1>5, <1>7, <2>2 DEF MovedSo, s
<1> QED
  BY <1>8, <1>9

\* One that follows it comes behind.
LEMMA FollowIs ==
  ASSUME NEW t, NEW s, MovedSo(s, t), NEW e \in Entries, NEW last \in Int
  PROVE  MovedSo(Follow(s, e, last), t)
<1> DEFINE x == AdjustGpt(e, s.previous, last)
           r == Follow(s, e, last)
<1>1. x \in Entries
  <2>1. PICK previous \in Int : previous = s.previous
    BY DEF MovedSo
  <2>2. e.first \in Int /\ e.end \in Int
    BY DEF Entries
  <2>3. PICK first \in Int, end \in Int : x = [e EXCEPT !.first = first, !.end = end]
    <3>1. CASE Named(e, Userdata)
      <4>1. x = [e EXCEPT !.first = previous + 1, !.end = last]
        BY <2>1, <3>1 DEF AdjustGpt
      <4>2. previous + 1 \in Int
        OBVIOUS
      <4> QED
        BY <4>1, <4>2
    <3>2. CASE ~Named(e, Userdata)
      <4>1. x = [e EXCEPT !.first = previous + 1, !.end = previous + 1 + (e.end - e.first)]
        BY <2>1, <3>2 DEF AdjustGpt
      <4>2. previous + 1 \in Int /\ previous + 1 + (e.end - e.first) \in Int
        BY <2>2
      <4> QED
        BY <4>1, <4>2
    <3> QED
      BY <3>1, <3>2
  <2> HIDE DEF x
  <2> QED
    BY <2>3 DEF Entries
<1>2. r.previous = x.end /\ r.out = Append(s.out, x)
  BY DEF Follow
<1> HIDE DEF x, r
<1>3. x.end \in Int
  BY <1>1 DEF Entries
<1>4. s.out \in Seq(Entries) /\ Len(s.out) >= 1
  BY DEF MovedSo
<1>5. r.out \in Seq(Entries) /\ Len(r.out) >= 1 /\ r.out[1] = s.out[1]
  BY <1>1, <1>2, <1>4
<1> QED
  BY <1>2, <1>3, <1>5 DEF MovedSo, r

\* The least of some numbers is one of them.
LEMMA LeastIs ==
  ASSUME NEW S \in SUBSET Nat, S # {}
  PROVE  Min(S) \in S
<1> DEFINE R == OpToRel(<, Nat)
<1>1. R = {ss \in Nat \X Nat : ss[1] < ss[2]}
  BY DEF OpToRel
<1>2. IsWellFoundedOn(R, Nat)
  BY NatLessThanWellFounded
<1> HIDE DEF R
<1>3. PICK i \in S : \A k \in S : ~(<<k, i>> \in R)
  <2>1. S \subseteq Nat
    OBVIOUS
  <2> QED
    BY <1>2, <2>1, WFMin
<1>4. ASSUME NEW k \in S PROVE i <= k
  <2>1. k \in Nat /\ i \in Nat
    OBVIOUS
  <2>2. k < i => <<k, i>> \in R
    BY <1>1, <2>1
  <2> QED
    BY <1>3, <2>1, <2>2
<1> QED
  BY <1>4 DEF Min

\* The loop that ChangeAt is.
ChangesFrom(g, t, m, last, i) ==
  g = [k \in i..Len(t.entries) |->
        IF k = i THEN Moved(t, m, last, i)
        ELSE LET s == g[k - 1] IN IF s.ok THEN Follow(s, t.entries[k], last) ELSE s]
LEMMA ChangeAtIsLoop ==
  ASSUME NEW t, Len(t.entries) \in Nat, NEW m, NEW last, NEW i \in 1..Len(t.entries)
  PROVE  \E g : ChangesFrom(g, t, m, last, i) /\ ChangeAt(t, m, last, i) = g[Len(t.entries)]
<1> DEFINE Step(g, k) ==
             IF k = i THEN Moved(t, m, last, i)
             ELSE LET s == g[k - 1] IN IF s.ok THEN Follow(s, t.entries[k], last) ELSE s
           Loop(g, n) == g = [k \in i..n |-> Step(g, k)]
           top == Len(t.entries) - i
           Good == {n \in 0..top : \E g : Loop(g, i + n)}
<1>0. top \in Nat /\ i + top = Len(t.entries)
  OBVIOUS
<1> HIDE DEF top
<1>1. 0 \in Good
  <2> DEFINE g == [k \in i..i |-> Moved(t, m, last, i)]
  <2>1. \A k \in i..i : k = i
    OBVIOUS
  <2>2. Loop(g, i)
    BY <2>1
  <2>3. i + 0 = i
    OBVIOUS
  <2> HIDE DEF Loop, g
  <2> QED
    BY <1>0, <2>2, <2>3
<1>2. ASSUME NEW n \in 1..top, n - 1 \in Good PROVE n \in Good
  <2>1. PICK g : Loop(g, i + (n - 1))
    BY <1>2
  <2>2. PICK u \in Int : u = i + n /\ i + (n - 1) = u - 1 /\ u > i
    BY <1>0
  <2> DEFINE h == [k \in i..u |-> IF k = u THEN Step(g, u) ELSE g[k]]
  <2>3. ASSUME NEW k \in i..u PROVE h[k] = Step(h, k)
    <3>1. CASE k = u
      <4>1. h[k - 1] = g[k - 1] /\ h[k] = Step(g, u)
        BY <2>2, <3>1
      <4> HIDE DEF h
      <4> QED
        BY <3>1, <4>1
    <3>2. CASE k # u
      <4>1. k \in i..(u - 1) /\ h[k] = g[k]
        BY <2>2, <3>2
      <4>2. g[k] = Step(g, k)
        BY <2>1, <2>2, <4>1
      <4>3. k # i => h[k - 1] = g[k - 1]
        BY <2>2, <4>1
      <4> HIDE DEF h
      <4> QED
        BY <4>1, <4>2, <4>3
    <3> QED
      BY <3>1, <3>2
  <2>4. Loop(h, u)
    <3>1. h = [k \in i..u |-> h[k]]
      OBVIOUS
    <3> HIDE DEF h, Step
    <3> QED
      BY <2>3, <3>1
  <2> HIDE DEF Loop, h
  <2>5. Loop(h, i + n)
    BY <2>2, <2>4
  <2> QED
    BY <2>5
<1>3. top \in Good
  <2>1. top \in 0..top
    BY <1>0
  <2> HIDE DEF Good
  <2> QED
    BY <1>0, <1>1, <1>2, <2>1, FromZeroTo
<1>4. \E g : ChangesFrom(g, t, m, last, i)
  BY <1>0, <1>3 DEF ChangesFrom
<1> DEFINE upTo == CHOOSE g : ChangesFrom(g, t, m, last, i)
<1>5. ChangesFrom(upTo, t, m, last, i)
  BY <1>4
<1>6. ChangeAt(t, m, last, i) = upTo[Len(t.entries)]
  BY DEF ChangeAt, ChangesFrom
<1> QED
  BY <1>5, <1>6

\* All that follow it come behind it.
LEMMA ChangeAtIs ==
  ASSUME NEW t \in GptTables, NEW m \in Moves, NEW last \in Int, NEW i \in 1..Len(t.entries)
  PROVE  MovedSo(ChangeAt(t, m, last, i), t)
<1>1. t.entries \in Seq(Entries) /\ Len(t.entries) \in Nat
  BY DEF GptTables
<1>2. PICK g : ChangesFrom(g, t, m, last, i) /\ ChangeAt(t, m, last, i) = g[Len(t.entries)]
  BY <1>1, ChangeAtIsLoop
<1> DEFINE top == Len(t.entries) - i
           Good == {n \in 0..top : MovedSo(g[i + n], t)}
<1>3. top \in Nat /\ i + top = Len(t.entries)
  BY <1>1
<1> HIDE DEF top
<1>4. 0 \in Good
  <2>1. g[i] = Moved(t, m, last, i)
    BY <1>1, <1>2 DEF ChangesFrom
  <2>2. MovedSo(g[i + 0], t)
    <3>1. i + 0 = i
      OBVIOUS
    <3> QED
      BY <2>1, <3>1, MovedIs
  <2> QED
    BY <1>3, <2>2
<1>5. ASSUME NEW n \in 1..top, n - 1 \in Good PROVE n \in Good
  <2>0. PICK k \in Int : k = i + n
    OBVIOUS
  <2>1. k = i + n /\ i + (n - 1) = k - 1 /\ k # i /\ k \in i..Len(t.entries)
    <3>1. PICK len \in Nat : len = Len(t.entries)
      BY <1>1
    <3>2. i + top = len /\ i \in Int /\ n \in Int /\ 1 <= n /\ n <= top /\ top \in Nat
      BY <1>3, <3>1
    <3>3. i + (n - 1) = k - 1 /\ k # i /\ i <= k /\ k <= len
      BY <2>0, <3>2
    <3> QED
      BY <2>0, <3>1, <3>3
  <2>2. g[k] = IF g[k - 1].ok THEN Follow(g[k - 1], t.entries[k], last) ELSE g[k - 1]
    BY <1>2, <2>1 DEF ChangesFrom
  <2>3. MovedSo(g[k - 1], t)
    BY <1>5, <2>1
  <2>4. t.entries[k] \in Entries
    BY <1>1, <2>1
  <2>5. MovedSo(Follow(g[k - 1], t.entries[k], last), t)
    BY <2>3, <2>4, FollowIs
  <2>6. MovedSo(g[k], t)
    BY <2>2, <2>3, <2>5
  <2> QED
    BY <2>1, <2>6
<1>6. top \in Good
  <2>1. top \in 0..top
    BY <1>3
  <2> HIDE DEF Good
  <2> QED
    BY <1>3, <1>4, <1>5, <2>1, FromZeroTo
<1> QED
  BY <1>2, <1>3, <1>6

\* ChangeGpt changes no name.
LEMMA ChangeGptIs ==
  ASSUME NEW t \in GptTables, NEW m \in Moves, NEW blocks \in Int
  PROVE  KeepsNames(ChangeGpt(t, m, blocks).table, t)
<1> DEFINE S == ModifiedAt(t, m)
           r == ChangeGpt(t, m, blocks)
<1>1. CASE S = {}
  <2>1. r.table = t
    BY <1>1 DEF ChangeGpt
  <2> QED
    BY <2>1 DEF KeepsNames
<1>2. CASE S # {}
  <2>1. t.entries \in Seq(Entries) /\ Len(t.entries) \in Nat
    BY DEF GptTables
  <2>2. S \subseteq 1..Len(t.entries)
    BY <2>1 DEF ModifiedAt
  <2>3. S \in SUBSET Nat
    BY <2>2
  <2>4. PICK i \in 1..Len(t.entries) : i = Min(S)
    BY <1>2, <2>2, <2>3, LeastIs
  <2>5. PICK last \in Int : last = blocks - 1
    OBVIOUS
  <2>6. PICK done : done = ChangeAt(t, m, last, i)
    OBVIOUS
  <2>7. MovedSo(done, t)
    BY <2>6, ChangeAtIs
  <2>8. r = Changed(t, done)
    BY <1>2, <2>4, <2>5, <2>6 DEF ChangeGpt
  <2>9. r.table = [t EXCEPT !.entries = done.out]
    BY <2>8 DEF Changed
  <2> HIDE DEF r
  <2>10. done.out \in Seq(Entries) /\ done.out # <<>> /\ done.out[1].slot = t.entries[1].slot
    BY <2>7 DEF MovedSo
  <2>11. r.table \in GptTables /\ r.table.mbr = t.mbr /\ r.table.entries = done.out
    BY <2>9, <2>10 DEF GptTables
  <2> QED
    BY <2>10, <2>11 DEF KeepsNames, r
<1> QED
  BY <1>1, <1>2

\* The loop that Edited is.
EditsFrom(g, t, blocks, wanted) ==
  g = [n \in 0..Len(job.modify) |->
        IF n = 0 THEN Unedited(t)
        ELSE LET s == g[n - 1] IN
             IF s.ok /\ n \in wanted THEN ChangeGpt(s.table, job.modify[n], blocks) ELSE s]
LEMMA EditedIsLoop ==
  ASSUME Len(job.modify) \in Nat, NEW t, NEW blocks, NEW wanted
  PROVE  \E g : EditsFrom(g, t, blocks, wanted) /\ Edited(t, blocks, wanted) = g[Len(job.modify)]
<1> DEFINE Step(g, n) ==
             IF n = 0 THEN Unedited(t)
             ELSE LET s == g[n - 1] IN
                  IF s.ok /\ n \in wanted THEN ChangeGpt(s.table, job.modify[n], blocks) ELSE s
           Loop(g, m) == g = [n \in 0..m |-> Step(g, n)]
           Good == {m \in 0..Len(job.modify) : \E g : Loop(g, m)}
<1>1. 0 \in Good
  <2> DEFINE g == [n \in 0..0 |-> Unedited(t)]
  <2>1. \A n \in 0..0 : n = 0
    OBVIOUS
  <2>2. Loop(g, 0)
    BY <2>1
  <2> HIDE DEF Loop, g
  <2> QED
    BY <2>2
<1>2. ASSUME NEW m \in 1..Len(job.modify), m - 1 \in Good PROVE m \in Good
  <2>1. PICK g : Loop(g, m - 1)
    BY <1>2
  <2> DEFINE h == [n \in 0..m |-> IF n = m THEN Step(g, m) ELSE g[n]]
  <2>2. ASSUME NEW n \in 0..m PROVE h[n] = Step(h, n)
    <3>1. CASE n = m
      <4>1. h[n - 1] = g[n - 1] /\ h[n] = Step(g, m)
        BY <3>1
      <4> HIDE DEF h
      <4> QED
        BY <3>1, <4>1
    <3>2. CASE n # m
      <4>1. n \in 0..(m - 1) /\ h[n] = g[n]
        BY <3>2
      <4>2. g[n] = Step(g, n)
        BY <2>1, <4>1
      <4>3. n # 0 => h[n - 1] = g[n - 1]
        BY <4>1
      <4> HIDE DEF h
      <4> QED
        BY <4>1, <4>2, <4>3
    <3> QED
      BY <3>1, <3>2
  <2>3. Loop(h, m)
    <3>1. h = [n \in 0..m |-> h[n]]
      OBVIOUS
    <3> HIDE DEF h, Step
    <3> QED
      BY <2>2, <3>1
  <2> HIDE DEF Loop, h
  <2> QED
    BY <2>3
<1>3. Len(job.modify) \in Good
  <2>1. Len(job.modify) \in 0..Len(job.modify)
    OBVIOUS
  <2> HIDE DEF Good
  <2> QED
    BY <1>1, <1>2, <2>1, FromZeroTo
<1>4. \E g : EditsFrom(g, t, blocks, wanted)
  BY <1>3 DEF EditsFrom
<1> DEFINE upTo == CHOOSE g : EditsFrom(g, t, blocks, wanted)
<1>5. EditsFrom(upTo, t, blocks, wanted)
  BY <1>4
<1>6. Edited(t, blocks, wanted) = upTo[Len(job.modify)]
  BY DEF Edited, EditsFrom
<1> QED
  BY <1>5, <1>6

\* However many moves are asked for.
LEMMA EditedIs ==
  ASSUME TableTypes, NEW t \in GptTables, NEW blocks \in Int, NEW wanted
  PROVE  KeepsNames(Edited(t, blocks, wanted).table, t)
<1>1. job.modify \in Seq(Moves) /\ Len(job.modify) \in Nat
  BY TableJobIs
<1>2. PICK g : EditsFrom(g, t, blocks, wanted) /\ Edited(t, blocks, wanted) = g[Len(job.modify)]
  BY <1>1, EditedIsLoop
<1> DEFINE Good == {n \in 0..Len(job.modify) : KeepsNames(g[n].table, t)}
<1>3. 0 \in Good
  <2>1. g[0] = Unedited(t)
    BY <1>1, <1>2 DEF EditsFrom
  <2>2. g[0].table = t
    BY <2>1 DEF Unedited
  <2>3. KeepsNames(t, t)
    BY DEF KeepsNames
  <2>4. KeepsNames(g[0].table, t)
    BY <2>2, <2>3
  <2>5. 0 \in 0..Len(job.modify)
    BY <1>1
  <2> QED
    BY <2>4, <2>5
<1>4. ASSUME NEW n \in 1..Len(job.modify), n - 1 \in Good PROVE n \in Good
  <2>0. g[n] = IF g[n - 1].ok /\ n \in wanted THEN ChangeGpt(g[n - 1].table, job.modify[n], blocks) ELSE g[n - 1]
    <3>1. n # 0 /\ n \in 0..Len(job.modify)
      BY <1>1
    <3> QED
      BY <1>2, <3>1 DEF EditsFrom
  <2>1. PICK s, m : s = g[n - 1] /\ m = job.modify[n]
    OBVIOUS
  <2>2. g[n] = s \/ g[n] = ChangeGpt(s.table, m, blocks)
    BY <2>0, <2>1
  <2>3. KeepsNames(s.table, t) /\ m \in Moves
    BY <1>1, <1>4, <2>1
  <2>4. KeepsNames(ChangeGpt(s.table, m, blocks).table, s.table)
    BY <2>3, ChangeGptIs DEF KeepsNames
  <2>5. KeepsNames(ChangeGpt(s.table, m, blocks).table, t)
    BY <2>3, <2>4 DEF KeepsNames
  <2>6. KeepsNames(g[n].table, t)
    BY <2>2, <2>3, <2>5
  <2> QED
    BY <2>6
<1>5. Len(job.modify) \in Good
  <2>1. Len(job.modify) \in 0..Len(job.modify)
    BY <1>1
  <2> HIDE DEF Good
  <2> QED
    BY <1>1, <1>3, <1>4, <2>1, FromZeroTo
<1> QED
  BY <1>2, <1>5

\* The table with the names of the other slot.
LEMMA EditABIs ==
  ASSUME NEW t \in GptTables, NEW source
  PROVE  EditABPartition(t, source) \in GptTables
<1>1. t.entries \in Seq(Entries)
  BY DEF GptTables
<1>2. ASSUME NEW e \in Entries PROVE GetTgtPartitionName(e, source) \in Entries
  <2>1. \A n : OtherSlot(n) \in SlotNames
    BY DEF OtherSlot, SlotNames
  <2>2. PICK n \in SlotNames : n = IF e.slot = "" THEN OtherSlot(source) ELSE OtherSlot(e.slot)
    <3>1. OtherSlot(source) \in SlotNames /\ OtherSlot(e.slot) \in SlotNames
      BY <2>1
    <3> QED
      BY <3>1
  <2>3. GetTgtPartitionName(e, source) = [e EXCEPT !.slot = n]
    BY <2>2 DEF GetTgtPartitionName
  <2> QED
    BY <2>3 DEF Entries
<1>3. OtherNames(t, source) \in Seq(Entries)
  <2>1. PICK len \in Nat : len = Len(t.entries) /\ DOMAIN t.entries = 1..len
    BY <1>1
  <2>2. OtherNames(t, source) \in [1..len -> Entries]
    BY <1>1, <1>2, <2>1 DEF OtherNames
  <2> QED
    BY <2>2
<1> QED
  BY <1>3 DEF EditABPartition, GptTables

\* The tables as they are.
LEMMA ImageBufferIs ==
  ASSUME TableTypes
  PROVE  /\ ImageBuffer \in Images /\ (ImageBuffer.there => device.startLun = 0)
         /\ Len(ImageBuffer.luns) = LunCount
         /\ \A i \in 1..LunCount : ImageBuffer.luns[i].mbr => ImageBuffer.luns[i] = disk[i - 1].primary
<1> DEFINE One(i) == IF disk[i - 1].primary.mbr THEN disk[i - 1].primary ELSE Blank
           luns == [i \in 1..LunCount |-> One(i)]
<1>1. LunCount \in Nat /\ \A i \in 1..LunCount : i - 1 \in DOMAIN disk
  BY LunCountIs, LunsAre
<1>2. \A p \in DOMAIN disk : disk[p].primary \in GptTables
  BY DEF TableTypes, DiskStates
<1>3. \A i \in 1..LunCount : One(i) \in GptTables /\ (One(i).mbr => One(i) = disk[i - 1].primary)
  <2> SUFFICES ASSUME NEW i \in 1..LunCount PROVE One(i) \in GptTables /\ (One(i).mbr => One(i) = disk[i - 1].primary)
    OBVIOUS
  <2>1. disk[i - 1].primary \in GptTables
    BY <1>1, <1>2
  <2>2. Blank.mbr = FALSE
    BY DEF Blank
  <2> QED
    BY <2>1, <2>2, BlankIs
<1> HIDE DEF One
<1>4. luns \in Seq(GptTables) /\ Len(luns) = LunCount /\ \A i \in 1..LunCount : luns[i] = One(i)
  BY <1>1, <1>3
<1>5. /\ ImageBuffer.luns = luns
      /\ ImageBuffer.there = (device.startLun = 0 /\ (Mmc \in DOMAIN disk => LooksLikeGpt(disk[Mmc].primary)))
      /\ ImageBuffer.emmc = IF Mmc \in DOMAIN disk THEN disk[Mmc].primary ELSE Blank
      /\ ImageBuffer = [there |-> ImageBuffer.there, emmc |-> ImageBuffer.emmc, luns |-> ImageBuffer.luns]
  BY DEF ImageBuffer, One
<1> HIDE DEF luns
<1>6. ImageBuffer.emmc \in GptTables
  BY <1>2, <1>5, BlankIs
<1>7. ImageBuffer \in Images
  BY <1>4, <1>5, <1>6 DEF Images
<1> QED
  BY <1>3, <1>4, <1>5, <1>7

\* Of one LUN, or of the eMMC disk.
LEMMA EditLunIs ==
  ASSUME TableTypes, NEW t \in GptTables, NEW lun
  PROVE  KeepsNames(EditLun(t, lun).table, t)
<1>1. CASE LooksLikeGpt(t)
  <2>1. PICK blocks \in Int : blocks = LastBlock(Size(lun), device.backup) + 1
    BY TableDeviceIs, SizeIs DEF LastBlock
  <2>2. EditLun(t, lun) = Edited(t, blocks, WantedOf(lun))
    BY <1>1, <2>1 DEF EditLun
  <2>3. KeepsNames(Edited(t, blocks, WantedOf(lun)).table, t)
    BY EditedIs
  <2> QED
    BY <2>2, <2>3
<1>2. CASE ~LooksLikeGpt(t)
  <2>1. EditLun(t, lun).table = t
    BY <1>2 DEF EditLun, Unedited
  <2> QED
    BY <2>1 DEF KeepsNames
<1> QED
  BY <1>1, <1>2

LEMMA EditEmmcIs ==
  ASSUME TableTypes, NEW t \in GptTables
  PROVE  EditEmmc(t).table \in GptTables
<1>1. CASE Mmc \in DOMAIN disk
  <2>1. PICK blocks \in Int : blocks = Size(Mmc)
    BY SizeIs
  <2>2. EditEmmc(t) = Edited(t, blocks, DOMAIN job.modify)
    BY <1>1, <2>1 DEF EditEmmc
  <2>3. KeepsNames(Edited(t, blocks, DOMAIN job.modify).table, t)
    BY EditedIs
  <2> QED
    BY <2>2, <2>3 DEF KeepsNames
<1>2. CASE Mmc \notin DOMAIN disk
  BY <1>2 DEF EditEmmc, Unedited
<1> QED
  BY <1>1, <1>2

\* An edited image names the slots it named.
LEMMA EditedImageIs ==
  ASSUME TableTypes, NEW img \in Images
  PROVE  LET r == EditPartitionBuf(img) IN
         /\ r \in Images /\ (r.there => img.there) /\ Len(r.luns) = Len(img.luns)
         /\ \A i \in 1..Len(img.luns) : KeepsNames(r.luns[i], img.luns[i])
<1> DEFINE r == EditPartitionBuf(img)
           emmc == EditEmmc(img.emmc)
           luns == [i \in DOMAIN img.luns |-> EditLun(img.luns[i], i - 1)]
<1>1. img.there \in BOOLEAN /\ img.emmc \in GptTables /\ img.luns \in Seq(GptTables)
  BY DEF Images
<1>2. PICK len \in Nat : len = Len(img.luns) /\ DOMAIN img.luns = 1..len
  BY <1>1
<1>3. emmc.table \in GptTables
  BY <1>1, EditEmmcIs
<1>4. \A i \in 1..len : KeepsNames(luns[i].table, img.luns[i])
  <2> SUFFICES ASSUME NEW i \in 1..len PROVE KeepsNames(luns[i].table, img.luns[i])
    OBVIOUS
  <2>1. img.luns[i] \in GptTables
    BY <1>1, <1>2
  <2>2. luns[i] = EditLun(img.luns[i], i - 1)
    BY <1>2
  <2> HIDE DEF luns
  <2> QED
    BY <2>1, <2>2, EditLunIs
<1>5. DOMAIN luns = 1..len
  BY <1>2
<1>6. r = EditedImage(img.there, emmc, luns)
  BY DEF EditPartitionBuf
<1> HIDE DEF r, emmc, luns
<1>7. /\ r.there = (img.there /\ emmc.ok /\ \A i \in DOMAIN luns : luns[i].ok)
      /\ r.emmc = emmc.table /\ r.luns = Tables(luns)
      /\ r = [there |-> r.there, emmc |-> r.emmc, luns |-> r.luns]
  BY <1>6 DEF EditedImage
<1>8. /\ r.luns \in Seq(GptTables) /\ Len(r.luns) = len
      /\ \A i \in 1..len : r.luns[i] = luns[i].table
  <2>1. r.luns = [i \in 1..len |-> luns[i].table]
    BY <1>5, <1>7 DEF Tables
  <2>2. \A i \in 1..len : luns[i].table \in GptTables
    BY <1>4 DEF KeepsNames
  <2>3. r.luns \in [1..len -> GptTables]
    BY <2>1, <2>2
  <2> QED
    BY <2>1, <2>3
<1>9. r.there \in BOOLEAN /\ (r.there => img.there)
  BY <1>7
<1>10. r \in Images
  BY <1>3, <1>7, <1>8, <1>9 DEF Images
<1> QED
  BY <1>2, <1>4, <1>8, <1>9, <1>10 DEF r

\* What is put in the file has the slot that runs under its own name.
LEMMA EditFileIs ==
  ASSUME TableTypes, OwnSlotKept, NEW img, img = Saved(EditPartitionBuf(ImageBuffer))
  PROVE  /\ img \in Images
         /\ Running /\ img.there =>
              /\ device.startLun = 0
              /\ OwnLun + 1 <= Len(img.luns) /\ img.luns[OwnLun + 1].mbr => NamesOwn(img.luns[OwnLun + 1])
<1>1. PICK raw : raw = ImageBuffer
  OBVIOUS
<1>2. /\ raw \in Images /\ (raw.there => device.startLun = 0) /\ Len(raw.luns) = LunCount
      /\ \A i \in 1..LunCount : raw.luns[i].mbr => raw.luns[i] = disk[i - 1].primary
  BY <1>1, ImageBufferIs
<1>3. PICK r : r = EditPartitionBuf(raw)
  OBVIOUS
<1>4. /\ r \in Images /\ (r.there => raw.there) /\ Len(r.luns) = LunCount
      /\ \A i \in 1..LunCount : KeepsNames(r.luns[i], raw.luns[i])
  BY <1>2, <1>3, EditedImageIs
<1>5. img = IF r.there THEN r ELSE NoFile
  BY <1>1, <1>3 DEF Saved
<1>6. NoFile.there = FALSE
  BY DEF NoFile
<1>7. img \in Images
  BY <1>4, <1>5, BlankIs
<1>8. ASSUME Running, img.there, OwnLun + 1 <= Len(img.luns), img.luns[OwnLun + 1].mbr
      PROVE  NamesOwn(img.luns[OwnLun + 1])
  <2>1. img = r
    BY <1>5, <1>6, <1>8
  <2>2. OwnLun \in Nat /\ job.current \in 1..2
    BY <1>8, TableDeviceIs, SMT DEF Running, OwnLun, LunOfSlot
  <2>3. PICK i \in 1..LunCount : i = OwnLun + 1 /\ i - 1 = OwnLun
    BY <1>4, <1>8, <2>1, <2>2, LunCountIs
  <2>4. KeepsNames(r.luns[i], raw.luns[i])
    BY <1>4
  <2>5. raw.luns[i].mbr
    BY <1>8, <2>1, <2>3, <2>4 DEF KeepsNames
  <2>6. raw.luns[i] = disk[OwnLun].primary
    BY <1>2, <2>3, <2>5
  <2>7. MatchSuffix(device.disk[OwnLun].primary, SlotName(job.current))
    BY <1>8, <2>2, TableDeviceIs DEF Running, OwnLun
  <2>8. MatchSuffix(raw.luns[i], SlotName(job.current))
    BY <1>8, <2>6, <2>7 DEF OwnSlotKept
  <2>9. MatchSuffix(r.luns[i], SlotName(job.current))
    BY <2>4, <2>8 DEF KeepsNames, MatchSuffix
  <2> QED
    BY <2>1, <2>3, <2>9 DEF NamesOwn
<1>9. img.there => device.startLun = 0
  BY <1>2, <1>4, <1>5, <1>6
<1> QED
  BY <1>7, <1>8, <1>9
-----------------------------------------------------------------------------
(***************************************************************************)
(* The invariant of the partition tables is kept by every step.            *)
(***************************************************************************)
\* What is still to be written when the first is done, or when nothing is.
LEMMA TailIs ==
  ASSUME NEW written \in Seq(TableData), written # <<>>
  PROVE  /\ Tail(written) \in Seq(TableData)
         /\ CopiedFrom(written) => CopiedFrom(Tail(written))
         /\ SparesOwn(written) => SparesOwn(Tail(written))
<1> DEFINE rest == Tail(written)
<1>1. PICK len \in Nat : len = Len(written) /\ len >= 1
  OBVIOUS
<1>2. /\ rest \in Seq(TableData) /\ Len(rest) = len - 1
      /\ \A i \in 1..(len - 1) : rest[i] = written[i + 1] /\ i + 1 \in 1..Len(written)
  BY <1>1
<1> HIDE DEF rest
<1>3. CopiedFrom(written) => CopiedFrom(rest)
  BY <1>2 DEF CopiedFrom
<1>4. SparesOwn(written) => SparesOwn(rest)
  BY <1>2 DEF SparesOwn
<1> QED
  BY <1>2, <1>3, <1>4 DEF rest

\* Nothing to be written.
LEMMA NothingIs == <<>> \in Seq(TableData) /\ CopiedFrom(<<>>) /\ SparesOwn(<<>>)
<1>1. <<>> \in Seq(TableData) /\ Len(<<>>) = 0
  OBVIOUS
<1>2. 1..0 = {}
  OBVIOUS
<1> QED
  BY <1>1, <1>2 DEF CopiedFrom, SparesOwn

\* What is said of what is to be written stays true where the disks keep their size.
LEMMA CopiedKept ==
  ASSUME device' = device, job' = job, DOMAIN disk' = DOMAIN disk,
         \A p \in DOMAIN disk : disk'[p].size = disk[p].size,
         CopiedFrom(data')
  PROVE  Copied'
<1>1. ASSUME NEW p PROVE Size(p)' = Size(p)
  BY DEF Size
<1>2. ASSUME NEW i \in 1..Len(data')
      PROVE  IF job'.kind = "sync" THEN data'[i].copy = NoTable ELSE FromImage(data[i])'
  <2>1. PICK d : d = data'[i]
    OBVIOUS
  <2>2. IF job.kind = "sync" THEN d.copy = NoTable ELSE FromImage(d)
    BY <2>1 DEF CopiedFrom
  <2>3. Size(d.place)' = Size(d.place)
    BY <1>1
  <2> QED
    BY <2>1, <2>2, <2>3 DEF FromImage
<1> QED
  BY <1>2 DEF Copied, CopiedFrom

LEMMA SparesKept ==
  ASSUME job' = job, SparesOwn(data')
  PROVE  SparesOwn(data)'
  BY DEF SparesOwn, OwnLun, LunOfSlot

\* The file is there, or is gone.
LEMMA FileKept ==
  ASSUME device' = device, job' = job, file' \in {file, NoFile}, OwnInFile
  PROVE  OwnInFile'
<1>1. NoFile.there = FALSE
  BY DEF NoFile
<1>2. CASE file' = file
  BY <1>2 DEF OwnInFile, OwnLun, LunOfSlot, NamesOwn
<1>3. CASE file' = NoFile
  BY <1>1, <1>3 DEF OwnInFile
<1> QED
  BY <1>2, <1>3

\* A step that writes nothing.
LEMMA QuietIs ==
  ASSUME TablesInv, device' = device, disk' = disk, job' = job,
         data' \in Seq(TableData), CopiedFrom(data'), Running => SparesOwn(data'),
         file' \in Images, Running => OwnInFile',
         step' \in TableSteps \ MidTable, at' \in 1..Len(job.images) + 1,
         step' = "write" /\ job.kind = "packages" => at' <= Len(job.images),
         faults' \in Nat, faults' = 0 => faults = 0 /\ step # "backup entries"
  PROVE  TablesInv'
<1>1. TableTypes'
  BY DEF TablesInv, TableTypes
<1>2. Copied'
  BY CopiedKept
<1>3. AtBackup'
  BY DEF AtBackup, MidTable
<1>4. BackupsWhole'
  <2>1. \A p : Size(p)' = Size(p)
    BY DEF Size
  <2> QED
    BY <2>1 DEF TablesInv, BackupsWhole
<1>5. OwnSlotKept'
  <2>1. Running' <=> Running
    BY DEF Running
  <2>2. OwnLun' = OwnLun
    BY DEF OwnLun, LunOfSlot
  <2>3. Running => SparesOwn(data)'
    BY SparesKept
  <2> QED
    BY <2>1, <2>2, <2>3 DEF TablesInv, OwnSlotKept
<1> QED
  BY <1>1, <1>2, <1>3, <1>4, <1>5 DEF TablesInv

\* What was to be written, all but the first of it, or nothing.
LEMMA QuietRest ==
  ASSUME TablesInv, device' = device, disk' = disk, job' = job,
         data' = data \/ data' = <<>> \/ (data # <<>> /\ data' = Tail(data)),
         file' \in {file, NoFile},
         step' \in TableSteps \ MidTable, at' \in 1..Len(job.images) + 1,
         step' = "write" /\ job.kind = "packages" => at' <= Len(job.images),
         faults' \in Nat, faults' = 0 => faults = 0 /\ step # "backup entries"
  PROVE  TablesInv'
<1>1. data \in Seq(TableData) /\ CopiedFrom(data) /\ (Running => SparesOwn(data))
  BY DEF TablesInv, TableTypes, Copied, OwnSlotKept
<1>2. data' \in Seq(TableData) /\ CopiedFrom(data') /\ (Running => SparesOwn(data'))
  <2>1. CASE data' = data
    BY <1>1, <2>1
  <2>2. CASE data' = <<>>
    BY <2>2, NothingIs
  <2>3. CASE data # <<>> /\ data' = Tail(data)
    BY <1>1, <2>3, TailIs
  <2> QED
    BY <2>1, <2>2, <2>3
<1>3. file' \in Images
  BY BlankIs DEF TablesInv, TableTypes
<1>4. Running => OwnInFile'
  BY FileKept DEF TablesInv, OwnSlotKept
<1> QED
  BY <1>2, <1>3, <1>4, QuietIs

\* The invariant holds before anything is asked for.
LEMMA TablesInvInit ==
  ASSUME PtableInit, faults = 0
  PROVE  TablesInv
<1>1. TableTypes
  <2>1. IsTableDevice(device) /\ IsTableJob(device, job)
    BY TablesAssumption DEF PtableInit
  <2>2. device.disk \in [DOMAIN device.disk -> DiskStates]
    BY <2>1 DEF IsTableDevice
  <2>3. at \in 1..Len(job.images) + 1
    <3>1. Len(job.images) \in Nat
      BY <2>1 DEF IsTableJob
    <3> QED
      BY <3>1 DEF PtableInit
  <2>4. <<>> \in Seq(TableData) /\ file \in Images
    BY NothingIs, BlankIs DEF PtableInit
  <2> QED
    BY <2>2, <2>3, <2>4 DEF PtableInit, TableTypes, TableSteps, MidTable
<1>2. Copied
  BY NothingIs DEF PtableInit, Copied
<1>3. AtBackup
  BY DEF PtableInit, AtBackup
<1>4. BackupsWhole
  BY DEF PtableInit, BackupsWhole
<1>5. OwnSlotKept
  <2>1. file.there = FALSE
    BY DEF PtableInit, NoFile
  <2> QED
    BY <2>1, NothingIs DEF PtableInit, OwnSlotKept, OwnInFile
<1> QED
  BY <1>1, <1>2, <1>3, <1>4, <1>5 DEF TablesInv

\* The steps that pass on, fail, or end.
LEMMA PassingKeeps ==
  ASSUME TablesInv,
         \/ AllProcessed \/ WriteInvalid \/ WriteUnneeded \/ WriteFails
         \/ NoBackup \/ BackupFails \/ TablesWritten \/ PtableCut
  PROVE  TablesInv'
<1>0. /\ at \in 1..Len(job.images) + 1 /\ faults \in Nat /\ Len(job.images) \in Nat
      /\ step \in MidTable \cup {"write"} /\ job.kind = "packages" => at <= Len(job.images)
      /\ step \in MidTable => data # <<>>
  BY TableJobIs DEF TablesInv, TableTypes
<1>9. Fault => faults' \in Nat /\ faults' # 0
  BY <1>0 DEF Fault
<1>1. CASE AllProcessed
  BY <1>0, <1>1, QuietRest DEF AllProcessed, Finish, memory, TableSteps, MidTable
<1>2. CASE WriteInvalid
  <2>1. CASE NextTable /\ UNCHANGED faults
    BY <1>0, <1>2, <2>1, QuietRest DEF WriteInvalid, Pending, NextTable, TableSteps, MidTable
  <2>2. CASE Fail
    BY <1>0, <1>2, <2>2, QuietRest DEF WriteInvalid, Pending, Fail, Finish, memory, TableSteps, MidTable
  <2> QED
    BY <1>2, <2>1, <2>2 DEF WriteInvalid
<1>3. CASE WriteUnneeded
  BY <1>0, <1>3, QuietRest DEF WriteUnneeded, Pending, NextTable, TableSteps, MidTable
<1>4. CASE WriteFails
  BY <1>0, <1>4, <1>9, QuietRest DEF WriteFails, memory, TableSteps, MidTable
<1>5. CASE NoBackup
  BY <1>0, <1>5, QuietRest DEF NoBackup, NextTable, TableSteps, MidTable
<1>6. CASE BackupFails
  BY <1>0, <1>6, <1>9, QuietRest DEF BackupFails, NextTable, TableSteps, MidTable
<1>7. CASE TablesWritten
  BY <1>0, <1>7, QuietRest DEF TablesWritten, TableSteps, MidTable
<1>8. CASE PtableCut
  <2>1. /\ device' = device /\ disk' = disk /\ job' = job /\ data' = <<>> /\ at' = 1
        /\ Fault
    BY <1>8 DEF PtableCut
  <2>3. file' = IF job.updater THEN NoFile ELSE file
    BY <1>8 DEF PtableCut
  <2>4. file' \in {file, NoFile}
    BY <2>3
  <2>5. step' = "edited" \/ step' = "load"
    BY <1>8, Zenon DEF PtableCut
  <2>6. step' \in TableSteps \ MidTable /\ step' # "write"
    BY <2>5 DEF TableSteps, MidTable
  <2>7. at' \in 1..Len(job.images) + 1
    <3>1. PICK len \in Nat : len = Len(job.images)
      BY <1>0
    <3>2. 1 \in 1..len + 1
      OBVIOUS
    <3> QED
      BY <2>1, <3>1, <3>2
  <2> QED
    BY <1>9, <2>1, <2>4, <2>6, <2>7, QuietRest
<1> QED
  BY <1>1, <1>2, <1>3, <1>4, <1>5, <1>6, <1>7, <1>8

\* A package, or the file that is there, is parsed.
LEMMA PtableProcessKeeps ==
  ASSUME TablesInv, PtableProcess
  PROVE  TablesInv'
<1>1. PICK img \in Images : img = job.images[at]
  <2>1. job.images \in Seq(Images) /\ at \in 1..Len(job.images) + 1 /\ at <= Len(job.images)
    BY TableJobIs DEF TablesInv, TableTypes, PtableProcess
  <2>2. at \in 1..Len(job.images)
    BY <2>1
  <2> QED
    BY <2>1, <2>2
<1>2. PICK parsed : parsed = ParsePartitionFromBuffer(img, infos.package)
  OBVIOUS
<1>3. PICK dev : dev = LoadPtableFromDevice(infos.device)
  OBVIOUS
<1>4. /\ step' = Outcome(dev, Infos(parsed), parsed)
      /\ data' = IF step' = "write" THEN AllData(parsed) ELSE <<>>
      /\ at' = IF step' = "load" THEN at + 1 ELSE at
      /\ device' = device /\ disk' = disk /\ job' = job /\ file' = file /\ faults' = faults
      /\ job.kind = "packages" /\ step = "load" /\ at <= Len(job.images)
  BY <1>1, <1>2, <1>3 DEF PtableProcess
<1>5. step' \in {"failed", "load", "write"} /\ (step' = "write" => Parses(parsed))
  BY <1>4 DEF Outcome
<1>6. TableTypes
  BY DEF TablesInv
<1>7. data' \in Seq(TableData) /\ CopiedFrom(data')
  <2>1. CASE step' = "write"
    <3>1. AllOfImage(AllData(parsed), img)
      BY <1>2, <1>5, <1>6, <2>1, AllDataIs
    <3>2. AllOfImage(data', img)
      BY <1>4, <2>1, <3>1
    <3>3. CopiedFrom(data')
      BY <1>4, <1>6, <3>2, CopiedOfImage
    <3> QED
      BY <3>2, <3>3 DEF AllOfImage
  <2>2. CASE step' # "write"
    BY <1>4, <2>2, NothingIs
  <2> QED
    BY <2>1, <2>2
<1>8. ~Running
  BY <1>4 DEF Running
<1>9. at' \in 1..Len(job.images) + 1 /\ (step' = "write" => at' <= Len(job.images))
  <2>1. at \in Nat /\ 1 <= at /\ Len(job.images) \in Nat
    BY <1>6, TableJobIs DEF TableTypes
  <2> QED
    BY <1>4, <2>1
<1>10. file' \in Images /\ faults' \in Nat
  BY <1>4, <1>6 DEF TableTypes
<1>11. step' \in TableSteps \ MidTable
  BY <1>5 DEF TableSteps, MidTable
<1> QED
  BY <1>4, <1>7, <1>8, <1>9, <1>10, <1>11, QuietIs

\* update_binary writes the tables of the file.
LEMMA WithFileKeeps ==
  ASSUME TablesInv, WritePtableWithFile
  PROVE  TablesInv'
<1>1. PICK parsed : parsed = ParsePartitionFromBuffer(file, NoInfo)
  OBVIOUS
<1>2. /\ step' = IF file.there /\ Parses(parsed) THEN "write" ELSE "nothing"
      /\ data' = IF step' = "write" THEN AllData(parsed) ELSE <<>>
      /\ file' = IF step' = "write" THEN file ELSE NoFile
      /\ device' = device /\ disk' = disk /\ job' = job /\ at' = at /\ faults' = faults
      /\ job.kind = "file" /\ step = "edited"
  BY <1>1 DEF WritePtableWithFile
<1>3. TableTypes /\ file \in Images
  BY DEF TablesInv, TableTypes
<1>4. data' \in Seq(TableData) /\ CopiedFrom(data') /\ (Running => SparesOwn(data'))
  <2>1. CASE step' = "write"
    <3>1. file.there /\ Parses(parsed)
      BY <1>2, <2>1
    <3>2. AllOfImage(AllData(parsed), file)
      BY <1>1, <1>3, <3>1, AllDataIs
    <3>3. AllOfImage(data', file)
      BY <1>2, <2>1, <3>2
    <3>4. CopiedFrom(data')
      BY <1>2, <1>3, <3>3, CopiedOfImage
    <3>5. Running => SparesOwn(data')
      BY <1>2, <1>3, <3>1, <3>3, SparedOfImage DEF TablesInv, OwnSlotKept
    <3> QED
      BY <3>3, <3>4, <3>5 DEF AllOfImage
  <2>2. CASE step' # "write"
    BY <1>2, <2>2, NothingIs
  <2> QED
    BY <2>1, <2>2
<1>5. file' \in {file, NoFile}
  BY <1>2
<1>6. Running => OwnInFile'
  BY <1>2, <1>5, FileKept DEF TablesInv, OwnSlotKept
<1>7. file' \in Images
  BY <1>3, <1>5, BlankIs
<1>8. at' \in 1..Len(job.images) + 1 /\ faults' \in Nat
  BY <1>2, <1>3 DEF TableTypes
<1>9. step' \in TableSteps \ MidTable
  BY <1>2 DEF TableSteps, MidTable
<1> QED
  BY <1>2, <1>4, <1>6, <1>7, <1>8, <1>9, QuietIs

\* The tables are edited and put in a file.
LEMMA EditFileKeeps ==
  ASSUME TablesInv, EditFile
  PROVE  TablesInv'
<1>1. /\ file' = Saved(EditPartitionBuf(ImageBuffer)) /\ step' = "edited"
      /\ device' = device /\ disk' = disk /\ job' = job /\ at' = at /\ data' = data /\ faults' = faults
      /\ step = "load"
  BY DEF EditFile, memory
<1>2. TableTypes /\ OwnSlotKept
  BY DEF TablesInv
<1>3. /\ file' \in Images
      /\ Running /\ file'.there =>
           /\ device.startLun = 0
           /\ OwnLun + 1 <= Len(file'.luns) /\ file'.luns[OwnLun + 1].mbr => NamesOwn(file'.luns[OwnLun + 1])
  BY <1>1, <1>2, EditFileIs
<1>4. Running => OwnInFile'
  BY <1>1, <1>3 DEF OwnInFile, OwnLun, LunOfSlot, NamesOwn
<1>5. data' \in Seq(TableData) /\ CopiedFrom(data') /\ (Running => SparesOwn(data'))
  BY <1>1 DEF TablesInv, TableTypes, Copied, OwnSlotKept
<1>6. at' \in 1..Len(job.images) + 1 /\ faults' \in Nat
  BY <1>1, <1>2 DEF TableTypes
<1>7. step' \in TableSteps \ MidTable
  BY <1>1 DEF TableSteps, MidTable
<1> QED
  BY <1>1, <1>3, <1>4, <1>5, <1>6, <1>7, QuietIs

\* The table of the slot that runs is copied to the other slot's LUN.
LEMMA SyncKeeps ==
  ASSUME TablesInv, SyncABLunPtableDevice
  PROVE  TablesInv'
<1>1. PICK spot, t :
        /\ spot = LunOfSlot(3 - job.current)
        /\ t = EditABPartition(disk[LunOfSlot(job.current)].primary, SlotName(job.current))
  OBVIOUS
<1>2. PICK d : d = Datum(TRUE, spot, t, TRUE)
  OBVIOUS
<1>3. /\ data' = <<d>> /\ step' = "write"
      /\ device' = device /\ disk' = disk /\ job' = job /\ at' = at /\ file' = file /\ faults' = faults
      /\ job.kind = "sync" /\ step = "load"
  BY <1>1, <1>2 DEF SyncABLunPtableDevice
<1>4. TableTypes /\ device.vab /\ job.current \in 1..2 /\ SlotALun \in Nat
  BY <1>3, TableJobIs, TableDeviceIs DEF TablesInv
<1>5. LunOfSlot(job.current) \in DOMAIN disk
  BY <1>4, TableDeviceIs, LunsAre
<1>6. t \in GptTables
  <2>1. disk[LunOfSlot(job.current)].primary \in GptTables
    BY <1>4, <1>5 DEF TableTypes, DiskStates
  <2> QED
    BY <1>1, <2>1, EditABIs
<1>7. spot \in Int /\ spot # OwnLun
  BY <1>1, <1>4 DEF LunOfSlot, OwnLun
<1>8. d \in TableData /\ d.place = spot /\ d.copy = NoTable
  BY <1>2, <1>6, <1>7, BlankIs DEF Datum, TableData
<1>9. /\ <<d>> \in Seq(TableData) /\ Len(<<d>>) = 1
      /\ \A i \in 1..1 : <<d>>[i] = d
  BY <1>8
<1>10. CopiedFrom(<<d>>) /\ SparesOwn(<<d>>)
  BY <1>3, <1>7, <1>8, <1>9 DEF CopiedFrom, SparesOwn
<1>11. file' \in {file, NoFile} /\ file' \in Images /\ at' \in 1..Len(job.images) + 1 /\ faults' \in Nat
  BY <1>3, <1>4 DEF TableTypes
<1>12. Running => OwnInFile'
  BY <1>3, <1>11, FileKept DEF TablesInv, OwnSlotKept
<1>13. step' \in TableSteps \ MidTable
  BY <1>3 DEF TableSteps, MidTable
<1> QED
  BY <1>3, <1>9, <1>10, <1>11, <1>12, <1>13, QuietIs

\* A step that writes to where the first table goes.
LEMMA WrittenIs ==
  ASSUME TablesInv, data # <<>>, Table.valid, Table.need,
         NEW x, Table.place \in DOMAIN disk => x \in DiskStates /\ x.size = disk[Table.place].size,
         disk' = [disk EXCEPT ![Table.place] = x],
         device' = device, job' = job, at' = at, file' = file, faults' = faults,
         step' \in MidTable \cup {"write"}, job.kind = "packages" => at <= Len(job.images),
         data' = data \/ (data' = Tail(data) /\ step' = "write")
  PROVE  /\ TableTypes' /\ Copied' /\ OwnSlotKept'
         /\ \A p : Size(p)' = Size(p)
<1>1. PICK spot : spot = Table.place
  OBVIOUS
<1>2. /\ TableTypes /\ Copied /\ OwnSlotKept /\ data \in Seq(TableData)
      /\ data' \in Seq(TableData) /\ CopiedFrom(data') /\ (Running => SparesOwn(data'))
  <2>1. TableTypes /\ Copied /\ OwnSlotKept /\ data \in Seq(TableData)
    BY DEF TablesInv, TableTypes
  <2>2. CASE data' = data
    BY <2>1, <2>2 DEF Copied, OwnSlotKept
  <2>3. CASE data' = Tail(data)
    BY <2>1, <2>3, TailIs DEF Copied, OwnSlotKept
  <2> QED
    BY <2>1, <2>2, <2>3
<1>3. /\ disk \in [DOMAIN device.disk -> DiskStates]
      /\ \A p \in DOMAIN device.disk : disk[p].size = device.disk[p].size
  BY <1>2 DEF TableTypes
<1>4. DOMAIN disk' = DOMAIN disk /\ \A p \in DOMAIN disk : disk'[p] = IF p = spot THEN x ELSE disk[p]
  BY <1>1, <1>3
<1>5. \A p \in DOMAIN disk : disk'[p] \in DiskStates /\ disk'[p].size = disk[p].size
  BY <1>1, <1>3, <1>4
<1>6. disk' \in [DOMAIN device.disk -> DiskStates]
  <2>1. disk' = [p \in DOMAIN device.disk |-> disk'[p]]
    BY <1>3
  <2> QED
    BY <1>3, <1>5, <2>1
<1>7. step' \in TableSteps
  BY DEF TableSteps, MidTable
<1>8. step' \in MidTable => data' = data
  BY DEF MidTable
<1>9. TableTypes'
  BY <1>2, <1>3, <1>5, <1>6, <1>7, <1>8 DEF TableTypes, Table
<1>10. Copied'
  BY <1>2, <1>4, <1>5, CopiedKept
<1>11. OwnSlotKept'
  <2>1. (Running' <=> Running) /\ OwnLun' = OwnLun
    BY DEF Running, OwnLun, LunOfSlot
  <2>2. Running => SparesOwn(data)'
    BY <1>2, SparesKept
  <2>3. Running => OwnInFile'
    BY <1>2, FileKept DEF OwnSlotKept
  <2>4. Running => disk'[OwnLun] = disk[OwnLun]
    <3> SUFFICES ASSUME Running PROVE disk'[OwnLun] = disk[OwnLun]
      OBVIOUS
    <3>1. 1 \in 1..Len(data) /\ data[1] = Table
      BY <1>2 DEF Table
    <3>2. OwnLun # spot
      BY <1>1, <1>2, <3>1 DEF OwnSlotKept, SparesOwn
    <3>3. OwnLun \in DOMAIN disk
      BY <1>2, TableDeviceIs, LunsAre DEF Running, OwnLun
    <3> QED
      BY <1>4, <3>2, <3>3
  <2> QED
    BY <1>2, <2>1, <2>2, <2>3, <2>4 DEF OwnSlotKept
<1>12. \A p : Size(p)' = Size(p)
  BY <1>4, <1>5 DEF Size
<1> QED
  BY <1>9, <1>10, <1>11, <1>12

\* The first table and its copy.
LEMMA TableIs ==
  ASSUME TablesInv, data # <<>>
  PROVE  /\ Table \in TableData
         /\ Table.place \in DOMAIN disk => disk[Table.place] \in DiskStates
         /\ Table.valid /\ Table.copy # NoTable /\ Table.place # Mmc /\ device.startLun = 0 =>
              TableWhole(Table.table, Size(Table.place)) /\ Table.copy = Table.table
<1>1. data \in Seq(TableData) /\ Copied /\ disk \in [DOMAIN device.disk -> DiskStates]
  BY DEF TablesInv, TableTypes
<1>2. 1 \in 1..Len(data) /\ data[1] = Table /\ Table \in TableData
  BY <1>1 DEF Table
<1>3. Table.copy # NoTable => FromImage(Table)
  BY <1>1, <1>2 DEF Copied, CopiedFrom
<1> QED
  BY <1>1, <1>2, <1>3 DEF FromImage

\* A new head before old entries.
LEMMA HeadOfIs ==
  ASSUME NEW t \in GptTables, NEW old \in GptTables
  PROVE  HeadOf(t, old) \in GptTables
  BY DEF HeadOf, GptTables

\* The head of a table is written: the backup stays whole.
LEMMA WriteHeadKeeps ==
  ASSUME TablesInv, WriteHead
  PROVE  TablesInv'
<1>1. PICK spot, x :
        /\ spot = Table.place
        /\ x = [disk[spot] EXCEPT !.primary = HeadOf(Table.table, disk[spot].primary)]
  OBVIOUS
<1>2. /\ disk' = [disk EXCEPT ![spot] = x] /\ step' = "entries"
      /\ device' = device /\ job' = job /\ at' = at /\ file' = file /\ faults' = faults /\ data' = data
      /\ step = "write" /\ data # <<>> /\ Table.valid /\ Table.need
  BY <1>1 DEF WriteHead, MayWrite, Pending, Put
<1>3. spot \in DOMAIN disk => x \in DiskStates /\ x.size = disk[spot].size /\ x.backup = disk[spot].backup
  <2> SUFFICES ASSUME spot \in DOMAIN disk
               PROVE  x \in DiskStates /\ x.size = disk[spot].size /\ x.backup = disk[spot].backup
    OBVIOUS
  <2>1. PICK s \in DiskStates, t \in GptTables : s = disk[spot] /\ t = Table.table
    BY <1>1, <1>2, TableIs DEF TableData
  <2>2. PICK h \in GptTables : h = HeadOf(t, s.primary)
    BY HeadOfIs DEF DiskStates
  <2>3. x = [s EXCEPT !.primary = h]
    BY <1>1, <2>1, <2>2
  <2> QED
    BY <2>1, <2>3 DEF DiskStates
<1>4. job.kind = "packages" => at <= Len(job.images)
  BY <1>2 DEF TablesInv, TableTypes
<1>5. step' \in MidTable \cup {"write"}
  BY <1>2 DEF MidTable
<1>6. TableTypes' /\ Copied' /\ OwnSlotKept' /\ \A p : Size(p)' = Size(p)
  BY <1>1, <1>2, <1>3, <1>4, <1>5, WrittenIs
<1>7. AtBackup'
  BY <1>2 DEF AtBackup
<1>8. DOMAIN disk' = DOMAIN disk /\ \A p \in DOMAIN disk : disk'[p].backup = disk[p].backup
  BY <1>1, <1>2, <1>3 DEF TablesInv, TableTypes
<1>9. BackupsWhole'
  BY <1>2, <1>6, <1>8 DEF TablesInv, BackupsWhole
<1> QED
  BY <1>6, <1>7, <1>9 DEF TablesInv

\* The entries are: the table is whole before its backup is begun.
LEMMA WriteEntriesKeeps ==
  ASSUME TablesInv, WriteEntries
  PROVE  TablesInv'
<1>1. PICK spot, x :
        spot = Table.place /\ x = [disk[spot] EXCEPT !.primary = Table.table]
  OBVIOUS
<1>2. /\ disk' = [disk EXCEPT ![spot] = x] /\ step' = IF HasBackup THEN "backup" ELSE "write"
      /\ device' = device /\ job' = job /\ at' = at /\ file' = file /\ faults' = faults
      /\ data' = IF HasBackup THEN data ELSE Tail(data)
      /\ step = "entries"
  BY <1>1 DEF WriteEntries, Put
<1>3. /\ data # <<>> /\ Table.valid /\ Table.need
      /\ job.kind = "packages" => at <= Len(job.images)
  BY <1>2 DEF TablesInv, TableTypes, MidTable
<1>4. spot \in DOMAIN disk =>
        x \in DiskStates /\ x.size = disk[spot].size /\ x.backup = disk[spot].backup /\ x.primary = Table.table
  <2> SUFFICES ASSUME spot \in DOMAIN disk
               PROVE  x \in DiskStates /\ x.size = disk[spot].size /\ x.backup = disk[spot].backup /\ x.primary = Table.table
    OBVIOUS
  <2>1. PICK s \in DiskStates, t \in GptTables : s = disk[spot] /\ t = Table.table
    BY <1>1, <1>3, TableIs DEF TableData
  <2>2. x = [s EXCEPT !.primary = t]
    BY <1>1, <2>1
  <2> QED
    BY <2>1, <2>2 DEF DiskStates
<1>5. step' \in MidTable \cup {"write"} /\ (data' = data \/ (data' = Tail(data) /\ step' = "write"))
  BY <1>2 DEF MidTable
<1>6. TableTypes' /\ Copied' /\ OwnSlotKept' /\ \A p : Size(p)' = Size(p)
  BY <1>1, <1>2, <1>3, <1>4, <1>5, WrittenIs
<1>7. DOMAIN disk' = DOMAIN disk /\ \A p \in DOMAIN disk : disk'[p] = IF p = spot THEN x ELSE disk[p]
  BY <1>2 DEF TablesInv, TableTypes
<1>8. AtBackup'
  <2>1. CASE HasBackup
    <3>1. data' = data /\ Table' = Table /\ HasBackup'
      BY <1>2, <2>1 DEF Table, HasBackup, Mmc
    <3>2. Table'.place \in DOMAIN disk' => disk'[Table'.place].primary = Table'.table
      BY <1>1, <1>4, <1>7, <3>1
    <3>3. step' = "backup"
      BY <1>2, <2>1
    <3> QED
      BY <3>1, <3>2, <3>3 DEF AtBackup
  <2>2. CASE ~HasBackup
    BY <1>2, <2>2 DEF AtBackup
  <2> QED
    BY <2>1, <2>2
<1>9. BackupsWhole'
  <2>1. \A p \in DOMAIN disk : disk'[p].backup = disk[p].backup
    BY <1>4, <1>7
  <2> QED
    BY <1>2, <1>6, <1>7, <2>1 DEF TablesInv, BackupsWhole
<1> QED
  BY <1>6, <1>8, <1>9 DEF TablesInv

\* The backup's head is written: the table it is the backup of is whole.
LEMMA WriteBackupHeadKeeps ==
  ASSUME TablesInv, WriteBackupHead
  PROVE  TablesInv'
<1>1. PICK spot, x :
        /\ spot = Table.place
        /\ x = [disk[spot] EXCEPT !.backup = HeadOf(Table.copy, disk[spot].backup)]
  OBVIOUS
<1>2. /\ disk' = [disk EXCEPT ![spot] = x] /\ step' = "backup entries"
      /\ device' = device /\ job' = job /\ at' = at /\ file' = file /\ faults' = faults /\ data' = data
      /\ step = "backup" /\ CopyThere
  BY <1>1 DEF WriteBackupHead, Put
<1>3. /\ data # <<>> /\ Table.valid /\ Table.need
      /\ job.kind = "packages" => at <= Len(job.images)
      /\ HasBackup /\ (spot \in DOMAIN disk => disk[spot].primary = Table.table)
  BY <1>1, <1>2 DEF TablesInv, TableTypes, AtBackup, MidTable
<1>4. spot \in DOMAIN disk => x \in DiskStates /\ x.size = disk[spot].size /\ x.primary = disk[spot].primary
  <2> SUFFICES ASSUME spot \in DOMAIN disk
               PROVE  x \in DiskStates /\ x.size = disk[spot].size /\ x.primary = disk[spot].primary
    OBVIOUS
  <2>1. PICK s \in DiskStates, t \in GptTables : s = disk[spot] /\ t = Table.copy
    BY <1>1, <1>3, TableIs DEF TableData
  <2>2. PICK h \in GptTables : h = HeadOf(t, s.backup)
    BY HeadOfIs DEF DiskStates
  <2>3. x = [s EXCEPT !.backup = h]
    BY <1>1, <2>1, <2>2
  <2> QED
    BY <2>1, <2>3 DEF DiskStates
<1>5. step' \in MidTable \cup {"write"}
  BY <1>2 DEF MidTable
<1>6. TableTypes' /\ Copied' /\ OwnSlotKept' /\ \A p : Size(p)' = Size(p)
  BY <1>1, <1>2, <1>3, <1>4, <1>5, WrittenIs
<1>7. DOMAIN disk' = DOMAIN disk /\ \A p \in DOMAIN disk : disk'[p] = IF p = spot THEN x ELSE disk[p]
  BY <1>2 DEF TablesInv, TableTypes
<1>8. Table' = Table /\ (HasBackup' <=> HasBackup) /\ CopyThere'
  <2>1. Table' = Table
    BY <1>2 DEF Table
  <2>2. HasBackup' <=> HasBackup
    BY <1>2, <2>1 DEF HasBackup, Mmc
  <2>3. Size(Table.place)' = Size(Table.place)
    BY <1>6, <1>7, <2>1 DEF Size
  <2>4. CopyThere'
    BY <1>2, <2>1, <2>3 DEF CopyThere
  <2> QED
    BY <2>1, <2>2, <2>4
<1>9. AtBackup'
  <2>1. spot \in DOMAIN disk => disk'[spot].primary = Table.table
    BY <1>3, <1>4, <1>7
  <2> QED
    BY <1>1, <1>3, <1>7, <1>8, <2>1 DEF AtBackup
<1>10. BackupsWhole'
  <2> SUFFICES ASSUME device.backup, device.startLun = 0, faults = 0, NEW lun \in DOMAIN disk \ {Mmc},
                      TableWhole(device.disk[lun].primary, Size(lun)), TableWhole(device.disk[lun].backup, Size(lun))
               PROVE  \/ TableWhole(disk'[lun].backup, Size(lun))
                      \/ step' = "backup entries" /\ lun = Table'.place /\ TableWhole(disk'[lun].primary, Size(lun))
    BY <1>2, <1>6, <1>7 DEF BackupsWhole
  <2>1. CASE lun = spot
    <3>1. disk'[lun].primary = Table.table
      BY <1>3, <1>4, <1>7, <2>1
    <3>2. Table.copy # NoTable /\ Table.place # Mmc
      BY <1>2, <1>3 DEF CopyThere, HasBackup
    <3>3. TableWhole(Table.table, Size(Table.place))
      BY <1>3, <3>2, TableIs
    <3> QED
      BY <1>1, <1>2, <1>8, <2>1, <3>1, <3>3
  <2>2. CASE lun # spot
    <3>1. disk'[lun] = disk[lun]
      BY <1>7, <2>2
    <3>2. TableWhole(disk[lun].backup, Size(lun))
      BY <1>2 DEF TablesInv, BackupsWhole
    <3> QED
      BY <3>1, <3>2
  <2> QED
    BY <2>1, <2>2
<1> QED
  BY <1>6, <1>9, <1>10 DEF TablesInv

\* The backup's entries make it whole.
LEMMA WriteBackupEntriesKeeps ==
  ASSUME TablesInv, WriteBackupEntries
  PROVE  TablesInv'
<1>1. PICK spot, x :
        spot = Table.place /\ x = [disk[spot] EXCEPT !.backup = Table.copy]
  OBVIOUS
<1>2. /\ disk' = [disk EXCEPT ![spot] = x] /\ step' = "write"
      /\ device' = device /\ job' = job /\ at' = at /\ file' = file /\ faults' = faults /\ data' = Tail(data)
      /\ step = "backup entries"
  BY <1>1 DEF WriteBackupEntries, Put
<1>3. /\ data # <<>> /\ Table.valid /\ Table.need
      /\ job.kind = "packages" => at <= Len(job.images)
      /\ HasBackup /\ CopyThere
  BY <1>1, <1>2 DEF TablesInv, TableTypes, AtBackup, MidTable
<1>4. spot \in DOMAIN disk => x \in DiskStates /\ x.size = disk[spot].size /\ x.backup = Table.copy
  <2> SUFFICES ASSUME spot \in DOMAIN disk
               PROVE  x \in DiskStates /\ x.size = disk[spot].size /\ x.backup = Table.copy
    OBVIOUS
  <2>1. PICK s \in DiskStates, t \in GptTables : s = disk[spot] /\ t = Table.copy
    BY <1>1, <1>3, TableIs DEF TableData
  <2>2. x = [s EXCEPT !.backup = t]
    BY <1>1, <2>1
  <2> QED
    BY <2>1, <2>2 DEF DiskStates
<1>5. step' \in MidTable \cup {"write"}
  BY <1>2
<1>6. TableTypes' /\ Copied' /\ OwnSlotKept' /\ \A p : Size(p)' = Size(p)
  BY <1>1, <1>2, <1>3, <1>4, <1>5, WrittenIs
<1>7. DOMAIN disk' = DOMAIN disk /\ \A p \in DOMAIN disk : disk'[p] = IF p = spot THEN x ELSE disk[p]
  BY <1>2 DEF TablesInv, TableTypes
<1>8. AtBackup'
  BY <1>2 DEF AtBackup
<1>9. BackupsWhole'
  <2> SUFFICES ASSUME device.backup, device.startLun = 0, faults = 0, NEW lun \in DOMAIN disk \ {Mmc},
                      TableWhole(device.disk[lun].primary, Size(lun)), TableWhole(device.disk[lun].backup, Size(lun))
               PROVE  TableWhole(disk'[lun].backup, Size(lun))
    BY <1>2, <1>6, <1>7 DEF BackupsWhole
  <2>1. CASE lun = spot
    <3>1. disk'[lun].backup = Table.copy
      BY <1>4, <1>7, <2>1
    <3>2. Table.copy # NoTable /\ Table.place # Mmc
      BY <1>3 DEF CopyThere, HasBackup
    <3>3. TableWhole(Table.table, Size(Table.place)) /\ Table.copy = Table.table
      BY <1>3, <3>2, TableIs
    <3> QED
      BY <1>1, <2>1, <3>1, <3>3
  <2>2. CASE lun # spot
    <3>1. disk'[lun] = disk[lun]
      BY <1>7, <2>2
    <3>2. TableWhole(disk[lun].backup, Size(lun))
      BY <1>1, <2>2 DEF TablesInv, BackupsWhole
    <3> QED
      BY <3>1, <3>2
  <2> QED
    BY <2>1, <2>2
<1> QED
  BY <1>6, <1>8, <1>9 DEF TablesInv

LEMMA TablesInvStutters ==
  ASSUME TablesInv, UNCHANGED <<ptable, faults>>
  PROVE  TablesInv'
<1>1. /\ device' = device /\ disk' = disk /\ job' = job /\ at' = at /\ step' = step
      /\ data' = data /\ file' = file /\ faults' = faults
  BY DEF ptable
<1>2. \A p : Size(p)' = Size(p)
  BY <1>1 DEF Size
<1>3. Table' = Table /\ (HasBackup' <=> HasBackup) /\ (CopyThere' <=> CopyThere)
  <2>1. Table' = Table
    BY <1>1 DEF Table
  <2>2. Size(Table.place)' = Size(Table.place)
    BY <1>1, <2>1 DEF Size
  <2> QED
    BY <1>1, <2>1, <2>2 DEF HasBackup, Mmc, CopyThere
<1>4. TableTypes'
  BY <1>1, <1>3 DEF TablesInv, TableTypes
<1>5. Copied'
  BY <1>1, CopiedKept DEF TablesInv, Copied
<1>6. AtBackup'
  BY <1>1, <1>3 DEF TablesInv, AtBackup
<1>7. BackupsWhole'
  BY <1>1, <1>2, <1>3 DEF TablesInv, BackupsWhole
<1>8. OwnSlotKept'
  <2>1. (Running' <=> Running) /\ OwnLun' = OwnLun
    BY <1>1 DEF Running, OwnLun, LunOfSlot
  <2>2. Running => SparesOwn(data)'
    BY <1>1, SparesKept DEF TablesInv, OwnSlotKept
  <2>3. Running => OwnInFile'
    BY <1>1, FileKept DEF TablesInv, OwnSlotKept
  <2> QED
    BY <1>1, <2>1, <2>2, <2>3 DEF TablesInv, OwnSlotKept
<1> QED
  BY <1>4, <1>5, <1>6, <1>7, <1>8 DEF TablesInv

\* The invariant is kept by every step.
LEMMA TablesInvNext ==
  ASSUME TablesInv, [PtableNext]_<<ptable, faults>>
  PROVE  TablesInv'
<1>1. CASE PtableNext
  <2>1. ASSUME \/ AllProcessed \/ WriteInvalid \/ WriteUnneeded \/ WriteFails
               \/ NoBackup \/ BackupFails \/ TablesWritten \/ PtableCut
        PROVE  TablesInv'
    BY <2>1, PassingKeeps
  <2>2. CASE PtableProcess
    BY <2>2, PtableProcessKeeps
  <2>3. CASE WriteHead
    BY <2>3, WriteHeadKeeps
  <2>4. CASE WriteEntries
    BY <2>4, WriteEntriesKeeps
  <2>5. CASE WriteBackupHead
    BY <2>5, WriteBackupHeadKeeps
  <2>6. CASE WriteBackupEntries
    BY <2>6, WriteBackupEntriesKeeps
  <2>7. CASE EditFile
    BY <2>7, EditFileKeeps
  <2>8. CASE WritePtableWithFile
    BY <2>8, WithFileKeeps
  <2>9. CASE SyncABLunPtableDevice
    BY <2>9, SyncKeeps
  <2> QED
    BY <1>1, <2>1, <2>2, <2>3, <2>4, <2>5, <2>6, <2>7, <2>8, <2>9 DEF PtableNext
<1>2. CASE UNCHANGED <<ptable, faults>>
  BY <1>2, TablesInvStutters
<1> QED
  BY <1>1, <1>2

\* The inductive invariant of the partition tables (PtableProcess, WritePtableWithFile,
\* SyncABLunPtableDevice), whatever is asked of whichever device, and however often power
\* is cut or a write fails.
THEOREM TablesInvHolds == PtableSpec => []TablesInv
<1>1. PtableInit /\ faults = 0 => TablesInv
  BY TablesInvInit
<1>2. TablesInv /\ [PtableNext]_<<ptable, faults>> => TablesInv'
  BY TablesInvNext
<1> QED
  BY <1>1, <1>2, PTL DEF PtableSpec

\* PtableTypeOK: no package behind the last is looked at, no disk comes or goes, and a
\* table that is half written is a valid one (WritePartitionTable).
THEOREM TablesAreTyped == PtableSpec => []PtableTypeOK
<1>1. TablesInv => PtableTypeOK
  <2> SUFFICES ASSUME TablesInv PROVE PtableTypeOK
    OBVIOUS
  <2>1. TableTypes
    BY DEF TablesInv
  <2>2. step \in TableSteps /\ at \in 1..Len(job.images) + 1 /\ DOMAIN disk = DOMAIN device.disk
    BY <2>1 DEF TableTypes
  <2> QED
    BY <2>1, <2>2 DEF TableTypes, PtableTypeOK, TableSteps, MidTable
<1> QED
  BY <1>1, TablesInvHolds, PTL

\* OneCopyWhole: until something fails, and so where the first power cut or failed write
\* comes, a LUN's table or its backup is whole, if both were (WritePartitionTable,
\* WriteBackupPartitionTable).
THEOREM OneCopyIsWhole == PtableSpec => []OneCopyWhole
<1>1. TablesInv => OneCopyWhole
  BY DEF TablesInv, BackupsWhole, OneCopyWhole, TableWhole
<1> QED
  BY <1>1, TablesInvHolds, PTL

\* RunningSlotKept: update_binary writes nothing to the LUN of the slot that runs, whatever
\* was edited and wherever it was cut (SetLunPtnDataInfoNeedWrite, SyncABLunPtableDevice).
THEOREM RunningSlotIsKept == PtableSpec => []RunningSlotKept
<1>1. TablesInv => RunningSlotKept
  BY DEF TablesInv, OwnSlotKept, Running, OwnLun, RunningSlotKept
<1> QED
  BY <1>1, TablesInvHolds, PTL

\* TablesKept: no write of a table, wherever it is cut, takes a LUN's one whole copy or the
\* table of the slot that runs, of whichever device and whatever is asked of it
\* (WritePartitionTable, SetLunPtnDataInfoNeedWrite).
THEOREM TablesAreKept == PtableSpec => []TablesKept
<1>1. PtableTypeOK /\ OneCopyWhole /\ RunningSlotKept => TablesKept
  BY DEF TablesKept
<1> QED
  BY <1>1, TablesAreTyped, OneCopyIsWhole, RunningSlotIsKept, PTL
=============================================================================
