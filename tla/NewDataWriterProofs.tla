------------------------ MODULE NewDataWriterProofs ------------------------
(***************************************************************************)
(* How the two threads of a block update share the writer, and what they    *)
(* write with it, for every list of commands, every amount of data and      *)
(* every size of chunk.                                                     *)
(***************************************************************************)
EXTENDS NewDataWriter, SequenceTheorems, WellFoundedInduction, TLAPS

\* The part of the types that the proof needs.
Types ==
  /\ mainPc \in {"command", "wait", "woken", "giveUp", "join", "done", "abandoned"}
  /\ threadPc \in {"extract", "check", "wait", "compute", "write", "reset", "finish", "ended"}
  /\ n \in 1..(Len(Cmds) + 1)
  /\ size \in Nat /\ toWrite \in Nat
  /\ readyToWrite \in BOOLEAN
  /\ DOMAIN target = Commands /\ \A c \in Commands : Len(target[c]) \in Nat

\* A writer is posted only while main stands at its command, and is there while
\* the thread uses it.
Held ==
  /\ mainPc \in {"wait", "woken", "giveUp"} => n <= Len(Cmds)
  /\ writer # 0 => writer = n /\ mainPc \in {"wait", "woken", "giveUp"}
  /\ threadPc \in {"compute", "write", "reset"} => writer # 0

\* The thread is told to stop at the end of the list; otherwise it is gone, and
\* that is why main gives up.
Gone ==
  /\ ~readyToWrite => threadPc = "ended" \/ mainPc \in {"join", "done"}
  /\ mainPc = "giveUp" => threadPc = "ended"

\* How much the command at hand has got.
Amounts ==
  /\ threadPc = "write" => toWrite <= Left(writer) /\ toWrite <= size
  /\ threadPc = "reset" => Left(writer) = 0
  /\ \A c \in Commands : Len(target[c]) <= Cmds[c]
  /\ mainPc \in {"wait", "woken"} /\ writer = 0 => Left(n) = 0

IInv == Types /\ Held /\ Gone /\ Amounts /\ PastIsComplete

\* The commands have places, and amounts.
LEMMA Places ==
  /\ Commands = 1..Len(Cmds) /\ Len(Cmds) \in Nat
  /\ \A c \in Commands : Cmds[c] \in Nat
BY CmdsAssumption DEF Commands

\* What a command has got grows by what is written.
LEMMA Grown ==
  ASSUME IInv, Write
  PROVE  /\ writer = n /\ n \in Commands /\ DOMAIN target' = Commands
         /\ \A c \in Commands : c # n => target'[c] = target[c]
         /\ Len(target'[n]) = Len(target[n]) + toWrite
<1>1. writer = n /\ n \in Commands
  BY Places DEF IInv, Held, Write, Types
<1>2. target' = [target EXCEPT ![n] = @ \o [i \in 1..toWrite |-> Written + i]]
  BY <1>1 DEF Write
<1> QED
  BY <1>1, <1>2 DEF IInv, Types

-----------------------------------------------------------------------------
\* The main thread goes on, or gives up, with no writer posted.
LEMMA MainStep == ASSUME IInv, Main PROVE IInv'
<1> USE Places DEF IInv, his, shared
<1>1. CASE OtherCommand \/ OtherCommandFails
  <2>1. Types' /\ Held' /\ Gone'
    BY <1>1 DEF OtherCommand, OtherCommandFails, Types, Held, Gone
  <2>2. Amounts'
    BY <1>1 DEF OtherCommand, OtherCommandFails, Amounts, Left
  <2>3. PastIsComplete'
    BY <1>1 DEF OtherCommand, OtherCommandFails, PastIsComplete, Amounts, Types
  <2> QED
    BY <2>1, <2>2, <2>3
<1>2. CASE PostWriter
  <2>1. Types' /\ Held' /\ Gone'
    BY <1>2 DEF PostWriter, WakeThread, Types, Held, Gone
  <2>2. Amounts' /\ PastIsComplete'
    BY <1>2 DEF PostWriter, WakeThread, Amounts, Left, PastIsComplete, Types, Held
  <2> QED
    BY <2>1, <2>2
<1>3. CASE WaitForWriter
  <2>1. Types' /\ Held' /\ Gone'
    BY <1>3 DEF WaitForWriter, Types, Held, Gone
  <2>2. Amounts'
    BY <1>3 DEF WaitForWriter, Amounts, Left
  <2>3. PastIsComplete'
    BY <1>3 DEF WaitForWriter, PastIsComplete, Amounts, Left, Types, Held
  <2> QED
    BY <2>1, <2>2, <2>3
<1>4. CASE GiveUp
  <2>1. Types' /\ Held' /\ Gone'
    BY <1>4 DEF GiveUp, Types, Held, Gone
  <2>2. Amounts' /\ PastIsComplete'
    BY <1>4 DEF GiveUp, Amounts, Left, PastIsComplete, Gone
  <2> QED
    BY <2>1, <2>2
<1>5. CASE JoinThread \/ Joined
  <2>1. Types' /\ Held' /\ Gone'
    BY <1>5 DEF JoinThread, Joined, WakeThread, Types, Held, Gone
  <2>2. Amounts' /\ PastIsComplete'
    BY <1>5 DEF JoinThread, Joined, WakeThread, Amounts, Left, PastIsComplete
  <2> QED
    BY <2>1, <2>2
<1> QED
  BY <1>1, <1>2, <1>3, <1>4, <1>5 DEF Main

\* The writer thread finds a chunk, a writer, or the end.
LEMMA LookStep ==
  ASSUME IInv, NextChunk \/ ExtractEnds \/ CheckWriter \/ WriteFails
  PROVE  IInv'
<1> USE Places DEF IInv, mine, shared
<1>1. Types'
  BY CmdsAssumption DEF NextChunk, ExtractEnds, CheckWriter, WriteFails, Types
<1>2. Held' /\ Gone'
  BY DEF NextChunk, ExtractEnds, CheckWriter, WriteFails, Types, Held, Gone
<1>3. Amounts' /\ PastIsComplete'
  BY DEF NextChunk, ExtractEnds, CheckWriter, WriteFails, Amounts, Left, PastIsComplete
<1> QED
  BY <1>1, <1>2, <1>3

\* It writes no more than the chunk holds and the writer takes.
LEMMA ComputeStep == ASSUME IInv, ComputeToWrite PROVE IInv'
<1> USE Places DEF IInv, mine, shared
<1>1. writer = n /\ n \in Commands /\ Left(n) \in Nat
  BY DEF ComputeToWrite, Held, Types, Amounts, Left
<1>2. toWrite' \in Nat /\ toWrite' <= size /\ toWrite' <= Left(n)
  BY <1>1 DEF ComputeToWrite, Types
<1>3. Types' /\ Held' /\ Gone'
  BY <1>2 DEF ComputeToWrite, Types, Held, Gone
<1>4. Amounts' /\ PastIsComplete'
  BY <1>1, <1>2 DEF ComputeToWrite, Amounts, Left, PastIsComplete
<1> QED
  BY <1>3, <1>4

\* The pieces go to the command main waits at.
LEMMA WriteStep == ASSUME IInv, Write PROVE IInv'
<1> USE Places DEF IInv, mine
<1>1. /\ writer = n /\ n \in Commands /\ DOMAIN target' = Commands
      /\ \A c \in Commands : c # n => target'[c] = target[c]
      /\ Len(target'[n]) = Len(target[n]) + toWrite
  BY Grown
<1>2. /\ toWrite \in Nat /\ size \in Nat /\ toWrite <= size
      /\ Cmds[n] \in Nat /\ Len(target[n]) \in Nat /\ toWrite <= Cmds[n] - Len(target[n])
  BY <1>1 DEF Write, Types, Amounts, Left
<1>3. /\ size' = size - toWrite /\ threadPc' \in {"reset", "check", "extract"}
      /\ threadPc' = "reset" => toWrite = Cmds[n] - Len(target[n])
      /\ UNCHANGED <<mainPc, n, toWrite, writer, readyToWrite>> /\ threadPc = "write"
  BY <1>1 DEF Write, Rest, Left
<1>4. Types'
  BY <1>1, <1>2, <1>3 DEF Types
<1>5. Held' /\ Gone'
  BY <1>1, <1>3 DEF Held, Gone
<1>6. Amounts'
  <2>1. threadPc' = "reset" => Cmds[n] - Len(target'[n]) = 0
    BY <1>1, <1>2, <1>3
  <2>2. ASSUME NEW c \in Commands PROVE Len(target'[c]) <= Cmds[c]
    <3>1. CASE c = n
      BY <1>1, <1>2, <3>1
    <3>2. CASE c # n
      BY <1>1, <3>2 DEF Amounts
    <3> QED
      BY <3>1, <3>2
  <2> QED
    BY <1>1, <1>3, <2>1, <2>2 DEF Amounts, Left, Held
<1>7. PastIsComplete'
  <2> SUFFICES ASSUME NEW c \in 1..(n - 1) PROVE Len(target'[c]) = Cmds[c]
    BY <1>3 DEF PastIsComplete
  <2>1. c \in Commands /\ c # n
    BY <1>1
  <2> QED
    BY <1>1, <2>1 DEF PastIsComplete
<1> QED
  BY <1>4, <1>5, <1>6, <1>7

\* It takes the writer away when the command is complete, and tells main when it
\* leaves.
LEMMA LeaveStep ==
  ASSUME IInv, ResetWriter \/ CondBroadcast \/ SpuriousWakeup
  PROVE  IInv'
<1> USE Places DEF IInv, mine, his, shared
<1>1. CASE ResetWriter
  <2>1. Types' /\ Held' /\ Gone'
    BY <1>1 DEF ResetWriter, WakeMain, Rest, Types, Held, Gone
  <2>2. Amounts' /\ PastIsComplete'
    BY <1>1 DEF ResetWriter, WakeMain, Rest, Amounts, Left, PastIsComplete, Held
  <2> QED
    BY <2>1, <2>2
<1>2. CASE CondBroadcast
  <2>1. Types' /\ Held' /\ Gone'
    BY <1>2 DEF CondBroadcast, WakeMain, Types, Held, Gone
  <2>2. Amounts' /\ PastIsComplete'
    BY <1>2 DEF CondBroadcast, WakeMain, Amounts, Left, PastIsComplete
  <2> QED
    BY <2>1, <2>2
<1>3. CASE SpuriousWakeup
  <2>1. Types' /\ Held' /\ Gone'
    BY <1>3 DEF SpuriousWakeup, Types, Held, Gone
  <2>2. Amounts' /\ PastIsComplete'
    BY <1>3 DEF SpuriousWakeup, Amounts, Left, PastIsComplete
  <2> QED
    BY <2>1, <2>2
<1> QED
  BY <1>1, <1>2, <1>3

-----------------------------------------------------------------------------
\* Who holds the writer, who is gone, and how much each command has got.
THEOREM IInvHolds == Spec => []IInv
<1>1. Init => IInv
  <2> SUFFICES ASSUME Init PROVE IInv
    OBVIOUS
  <2>1. target = [c \in Commands |-> << >>] /\ Len(<< >>) = 0
    BY DEF Init
  <2>2. Types
    BY <2>1, Places DEF Init, Types
  <2> QED
    BY <2>1, <2>2, Places DEF Init, IInv, Held, Gone, Amounts, Left, PastIsComplete
<1>2. IInv /\ [Next]_vars => IInv'
  <2> SUFFICES ASSUME IInv, [Next]_vars PROVE IInv'
    OBVIOUS
  <2>1. CASE UNCHANGED vars
    BY <2>1 DEF vars, mine, his, shared, IInv, Types, Held, Gone, Amounts, Left, PastIsComplete
  <2> QED
    BY <2>1, MainStep, LookStep, ComputeStep, WriteStep, LeaveStep DEF Next, Thread, Over
<1> QED
  BY <1>1, <1>2, PTL DEF Spec

\* The writer thread uses g_writer without the mutex, and nobody takes it away:
\* it is that of the command the main thread waits at.
THEOREM WriterStaysHeld == Spec => []WriterIsHeld
<1>1. IInv => WriterIsHeld
  BY DEF IInv, Held, Gone, WriterIsHeld
<1> QED
  BY <1>1, IInvHolds, PTL

\* NewCommandFn returns only when its command has got all its data, whatever
\* the sizes of the chunks: the part of DeliversInOrder that is about amounts.
THEOREM PastCommandsAreComplete == Spec => []PastIsComplete
<1>1. IInv => PastIsComplete
  BY DEF IInv
<1> QED
  BY <1>1, IInvHolds, PTL

-----------------------------------------------------------------------------
(***************************************************************************)
(* The order of the pieces.                                                *)
(***************************************************************************)
\* Induction, over a set and not over a formula.
LEMMA UpTo ==
  ASSUME NEW l \in Nat, NEW Good, 1 \in Good,
         \A i \in 1..l : i > 1 /\ i - 1 \in Good => i \in Good
  PROVE  1..l \subseteq Good
<1> DEFINE Bad == (1..l) \ Good
           R == OpToRel(<, Nat)
<1> SUFFICES ASSUME Bad # {} PROVE FALSE
  OBVIOUS
<1>1. R = {ss \in Nat \X Nat : ss[1] < ss[2]}
  BY DEF OpToRel
<1>2. IsWellFoundedOn(R, Nat)
  BY NatLessThanWellFounded
<1>3. Bad \subseteq Nat
  OBVIOUS
<1> HIDE DEF R, Bad
<1>4. PICK i \in Bad : \A k \in Bad : ~(<<k, i>> \in R)
  BY <1>2, <1>3, WFMin
<1>5. i \in 1..l /\ i # 1 /\ i \notin Good
  BY DEF Bad
<1>6. i - 1 \in Bad
  BY <1>5 DEF Bad
<1>7. i - 1 \in Nat /\ i \in Nat /\ i - 1 < i
  BY <1>5
<1>8. <<i - 1, i>> \in R
  BY <1>1, <1>7
<1> QED
  BY <1>4, <1>6, <1>8

\* The loop that FlattenSeq is.
LEMMA Flattened ==
  ASSUME NEW s, NEW l \in Nat \ {0}, Len(s) = l
  PROVE  \E g : /\ g = [i \in 1..l |-> IF i = 1 THEN s[i] ELSE g[i - 1] \o s[i]]
                /\ FlattenSeq(s) = g[l]
<1> DEFINE Loop(g, m) == g = [i \in 1..m |-> IF i = 1 THEN s[i] ELSE g[i - 1] \o s[i]]
           Good == {m \in 1..l : \E g : Loop(g, m)}
<1>1. 1 \in Good
  <2>1. Loop([i \in 1..1 |-> s[i]], 1)
    <3>1. \A i \in 1..1 : i = 1
      OBVIOUS
    <3> QED
      BY <3>1
  <2> HIDE DEF Loop
  <2> QED
    BY <2>1
<1>2. ASSUME NEW m \in 1..l, m > 1, m - 1 \in Good PROVE m \in Good
  <2>1. PICK g : Loop(g, m - 1)
    BY <1>2
  <2> DEFINE h == [i \in 1..m |-> IF i = m THEN g[m - 1] \o s[m] ELSE g[i]]
  <2>2. \A i \in 1..m : h[i] = IF i = 1 THEN s[i] ELSE h[i - 1] \o s[i]
    <3> SUFFICES ASSUME NEW i \in 1..m PROVE h[i] = IF i = 1 THEN s[i] ELSE h[i - 1] \o s[i]
      OBVIOUS
    <3>1. CASE i = m
      <4>1. h[i - 1] = g[m - 1] /\ h[i] = g[m - 1] \o s[m]
        BY <1>2, <3>1
      <4> HIDE DEF h
      <4> QED
        BY <1>2, <3>1, <4>1
    <3>2. CASE i # m
      <4>1. i \in 1..(m - 1) /\ h[i] = g[i]
        BY <3>2
      <4>2. g[i] = IF i = 1 THEN s[i] ELSE g[i - 1] \o s[i]
        BY <2>1, <4>1
      <4>3. i # 1 => h[i - 1] = g[i - 1]
        BY <4>1
      <4> HIDE DEF h
      <4> QED
        BY <4>1, <4>2, <4>3
    <3> QED
      BY <3>1, <3>2
  <2>3. Loop(h, m)
    <3>1. h = [i \in 1..m |-> h[i]]
      OBVIOUS
    <3> HIDE DEF h
    <3> QED
      BY <2>2, <3>1
  <2> HIDE DEF Loop, h
  <2> QED
    BY <2>3
<1>3. 1..l \subseteq Good
  <2> HIDE DEF Good
  <2> QED
    BY <1>1, <1>2, UpTo
<1>4. PICK g : Loop(g, l)
  <2>1. l \in Good
    <3>1. l \in 1..l
      OBVIOUS
    <3> HIDE DEF Good
    <3> QED
      BY <1>3, <3>1
  <2> QED
    BY <2>1
<1> DEFINE flatten == CHOOSE f : Loop(f, l)
<1>5. Loop(flatten, l)
  <2> HIDE DEF Loop
  <2> QED
    BY <1>4
<1>6. FlattenSeq(s) = flatten[l]
  BY DEF FlattenSeq
<1> QED
  BY <1>5, <1>6

\* Sequences that are all empty make none.
LEMMA FlatEmpty ==
  ASSUME NEW l \in Nat, NEW s \in [1..l -> Seq(Nat)], \A c \in 1..l : s[c] = << >>
  PROVE  FlattenSeq(s) = << >>
<1>1. Len(s) = l
  OBVIOUS
<1>2. CASE l = 0
  BY <1>1, <1>2 DEF FlattenSeq
<1>3. CASE l # 0
  <2>1. PICK g : /\ g = [i \in 1..l |-> IF i = 1 THEN s[i] ELSE g[i - 1] \o s[i]]
                 /\ FlattenSeq(s) = g[l]
    <3>1. l \in Nat \ {0} /\ Len(s) = l
      BY <1>1, <1>3
    <3> QED
      BY <3>1, Flattened
  <2> DEFINE Good == {i \in 1..l : g[i] = << >>}
  <2>2. \A i \in 1..l : g[i] = IF i = 1 THEN << >> ELSE g[i - 1] \o << >>
    BY <2>1
  <2>3. 1 \in Good
    BY <1>3, <2>2
  <2>4. ASSUME NEW i \in 1..l, i > 1, i - 1 \in Good PROVE i \in Good
    <3>1. << >> \o << >> = << >>
      <4>1. << >> \in Seq(Nat)
        OBVIOUS
      <4> QED
        BY <4>1, ConcatEmptySeq
    <3>2. g[i - 1] = << >> /\ g[i] = g[i - 1] \o << >>
      BY <2>2, <2>4
    <3>3. g[i] = << >>
      BY <3>1, <3>2, Zenon
    <3> QED
      BY <3>3
  <2>5. 1..l \subseteq Good
    <3> HIDE DEF Good
    <3> QED
      BY <2>3, <2>4, UpTo
  <2> QED
    BY <1>3, <2>1, <2>5
<1> QED
  BY <1>2, <1>3

\* The laws of concatenation that it needs.
LEMMA ConcatLaws ==
  /\ \A x, y, z \in Seq(Nat) : (x \o y) \o z = x \o (y \o z)
  /\ \A x, y \in Seq(Nat) : x \o y \in Seq(Nat)
  /\ \A x \in Seq(Nat) : x \o << >> = x
<1>1. ASSUME NEW x \in Seq(Nat), NEW y \in Seq(Nat), NEW z \in Seq(Nat)
      PROVE  (x \o y) \o z = x \o (y \o z)
  BY ConcatAssociative, Z3
<1>2. \A x, y \in Seq(Nat) : x \o y \in Seq(Nat)
  OBVIOUS
<1>3. ASSUME NEW x \in Seq(Nat) PROVE x \o << >> = x
  BY ConcatEmptySeq, Zenon
<1> QED
  BY <1>1, <1>2, <1>3, Zenon

\* What is added to one of the sequences comes last, if those after it are empty.
LEMMA FlatGrows ==
  ASSUME NEW l \in Nat, NEW s \in [1..l -> Seq(Nat)], NEW w \in 1..l, NEW t \in Seq(Nat),
         NEW r \in [1..l -> Seq(Nat)], r[w] = s[w] \o t,
         \A c \in 1..l : c # w => r[c] = s[c],
         \A c \in 1..l : c > w => s[c] = << >>
  PROVE  FlattenSeq(s) \in Seq(Nat) /\ FlattenSeq(r) = FlattenSeq(s) \o t
<1> DEFINE Cat(x, y) == x \o y
<1>1. Len(s) = l /\ Len(r) = l /\ l \in Nat \ {0}
  OBVIOUS
<1>2. PICK g : /\ g = [i \in 1..l |-> IF i = 1 THEN s[i] ELSE g[i - 1] \o s[i]]
               /\ FlattenSeq(s) = g[l]
  BY <1>1, Flattened
<1>3. PICK h : /\ h = [i \in 1..l |-> IF i = 1 THEN r[i] ELSE h[i - 1] \o r[i]]
               /\ FlattenSeq(r) = h[l]
  BY <1>1, Flattened
<1>4. \A i \in 1..l : /\ g[i] = IF i = 1 THEN s[i] ELSE Cat(g[i - 1], s[i])
                      /\ h[i] = IF i = 1 THEN r[i] ELSE Cat(h[i - 1], r[i])
  BY <1>2, <1>3
<1>c. /\ \A x, y, z \in Seq(Nat) : Cat(Cat(x, y), z) = Cat(x, Cat(y, z))
      /\ \A x, y \in Seq(Nat) : Cat(x, y) \in Seq(Nat)
      /\ \A x \in Seq(Nat) : Cat(x, << >>) = x
  BY ConcatLaws, Zenon
<1>s. FlattenSeq(r) = Cat(FlattenSeq(s), t) => FlattenSeq(r) = FlattenSeq(s) \o t
  OBVIOUS
<1>t. r[w] = Cat(s[w], t)
  OBVIOUS
<1> HIDE DEF Cat
<1> DEFINE Q(i) == /\ g[i] \in Seq(Nat)
                   /\ i < w => h[i] = g[i]
                   /\ i >= w => h[i] = Cat(g[i], t)
           Good == {i \in 1..l : Q(i)}
<1> HIDE DEF Q
<1>5. Q(1)
  <2>1. 1 \in 1..l /\ g[1] = s[1] /\ h[1] = r[1] /\ s[1] \in Seq(Nat)
    BY <1>1, <1>4
  <2>2. CASE 1 < w
    BY <2>1, <2>2 DEF Q
  <2>3. CASE w = 1
    BY <1>t, <2>1, <2>3 DEF Q
  <2> QED
    BY <2>2, <2>3
<1>6. ASSUME NEW i \in 1..l, i > 1, Q(i - 1) PROVE Q(i)
  <2>1. g[i] = Cat(g[i - 1], s[i]) /\ h[i] = Cat(h[i - 1], r[i])
    BY <1>4, <1>6
  <2>2. i - 1 \in 1..l
    BY <1>6
  <2>u. PICK u : u = g[i - 1]
    OBVIOUS
  <2>v. u \in Seq(Nat) /\ (i - 1 < w => h[i - 1] = u) /\ (i - 1 >= w => h[i - 1] = Cat(u, t))
    BY <1>6, <2>2, <2>u DEF Q
  <2>3. u \in Seq(Nat) /\ s[i] \in Seq(Nat) /\ g[i] \in Seq(Nat)
    <3>1. s[i] \in Seq(Nat)
      OBVIOUS
    <3>2. u \in Seq(Nat) /\ g[i] = Cat(u, s[i])
      BY <2>1, <2>u, <2>v
    <3>3. Cat(u, s[i]) \in Seq(Nat)
      BY <1>c, <3>1, <3>2, Zenon
    <3> QED
      BY <3>1, <3>2, <3>3
  <2>4. CASE i < w
    <3>1. h[i] = Cat(u, s[i])
      <4>1. h[i - 1] = u /\ r[i] = s[i]
        BY <2>v, <2>4
      <4> QED
        BY <2>1, <4>1
    <3> QED
      BY <2>u, <2>1, <2>3, <2>4, <3>1 DEF Q
  <2>5. CASE i = w
    <3>1. h[i] = Cat(u, Cat(s[i], t))
      BY <2>1, <2>v, <2>5, <1>t
    <3>2. Cat(Cat(u, s[i]), t) = Cat(u, Cat(s[i], t))
      BY <1>c, <2>3
    <3> QED
      BY <2>u, <2>1, <2>3, <2>5, <3>1, <3>2 DEF Q
  <2>6. CASE i > w
    <3>1. s[i] = << >> /\ r[i] = << >>
      BY <2>6
    <3>2. Cat(u, << >>) = u /\ Cat(Cat(u, t), << >>) = Cat(u, t)
      <4>1. Cat(u, t) \in Seq(Nat)
        BY <1>c, <2>3
      <4> QED
        BY <1>c, <2>3, <4>1
    <3>3. h[i] = Cat(u, t)
      <4>1. i - 1 >= w
        BY <2>6
      <4>2. h[i - 1] = Cat(u, t)
        BY <2>v, <4>1
      <4> QED
        BY <2>1, <3>1, <3>2, <4>2, Zenon
    <3> QED
      BY <2>u, <2>1, <2>3, <2>6, <3>1, <3>2, <3>3 DEF Q
  <2> QED
    BY <2>4, <2>5, <2>6
<1>7. 1..l \subseteq Good
  <2>1. 1 \in Good
    BY <1>1, <1>5
  <2>2. \A i \in 1..l : i > 1 /\ i - 1 \in Good => i \in Good
    BY <1>6
  <2> HIDE DEF Good
  <2> QED
    BY <2>1, <2>2, UpTo
<1>8. g[l] \in Seq(Nat) /\ h[l] = Cat(g[l], t)
  <2>1. Q(l) /\ l >= w
    BY <1>1, <1>7
  <2> QED
    BY <2>1 DEF Q
<1> QED
  BY <1>2, <1>3, <1>8, <1>s

\* The commands after the one main is at have got nothing, and what the others
\* have got is a beginning of the stream.
Ordered ==
  /\ target \in [Commands -> Seq(Nat)]
  /\ \A c \in Commands : c > n => target[c] = << >>
  /\ FlattenSeq(target) = [i \in 1..Written |-> i]

\* Only Write changes what is written, and main only goes on.
LEMMA OnlyWriteWrites ==
  ASSUME IInv, Next, ~Write
  PROVE  target' = target /\ n' \in Nat /\ n' >= n
<1> USE DEF his, shared, mine
<1>1. n \in Nat
  BY Places DEF IInv, Types
<1>2. CASE Main
  BY <1>1, <1>2 DEF Main, OtherCommand, OtherCommandFails, PostWriter, WaitForWriter, GiveUp,
                    JoinThread, Joined
<1>3. CASE Thread \/ SpuriousWakeup \/ Over
  BY <1>1, <1>3 DEF Thread, NextChunk, ExtractEnds, CheckWriter, ComputeToWrite, WriteFails,
                    ResetWriter, CondBroadcast, SpuriousWakeup, Over, vars
<1> QED
  BY <1>2, <1>3 DEF Next

\* What Write adds is what comes next in the stream, and it comes last.
LEMMA WriteKeepsOrder == ASSUME IInv, Ordered, Write PROVE Ordered'
<1> DEFINE piece == [i \in 1..toWrite |-> Written + i]
<1>1. /\ writer = n /\ n \in Commands /\ n' = n
      /\ \A c \in Commands : c # n => target'[c] = target[c]
  BY Grown DEF Write, mine
<1>2. Commands = 1..Len(Cmds) /\ Len(Cmds) \in Nat
  BY Places
<1>3. target \in [Commands -> Seq(Nat)] /\ FlattenSeq(target) = [i \in 1..Written |-> i]
  BY DEF Ordered
<1>e. /\ Len(Cmds) \in Nat /\ n \in 1..Len(Cmds) /\ target \in [1..Len(Cmds) -> Seq(Nat)]
      /\ \A c \in 1..Len(Cmds) : c > n => target[c] = << >>
  BY <1>1, <1>2, <1>3 DEF Ordered
<1>4. Commands # {} /\ FlattenSeq(target) \in Seq(Nat) /\ Written \in Nat
  <2>2. << >> \in Seq(Nat) /\ target[n] \o << >> = target[n]
    <3>1. target[n] \in Seq(Nat)
      BY <1>1, <1>3
    <3> QED
      BY <3>1, ConcatLaws
  <2>3. FlattenSeq(target) \in Seq(Nat)
    BY <1>e, <2>2, FlatGrows
  <2> QED
    BY <1>1, <2>3 DEF Written
<1>5. toWrite \in Nat /\ piece \in Seq(Nat)
  <2>1. toWrite \in Nat
    BY DEF IInv, Types
  <2> QED
    BY <1>4, <2>1
<1>6. target' \in [Commands -> Seq(Nat)] /\ target'[n] = target[n] \o piece
  <2>1. target' = [target EXCEPT ![n] = @ \o piece]
    BY <1>1 DEF Write
  <2>2. target[n] \in Seq(Nat)
    BY <1>1, <1>3
  <2> HIDE DEF piece
  <2>3. target[n] \o piece \in Seq(Nat)
    BY <1>5, <2>2, ConcatLaws
  <2> QED
    BY <1>1, <1>3, <2>1, <2>3
<1>7. FlattenSeq(target') = FlattenSeq(target) \o piece
  <2>1. /\ target' \in [1..Len(Cmds) -> Seq(Nat)]
        /\ \A c \in 1..Len(Cmds) : c # n => target'[c] = target[c]
    BY <1>1, <1>2, <1>6
  <2> HIDE DEF piece
  <2> QED
    BY <1>e, <1>5, <1>6, <2>1, FlatGrows
<1>8. FlattenSeq(target)' = FlattenSeq(target')
  BY DEF FlattenSeq
<1>9. Written' = Written + toWrite
  BY <1>3, <1>4, <1>5, <1>7, <1>8 DEF Written
<1>10. FlattenSeq(target') = [i \in 1..(Written + toWrite) |-> i]
  BY <1>3, <1>4, <1>5, <1>7
<1>11. \A c \in Commands : c > n => target'[c] = << >>
  BY <1>1, <1>2 DEF Ordered
<1> QED
  BY <1>1, <1>6, <1>8, <1>9, <1>10, <1>11 DEF Ordered, Commands

\* The stream is cut into the NEW commands in order, whatever the sizes of the
\* chunks: no piece is written twice, left out, or given to another command.
THEOREM StreamIsCutInOrder == Spec => []DeliversInOrder
<1>1. Init => Ordered
  <2> SUFFICES ASSUME Init PROVE Ordered
    OBVIOUS
  <2>1. target = [c \in 1..Len(Cmds) |-> << >>] /\ Len(Cmds) \in Nat
    BY Places DEF Init
  <2>2. target \in [1..Len(Cmds) -> Seq(Nat)] /\ \A c \in 1..Len(Cmds) : target[c] = << >>
    BY <2>1
  <2>3. FlattenSeq(target) = << >>
    BY <2>1, <2>2, FlatEmpty
  <2>4. Written = 0 /\ << >> = [i \in 1..0 |-> i]
    BY <2>3 DEF Written
  <2> QED
    BY <2>2, <2>3, <2>4, Places DEF Ordered
<1>2. IInv /\ Ordered /\ [Next]_vars => Ordered'
  <2> SUFFICES ASSUME IInv, Ordered, [Next]_vars PROVE Ordered'
    OBVIOUS
  <2>1. CASE Write
    BY <2>1, WriteKeepsOrder
  <2>2. CASE ~Write
    <3>1. target' = target /\ n' \in Nat /\ n \in Nat /\ n' >= n
      <4>1. n \in Nat
        BY Places DEF IInv, Types
      <4> QED
        BY <2>2, <4>1, OnlyWriteWrites DEF vars, shared, mine
    <3>2. \A c \in Commands : c > n' => target[c] = << >>
      BY <3>1, Places DEF Ordered
    <3> QED
      BY <3>1, <3>2 DEF Ordered, Written, Commands
  <2> QED
    BY <2>1, <2>2
<1>3. IInv /\ Ordered => DeliversInOrder
  BY DEF IInv, Ordered, DeliversInOrder
<1> QED
  BY <1>1, <1>2, <1>3, IInvHolds, PTL DEF Spec
=============================================================================
