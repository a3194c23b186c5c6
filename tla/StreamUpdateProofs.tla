------------------------- MODULE StreamUpdateProofs -------------------------
(***************************************************************************)
(* The streaming update, for every file, every size of chunk and wherever   *)
(* the stream is cut: what is executed, and what the result says of it.     *)
(***************************************************************************)
EXTENDS StreamUpdate, FiniteSetTheorems, WellFoundedInduction, TLAPS

\* The place behind the last record.
AtEnd == HashAt(file) + 1

\* The file, and how it is cut.
Given ==
  /\ file.zip \in Nat /\ file.head \in Nat /\ file.name \in Nat
  /\ file.cmds \in Seq([part : Partitions(file), size : Nat])
  /\ end \in Nat /\ file.zip < end /\ end <= FileLen(file)
  /\ chunk \in Nat /\ 0 < chunk /\ chunk <= MaxBuf

\* The window moves only forward, and the place in it never leaves it.
Window ==
  /\ pc \in {"load", "seek", "read", "skip", "add", "buffer", "data", "move", "ended"}
  /\ base \in Nat /\ fed \in Nat /\ taken \in Nat /\ skip \in Nat
  /\ base <= fed /\ fed <= taken /\ taken <= end /\ fed <= base + MaxBuf
  /\ at \in 0..AtEnd
  /\ at > 0 => base <= Pos(file, at) /\ Pos(file, at) <= fed
  /\ at = 0 /\ pc \in {"add", "buffer", "data", "move"} => base = file.zip
  /\ at = 0 /\ pc = "read" /\ skip = 0 /\ (ret = "success" \/ (ret = "none" /\ seeks)) => base = file.zip
  /\ pc = "data" => at \in 1..HashAt(file) /\ (step = "PRE" => at <= Len(file.cmds))

\* Before the first record: the zip header, passed over in whole chunks.
Header ==
  /\ pc = "read" /\ ret \in {"none", "success"} => fed = taken
  /\ pc \in {"load", "seek"} => seeks /\ ret = "none" /\ taken = 0 /\ skip = 0 /\ at = 0
  /\ pc = "read" /\ ret = "none" =>
       base = fed /\ skip = 0 /\ at = 0 /\ fed = IF seeks THEN file.zip ELSE 0
  /\ pc \in {"add", "buffer", "data", "move"} => skip = 0
  /\ pc \in {"buffer", "data", "move"} => ret \in {"success", "complete"}
  /\ pc = "skip" => skip > 0 /\ taken <= fed + chunk /\ (taken = fed + chunk \/ taken = end)
  /\ skip > 0 =>
       /\ ~seeks /\ at = 0 /\ base = fed /\ fed + skip = file.zip /\ pc \in {"read", "skip", "ended"}
       /\ \E k \in Nat : fed = k * chunk

\* The commands executed are those before the place, and are each all there.
Executed ==
  /\ done \in Seq([cmd : Nat, dev : Partitions(file)])
  /\ Len(done) = IF at = 0 THEN 0 ELSE IF at <= Len(file.cmds) THEN at - 1 ELSE Len(file.cmds)
  /\ \A i \in 1..Len(done) :
       done[i] = [cmd |-> i, dev |-> file.cmds[i].part] /\ Pos(file, i + 1) <= fed

\* What was told, and what it is told of.
Told ==
  /\ ret \in {"none", "success", "failure", "complete"}
  /\ at = AtEnd => ret \in {"complete", "failure"} /\ pc \in {"buffer", "move", "read", "ended"}
  /\ ret = "complete" => at = AtEnd /\ file.signed /\ HashesMatch
  /\ result = "UPDATE_SUCCESS" => pc = "ended"
  /\ need => at > 0 /\ fed < FileLen(file)
  /\ pc = "move" => fed < FileLen(file) \/ ret = "complete"
  /\ pc = "read" /\ ret = "success" => fed < FileLen(file) \/ EndsWithHeader

IInv == Given /\ Window /\ Header /\ Executed /\ Told /\ ResultIsTrue

-----------------------------------------------------------------------------
\* Induction, over a set and not over a formula.
LEMMA FromZero ==
  ASSUME NEW l \in Nat, NEW Good, 0 \in Good,
         \A i \in 1..l : i - 1 \in Good => i \in Good
  PROVE  0..l \subseteq Good
<1> DEFINE Bad == (0..l) \ Good
           R == OpToRel(<, Nat)
<1> SUFFICES ASSUME Bad # {} PROVE FALSE
  OBVIOUS
<1>1. R = {ss \in Nat \X Nat : ss[1] < ss[2]}
  BY DEF OpToRel
<1>2. IsWellFoundedOn(R, Nat)
  BY NatLessThanWellFounded
<1>3. Bad \subseteq Nat
  OBVIOUS
<1> HIDE DEF R, Bad
<1>4. PICK i \in Bad : \A k \in Bad : ~(<<k, i>> \in R)
  BY <1>2, <1>3, WFMin
<1>5. i \in 0..l /\ i # 0 /\ i \notin Good
  BY DEF Bad
<1>6. i - 1 \in Bad
  BY <1>5 DEF Bad
<1>7. i - 1 \in Nat /\ i \in Nat /\ i - 1 < i
  BY <1>5
<1>8. <<i - 1, i>> \in R
  BY <1>1, <1>7
<1> QED
  BY <1>4, <1>6, <1>8

LEMMA ElementOf ==
  ASSUME NEW S, NEW s \in Seq(S), NEW i \in 1..Len(s)
  PROVE  s[i] \in S
OBVIOUS

\* A file of which lengths can be said.
IsFile(f) ==
  /\ f.zip \in Nat /\ f.head \in Nat /\ f.name \in Nat
  /\ f.cmds \in Seq([part : Partitions(f), size : Nat])

LEMMA Lengths ==
  ASSUME NEW f, IsFile(f)
  PROVE  /\ Len(f.cmds) \in Nat /\ HashAt(f) = Len(f.cmds) + 1
         /\ DOMAIN f.cmds = 1..Len(f.cmds)
         /\ Cardinality(Partitions(f)) \in Nat
         /\ HashPart(f) \in Nat /\ HashPart(f) >= HH + f.name
         /\ HashRecord(f) \in Nat
         /\ \A k \in 1..Cardinality(Partitions(f)) :
              HashStart(f, k) \in Nat /\ HashStart(f, k) + HashPart(f) < HashRecord(f)
         /\ HashRecord(f) >= HH
         /\ \A n \in 1..Len(f.cmds) : RecLen(f, n) \in Nat /\ RecLen(f, n) >= HH + f.name
         /\ RecLen(f, 0) = f.head /\ RecLen(f, HashAt(f)) = HashRecord(f)
<1>1. Len(f.cmds) \in Nat /\ HashAt(f) = Len(f.cmds) + 1 /\ DOMAIN f.cmds = 1..Len(f.cmds)
  BY DEF IsFile, HashAt
<1>2. Cardinality(Partitions(f)) \in Nat
  <2>1. IsFiniteSet(1..Len(f.cmds))
    BY <1>1, FS_Interval
  <2>2. Partitions(f) = {f.cmds[i].part : i \in 1..Len(f.cmds)}
    BY <1>1 DEF Partitions
  <2>3. IsFiniteSet(Partitions(f))
    <3> DEFINE q == [i \in 1..Len(f.cmds) |-> f.cmds[i].part]
    <3>1. q \in Surjection(1..Len(f.cmds), Partitions(f))
      BY <2>2 DEF Surjection
    <3> HIDE DEF q
    <3> QED
      BY <2>1, <3>1, FS_Surjection
  <2> QED
    BY <2>3, FS_CardinalityType
<1> DEFINE c == Cardinality(Partitions(f))
           h == HashPart(f)
<1>3. h \in Nat /\ h >= HH + f.name
  BY DEF IsFile, HashPart, HH, HashLen, SizeLen
<1>4. \A k \in 1..(c + 1) : HashStart(f, k) = (HH + 2) + (k - 1) * h
  BY DEF HashStart
<1>5. HashRecord(f) = (HH + 2) + ((c + 1) - 1) * h + HI + SignLen
  BY DEF HashRecord, HashStart
<1> HIDE DEF c, h
<1>6. HashRecord(f) \in Nat /\ HashRecord(f) >= HH
  <2>1. c * h \in Nat /\ (c + 1) - 1 = c
    BY <1>2, <1>3 DEF c
  <2> QED
    BY <1>5, <2>1 DEF HH, HI, SignLen
<1>7. ASSUME NEW k \in 1..c PROVE HashStart(f, k) \in Nat /\ HashStart(f, k) + h < HashRecord(f)
  <2>1. c \in Nat /\ k \in 1..(c + 1)
    BY <1>2 DEF c
  <2>2. (k - 1) * h \in Nat /\ (k - 1) * h + h = k * h /\ k * h <= c * h /\ (c + 1) - 1 = c
    <3>1. PICK d \in Nat : c = k + d
      BY <2>1
    <3>2. c * h = k * h + d * h /\ d * h \in Nat /\ k * h \in Nat
      BY <1>3, <3>1
    <3>3. (k - 1) * h \in Nat /\ (k - 1) * h + h = k * h
      BY <1>3
    <3> QED
      BY <2>1, <3>2, <3>3
  <2>3. HashStart(f, k) = (HH + 2) + (k - 1) * h
    BY <1>4, <2>1
  <2>4. c * h \in Nat
    BY <1>3, <2>1
  <2> QED
    BY <1>3, <1>5, <2>2, <2>3, <2>4 DEF HH, HI, SignLen
<1>8. ASSUME NEW n \in 1..Len(f.cmds) PROVE RecLen(f, n) \in Nat /\ RecLen(f, n) >= HH + f.name
  <2>1. f.cmds[n].size \in Nat /\ f.name \in Nat
    <3> DEFINE Rec == [part : Partitions(f), size : Nat]
    <3>1. f.cmds[n] \in Rec
      <4>1. f.cmds \in Seq(Rec)
        BY DEF IsFile
      <4> HIDE DEF Rec
      <4> QED
        BY <4>1, <1>8, ElementOf
    <3>2. \A r \in [part : Partitions(f), size : Nat] : r.size \in Nat
      OBVIOUS
    <3> QED
      BY <3>1, <3>2 DEF IsFile
  <2>2. RecLen(f, n) = DataLen(f, n)
    BY <1>1 DEF RecLen
  <2>3. DataLen(f, n) = (HH + f.name) + (HH + CmdLen) + (HI + f.cmds[n].size)
    BY DEF DataLen
  <2>4. PICK size \in Nat, name \in Nat : size = f.cmds[n].size /\ name = f.name
    BY <2>1
  <2>5. RecLen(f, n) = (4 + name) + (4 + 1) + (6 + size)
    BY <2>2, <2>3, <2>4 DEF HH, HI, CmdLen
  <2>6. \A r : r = (4 + name) + (4 + 1) + (6 + size) => r \in Nat /\ r >= 4 + name
    OBVIOUS
  <2>7. HH + f.name = 4 + name
    BY <2>4 DEF HH
  <2> QED
    BY <2>5, <2>6, <2>7
<1>9. RecLen(f, 0) = f.head /\ RecLen(f, HashAt(f)) = HashRecord(f)
  BY <1>1 DEF RecLen
<1> QED
  BY <1>1, <1>2, <1>3, <1>6, <1>7, <1>8, <1>9 DEF c, h

\* Where the records start.
LEMMA Places ==
  ASSUME NEW f, IsFile(f)
  PROVE  /\ Pos(f, 0) = f.zip
         /\ \A n \in 0..HashAt(f) : Pos(f, n + 1) = Pos(f, n) + RecLen(f, n)
         /\ \A n \in 0..(HashAt(f) + 1) : Pos(f, n) \in Nat
         /\ \A n \in 0..HashAt(f) : Pos(f, n) < FileLen(f) /\ Pos(f, n + 1) <= FileLen(f)
<1> DEFINE l == HashAt(f) + 1
           Loop(g, m) == g = [k \in 0..m |-> IF k = 0 THEN f.zip ELSE g[k - 1] + RecLen(f, k - 1)]
           Good == {m \in 0..l : \E g : Loop(g, m)}
<1>1. l \in Nat /\ 0 \in 0..l /\ l \in 0..l
  BY Lengths
<1>2. 0 \in Good
  <2>1. Loop([k \in 0..0 |-> f.zip], 0)
    <3>1. \A k \in 0..0 : k = 0
      OBVIOUS
    <3> QED
      BY <3>1
  <2> HIDE DEF Loop
  <2> QED
    BY <1>1, <2>1
<1>3. ASSUME NEW m \in 1..l, m - 1 \in Good PROVE m \in Good
  <2>1. PICK g : Loop(g, m - 1)
    BY <1>3
  <2> DEFINE h == [k \in 0..m |-> IF k = m THEN g[m - 1] + RecLen(f, m - 1) ELSE g[k]]
  <2>2. ASSUME NEW k \in 0..m PROVE h[k] = IF k = 0 THEN f.zip ELSE h[k - 1] + RecLen(f, k - 1)
    <3>1. CASE k = m
      <4>1. h[k - 1] = g[m - 1] /\ h[k] = g[m - 1] + RecLen(f, m - 1)
        BY <1>3, <3>1
      <4> HIDE DEF h
      <4> QED
        BY <1>3, <3>1, <4>1
    <3>2. CASE k # m
      <4>1. k \in 0..(m - 1) /\ h[k] = g[k]
        BY <3>2
      <4>2. g[k] = IF k = 0 THEN f.zip ELSE g[k - 1] + RecLen(f, k - 1)
        BY <2>1, <4>1
      <4>3. k # 0 => h[k - 1] = g[k - 1]
        BY <4>1
      <4> HIDE DEF h
      <4> QED
        BY <4>1, <4>2, <4>3
    <3> QED
      BY <3>1, <3>2
  <2>3. Loop(h, m)
    <3>1. h = [k \in 0..m |-> h[k]]
      OBVIOUS
    <3> HIDE DEF h
    <3> QED
      BY <2>2, <3>1
  <2> HIDE DEF Loop, h
  <2> QED
    BY <2>3
<1>4. PICK some : Loop(some, l)
  <2>1. l \in Good
    <3> HIDE DEF Good, l
    <3> QED
      BY <1>1, <1>2, <1>3, FromZero
  <2> QED
    BY <2>1
<1> DEFINE pos == CHOOSE g : Loop(g, l)
<1>5. Loop(pos, l)
  <2> HIDE DEF Loop, l
  <2> QED
    BY <1>4
<1>6. \A n : Pos(f, n) = pos[n]
  BY DEF Pos
<1>7. \A k \in 0..l : pos[k] = IF k = 0 THEN f.zip ELSE pos[k - 1] + RecLen(f, k - 1)
  BY <1>5
<1> HIDE DEF pos
<1>8. \A n \in 0..HashAt(f) : RecLen(f, n) \in Nat
  <2> SUFFICES ASSUME NEW n \in 0..HashAt(f) PROVE RecLen(f, n) \in Nat
    OBVIOUS
  <2>1. n = 0 \/ n \in 1..Len(f.cmds) \/ n = HashAt(f)
    BY Lengths
  <2> QED
    BY <2>1, Lengths DEF IsFile
<1>9. \A n \in 0..HashAt(f) : Pos(f, n + 1) = Pos(f, n) + RecLen(f, n)
  <2> SUFFICES ASSUME NEW n \in 0..HashAt(f) PROVE pos[n + 1] = pos[n] + RecLen(f, n)
    BY <1>6
  <2>1. n + 1 \in 0..l /\ n + 1 # 0 /\ (n + 1) - 1 = n
    BY Lengths
  <2> HIDE DEF l
  <2> QED
    BY <1>7, <2>1
<1>10. Pos(f, 0) = f.zip
  BY <1>1, <1>6, <1>7
<1> DEFINE Number == {n \in 0..l : Pos(f, n) \in Nat /\ \A m \in 0..n : Pos(f, m) \in Nat /\ Pos(f, m) <= Pos(f, n)}
<1>11. 0..l \subseteq Number
  <2>1. 0 \in Number
    <3>1. \A m \in 0..0 : m = 0
      OBVIOUS
    <3> QED
      BY <1>1, <1>10, <3>1 DEF IsFile
  <2>2. ASSUME NEW n \in 1..l, n - 1 \in Number PROVE n \in Number
    <3>1. n - 1 \in 0..HashAt(f) /\ (n - 1) + 1 = n
      BY <1>1, Lengths
    <3>2. Pos(f, n) = Pos(f, n - 1) + RecLen(f, n - 1) /\ RecLen(f, n - 1) \in Nat
      BY <1>8, <1>9, <3>1
    <3>3. Pos(f, n - 1) \in Nat /\ \A m \in 0..(n - 1) : Pos(f, m) \in Nat /\ Pos(f, m) <= Pos(f, n - 1)
      BY <2>2
    <3>4. Pos(f, n) \in Nat /\ Pos(f, n - 1) <= Pos(f, n)
      BY <3>2, <3>3
    <3>5. ASSUME NEW m \in 0..n PROVE Pos(f, m) \in Nat /\ Pos(f, m) <= Pos(f, n)
      <4>1. CASE m = n
        BY <3>4, <4>1
      <4>2. CASE m # n
        <5>1. m \in 0..(n - 1)
          BY <4>2
        <5>2. Pos(f, m) \in Nat /\ Pos(f, m) <= Pos(f, n - 1)
          BY <3>3, <5>1
        <5> QED
          BY <3>2, <3>3, <5>2
      <4> QED
        BY <4>1, <4>2
    <3> QED
      BY <3>4, <3>5
  <2> HIDE DEF Number, l
  <2> QED
    BY <1>1, <2>1, <2>2, FromZero
<1>12. \A n \in 0..l : Pos(f, n) \in Nat /\ \A m \in 0..n : Pos(f, m) <= Pos(f, n)
  BY <1>11
<1>13. ASSUME NEW n \in 0..HashAt(f) PROVE Pos(f, n) < FileLen(f) /\ Pos(f, n + 1) <= FileLen(f)
  <2> DEFINE e == HashAt(f)
  <2>1. /\ e \in Nat /\ e \in 0..l /\ e + 1 \in 0..l /\ e \in 0..e /\ n \in 0..e /\ n + 1 \in 0..(e + 1)
        /\ FileLen(f) = Pos(f, e + 1)
    BY Lengths DEF FileLen
  <2>2. Pos(f, n) <= Pos(f, e) /\ Pos(f, n + 1) <= Pos(f, e + 1) /\ Pos(f, e) \in Nat /\ Pos(f, n) \in Nat
    <3>1. n \in 0..l
      BY <2>1
    <3> HIDE DEF e, l
    <3> QED
      BY <1>12, <2>1, <3>1
  <2>3. Pos(f, e + 1) = Pos(f, e) + HashRecord(f) /\ HashRecord(f) \in Nat /\ HashRecord(f) >= HH
    BY <1>9, <2>1, Lengths
  <2> HIDE DEF e
  <2> QED
    BY <2>1, <2>2, <2>3 DEF HH
<1> QED
  BY <1>9, <1>10, <1>12, <1>13

-----------------------------------------------------------------------------
\* What every state knows of its file.
LEMMA FileFacts ==
  ASSUME Given
  PROVE  /\ Len(file.cmds) \in Nat /\ HashAt(file) = Len(file.cmds) + 1
         /\ AtEnd = Len(file.cmds) + 2
         /\ DOMAIN file.cmds = 1..Len(file.cmds)
         /\ FileLen(file) = Pos(file, AtEnd) /\ FileLen(file) \in Nat
         /\ Pos(file, 0) = file.zip
         /\ \A n \in 0..AtEnd : Pos(file, n) \in Nat
         /\ \A n \in 0..HashAt(file) :
              /\ RecLen(file, n) \in Nat
              /\ Pos(file, n + 1) = Pos(file, n) + RecLen(file, n)
              /\ Pos(file, n) < FileLen(file) /\ Pos(file, n + 1) <= FileLen(file)
         /\ \A n \in 1..Len(file.cmds) :
              RecLen(file, n) >= HH + file.name /\ file.cmds[n].part \in Partitions(file)
         /\ RecLen(file, HashAt(file)) = HashRecord(file)
<1>1. IsFile(file)
  BY DEF Given, IsFile
<1>2. AtEnd = Len(file.cmds) + 2 /\ FileLen(file) = Pos(file, AtEnd) /\ AtEnd \in Nat
  BY <1>1, Lengths DEF AtEnd, FileLen
<1>3. HashAt(file) \in Nat /\ HashAt(file) + 1 = AtEnd /\ AtEnd \in 0..AtEnd
  BY <1>1, <1>2, Lengths DEF AtEnd
<1>4. \A n \in 0..AtEnd : Pos(file, n) \in Nat
  BY <1>1, <1>3, Places
<1>5. ASSUME NEW n \in 0..HashAt(file) PROVE RecLen(file, n) \in Nat
  <2>1. n = 0 \/ n \in 1..Len(file.cmds) \/ n = HashAt(file)
    BY <1>1, Lengths
  <2> QED
    BY <1>1, <2>1, Lengths DEF IsFile
<1>6. \A n \in DOMAIN file.cmds : file.cmds[n].part \in Partitions(file)
  BY DEF Partitions
<1> QED
  BY <1>1, <1>2, <1>3, <1>4, <1>5, <1>6, Lengths, Places

\* A step that leaves the file alone leaves alone what is known of it.
LEMMA SameFile ==
  ASSUME Given, UNCHANGED input
  PROVE  /\ Given' /\ AtEnd' = AtEnd /\ (EndsWithHeader' <=> EndsWithHeader)
         /\ file' = file /\ end' = end /\ chunk' = chunk /\ seeks' = seeks
<1>1. file' = file /\ end' = end /\ chunk' = chunk /\ seeks' = seeks
  BY DEF input
<1>2. Given'
  BY <1>1 DEF Given
<1>3. AtEnd' = AtEnd
  BY <1>1 DEF AtEnd
<1>4. EndsWithHeader' <=> EndsWithHeader
  BY <1>1 DEF EndsWithHeader
<1> QED
  BY <1>1, <1>2, <1>3, <1>4

LEMMA InitKeeps == ASSUME Init PROVE IInv
<1>1. PICK f \in Files, z \in Zips :
        file = [zip |-> z, head |-> f.head, cmds |-> f.cmds, name |-> f.name,
                signed |-> f.signed, intact |-> f.intact]
  BY DEF Init
<1>2. /\ file.zip = z /\ file.head = f.head /\ file.cmds = f.cmds /\ file.name = f.name
      /\ Partitions(file) = Partitions(f)
  BY <1>1 DEF Partitions
<1>3. /\ z \in Nat /\ f.head \in Nat /\ f.name \in Nat
      /\ f.cmds \in Seq([part : Partitions(f), size : Nat])
  BY StreamUpdateAssumption
<1>4. MaxBuf \in Nat /\ chunk \in Nat /\ 0 < chunk /\ chunk <= MaxBuf
  BY StreamUpdateAssumption DEF Init
<1>5. IsFile(file)
  <2> DEFINE Rec == [part : Partitions(f), size : Nat]
  <2>1. f.cmds \in Seq(Rec)
    BY <1>3
  <2>2. file.cmds \in Seq([part : Partitions(file), size : Nat])
    BY <1>2, <2>1
  <2> QED
    BY <1>2, <1>3, <2>2 DEF IsFile
<1>6. FileLen(file) \in Nat
  BY <1>5, Lengths, Places DEF FileLen
<1>7. Given
  <2>1. end \in Nat /\ file.zip < end /\ end <= FileLen(file)
    BY <1>2, <1>3, <1>6 DEF Init
  <2> QED
    BY <1>4, <1>5, <2>1 DEF Given, IsFile
<1>8. Window
  BY <1>4, <1>7, FileFacts DEF Window, Init, Given
<1>9. Header
  BY DEF Header, Init
<1>10. Executed
  BY <1>7, FileFacts DEF Executed, Init
<1>11. Told
  BY <1>7, FileFacts DEF Told, Init
<1>12. ResultIsTrue
  BY DEF ResultIsTrue, RefusedForAReason, SuccessIsVerified, Init
<1> QED
  BY <1>7, <1>8, <1>9, <1>10, <1>11, <1>12 DEF IInv

-----------------------------------------------------------------------------
\* The process: loading, seeking and reading.
LEMMA LoadKeeps == ASSUME IInv, Load PROVE IInv'
<1>1. /\ Given' /\ AtEnd' = AtEnd /\ (EndsWithHeader' <=> EndsWithHeader)
      /\ file' = file /\ end' = end /\ seeks' = seeks /\ chunk' = chunk
  BY SameFile DEF Load, IInv
<1>2. /\ UNCHANGED <<window, parser, ret>> /\ pc = "load"
      /\ \/ pc' = "seek" /\ result' = result /\ trouble' = trouble
         \/ pc' = "ended" /\ result' = "UPDATE_ERROR"
  BY DEF Load, Finish
<1>3. UNCHANGED <<taken, fed, base, skip, at, need, step, done, ret>>
  BY <1>2 DEF window, parser
<1>4. Window'
  BY <1>1, <1>2, <1>3 DEF IInv, Window, Header
<1>5. Header'
  BY <1>1, <1>2, <1>3 DEF IInv, Header
<1>6. Executed'
  BY <1>1, <1>3 DEF IInv, Executed
<1>7. HashesMatch' <=> HashesMatch
  BY <1>1, <1>3 DEF HashesMatch, VerifyPartitionHash
<1>8. Told'
  BY <1>1, <1>2, <1>3, <1>7 DEF IInv, Told, Header
<1>9. ResultIsTrue'
  BY <1>1, <1>2, <1>3 DEF IInv, Told, Header, ResultIsTrue, RefusedForAReason, SuccessIsVerified
<1> QED
  BY <1>1, <1>4, <1>5, <1>6, <1>8, <1>9 DEF IInv

LEMMA SeekKeeps == ASSUME IInv, Seek PROVE IInv'
<1>1. /\ Given' /\ AtEnd' = AtEnd /\ (EndsWithHeader' <=> EndsWithHeader)
      /\ file' = file /\ end' = end /\ seeks' = seeks /\ chunk' = chunk
  BY SameFile DEF Seek, IInv
<1>2. /\ UNCHANGED <<parser, ret, trouble>> /\ pc = "seek"
      /\ \/ pc' = "ended" /\ result' = "UPDATE_ERROR" /\ UNCHANGED window
         \/ /\ pc' = "read" /\ taken' = file.zip /\ fed' = file.zip /\ base' = file.zip
            /\ skip' = skip /\ result' = result
  BY DEF Seek, Finish
<1>3. UNCHANGED <<at, need, step, done, ret, trouble>>
  BY <1>2 DEF parser
<1>4. \/ pc' = "ended" /\ result' = "UPDATE_ERROR" /\ UNCHANGED <<taken, fed, base, skip>>
      \/ /\ pc' = "read" /\ taken' = file.zip /\ fed' = file.zip /\ base' = file.zip
         /\ skip' = skip /\ result' = result
  BY <1>2 DEF window
<1>5. /\ seeks /\ ret = "none" /\ taken = 0 /\ skip = 0 /\ at = 0 /\ fed = 0 /\ result # "UPDATE_SUCCESS"
      /\ MaxBuf \in Nat
  BY <1>2, StreamUpdateAssumption DEF IInv, Header, Window, Told
<1>6. file.zip \in Nat /\ end \in Nat /\ file.zip < end /\ end <= FileLen(file) /\ FileLen(file) \in Nat
  BY FileFacts DEF IInv, Given
<1>7. Window'
  BY <1>1, <1>2, <1>3, <1>4, <1>5, <1>6 DEF IInv, Window
<1>8. Header'
  BY <1>1, <1>2, <1>3, <1>4, <1>5 DEF IInv, Header
<1>9. Executed'
  <2>1. Len(done) = 0 /\ at' = 0 /\ done' = done
    BY <1>3, <1>5 DEF IInv, Executed
  <2> QED
    BY <1>1, <2>1 DEF IInv, Executed
<1>10. Told'
  BY <1>1, <1>2, <1>3, <1>4, <1>5, <1>6 DEF IInv, Told
<1>11. ResultIsTrue'
  BY <1>1, <1>3, <1>4, <1>5 DEF ResultIsTrue, RefusedForAReason, SuccessIsVerified
<1> QED
  BY <1>1, <1>7, <1>8, <1>9, <1>10, <1>11 DEF IInv

LEMMA ReadKeeps == ASSUME IInv, Read PROVE IInv'
<1>1. /\ Given' /\ AtEnd' = AtEnd /\ (EndsWithHeader' <=> EndsWithHeader)
      /\ file' = file /\ end' = end /\ seeks' = seeks /\ chunk' = chunk
  BY SameFile DEF Read, IInv
<1>2. /\ pc = "read" /\ ret \in {"none", "success"} /\ taken < end
      /\ taken' = Smaller(taken + chunk, end)
      /\ skip' = (IF ret = "none" /\ ~seeks THEN file.zip ELSE skip)
      /\ pc' = (IF skip' > 0 THEN "skip" ELSE "add")
      /\ UNCHANGED <<fed, base, ret, result, trouble>>
  BY DEF Read
<1>3. UNCHANGED <<at, need, step, done>>
  BY DEF Read, parser
<1>4. /\ file.zip \in Nat /\ end \in Nat /\ file.zip < end /\ end <= FileLen(file) /\ FileLen(file) \in Nat
      /\ chunk \in Nat /\ 0 < chunk /\ taken \in Nat /\ fed \in Nat /\ skip \in Nat /\ base \in Nat
  BY FileFacts DEF IInv, Given, Window
<1>5. /\ taken' \in Nat /\ taken < taken' /\ taken' <= end /\ taken' <= taken + chunk
      /\ (taken' = taken + chunk \/ taken' = end)
  BY <1>2, <1>4 DEF Smaller
<1>6. fed = taken /\ at # AtEnd
  BY <1>2 DEF IInv, Header, Told
<1>7. skip' \in Nat /\ (ret = "none" /\ ~seeks => fed = 0 /\ base = 0 /\ at = 0 /\ skip = 0)
  BY <1>2, <1>4 DEF IInv, Header
<1>8. Window'
  <2>1. at = 0 /\ skip' = 0 => base = file.zip
    BY <1>2, <1>7 DEF IInv, Window
  <2>2. pc' = "skip" \/ (pc' = "add" /\ skip' = 0)
    BY <1>2, <1>7
  <2> QED
    BY <1>1, <1>2, <1>3, <1>4, <1>5, <1>6, <1>7, <2>1, <2>2 DEF IInv, Window
<1>9. Header'
  <2>1. (pc' = "skip" /\ skip' > 0) \/ (pc' = "add" /\ skip' = 0)
    BY <1>2, <1>7
  <2>2. skip' > 0 => /\ ~seeks /\ at = 0 /\ base = fed /\ fed + skip' = file.zip
                     /\ \E k \in Nat : fed = k * chunk
    <3>1. CASE ret = "none" /\ ~seeks
      <4>1. 0 * chunk = 0 /\ fed = 0 /\ base = 0 /\ skip' = file.zip
        BY <1>2, <1>4, <1>7, <3>1
      <4> QED
        BY <1>4, <1>7, <3>1, <4>1
    <3>2. CASE ~(ret = "none" /\ ~seeks)
      BY <1>2, <3>2 DEF IInv, Header
    <3> QED
      BY <3>1, <3>2
  <2> QED
    BY <1>1, <1>2, <1>3, <1>4, <1>5, <1>6, <2>1, <2>2 DEF Header
<1>10. Executed'
  BY <1>1, <1>2, <1>3 DEF IInv, Executed
<1>11. Told'
  <2>1. pc' \in {"skip", "add"} /\ result # "UPDATE_SUCCESS"
    BY <1>2 DEF IInv, Told
  <2> QED
    BY <1>1, <1>2, <1>3, <1>6, <2>1 DEF IInv, Told
<1>12. ResultIsTrue'
  BY <1>1, <1>2 DEF IInv, Told, ResultIsTrue, RefusedForAReason, SuccessIsVerified
<1> QED
  BY <1>1, <1>8, <1>9, <1>10, <1>11, <1>12 DEF IInv

LEMMA ReadNoMoreKeeps == ASSUME IInv, ReadNoMore PROVE IInv'
<1>1. /\ Given' /\ AtEnd' = AtEnd /\ (EndsWithHeader' <=> EndsWithHeader)
      /\ file' = file /\ end' = end /\ seeks' = seeks /\ chunk' = chunk
  BY SameFile DEF ReadNoMore, IInv
<1>2. /\ pc = "read" /\ pc' = "ended" /\ UNCHANGED <<ret, trouble>>
      /\ \/ ret \in {"none", "success"} /\ taken >= end
         \/ ret = "complete"
         \/ result' = "UPDATE_ERROR"
  BY DEF ReadNoMore, Finish
<1>3. UNCHANGED <<taken, fed, base, skip, at, need, step, done>>
  BY DEF ReadNoMore, parser, window
<1>4. HashesMatch' <=> HashesMatch
  BY <1>1, <1>3 DEF HashesMatch, VerifyPartitionHash
<1>5. Window'
  BY <1>1, <1>2, <1>3 DEF IInv, Window
<1>6. Header'
  BY <1>1, <1>2, <1>3 DEF IInv, Header
<1>7. Executed'
  BY <1>1, <1>3 DEF IInv, Executed
<1>8. Told'
  BY <1>1, <1>2, <1>3, <1>4 DEF IInv, Told
<1>9. ResultIsTrue'
  <2>1. result' = "UPDATE_SUCCESS" => ret = "complete" \/ end < FileLen(file) \/ EndsWithHeader
    <3> SUFFICES ASSUME ret \in {"none", "success"}, taken >= end, ~(end < FileLen(file))
                 PROVE  EndsWithHeader
      BY <1>2
    <3>1. /\ file.zip \in Nat /\ end \in Nat /\ file.zip < end /\ FileLen(file) \in Nat
          /\ taken \in Nat /\ taken <= end /\ end <= FileLen(file)
      BY FileFacts DEF IInv, Given, Window
    <3>2. fed = taken /\ (ret = "none" => fed = file.zip \/ fed = 0)
      BY <1>2 DEF IInv, Header
    <3>3. ret = "success" /\ ~(fed < FileLen(file))
      BY <3>1, <3>2
    <3> QED
      BY <1>2, <3>3 DEF IInv, Told
  <2>2. Len(done') = Len(done)
    BY <1>3
  <2> QED
    BY <1>1, <1>2, <1>4, <2>1, <2>2 DEF IInv, ResultIsTrue, RefusedForAReason, SuccessIsVerified
<1> QED
  BY <1>1, <1>5, <1>6, <1>7, <1>8, <1>9 DEF IInv

-----------------------------------------------------------------------------
\* The buffer: what is read goes into it, and what is used goes out of it.
LEMMA SkipKeeps == ASSUME IInv, SkipTargetData PROVE IInv'
<1>1. /\ Given' /\ AtEnd' = AtEnd /\ (EndsWithHeader' <=> EndsWithHeader)
      /\ file' = file /\ end' = end /\ seeks' = seeks /\ chunk' = chunk
  BY SameFile DEF SkipTargetData, IInv
<1>2. /\ pc = "skip" /\ fed' = taken /\ pc' = "read" /\ ret' = "success"
      /\ UNCHANGED <<taken, result, trouble>>
      /\ \/ skip < taken - fed /\ base' = fed + skip /\ skip' = 0
         \/ ~(skip < taken - fed) /\ base' = taken /\ skip' = skip - (taken - fed)
  BY DEF SkipTargetData, Return
<1>3. UNCHANGED <<at, need, step, done>>
  BY DEF SkipTargetData, parser
<1>4. /\ file.zip \in Nat /\ end \in Nat /\ file.zip < end /\ end <= FileLen(file) /\ FileLen(file) \in Nat
      /\ chunk \in Nat /\ 0 < chunk /\ taken \in Nat /\ fed \in Nat /\ skip \in Nat /\ base \in Nat
      /\ fed <= taken /\ taken <= end /\ chunk <= MaxBuf /\ MaxBuf \in Nat
  BY FileFacts, StreamUpdateAssumption DEF IInv, Given, Window
<1>5. /\ skip > 0 /\ taken <= fed + chunk /\ (taken = fed + chunk \/ taken = end)
      /\ ~seeks /\ at = 0 /\ base = fed /\ fed + skip = file.zip
      /\ \E k \in Nat : fed = k * chunk
  BY <1>2 DEF IInv, Header
<1>6. PICK k \in Nat : fed = k * chunk
  BY <1>5
<1>7. /\ fed <= base' /\ base' <= taken /\ base' \in Nat /\ skip' \in Nat /\ taken <= base' + MaxBuf
      /\ (skip' = 0 => base' = file.zip)
      /\ (skip' > 0 => base' = taken /\ taken + skip' = file.zip /\ taken = fed + chunk)
  BY <1>2, <1>4, <1>5
<1>8. Window'
  <2>1. at \in 0..AtEnd
    BY DEF IInv, Window
  <2>2. at' = 0 /\ at' \in 0..AtEnd'
    BY <1>1, <1>3, <1>5, <2>1
  <2>3. pc' = "read" /\ fed' = taken /\ taken' = taken
    BY <1>2
  <2>4. /\ base' \in Nat /\ fed' \in Nat /\ taken' \in Nat /\ skip' \in Nat
        /\ base' <= fed' /\ fed' <= taken' /\ taken' <= end' /\ fed' <= base' + MaxBuf
    <3>1. /\ base' \in Nat /\ skip' \in Nat /\ base' <= taken /\ taken <= base' + MaxBuf
          /\ end' = end /\ taken \in Nat /\ taken <= end
      BY <1>1, <1>4, <1>7
    <3> QED
      BY <2>3, <3>1
  <2>5. ~(at' > 0) /\ (skip' = 0 => base' = file'.zip)
    BY <1>1, <1>7, <2>2
  <2> QED
    BY <2>2, <2>3, <2>4, <2>5 DEF Window
<1>9. Header'
  <2>1. k + 1 \in Nat /\ (k + 1) * chunk = k * chunk + chunk
    BY <1>4
  <2>2. skip' > 0 => taken = (k + 1) * chunk
    BY <1>6, <1>7, <2>1
  <2>3. skip' > 0 => \E j \in Nat : taken = j * chunk
    BY <2>1, <2>2
  <2> QED
    BY <1>1, <1>2, <1>3, <1>5, <1>7, <2>3 DEF Header
<1>10. Executed'
  <2>1. Len(done) = 0 /\ at' = 0 /\ done' = done
    BY <1>3, <1>5 DEF IInv, Executed
  <2> QED
    BY <1>1, <2>1 DEF IInv, Executed
<1>11. ASSUME ~(taken < FileLen(file)) PROVE EndsWithHeader
  <2>1. k * chunk < file.zip /\ end <= k * chunk + chunk
    BY <1>4, <1>5, <1>6, <1>11
  <2>2. k <= k * chunk
    <3>1. PICK c \in Nat : chunk = c + 1
      BY <1>4
    <3>2. k * chunk = k * c + k /\ k * c \in Nat
      BY <3>1
    <3> QED
      BY <3>2
  <2>3. (k + 1) * chunk = k * chunk + chunk /\ k * chunk \in Nat
    BY <1>4
  <2>4. k \in 0..file.zip
    BY <1>4, <2>1, <2>2, <2>3
  <2> QED
    BY <1>5, <2>1, <2>3, <2>4 DEF EndsWithHeader
<1>12. Told'
  <2>1. AtEnd # 0
    BY FileFacts DEF IInv
  <2>2. ~need
    BY <1>5 DEF IInv, Told
  <2> QED
    BY <1>1, <1>2, <1>3, <1>5, <1>11, <2>1, <2>2 DEF IInv, Told
<1>13. ResultIsTrue'
  <2>1. result # "UPDATE_SUCCESS"
    BY <1>2 DEF IInv, Told
  <2> QED
    BY <1>2, <2>1 DEF ResultIsTrue, RefusedForAReason, SuccessIsVerified
<1> QED
  BY <1>1, <1>8, <1>9, <1>10, <1>12, <1>13 DEF IInv

LEMMA AddKeeps == ASSUME IInv, AddRemainData PROVE IInv'
<1>1. /\ Given' /\ AtEnd' = AtEnd /\ (EndsWithHeader' <=> EndsWithHeader)
      /\ file' = file /\ end' = end /\ seeks' = seeks /\ chunk' = chunk
  BY SameFile DEF AddRemainData, IInv
<1>2. /\ pc = "add" /\ pc' = "buffer" /\ ret' = "success" /\ need' = FALSE
      /\ fed' = Smaller(taken, base + MaxBuf)
      /\ UNCHANGED <<taken, base, skip, at, step, done, result, trouble>>
  BY DEF AddRemainData
<1>3. /\ base \in Nat /\ fed \in Nat /\ taken \in Nat /\ skip = 0 /\ base <= fed /\ fed <= taken
      /\ fed <= base + MaxBuf /\ MaxBuf \in Nat /\ result # "UPDATE_SUCCESS" /\ at # AtEnd
  BY <1>2, StreamUpdateAssumption DEF IInv, Window, Header, Told
<1>4. fed' \in Nat /\ fed <= fed' /\ fed' <= taken /\ fed' <= base + MaxBuf
  BY <1>2, <1>3 DEF Smaller
<1>5. Window'
  <2>1. at \in 0..AtEnd /\ (at > 0 => Pos(file, at) \in Nat)
    BY FileFacts DEF IInv, Window
  <2> QED
    BY <1>1, <1>2, <1>3, <1>4, <2>1 DEF IInv, Window
<1>6. Header'
  BY <1>1, <1>2, <1>3 DEF Header
<1>7. Executed'
  <2>1. \A i \in 1..Len(done) : Pos(file, i + 1) <= fed /\ Pos(file, i + 1) \in Nat
    <3> SUFFICES ASSUME NEW i \in 1..Len(done) PROVE Pos(file, i + 1) <= fed /\ Pos(file, i + 1) \in Nat
      OBVIOUS
    <3>1. Len(done) <= Len(file.cmds)
      BY FileFacts DEF IInv, Executed, Window
    <3>2. i + 1 \in 0..AtEnd
      BY <3>1, FileFacts DEF IInv, Executed
    <3> QED
      BY <3>2, FileFacts DEF IInv, Executed
  <2>2. \A i \in 1..Len(done) : Pos(file, i + 1) <= fed'
    BY <1>3, <1>4, <2>1
  <2> QED
    BY <1>1, <1>2, <2>2 DEF IInv, Executed
<1>8. Told'
  BY <1>1, <1>2, <1>3 DEF Told
<1>9. ResultIsTrue'
  BY <1>2, <1>3 DEF ResultIsTrue, RefusedForAReason, SuccessIsVerified
<1> QED
  BY <1>1, <1>5, <1>6, <1>7, <1>8, <1>9 DEF IInv

LEMMA UsedKeeps == ASSUME IInv, Used PROVE IInv'
<1>1. /\ Given' /\ AtEnd' = AtEnd /\ (EndsWithHeader' <=> EndsWithHeader)
      /\ file' = file /\ end' = end /\ seeks' = seeks /\ chunk' = chunk
  BY SameFile DEF Used, IInv
<1>2. pc = "buffer" /\ pc' = "move" /\ UNCHANGED <<ret, result, trouble>>
  BY DEF Used
<1>3. UNCHANGED <<taken, fed, base, skip, at, need, step, done>>
  BY DEF Used, parser, window
<1>4. HashesMatch' <=> HashesMatch
  BY <1>1, <1>3 DEF HashesMatch, VerifyPartitionHash
<1>5. Window'
  BY <1>1, <1>2, <1>3 DEF IInv, Window
<1>6. Header'
  BY <1>1, <1>2, <1>3 DEF IInv, Header
<1>7. Executed'
  BY <1>1, <1>3 DEF IInv, Executed
<1>8. fed < FileLen(file) \/ ret = "complete"
  <2>1. CASE need
    BY <2>1 DEF IInv, Told
  <2>2. CASE at = AtEnd
    BY <1>2, <2>2 DEF IInv, Told, Header
  <2>3. CASE ~need /\ at # AtEnd
    <3>1. at \in 0..HashAt(file)
      BY <2>3, FileFacts DEF IInv, Window
    <3>2. Pos(file, at) < FileLen(file) /\ Pos(file, at) \in Nat
      BY <3>1, FileFacts DEF IInv
    <3>3. fed \in Nat /\ Pos(file, at) <= fed
      <4>1. at > 0 \/ at = 0
        BY <3>1, FileFacts DEF IInv
      <4> QED
        BY <1>2, <4>1, FileFacts DEF IInv, Window, Given
    <3>4. fed - Pos(file, at) = 0
      BY <2>3 DEF Used, Avail
    <3> QED
      BY <3>2, <3>3, <3>4
  <2> QED
    BY <2>1, <2>2, <2>3
<1>9. Told'
  <2>1. result # "UPDATE_SUCCESS"
    BY <1>2 DEF IInv, Told
  <2> QED
    BY <1>1, <1>2, <1>3, <1>4, <1>8, <2>1 DEF IInv, Told
<1>10. ResultIsTrue'
  <2>1. Len(done') = Len(done)
    BY <1>3
  <2> QED
    BY <1>1, <1>2, <1>4, <2>1 DEF IInv, ResultIsTrue, RefusedForAReason, SuccessIsVerified
<1> QED
  BY <1>1, <1>5, <1>6, <1>7, <1>9, <1>10 DEF IInv

LEMMA MoveKeeps == ASSUME IInv, MoveRemainingData PROVE IInv'
<1>1. /\ Given' /\ AtEnd' = AtEnd /\ (EndsWithHeader' <=> EndsWithHeader)
      /\ file' = file /\ end' = end /\ seeks' = seeks /\ chunk' = chunk
  BY SameFile DEF MoveRemainingData, IInv
<1>2. /\ pc = "move" /\ UNCHANGED <<taken, fed, skip, ret, result, trouble>>
      /\ base' = (IF Avail > 0 THEN Pos(file, at) ELSE fed)
      /\ pc' = (IF fed < taken THEN "add" ELSE "read")
  BY DEF MoveRemainingData
<1>3. UNCHANGED <<at, need, step, done>>
  BY DEF MoveRemainingData, parser
<1>4. HashesMatch' <=> HashesMatch
  BY <1>1, <1>3 DEF HashesMatch, VerifyPartitionHash
<1>5. /\ base \in Nat /\ fed \in Nat /\ taken \in Nat /\ base <= fed /\ fed <= taken /\ taken <= end
      /\ fed <= base + MaxBuf /\ MaxBuf \in Nat /\ result # "UPDATE_SUCCESS" /\ skip = 0
      /\ at \in 0..AtEnd /\ file.zip \in Nat /\ end \in Nat /\ end <= FileLen(file)
      /\ ret \in {"success", "complete"}
  BY <1>2, StreamUpdateAssumption DEF IInv, Given, Window, Told, Header
<1>6. Pos(file, at) \in Nat /\ base <= Pos(file, at) /\ Pos(file, at) <= fed /\ (at = 0 => Pos(file, at) = file.zip)
  <2>1. at > 0 \/ at = 0
    BY <1>5, FileFacts DEF IInv
  <2> QED
    BY <1>2, <1>5, <2>1, FileFacts DEF IInv, Window
<1>7. base' = Pos(file, at)
  BY <1>2, <1>5, <1>6 DEF Avail
<1>8. pc' = "add" \/ (pc' = "read" /\ fed = taken)
  BY <1>2, <1>5
<1>9. at = AtEnd => pc' = "read"
  <2>1. at = AtEnd => Pos(file, at) = FileLen(file) /\ FileLen(file) \in Nat
    BY FileFacts DEF IInv
  <2> QED
    BY <1>2, <1>5, <1>6, <2>1
<1>10. Window'
  <2>1. base' \in Nat /\ base' <= fed /\ fed <= base' + MaxBuf /\ (at = 0 => base' = file.zip)
    BY <1>5, <1>6, <1>7
  <2> QED
    BY <1>1, <1>2, <1>3, <1>5, <1>6, <1>7, <1>8, <2>1 DEF Window
<1>11. Header'
  BY <1>1, <1>2, <1>3, <1>5, <1>8 DEF IInv, Header
<1>12. Executed'
  BY <1>1, <1>2, <1>3 DEF IInv, Executed
<1>13. Told'
  <2>1. fed < FileLen(file) \/ ret = "complete"
    BY <1>2 DEF IInv, Told
  <2> QED
    BY <1>1, <1>2, <1>3, <1>4, <1>5, <1>8, <1>9, <2>1 DEF IInv, Told
<1>14. ResultIsTrue'
  <2>1. Len(done') = Len(done)
    BY <1>3
  <2> QED
    BY <1>1, <1>2, <1>4, <2>1 DEF IInv, ResultIsTrue, RefusedForAReason, SuccessIsVerified
<1> QED
  BY <1>1, <1>10, <1>11, <1>12, <1>13, <1>14 DEF IInv

-----------------------------------------------------------------------------
\* The records.
LEMMA InTheBuffer ==
  ASSUME IInv, pc \in {"buffer", "data"}
  PROVE  /\ at \in 0..AtEnd /\ fed \in Nat /\ Pos(file, at) \in Nat /\ Pos(file, at) <= fed
         /\ fed <= FileLen(file) /\ skip = 0 /\ result # "UPDATE_SUCCESS"
         /\ ret \in {"success", "complete"}
         /\ (at # AtEnd => ret = "success" /\ at \in 0..HashAt(file))
<1>1. at \in 0..AtEnd /\ fed \in Nat /\ skip = 0 /\ result # "UPDATE_SUCCESS" /\ ret \in {"success", "complete"}
  BY DEF IInv, Window, Header, Told
<1>2. Pos(file, at) \in Nat
  BY <1>1, FileFacts DEF IInv
<1>3. Pos(file, at) <= fed
  <2>1. at > 0 \/ at = 0
    BY <1>1, FileFacts DEF IInv
  <2> QED
    BY <1>1, <2>1, FileFacts DEF IInv, Window, Given
<1>4. fed <= FileLen(file)
  BY FileFacts DEF IInv, Window, Given
<1>5. at # AtEnd => ret = "success" /\ at \in 0..HashAt(file)
  BY <1>1, FileFacts DEF IInv, Told
<1> QED
  BY <1>1, <1>2, <1>3, <1>4, <1>5

\* What a step over the records has to see to: the window is not its business.
LEMMA RecordsKeep ==
  ASSUME IInv, pc \in {"buffer", "data"}, UNCHANGED <<input, window, result>>,
         \/ pc' = "read" /\ ret' = "failure"
         \/ pc' \in {"buffer", "data"} /\ ret' \in {"success", "complete"},
         at' \in 0..AtEnd, at' = 0 => at = 0,
         at' > 0 => base <= Pos(file, at') /\ Pos(file, at') <= fed,
         pc' = "data" => at' \in 1..HashAt(file) /\ (step' = "PRE" => at' <= Len(file.cmds)),
         at' = AtEnd => ret' \in {"complete", "failure"},
         ret' = "complete" => at' = AtEnd /\ file.signed /\ HashesMatch',
         need' => at' > 0 /\ fed < FileLen(file),
         ret' = "failure" => trouble' # {} \/ ~file.signed \/ file.intact # Partitions(file),
         Executed'
  PROVE  IInv'
<1>1. /\ Given' /\ AtEnd' = AtEnd /\ (EndsWithHeader' <=> EndsWithHeader)
      /\ file' = file /\ end' = end /\ seeks' = seeks /\ chunk' = chunk
  BY SameFile DEF IInv
<1>2. UNCHANGED <<taken, fed, base, skip, result>>
  BY DEF window
<1>3. skip = 0 /\ result # "UPDATE_SUCCESS"
  BY InTheBuffer
<1>4. Window'
  <2>1. /\ base' \in Nat /\ fed' \in Nat /\ taken' \in Nat /\ skip' \in Nat
        /\ base' <= fed' /\ fed' <= taken' /\ taken' <= end' /\ fed' <= base' + MaxBuf
    BY <1>1, <1>2 DEF IInv, Window
  <2>2. at' = 0 => base' = file'.zip
    BY <1>1, <1>2 DEF IInv, Window, Header
  <2>3. /\ pc' \in {"load", "seek", "read", "skip", "add", "buffer", "data", "move", "ended"}
        /\ at' \in 0..AtEnd'
        /\ (at' > 0 => base' <= Pos(file', at') /\ Pos(file', at') <= fed')
        /\ (pc' = "data" => at' \in 1..HashAt(file') /\ (step' = "PRE" => at' <= Len(file'.cmds)))
    BY <1>1, <1>2
  <2> QED
    BY <1>1, <2>1, <2>2, <2>3 DEF Window
<1>5. Header'
  BY <1>1, <1>2, <1>3 DEF Header
<1>6. Told'
  <2>1. at' = AtEnd => pc' \in {"buffer", "read"}
    <3>1. HashAt(file) \in Nat /\ HashAt(file) < AtEnd
      BY FileFacts DEF IInv
    <3> QED
      BY <3>1
  <2> QED
    BY <1>1, <1>2, <1>3, <2>1 DEF Told
<1>7. ResultIsTrue'
  <2>1. ret' = "complete" => Len(done') = Len(file'.cmds)
    <3>1. AtEnd = Len(file.cmds) + 2 /\ Len(file.cmds) \in Nat
      BY FileFacts DEF IInv
    <3>2. ret' = "complete" => at' = Len(file'.cmds) + 2 /\ Len(file'.cmds) \in Nat
      BY <1>1, <3>1
    <3> QED
      BY <3>2 DEF Executed
  <2> QED
    BY <1>1, <1>2, <1>3, <2>1 DEF ResultIsTrue, RefusedForAReason, SuccessIsVerified
<1> QED
  BY <1>1, <1>4, <1>5, <1>6, <1>7 DEF IInv

\* What has been executed, if nothing is, whatever becomes of the buffer.
LEMMA ExecutedStays ==
  ASSUME IInv, UNCHANGED <<input, window, done>>,
         at' = at \/ (at = 0 /\ at' = 1) \/ (at = HashAt(file) /\ at' = AtEnd)
  PROVE  Executed' /\ (HashesMatch' <=> HashesMatch)
<1>1. /\ Given' /\ AtEnd' = AtEnd /\ file' = file /\ done' = done /\ fed' = fed
  BY SameFile DEF IInv, window
<1>2. /\ Len(file.cmds) \in Nat /\ HashAt(file) = Len(file.cmds) + 1 /\ AtEnd = Len(file.cmds) + 2
      /\ at \in 0..AtEnd
  BY FileFacts DEF IInv, Window
<1>3. Len(done) = IF at' = 0 THEN 0 ELSE IF at' <= Len(file.cmds) THEN at' - 1 ELSE Len(file.cmds)
  BY <1>2 DEF IInv, Executed
<1>4. Executed'
  BY <1>1, <1>3 DEF IInv, Executed
<1>5. HashesMatch' <=> HashesMatch
  BY <1>1 DEF HashesMatch, VerifyPartitionHash
<1> QED
  BY <1>4, <1>5

LEMMA OtherKeeps == ASSUME IInv, UpdateBinOther PROVE IInv'
<1>1. /\ pc = "buffer" /\ pc' = "read" /\ ret' = "failure" /\ trouble' # {}
      /\ UNCHANGED <<input, window, result>> /\ UNCHANGED <<at, need, done>>
  BY DEF UpdateBinOther, Ready, Fail, Return, parser
<1>2. at \in 0..AtEnd /\ (at > 0 => base <= Pos(file, at) /\ Pos(file, at) <= fed)
  BY DEF IInv, Window
<1>3. need => at > 0 /\ fed < FileLen(file)
  BY DEF IInv, Told
<1>4. Executed'
  BY <1>1, ExecutedStays
<1> QED
  BY <1>1, <1>2, <1>3, <1>4, RecordsKeep

LEMMA HeadKeeps == ASSUME IInv, UpdateBinHead PROVE IInv'
<1>1. /\ pc = "buffer" /\ at = 0 /\ UNCHANGED <<input, window, result>> /\ UNCHANGED <<need, done, step>>
      /\ \/ fed >= Pos(file, 1) /\ base = Pos(file, 0) /\ at' = 1 /\ UNCHANGED <<pc, ret, trouble>>
         \/ pc' = "read" /\ ret' = "failure" /\ trouble' # {} /\ at' = at
  BY DEF UpdateBinHead, Ready, Fail, Return
<1>2. /\ AtEnd \in Nat /\ AtEnd > 1 /\ Pos(file, 1) \in Nat /\ Pos(file, 0) \in Nat
      /\ Pos(file, 0) <= Pos(file, 1) /\ fed \in Nat /\ ret = "success"
  <2>1. AtEnd \in Nat /\ AtEnd > 1 /\ 0 \in 0..HashAt(file) /\ 0 + 1 = 1
    BY FileFacts DEF IInv
  <2>2. Pos(file, 1) = Pos(file, 0) + RecLen(file, 0) /\ RecLen(file, 0) \in Nat
    BY <2>1, FileFacts DEF IInv
  <2>3. Pos(file, 0) \in Nat
    BY <2>1, FileFacts DEF IInv
  <2> QED
    BY <1>1, <2>1, <2>2, <2>3, InTheBuffer
<1>3. ~need
  BY <1>1 DEF IInv, Told
<1>4. Executed'
  BY <1>1, ExecutedStays
<1>5. at' \in 0..AtEnd /\ at' # AtEnd /\ (at' > 0 => base <= Pos(file, at') /\ Pos(file, at') <= fed)
  BY <1>1, <1>2
<1>6. pc' = "data" => FALSE
  BY <1>1
<1> QED
  BY <1>1, <1>2, <1>3, <1>4, <1>5, <1>6, RecordsKeep

LEMMA DataKeeps == ASSUME IInv, UpdateBinData PROVE IInv'
<1>1. /\ pc = "buffer" /\ at \in 1..Len(file.cmds) /\ pc' = "data"
      /\ UNCHANGED <<input, window, result, ret, trouble>> /\ UNCHANGED <<at, need, done, step>>
  BY DEF UpdateBinData, Ready, parser
<1>2. /\ at \in 0..AtEnd /\ at # AtEnd /\ at # 0 /\ at \in 1..HashAt(file) /\ at <= Len(file.cmds)
      /\ base <= Pos(file, at) /\ Pos(file, at) <= fed
  <2>1. Len(file.cmds) \in Nat /\ HashAt(file) = Len(file.cmds) + 1 /\ AtEnd = Len(file.cmds) + 2
    BY FileFacts DEF IInv
  <2>2. at > 0 => base <= Pos(file, at) /\ Pos(file, at) <= fed
    BY DEF IInv, Window
  <2> QED
    BY <1>1, <2>1, <2>2
<1>3. ret = "success"
  BY <1>1, <1>2, InTheBuffer
<1>4. need => at > 0 /\ fed < FileLen(file)
  BY DEF IInv, Told
<1>5. Executed'
  BY <1>1, ExecutedStays
<1> QED
  BY <1>1, <1>2, <1>3, <1>4, <1>5, RecordsKeep

\* Less than a record is left only before the end of the file.
LEMMA NotAllThere ==
  ASSUME IInv, pc \in {"buffer", "data"}, at \in 1..HashAt(file), Avail < RecLen(file, at)
  PROVE  fed < FileLen(file)
<1>1. /\ Pos(file, at + 1) = Pos(file, at) + RecLen(file, at) /\ Pos(file, at + 1) <= FileLen(file)
      /\ RecLen(file, at) \in Nat /\ FileLen(file) \in Nat
  BY FileFacts DEF IInv
<1>2. Pos(file, at) \in Nat /\ fed \in Nat /\ Pos(file, at) <= fed
  BY InTheBuffer
<1>3. Pos(file, at + 1) = Pos(file, at) + RecLen(file, at) /\ fed - Pos(file, at) < RecLen(file, at)
  BY <1>1 DEF Avail
<1> QED
  BY <1>1, <1>2, <1>3

LEMMA PreWriteKeeps == ASSUME IInv, PreWrite PROVE IInv'
<1>1. /\ pc = "data" /\ step = "PRE" /\ UNCHANGED <<input, window, result>> /\ UNCHANGED <<at, done>>
      /\ \/ Avail < HH + file.name /\ need' = TRUE /\ pc' = "buffer" /\ ret' = ret
         \/ step' = "DO" /\ pc' = pc /\ ret' = ret /\ need' = need
         \/ pc' = "read" /\ ret' = "failure" /\ trouble' # {} /\ need' = need
  BY DEF PreWrite, NeedNewData, Fail, Return
<1>2. /\ at \in 0..AtEnd /\ at # AtEnd /\ at \in 1..HashAt(file) /\ at \in 1..Len(file.cmds)
      /\ base <= Pos(file, at) /\ Pos(file, at) <= fed
  <2>1. Len(file.cmds) \in Nat /\ HashAt(file) = Len(file.cmds) + 1 /\ AtEnd = Len(file.cmds) + 2
    BY FileFacts DEF IInv
  <2>2. at > 0 => base <= Pos(file, at) /\ Pos(file, at) <= fed
    BY DEF IInv, Window
  <2>3. at \in 1..HashAt(file) /\ (step = "PRE" => at <= Len(file.cmds))
    BY <1>1 DEF IInv, Window
  <2> QED
    BY <1>1, <2>1, <2>2, <2>3
<1>3. ret = "success"
  BY <1>1, <1>2, InTheBuffer
<1>4. need' => at > 0 /\ fed < FileLen(file)
  <2>1. need => at > 0 /\ fed < FileLen(file)
    BY DEF IInv, Told
  <2>2. ASSUME Avail < HH + file.name PROVE fed < FileLen(file)
    <3>1. RecLen(file, at) \in Nat /\ RecLen(file, at) >= HH + file.name /\ file.name \in Nat
      BY <1>2, FileFacts DEF IInv, Given
    <3>2. Avail < RecLen(file, at)
      <4>1. Pos(file, at) \in Nat /\ fed \in Nat
        BY <1>1, InTheBuffer
      <4>2. Avail \in Int
        BY <4>1 DEF Avail
      <4> QED
        BY <2>2, <3>1, <4>2 DEF HH
    <3> QED
      BY <1>1, <1>2, <3>2, NotAllThere
  <2>3. (Avail < HH + file.name) \/ need' = need
    BY <1>1
  <2>4. at > 0
    BY <1>2
  <2> QED
    BY <2>1, <2>2, <2>3, <2>4
<1>5. Executed'
  BY <1>1, ExecutedStays
<1> QED
  BY <1>1, <1>2, <1>3, <1>4, <1>5, RecordsKeep

LEMMA PostWriteKeeps == ASSUME IInv, PostWrite PROVE IInv'
<1>1. /\ pc = "data" /\ pc' = "buffer" /\ UNCHANGED <<input, window, result>>
      /\ UNCHANGED <<at, need, done, ret>>
  BY DEF PostWrite
<1>2. at \in 0..AtEnd /\ at # AtEnd /\ at > 0 /\ base <= Pos(file, at) /\ Pos(file, at) <= fed
  <2>1. Len(file.cmds) \in Nat /\ HashAt(file) = Len(file.cmds) + 1 /\ AtEnd = Len(file.cmds) + 2
    BY FileFacts DEF IInv
  <2>2. at > 0 => base <= Pos(file, at) /\ Pos(file, at) <= fed
    BY DEF IInv, Window
  <2>3. at \in 1..HashAt(file) /\ (step = "PRE" => at <= Len(file.cmds))
    BY <1>1 DEF IInv, Window
  <2> QED
    BY <1>1, <2>1, <2>2, <2>3
<1>3. ret = "success"
  BY <1>1, <1>2, InTheBuffer
<1>4. need => at > 0 /\ fed < FileLen(file)
  BY DEF IInv, Told
<1>5. Executed'
  BY <1>1, ExecutedStays
<1> QED
  BY <1>1, <1>2, <1>3, <1>4, <1>5, RecordsKeep

\* A command is executed with all of its record there, and on its own device.
LEMMA ExecutedGrows ==
  ASSUME IInv, pc = "data", at \in 1..Len(file.cmds), UNCHANGED <<input, window>>,
         at' = at + 1, done' = Append(done, [cmd |-> at, dev |-> cur]),
         ~Elsewhere, Avail >= RecLen(file, at)
  PROVE  Executed' /\ Pos(file, at') <= fed /\ Pos(file, at) <= Pos(file, at')
<1>1. /\ Given' /\ AtEnd' = AtEnd /\ file' = file /\ fed' = fed
  BY SameFile DEF IInv, window
<1>2. /\ Len(file.cmds) \in Nat /\ HashAt(file) = Len(file.cmds) + 1 /\ AtEnd = Len(file.cmds) + 2
      /\ at \in 0..HashAt(file) /\ at < HashAt(file)
  BY FileFacts DEF IInv
<1>3. /\ Pos(file, at + 1) = Pos(file, at) + RecLen(file, at) /\ RecLen(file, at) \in Nat
      /\ RecLen(file, at) >= HH + file.name /\ file.cmds[at].part \in Partitions(file) /\ file.name \in Nat
  BY <1>2, FileFacts DEF IInv, Given
<1>4. Pos(file, at) \in Nat /\ fed \in Nat
  BY InTheBuffer
<1>5. fed - Pos(file, at) >= RecLen(file, at) /\ Avail >= HH + file.name
  BY <1>3, <1>4 DEF Avail, HH
<1>6. Pos(file, at + 1) <= fed /\ Pos(file, at) <= Pos(file, at + 1)
  <2>1. \A a, b, c, d \in Nat : d = a + b /\ c - a >= b => d <= c /\ a <= d
    OBVIOUS
  <2>2. Pos(file, at + 1) \in Nat
    BY <1>3, <1>4
  <2> QED
    BY <1>3, <1>4, <1>5, <2>1, <2>2
<1>7. cur = file.cmds[at].part
  BY <1>2, <1>5 DEF Elsewhere
<1>8. /\ done \in Seq([cmd : Nat, dev : Partitions(file)]) /\ Len(done) = at - 1
      /\ \A i \in 1..Len(done) :
           done[i] = [cmd |-> i, dev |-> file.cmds[i].part] /\ Pos(file, i + 1) <= fed
  BY <1>2 DEF IInv, Executed
<1>9. [cmd |-> at, dev |-> cur] \in [cmd : Nat, dev : Partitions(file)]
  BY <1>3, <1>7
<1> DEFINE Done == [cmd : Nat, dev : Partitions(file)]
           new  == [cmd |-> at, dev |-> cur]
<1>10. done \in Seq(Done) /\ new \in Done /\ done' = Append(done, new)
  BY <1>8, <1>9
<1>11. new = [cmd |-> at, dev |-> file.cmds[at].part]
  BY <1>7
<1> HIDE DEF Done, new
<1>12. /\ done' \in Seq(Done) /\ Len(done') = at /\ done'[at] = new
       /\ \A i \in 1..(at - 1) : done'[i] = done[i]
  BY <1>8, <1>10
<1>13. ASSUME NEW i \in 1..Len(done')
       PROVE  done'[i] = [cmd |-> i, dev |-> file.cmds[i].part] /\ Pos(file, i + 1) <= fed
  <2>1. CASE i = at
    BY <1>6, <1>11, <1>12, <2>1
  <2>2. CASE i # at
    <3>1. i \in 1..(at - 1) /\ i \in 1..Len(done)
      BY <1>8, <1>12, <2>2
    <3> QED
      BY <1>8, <1>12, <3>1
  <2> QED
    BY <2>1, <2>2
<1>14. Len(done') = IF at' = 0 THEN 0 ELSE IF at' <= Len(file.cmds) THEN at' - 1 ELSE Len(file.cmds)
  BY <1>2, <1>12
<1>15. Executed'
  BY <1>1, <1>12, <1>13, <1>14 DEF Executed, Done
<1> QED
  BY <1>6, <1>15

LEMMA DoWriteKeeps == ASSUME IInv, DoWrite PROVE IInv'
<1>1. pc = "data" /\ step = "DO" /\ UNCHANGED <<input, window, result>>
  BY DEF DoWrite
<1>2. /\ at \in 0..AtEnd /\ at # AtEnd /\ at # 0 /\ at \in 1..HashAt(file)
      /\ base <= Pos(file, at) /\ Pos(file, at) <= fed
  <2>1. Len(file.cmds) \in Nat /\ HashAt(file) = Len(file.cmds) + 1 /\ AtEnd = Len(file.cmds) + 2
    BY FileFacts DEF IInv
  <2>2. at > 0 => base <= Pos(file, at) /\ Pos(file, at) <= fed
    BY DEF IInv, Window
  <2>3. at \in 1..HashAt(file) /\ (step = "PRE" => at <= Len(file.cmds))
    BY <1>1 DEF IInv, Window
  <2> QED
    BY <1>1, <2>1, <2>2, <2>3
<1>3. ret = "success"
  BY <1>1, <1>2, InTheBuffer
<1>4. need => at > 0 /\ fed < FileLen(file)
  BY DEF IInv, Told
<1>5. CASE /\ step' = "POST" /\ UNCHANGED <<pc, at, need, done, ret>>
  <2>1. Executed'
    BY <1>1, <1>5, ExecutedStays
  <2> QED
    BY <1>1, <1>2, <1>3, <1>4, <1>5, <2>1, RecordsKeep
<1>6. CASE Avail < RecLen(file, at) /\ NeedNewData
  <2>1. /\ need' = TRUE /\ pc' = "buffer" /\ UNCHANGED <<at, done, ret>>
    BY <1>6 DEF NeedNewData
  <2>2. Executed'
    BY <1>1, <2>1, ExecutedStays
  <2>3. fed < FileLen(file)
    BY <1>1, <1>2, <1>6, NotAllThere
  <2> QED
    BY <1>1, <1>2, <1>3, <2>1, <2>2, <2>3, RecordsKeep
<1>7. CASE /\ Fail({"io"}) /\ UNCHANGED <<at, done, need>>
  <2>1. pc' = "read" /\ ret' = "failure" /\ trouble' # {}
    BY <1>7 DEF Fail, Return
  <2>2. Executed'
    BY <1>1, <1>7, ExecutedStays
  <2> QED
    BY <1>1, <1>2, <1>4, <1>7, <2>1, <2>2, RecordsKeep
<1>8. CASE /\ ~Elsewhere /\ Avail >= RecLen(file, at) /\ at < HashAt(file)
           /\ done' = Append(done, [cmd |-> at, dev |-> cur]) /\ at' = at + 1
           /\ UNCHANGED <<pc, ret, need, step>>
  <2>1. at \in 1..Len(file.cmds) /\ at' \in 1..HashAt(file) /\ at' \in 0..AtEnd /\ at' # AtEnd
    <3>1. HashAt(file) = Len(file.cmds) + 1 /\ AtEnd = Len(file.cmds) + 2 /\ Len(file.cmds) \in Nat
      BY FileFacts DEF IInv
    <3> QED
      BY <1>2, <1>8, <3>1
  <2>2. Executed' /\ Pos(file, at') <= fed /\ Pos(file, at) <= Pos(file, at')
    BY <1>1, <1>8, <2>1, ExecutedGrows
  <2>3. base <= Pos(file, at')
    <3>1. base \in Nat /\ Pos(file, at) \in Nat /\ Pos(file, at') \in Nat
      BY <2>1, <1>2, FileFacts DEF IInv, Window
    <3> QED
      BY <1>2, <2>2, <3>1
  <2>4. at' > 0 /\ pc' = "data" /\ step' # "PRE" /\ ret' = "success"
    BY <1>1, <1>3, <1>8, <2>1
  <2>5. need' => fed < FileLen(file)
    BY <1>4, <1>8
  <2> QED
    BY <1>1, <2>1, <2>2, <2>3, <2>4, <2>5, RecordsKeep
<1> QED
  BY <1>5, <1>6, <1>7, <1>8 DEF DoWrite

\* At the hash record every command has been executed.
LEMMA AllExecuted ==
  ASSUME IInv, at = HashAt(file), file.intact = Partitions(file)
  PROVE  HashesMatch
<1>1. Len(file.cmds) \in Nat /\ at = Len(file.cmds) + 1 /\ DOMAIN file.cmds = 1..Len(file.cmds)
  BY FileFacts DEF IInv
<1>2. Len(done) = Len(file.cmds) /\ \A i \in 1..Len(done) : done[i] = [cmd |-> i, dev |-> file.cmds[i].part]
  BY <1>1 DEF IInv, Executed
<1>3. done \in Seq([cmd : Nat, dev : Partitions(file)])
  BY DEF IInv, Executed
<1> SUFFICES ASSUME NEW p \in Partitions(file), NEW i \in 1..Len(file.cmds), file.cmds[i].part = p
             PROVE  [cmd |-> i, dev |-> p] \in ToSet(done)
  BY <1>1 DEF HashesMatch, VerifyPartitionHash
<1>4. i \in 1..Len(done) /\ done[i] = [cmd |-> i, dev |-> p]
  BY <1>2
<1>5. i \in DOMAIN done
  <2> DEFINE Done == [cmd : Nat, dev : Partitions(file)]
  <2>1. done \in Seq(Done)
    BY <1>3
  <2> HIDE DEF Done
  <2> QED
    BY <1>4, <2>1
<1> QED
  BY <1>4, <1>5 DEF ToSet

LEMMA HashKeeps == ASSUME IInv, UpdateBinHash PROVE IInv'
<1>1. /\ pc = "buffer" /\ at = HashAt(file) /\ ~need /\ UNCHANGED <<input, window, result>> /\ done' = done
  BY DEF UpdateBinHash, Ready
<1>2. /\ at \in 0..AtEnd /\ at # AtEnd /\ at # 0 /\ at \in 1..HashAt(file) /\ at + 1 = AtEnd
      /\ base <= Pos(file, at) /\ Pos(file, at) <= fed
  <2>1. Len(file.cmds) \in Nat /\ HashAt(file) = Len(file.cmds) + 1 /\ AtEnd = Len(file.cmds) + 2
    BY FileFacts DEF IInv
  <2>2. at > 0 => base <= Pos(file, at) /\ Pos(file, at) <= fed
    BY DEF IInv, Window
  <2> QED
    BY <1>1, <2>1, <2>2
<1>3. ret = "success"
  BY <1>1, <1>2, InTheBuffer
<1>4. /\ RecLen(file, at) = HashRecord(file) /\ HashRecord(file) \in Nat
      /\ Pos(file, AtEnd) = Pos(file, at) + HashRecord(file)
      /\ Pos(file, at) \in Nat /\ Pos(file, AtEnd) \in Nat /\ fed \in Nat /\ base \in Nat
  BY <1>1, <1>2, FileFacts DEF IInv, Window
<1>5. Avail < HashRecord(file) => fed < FileLen(file)
  BY <1>1, <1>2, <1>4, NotAllThere
<1>6. CutInName => Avail < HashRecord(file)
  <2> SUFFICES ASSUME NEW k \in 1..Cardinality(Partitions(file)),
                      Avail \in (HashStart(file, k) + HH)..(HashStart(file, k) + HH + file.name - 1)
               PROVE  Avail < HashRecord(file)
    BY DEF CutInName
  <2>1. IsFile(file)
    BY DEF IInv, Given, IsFile
  <2>2. /\ HashStart(file, k) \in Nat /\ HashStart(file, k) + HashPart(file) < HashRecord(file)
        /\ HashPart(file) \in Nat /\ HashPart(file) >= HH + file.name /\ file.name \in Nat
    BY <2>1, Lengths DEF IsFile
  <2> QED
    BY <1>4, <2>2 DEF HH
<1>7. CASE Fail({"stale"}) /\ UNCHANGED <<at, need>>
  <2>1. pc' = "read" /\ ret' = "failure" /\ trouble' # {}
    BY <1>7 DEF Fail, Return
  <2>2. Executed'
    BY <1>1, <1>7, ExecutedStays
  <2> QED
    BY <1>1, <1>2, <1>7, <2>1, <2>2, RecordsKeep
<1>8. CASE Avail < HashRecord(file) /\ need' = TRUE /\ UNCHANGED <<pc, at, ret>>
  <2>1. Executed'
    BY <1>1, <1>8, ExecutedStays
  <2> QED
    BY <1>1, <1>2, <1>3, <1>5, <1>8, <2>1, RecordsKeep
<1>9. CASE /\ Avail >= HashRecord(file) /\ at' = at + 1 /\ need' = need
           /\ \/ file.signed /\ HashesMatch /\ ret' = "complete" /\ pc' = pc
              \/ ~(file.signed /\ HashesMatch) /\ Fail({})
  <2>1. Executed' /\ (HashesMatch' <=> HashesMatch)
    BY <1>1, <1>2, <1>9, ExecutedStays
  <2>2. at' = AtEnd /\ at' \in 0..AtEnd /\ at' # 0 /\ base <= Pos(file, at') /\ Pos(file, at') <= fed
    <3>1. at' = AtEnd /\ fed - Pos(file, at) >= HashRecord(file)
      BY <1>2, <1>9 DEF Avail
    <3>2. AtEnd \in 0..AtEnd /\ AtEnd # 0
      BY FileFacts DEF IInv
    <3>3. base <= Pos(file, AtEnd) /\ Pos(file, AtEnd) <= fed
      BY <1>2, <1>4, <3>1
    <3> QED
      BY <3>1, <3>2, <3>3
  <2>3. CASE file.signed /\ HashesMatch /\ ret' = "complete" /\ pc' = pc
    <3>1. pc' = "buffer" /\ ~need' /\ ret' = "complete" /\ file.signed /\ HashesMatch'
      BY <1>1, <1>9, <2>1, <2>3
    <3> QED
      BY <1>1, <2>1, <2>2, <3>1, RecordsKeep
  <2>4. CASE ~(file.signed /\ HashesMatch) /\ Fail({})
    <3>1. pc' = "read" /\ ret' = "failure" /\ ~need'
      BY <1>1, <1>9, <2>4 DEF Fail, Return
    <3>2. ~file.signed \/ file.intact # Partitions(file)
      BY <1>1, <2>4, AllExecuted
    <3> QED
      BY <1>1, <2>1, <2>2, <3>1, <3>2, RecordsKeep
  <2> QED
    BY <1>9, <2>3, <2>4
<1>10. \/ Fail({"stale"}) /\ UNCHANGED <<at, need>>
       \/ Avail < HashRecord(file) /\ need' = TRUE /\ UNCHANGED <<pc, at, ret>>
       \/ /\ Avail >= HashRecord(file) /\ at' = at + 1 /\ need' = need
          /\ \/ file.signed /\ HashesMatch /\ ret' = "complete" /\ pc' = pc
             \/ ~(file.signed /\ HashesMatch) /\ Fail({})
  BY <1>6 DEF UpdateBinHash
<1> QED
  BY <1>7, <1>8, <1>9, <1>10

-----------------------------------------------------------------------------
LEMMA StutterKeeps == ASSUME IInv, UNCHANGED vars PROVE IInv'
<1>1. UNCHANGED <<file, end, chunk, seeks, pc, taken, fed, base, skip, at, need, step, done, ret, result, trouble>>
  BY DEF vars, input, window, parser
<1>2. /\ Given' /\ AtEnd' = AtEnd /\ (EndsWithHeader' <=> EndsWithHeader)
  BY SameFile DEF IInv, vars
<1>3. Window'
  BY <1>1, <1>2 DEF IInv, Window
<1>4. Header'
  BY <1>1, <1>2 DEF IInv, Header
<1>5. Executed'
  BY <1>1, <1>2 DEF IInv, Executed
<1>6. HashesMatch' <=> HashesMatch
  BY <1>1 DEF HashesMatch, VerifyPartitionHash
<1>7. Told'
  BY <1>1, <1>2, <1>6 DEF IInv, Told
<1>8. ResultIsTrue'
  <2>1. Len(done') = Len(done)
    BY <1>1
  <2> QED
    BY <1>1, <1>2, <1>6, <2>1 DEF IInv, ResultIsTrue, RefusedForAReason, SuccessIsVerified
<1> QED
  BY <1>2, <1>3, <1>4, <1>5, <1>7, <1>8 DEF IInv

\* Whatever the files, the chunks and the size of the buffer: the window stays
\* within what was read, the parser's place stays within the window, and what it
\* executed and told is what it has passed.
THEOREM IInvHolds == Spec => []IInv
<1>1. Init => IInv
  BY InitKeeps
<1>2. IInv /\ [Next]_vars => IInv'
  <2> SUFFICES ASSUME IInv, [Next]_vars PROVE IInv'
    OBVIOUS
  <2>1. CASE Process
    BY <2>1, LoadKeeps, SeekKeeps, ReadKeeps, ReadNoMoreKeeps DEF Process
  <2>2. CASE Buffer
    BY <2>2, SkipKeeps, AddKeeps, UsedKeeps, MoveKeeps DEF Buffer
  <2>3. CASE Records
    BY <2>3, OtherKeeps, HeadKeeps, DataKeeps, HashKeeps DEF Records
  <2>4. CASE Steps
    BY <2>4, PreWriteKeeps, DoWriteKeeps, PostWriteKeeps DEF Steps
  <2>5. CASE UNCHANGED vars
    BY <2>5, StutterKeeps
  <2> QED
    BY <2>1, <2>2, <2>3, <2>4, <2>5 DEF Next
<1> QED
  BY <1>1, <1>2, PTL DEF Spec

\* Wherever the chunks cut the records, ChunkInstallDoWrite executes each command
\* once, in the order of the file, when all of it has arrived, and on the device of
\* its own partition: for every file and every size of chunk and of buffer.
THEOREM CommandsRunInOrder == Spec => []CommandsInOrder
<1>1. IInv => CommandsInOrder
  <2> SUFFICES ASSUME IInv PROVE CommandsInOrder
    OBVIOUS
  <2>1. /\ Len(file.cmds) \in Nat /\ HashAt(file) = Len(file.cmds) + 1 /\ at \in 0..(Len(file.cmds) + 2)
        /\ DOMAIN file.cmds = 1..Len(file.cmds)
    BY FileFacts DEF IInv, Window
  <2> DEFINE passed == IF at = 0 THEN 0 ELSE IF at <= Len(file.cmds) THEN at - 1 ELSE Len(file.cmds)
             Past == {i \in DOMAIN file.cmds : i < at}
  <2>2. passed \in Nat /\ passed <= Len(file.cmds)
    BY <2>1
  <2>3. Past = 1..passed
    <3>1. ASSUME NEW i \in 1..Len(file.cmds) PROVE i < at <=> i <= passed
      BY <2>1
    <3> HIDE DEF passed
    <3> QED
      BY <2>1, <2>2, <3>1
  <2>4. Len(done) = passed
    BY DEF IInv, Executed
  <2> HIDE DEF passed, Past
  <2>5. Cardinality(1..passed) = passed
    BY <2>2, FS_Interval
  <2>6. \A i \in DOMAIN done :
          done[i] = [cmd |-> i, dev |-> file.cmds[i].part] /\ Pos(file, i + 1) <= fed
    <3>1. DOMAIN done = 1..Len(done)
      <4> DEFINE Done == [cmd : Nat, dev : Partitions(file)]
      <4>1. done \in Seq(Done)
        BY DEF IInv, Executed
      <4> HIDE DEF Done
      <4> QED
        BY <4>1
    <3> QED
      BY <3>1 DEF IInv, Executed
  <2>7. Len(done) = Cardinality(Past)
    BY <2>3, <2>4, <2>5
  <2> QED
    BY <2>6, <2>7 DEF CommandsInOrder, Past
<1> QED
  BY <1>1, IInvHolds, PTL

\* What BinChunkUpdate and ProcessUpdaterStream tell their caller is what became of
\* the images: a file that is whole and right is refused only over stale bytes or a
\* call that failed, and complete means executed, signed and compared.
THEOREM ResultsAreTrue == Spec => []ResultIsTrue
<1>1. IInv => ResultIsTrue
  BY DEF IInv
<1> QED
  BY <1>1, IInvHolds, PTL

\* The bytes the parser has not used are those from its place on: AddRemainData
\* and MoveRemainingData drop nothing, and the buffer is never overrun.
THEOREM NothingGetsLost == Spec => []NothingIsLost
<1>1. IInv => NothingIsLost
  <2> SUFFICES ASSUME IInv PROVE NothingIsLost
    OBVIOUS
  <2>1. /\ at \in Nat /\ (at > 0 => base <= Pos(file, at))
        /\ base \in Nat /\ fed \in Nat /\ fed <= base + MaxBuf /\ MaxBuf \in Nat
    BY FileFacts, StreamUpdateAssumption DEF IInv, Window
  <2>2. pc = "read" /\ ret = "success" => fed = taken
    BY DEF IInv, Header
  <2>3. Curlen <= MaxBuf
    BY <2>1 DEF Curlen
  <2> QED
    BY <2>1, <2>2, <2>3 DEF NothingIsLost
<1> QED
  BY <1>1, IInvHolds, PTL

-----------------------------------------------------------------------------

\* Where what is in the buffer ends, and so whether the last partition is closed.
InTheLoop == {"add", "buffer", "data", "move"}
Chunked ==
  /\ HashRecord(file) <= MaxBuf
  /\ pc \in {"read", "skip"} \cup InTheLoop => taken = end \/ \E k \in Nat : taken = Origin + k * chunk
  /\ pc \in {"buffer", "data", "move"} => fed = taken \/ fed = base + MaxBuf
  /\ at > 0 /\ (pc \in InTheLoop \/ (pc = "read" /\ ret = "success")) =>
       \E n \in 0..at : base = Pos(file, n)
  /\ pc = "add" => ret # "failure"
  /\ at = 0 => ~open
  /\ open /\ pc # "data" /\ at >= HashAt(file) /\ ret # "failure" =>
       CutBeforeHashes \/ end < FileLen(file)

\* A step that leaves the window and the file alone, and the loop over the chunk.
LEMMA ChunkedStays ==
  ASSUME IInv, Chunked, UNCHANGED <<input, window>>, pc \in {"buffer", "data"},
         pc' \in {"buffer", "data", "move", "read"}, pc' = "read" => ret' = "failure",
         at' \in Nat, at <= at', at = 0 => base = Pos(file, 0), at' = 0 => ~open',
         open' /\ pc' # "data" /\ at' >= HashAt(file) /\ ret' # "failure" =>
           CutBeforeHashes \/ end < FileLen(file)
  PROVE  Chunked'
<1>1. file' = file /\ end' = end /\ seeks' = seeks /\ chunk' = chunk
  BY DEF input
<1>2. UNCHANGED <<taken, fed, base, skip>>
  BY DEF window
<1>3. Origin' = Origin /\ (CutBeforeHashes' <=> CutBeforeHashes)
  BY <1>1 DEF Origin, CutBeforeHashes
<1>4. taken = end \/ \E k \in Nat : taken = Origin + k * chunk
  BY DEF Chunked, InTheLoop
<1>5. at' > 0 => \E n \in 0..at' : base = Pos(file, n)
  <2>1. at \in Nat
    BY FileFacts DEF IInv, Window
  <2>2. CASE at = 0
    BY <2>2
  <2>3. CASE at > 0
    <3>1. PICK n \in 0..at : base = Pos(file, n)
      BY <2>3 DEF Chunked, InTheLoop
    <3> QED
      BY <2>1, <3>1
  <2> QED
    BY <2>1, <2>2, <2>3
<1>6. pc' \in {"buffer", "data", "move"} => fed = taken \/ fed = base + MaxBuf
  <2>1. fed = taken \/ fed = base + MaxBuf
    <3>1. pc \in {"buffer", "data", "move"}
      OBVIOUS
    <3> QED
      BY <3>1 DEF Chunked
  <2> QED
    BY <2>1
<1> QED
  BY <1>1, <1>2, <1>3, <1>4, <1>5, <1>6 DEF Chunked

LEMMA StartOfBuffer ==
  ASSUME IInv, pc \in {"buffer", "data"}, at = 0
  PROVE  base = Pos(file, 0)
BY FileFacts DEF IInv, Window

LEMMA ProcessIsChunked == ASSUME IInv, Chunked, Process PROVE Chunked'
<1>1. file' = file /\ end' = end /\ seeks' = seeks /\ chunk' = chunk /\ UNCHANGED <<at, open>>
  BY DEF Process, Load, Seek, Read, ReadNoMore, input, parser
<1>2. Origin' = Origin /\ (CutBeforeHashes' <=> CutBeforeHashes)
  BY <1>1 DEF Origin, CutBeforeHashes
<1>3. /\ file.zip \in Nat /\ end \in Nat /\ chunk \in Nat /\ taken \in Nat
      /\ HashAt(file) \in Nat /\ HashAt(file) > 0
  <2>1. HashAt(file) = Len(file.cmds) + 1 /\ Len(file.cmds) \in Nat
    BY FileFacts DEF IInv
  <2> QED
    BY <2>1 DEF IInv, Given, Window
<1>4. CASE Load
  <2>1. pc' \in {"seek", "ended"} /\ pc = "load" /\ ret' = ret
    BY <1>4 DEF Load, Finish
  <2> QED
    BY <1>1, <1>2, <2>1 DEF Chunked, InTheLoop
<1>5. CASE Seek
  <2>1. at = 0 /\ at' = 0
    BY <1>1, <1>5 DEF Seek, IInv, Header
  <2>2. pc = "seek" /\ (pc' = "ended" \/ (pc' = "read" /\ taken' = file.zip)) /\ ret' = ret
    BY <1>5 DEF Seek, Finish
  <2>3. pc' = "read" => \E k \in Nat : taken' = Origin' + k * chunk'
    <3>1. seeks /\ Origin = file.zip
      BY <1>5, <2>2 DEF IInv, Header, Origin
    <3>2. file.zip = file.zip + 0 * chunk
      BY <1>3
    <3> QED
      BY <1>1, <1>2, <2>2, <3>1, <3>2
  <2>4. ~open'
    BY <1>1, <2>1 DEF Chunked
  <2> QED
    BY <1>1, <1>2, <2>1, <2>2, <2>3, <2>4 DEF Chunked, InTheLoop
<1>6. CASE Read
  <2>1. /\ pc = "read" /\ ret \in {"none", "success"} /\ ret' = ret /\ taken < end
        /\ taken' = Smaller(taken + chunk, end)
        /\ pc' \in {"skip", "add"} /\ UNCHANGED <<base, fed>>
    BY <1>6 DEF Read
  <2>2. taken' = end \/ \E k \in Nat : taken' = Origin + k * chunk
    <3>1. PICK k \in Nat : taken = Origin + k * chunk
      BY <1>3, <2>1 DEF Chunked
    <3>2. (k + 1) * chunk = k * chunk + chunk /\ k * chunk \in Nat /\ Origin \in Nat
      BY <1>3 DEF Origin
    <3>3. taken + chunk = Origin + (k + 1) * chunk
      BY <1>3, <3>1, <3>2
    <3>4. taken' = end \/ taken' = taken + chunk
      BY <2>1 DEF Smaller
    <3>5. k + 1 \in Nat
      OBVIOUS
    <3> QED
      BY <3>3, <3>4, <3>5
  <2>3. at > 0 => ret = "success"
    BY <2>1 DEF IInv, Header
  <2>4. at > 0 => \E n \in 0..at : base = Pos(file, n)
    BY <2>1, <2>3 DEF Chunked
  <2> QED
    BY <1>1, <1>2, <2>1, <2>2, <2>4 DEF Chunked, InTheLoop
<1>7. CASE ReadNoMore
  <2>1. pc = "read" /\ pc' = "ended" /\ ret' = ret
    BY <1>7 DEF ReadNoMore, Finish
  <2> QED
    BY <1>1, <1>2, <2>1 DEF Chunked, InTheLoop
<1> QED
  BY <1>4, <1>5, <1>6, <1>7 DEF Process

LEMMA BufferIsChunked == ASSUME IInv, Chunked, Buffer PROVE Chunked'
<1>1. file' = file /\ end' = end /\ seeks' = seeks /\ chunk' = chunk /\ UNCHANGED <<at, open, taken>>
  BY DEF Buffer, SkipTargetData, AddRemainData, Used, MoveRemainingData, input, parser, window
<1>2. Origin' = Origin /\ (CutBeforeHashes' <=> CutBeforeHashes)
  BY <1>1 DEF Origin, CutBeforeHashes
<1>3. taken = end \/ \E k \in Nat : taken = Origin + k * chunk
  BY DEF Buffer, SkipTargetData, AddRemainData, Used, MoveRemainingData, Chunked, InTheLoop
<1>4. HashAt(file) \in Nat /\ HashAt(file) > 0 /\ at \in Nat
  BY FileFacts DEF IInv, Window
<1>5. CASE SkipTargetData
  <2>1. pc = "skip" /\ pc' = "read"
    BY <1>5 DEF SkipTargetData, Return
  <2>2. at = 0
    BY <2>1 DEF IInv, Header
  <2>3. ~open
    BY <2>2 DEF Chunked
  <2> QED
    BY <1>1, <1>2, <1>3, <2>1, <2>2, <2>3 DEF Chunked, InTheLoop
<1>6. CASE AddRemainData
  <2>1. /\ pc = "add" /\ pc' = "buffer" /\ ret' = "success" /\ base' = base
        /\ fed' = Smaller(taken, base + MaxBuf)
    BY <1>6 DEF AddRemainData
  <2>2. fed' = taken \/ fed' = base + MaxBuf
    BY <2>1 DEF Smaller
  <2>3. ret # "failure"
    BY <2>1 DEF Chunked
  <2>4. at > 0 => \E n \in 0..at : base = Pos(file, n)
    BY <2>1 DEF Chunked, InTheLoop
  <2>5. open /\ at >= HashAt(file) => CutBeforeHashes \/ end < FileLen(file)
    BY <2>1, <2>3 DEF Chunked
  <2>6. at = 0 => ~open
    BY DEF Chunked
  <2> QED
    BY <1>1, <1>2, <1>3, <2>1, <2>2, <2>4, <2>5, <2>6 DEF Chunked
<1>7. CASE Used
  <2>1. /\ pc = "buffer" /\ pc' = "move" /\ UNCHANGED <<ret, base, fed>>
    BY <1>7 DEF Used, window
  <2>2. at > 0 => \E n \in 0..at : base = Pos(file, n)
    BY <2>1 DEF Chunked, InTheLoop
  <2>3. fed = taken \/ fed = base + MaxBuf
    BY <2>1 DEF Chunked
  <2>4. open /\ at >= HashAt(file) /\ ret # "failure" => CutBeforeHashes \/ end < FileLen(file)
    BY <2>1 DEF Chunked
  <2>5. at = 0 => ~open
    BY DEF Chunked
  <2> QED
    BY <1>1, <1>2, <1>3, <2>1, <2>2, <2>3, <2>4, <2>5 DEF Chunked
<1>8. CASE MoveRemainingData
  <2>1. /\ pc = "move" /\ pc' \in {"add", "read"} /\ ret' = ret
        /\ base' = (IF Avail > 0 THEN Pos(file, at) ELSE fed)
    BY <1>8 DEF MoveRemainingData
  <2>2. at > 0 => base' = Pos(file, at)
    <3> SUFFICES ASSUME at > 0 PROVE base' = Pos(file, at)
      OBVIOUS
    <3>1. fed \in Nat /\ Pos(file, at) \in Nat /\ Pos(file, at) <= fed
      BY FileFacts DEF IInv, Window
    <3> QED
      BY <2>1, <3>1 DEF Avail
  <2>3. at > 0 => \E n \in 0..at : base' = Pos(file, n)
    BY <1>4, <2>2
  <2>4. ret # "failure"
    BY <2>1 DEF IInv, Header
  <2>5. open /\ at >= HashAt(file) => CutBeforeHashes \/ end < FileLen(file)
    BY <2>1, <2>4 DEF Chunked
  <2>6. at = 0 => ~open
    BY DEF Chunked
  <2> QED
    BY <1>1, <1>2, <1>3, <2>1, <2>3, <2>4, <2>5, <2>6 DEF Chunked
<1> QED
  BY <1>5, <1>6, <1>7, <1>8 DEF Buffer

LEMMA RecordsAreChunked == ASSUME IInv, Chunked, Records PROVE Chunked'
<1>1. UNCHANGED <<input, window, open>> /\ pc = "buffer"
  BY DEF Records, UpdateBinOther, UpdateBinHead, UpdateBinData, UpdateBinHash, Ready, parser
<1>2. /\ Len(file.cmds) \in Nat /\ HashAt(file) = Len(file.cmds) + 1 /\ AtEnd = Len(file.cmds) + 2
      /\ at \in Nat /\ at <= AtEnd
  BY FileFacts DEF IInv, Window
<1>3. at = 0 => base = Pos(file, 0)
  BY <1>1, StartOfBuffer
<1>4. at = 0 => ~open
  BY DEF Chunked
<1>5. ret # "failure"
  BY <1>1, InTheBuffer
<1>6. open /\ at >= HashAt(file) => CutBeforeHashes \/ end < FileLen(file)
  BY <1>1, <1>5 DEF Chunked
<1>7. /\ pc' \in {"buffer", "data", "read"} /\ (pc' = "read" => ret' = "failure")
      /\ \/ at' = at
         \/ at = 0 /\ at' = 1
         \/ at = HashAt(file) /\ at' = at + 1
  BY <1>1 DEF Records, UpdateBinOther, UpdateBinHead, UpdateBinData, UpdateBinHash, Fail, Return, parser
<1>8. at' \in Nat /\ at <= at'
  BY <1>2, <1>7
<1>9. open' /\ at' >= HashAt(file) => CutBeforeHashes \/ end < FileLen(file)
  <2>1. at' >= HashAt(file) /\ open => at >= HashAt(file)
    BY <1>2, <1>4, <1>7
  <2> QED
    BY <1>1, <1>6, <2>1
<1>10. at' = 0 => ~open'
  BY <1>1, <1>2, <1>4, <1>8
<1> QED
  BY <1>1, <1>3, <1>7, <1>8, <1>9, <1>10, ChunkedStays

\* The hash record is taken up as such only where the buffer ends in its first bytes.
LEMMA CutThere ==
  ASSUME IInv, Chunked, pc = "data", at = HashAt(file), Avail < HH
  PROVE  CutBeforeHashes \/ end < FileLen(file)
<1> DEFINE start == Pos(file, HashAt(file))
<1>1. start \in Nat /\ fed \in Nat /\ start <= fed /\ fed - start < HH
  BY InTheBuffer DEF Avail
<1>2. fed \in start..(start + HH - 1)
  BY <1>1 DEF HH
<1>3. /\ end \in Nat /\ end <= FileLen(file) /\ FileLen(file) \in Nat /\ fed <= FileLen(file)
      /\ chunk \in Nat /\ chunk > 0 /\ Origin \in Nat
  BY InTheBuffer, FileFacts DEF IInv, Given, Origin
<1>4. fed < FileLen(file)
  <2>1. /\ HashRecord(file) \in Nat /\ HashRecord(file) >= HH
    BY Lengths DEF IInv, Given, IsFile
  <2>2. /\ at \in 1..HashAt(file) /\ RecLen(file, at) = HashRecord(file)
        /\ Avail = fed - start
    BY FileFacts DEF IInv, Avail
  <2>3. Avail < RecLen(file, at)
    BY <1>1, <2>1, <2>2 DEF HH
  <2> QED
    BY <2>2, <2>3, NotAllThere
<1>5. CASE fed = taken
  <2>1. CASE taken = end
    BY <1>3, <1>4, <1>5, <2>1
  <2>2. CASE taken # end
    <3>1. PICK k \in Nat : taken = Origin + k * chunk
      BY <2>2 DEF Chunked, InTheLoop
    <3>2. k <= k * chunk /\ k * chunk \in Nat
      <4>1. PICK c \in Nat : chunk = c + 1
        BY <1>3
      <4>2. k * chunk = k * c + k /\ k * c \in Nat
        BY <4>1
      <4> QED
        BY <4>2
    <3>3. k \in 0..FileLen(file)
      BY <1>3, <1>5, <3>1, <3>2
    <3>4. Origin + k * chunk \in start..(start + HH - 1)
      BY <1>2, <1>5, <3>1
    <3> QED
      BY <3>3, <3>4 DEF CutBeforeHashes
  <2> QED
    BY <2>1, <2>2
<1>6. CASE fed = base + MaxBuf
  <2>1. at > 0 /\ at = Len(file.cmds) + 1 /\ Len(file.cmds) \in Nat
    BY FileFacts DEF IInv
  <2>2. PICK n \in 0..at : base = Pos(file, n)
    BY <2>1 DEF Chunked, InTheLoop
  <2>3. n # at
    <3>2. HashRecord(file) <= MaxBuf /\ MaxBuf \in Nat
      BY StreamUpdateAssumption DEF Chunked
    <3>3. HashRecord(file) \in Nat /\ HashRecord(file) >= HH
      BY Lengths DEF IInv, Given, IsFile
    <3>4. base = start => MaxBuf < HH
      <4>1. base = start => fed = start + MaxBuf
        BY <1>6
      <4> QED
        BY <1>1, <3>2, <4>1 DEF HH
    <3> QED
      BY <2>2, <3>2, <3>3, <3>4 DEF HH
  <2>4. n \in 0..Len(file.cmds)
    BY <2>1, <2>3
  <2>5. Pos(file, n) + MaxBuf \in start..(start + HH - 1)
    BY <1>2, <1>6, <2>2
  <2> QED
    BY <2>4, <2>5 DEF CutBeforeHashes
<1>7. fed = taken \/ fed = base + MaxBuf
  BY DEF Chunked
<1> QED
  BY <1>5, <1>6, <1>7

LEMMA StepsAreChunked == ASSUME IInv, Chunked, Steps PROVE Chunked'
<1>1. UNCHANGED <<input, window>> /\ pc = "data"
  BY DEF Steps, PreWrite, DoWrite, PostWrite
<1>2. /\ Len(file.cmds) \in Nat /\ HashAt(file) = Len(file.cmds) + 1
      /\ at \in 1..HashAt(file) /\ (step = "PRE" => at <= Len(file.cmds)) /\ at # AtEnd
  BY <1>1, FileFacts DEF IInv, Window
<1>3. at = 0 => base = Pos(file, 0)
  BY <1>2
<1>4. CASE PreWrite
  <2>1. /\ at' = at /\ pc' \in {"data", "buffer", "read"} /\ (pc' = "read" => ret' = "failure")
        /\ ~(at' >= HashAt(file))
    BY <1>1, <1>2, <1>4 DEF PreWrite, NeedNewData, Fail, Return
  <2> QED
    BY <1>1, <1>2, <1>3, <2>1, ChunkedStays
<1>5. CASE DoWrite
  <2>1. CASE /\ pc' = "data" /\ at' \in {at, at + 1}
    BY <1>1, <1>2, <1>3, <2>1, ChunkedStays
  <2>2. CASE pc' = "read" /\ ret' = "failure" /\ at' = at
    BY <1>1, <1>2, <1>3, <2>2, ChunkedStays
  <2>3. CASE pc' = "buffer" /\ at' = at /\ ~Elsewhere
    <3>1. at' >= HashAt(file) => CutBeforeHashes \/ end < FileLen(file)
      <4> SUFFICES ASSUME at' >= HashAt(file) PROVE CutBeforeHashes \/ end < FileLen(file)
        OBVIOUS
      <4>1. at = HashAt(file)
        BY <1>2, <2>3
      <4>2. Avail < HH
        <5>1. ~(Avail >= HH)
          BY <2>3, <4>1 DEF Elsewhere
        <5>2. Avail \in Int
          BY <1>1, InTheBuffer DEF Avail
        <5> QED
          BY <5>1, <5>2 DEF HH
      <4> QED
        BY <1>1, <4>1, <4>2, CutThere
    <3> QED
      BY <1>1, <1>2, <1>3, <2>3, <3>1, ChunkedStays
  <2> QED
    BY <1>1, <1>5, <2>1, <2>2, <2>3 DEF DoWrite, NeedNewData, Fail, Return
<1>6. CASE PostWrite
  <2>1. at' = at /\ pc' = "buffer" /\ ~open'
    BY <1>6 DEF PostWrite
  <2> QED
    BY <1>1, <1>2, <1>3, <2>1, ChunkedStays
<1> QED
  BY <1>4, <1>5, <1>6 DEF Steps

LEMMA StutterIsChunked == ASSUME Chunked, UNCHANGED vars PROVE Chunked'
<1>1. UNCHANGED <<file, end, chunk, seeks, pc, taken, fed, base, at, open, ret>>
  BY DEF vars, input, window, parser
<1>2. Origin' = Origin /\ (CutBeforeHashes' <=> CutBeforeHashes)
  BY <1>1 DEF Origin, CutBeforeHashes
<1> QED
  BY <1>1, <1>2 DEF Chunked

LEMMA InitIsChunked == ASSUME Init PROVE Chunked
<1>1. /\ taken = 0 /\ fed = 0 /\ at = 0 /\ ~open /\ pc \in {"load", "read"} /\ (pc = "read" => ~seeks)
  BY DEF Init
<1>2. pc = "read" => \E k \in Nat : taken = Origin + k * chunk
  <2>1. chunk \in Nat
    BY InitKeeps DEF IInv, Given
  <2>2. 0 + 0 * chunk = 0
    BY <2>1
  <2> QED
    BY <1>1, <2>2 DEF Origin
<1>3. HashRecord(file) <= MaxBuf
  <2>1. PICK f \in Files, z \in Zips :
          file = [zip |-> z, head |-> f.head, cmds |-> f.cmds, name |-> f.name,
                  signed |-> f.signed, intact |-> f.intact]
    BY DEF Init
  <2>2. Partitions(file) = Partitions(f) /\ file.name = f.name /\ file.cmds = f.cmds
    BY <2>1 DEF Partitions
  <2>3. HashRecord(file) = HashRecord(f)
    BY <2>2 DEF HashRecord, HashStart, HashPart
  <2>4. HashAt(f) = HashAt(file) /\ HashAt(file) \in Nat /\ HashAt(file) > 0
    BY <2>2, InitKeeps, FileFacts DEF HashAt, IInv
  <2>5. HashAt(f) \in 1..HashAt(f) /\ RecLen(f, HashAt(f)) = HashRecord(f)
    BY <2>4 DEF RecLen
  <2> QED
    BY <2>3, <2>5, StreamUpdateAssumption
<1> QED
  BY <1>1, <1>2, <1>3 DEF Chunked, InTheLoop

\* AddRemainData fills the buffer up to the end of a chunk or its own, from a record
\* that MoveRemainingData put first; and a device is open past the commands only
\* where that end cut the hash record.
THEOREM ChunkedHolds == Spec => []Chunked
<1>1. Init => Chunked
  BY InitIsChunked
<1>2. IInv /\ Chunked /\ [Next]_vars => Chunked'
  BY ProcessIsChunked, BufferIsChunked, RecordsAreChunked, StepsAreChunked, StutterIsChunked DEF Next
<1> QED
  BY <1>1, <1>2, IInvHolds, PTL DEF Spec

\* ChunkInstallPostWrite has synced and closed the devices of every partition before
\* the update is complete, for every size of chunk and buffer that does not end
\* within the first bytes of the hash record.
THEOREM DevicesAreClosed == Spec => []ClosedAtTheEnd
<1>1. IInv /\ Chunked => ClosedAtTheEnd
  <2> SUFFICES ASSUME IInv, Chunked, ret = "complete", open PROVE CutBeforeHashes
    BY DEF ClosedAtTheEnd
  <2>1. at = AtEnd /\ AtEnd > 0 /\ AtEnd >= HashAt(file) /\ FileLen(file) = Pos(file, AtEnd)
    BY FileFacts DEF IInv, Told
  <2>2. pc # "data" /\ ret # "failure"
    BY <2>1, FileFacts DEF IInv, Window
  <2>3. FileLen(file) <= end /\ FileLen(file) \in Nat /\ end \in Nat
    BY <2>1, FileFacts DEF IInv, Window, Given
  <2>4. CutBeforeHashes \/ end < FileLen(file)
    BY <2>1, <2>2 DEF Chunked
  <2> QED
    BY <2>3, <2>4
<1> QED
  BY <1>1, IInvHolds, ChunkedHolds, PTL
=============================================================================
