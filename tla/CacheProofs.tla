---------------------------- MODULE CacheProofs ----------------------------
(***************************************************************************)
(* What the tool cache promises for any savers, loaders, names and lists,  *)
(* although nothing orders the accesses to a file.                         *)
(***************************************************************************)
EXTENDS Cache, SequenceTheorems, TLAPS

USE NoListAssumption, SafeAssumption, OfAssumption, SizeAssumption

-----------------------------------------------------------------------------
(***************************************************************************)
(* Cells and files.                                                        *)
(***************************************************************************)
LEMMA CellTypes ==
  /\ Hole \in Cells
  /\ \A w \in Lists, n \in Nat : Cell(w, n) \in Cells /\ Cell(w, n).of = w /\ Cell(w, n).pos = n
  /\ Hole.of = NoList /\ Hole.pos = 0 /\ NoList \notin Lists
  /\ \A c \in Cells : c = Hole \/ (c.of \in Lists /\ c.pos \in Nat)
  BY DEF Cells, Cell, Hole, NoList

LEMMA FileOfType == \A w \in Lists : FileOf(w) \in Files
  BY DEF FileOf, Files

LEMMA PutCellIsFile ==
  ASSUME NEW cells \in Seq(Cells), NEW n \in Nat \ {0}, NEW c \in Cells
  PROVE  /\ PutCell(cells, n, c) \in Seq(Cells)
         /\ Len(PutCell(cells, n, c)) = (IF n > Len(cells) THEN n ELSE Len(cells))
         /\ \A i \in 1..Len(PutCell(cells, n, c)) :
              PutCell(cells, n, c)[i] =
                IF i = n THEN c ELSE IF i \in 1..Len(cells) THEN cells[i] ELSE Hole
<1> DEFINE m == IF n > Len(cells) THEN n ELSE Len(cells)
           e(i) == IF i = n THEN c ELSE IF i \in DOMAIN cells THEN cells[i] ELSE Hole
<1>1. m \in Nat /\ DOMAIN cells = 1..Len(cells)
  OBVIOUS
<1>2. \A i \in 1..m : e(i) \in Cells
  BY <1>1, CellTypes
<1>3. PutCell(cells, n, c) = [i \in 1..m |-> e(i)]
  BY DEF PutCell
<1> HIDE DEF m, e
<1>4. [i \in 1..m |-> e(i)] \in Seq(Cells) /\ Len([i \in 1..m |-> e(i)]) = m
  BY <1>1, <1>2
<1> QED
  BY <1>1, <1>3, <1>4 DEF m, e

LEMMA WrittenIsFile ==
  ASSUME NEW w \in Lists, NEW n \in Nat
  PROVE  /\ Written(w, n) \in Seq(Cells) /\ Len(Written(w, n)) = n
         /\ \A i \in 1..n : Written(w, n)[i] = Cell(w, i)
<1>1. \A i \in 1..n : Cell(w, i) \in Cells
  BY CellTypes
<1> QED
  BY <1>1 DEF Written

\* The next cell of a list, put behind what was written of it.
LEMMA PutNext ==
  ASSUME NEW w \in Lists, NEW n \in Nat
  PROVE  PutCell(Written(w, n), n + 1, Cell(w, n + 1)) = Written(w, n + 1)
<1> DEFINE cells == Written(w, n)
           m == n + 1
           c == Cell(w, m)
           a == PutCell(cells, m, c)
           b == Written(w, m)
<1>1. m \in Nat \ {0} /\ m > n /\ \A i \in 1..m : i # m => i \in 1..n
  OBVIOUS
<1>1a. c \in Cells
  BY <1>1, CellTypes
<1>2. cells \in Seq(Cells) /\ Len(cells) = n /\ \A i \in 1..n : cells[i] = Cell(w, i)
  BY WrittenIsFile
<1>3. b \in Seq(Cells) /\ Len(b) = m /\ \A i \in 1..m : b[i] = Cell(w, i)
  BY <1>1, WrittenIsFile
<1> HIDE DEF cells, m
<1>4. /\ a \in Seq(Cells)
      /\ Len(a) = (IF m > Len(cells) THEN m ELSE Len(cells))
      /\ \A i \in 1..Len(a) :
           a[i] = IF i = m THEN c ELSE IF i \in 1..Len(cells) THEN cells[i] ELSE Hole
  <2> HIDE DEF c
  <2> QED
    BY <1>1a, <1>1, <1>2, PutCellIsFile
<1> HIDE DEF a, b
<1>5. Len(a) = m /\ \A i \in 1..m : a[i] = Cell(w, i)
  BY <1>1, <1>2, <1>4
<1>6. a = b
  BY <1>1, <1>3, <1>4, <1>5, SeqEqual
<1> QED
  BY <1>6 DEF a, b, cells, m

-----------------------------------------------------------------------------
(***************************************************************************)
(* What Unmarshal makes of cells.                                          *)
(***************************************************************************)
LEMMA FittingPieces ==
  ASSUME NEW cells \in Seq(Cells), Fits(cells)
  PROVE  Pieces(cells) \subseteq Lists
<1>1. \A i \in DOMAIN cells : i # 0 /\ cells[i] \in Cells /\ cells[i].pos = i
  BY DEF Fits
<1> QED
  BY <1>1, CellTypes DEF Pieces

LEMMA UnmarshalGives ==
  ASSUME NEW cells \in Seq(Cells), NEW tools \in Unmarshal(cells)
  PROVE  tools \subseteq Lists /\ tools \subseteq Pieces(cells)
  BY FittingPieces DEF Unmarshal, NoTools

\* A list that was written whole is read as itself, a part of one as nothing.
LEMMA UnmarshalWritten ==
  ASSUME NEW w \in Lists, NEW n \in Nat, n <= Size[w]
  PROVE  Unmarshal(Written(w, n)) = IF n = Size[w] THEN {{w}} ELSE {NoTools}
<1> DEFINE cells == Written(w, n)
<1>0. cells \in Seq(Cells) /\ Len(cells) = n /\ \A i \in 1..n : cells[i] = Cell(w, i)
  BY WrittenIsFile
<1>2. Size[w] \in Nat \ {0}
  OBVIOUS
<1> HIDE DEF cells
<1>1. /\ cells \in Seq(Cells) /\ Len(cells) = n /\ DOMAIN cells = 1..n
      /\ \A i \in 1..n : cells[i].of = w /\ cells[i].pos = i
  <2>1. \A i \in 1..n : i \in Nat
    OBVIOUS
  <2>2. \A i \in 1..n : cells[i].of = w /\ cells[i].pos = i
    BY <1>0, <2>1, CellTypes
  <2> QED
    BY <1>0, <2>2
<1>3. CASE n = Size[w]
  <2>1. Fits(cells)
    BY <1>1, <1>2, <1>3 DEF Fits
  <2>2. Pieces(cells) = {w}
    BY <1>1, <1>2, <1>3 DEF Pieces
  <2> QED
    BY <1>3, <2>1, <2>2 DEF Unmarshal, cells
<1>4. CASE n # Size[w]
  <2>1. ~Fits(cells)
    BY <1>1, <1>4 DEF Fits
  <2> QED
    BY <1>4, <2>1 DEF Unmarshal, cells
<1> QED
  BY <1>3, <1>4

-----------------------------------------------------------------------------
(***************************************************************************)
(* Types.                                                                  *)
(***************************************************************************)
Loads ==
  {Idle}
  \cup [at : {"loading"}, server : Servers, got : Seq(Cells), quiet : BOOLEAN]
  \cup [at : {"loaded"}, server : Servers, tools : SUBSET Lists]

\* What opening a file to write it, or a write, does to the loads under way.
LEMMA DisturbKeeps ==
  ASSUME TypeOK, NEW f, Disturb(f)
  PROVE  /\ load' \in [Loaders -> Loads]
         /\ \A q \in Loaders :
              /\ load'[q].at = load[q].at
              /\ load[q].at = "loading" =>
                   /\ load'[q].server = load[q].server /\ load'[q].got = load[q].got
                   /\ load'[q].quiet => load[q].quiet /\ cacheFile(load[q].server) # f
              /\ load[q].at # "loading" => load'[q] = load[q]
<1>1. load \in [Loaders -> Loads]
  BY DEF TypeOK, Loads
<1>2. ASSUME NEW q \in Loaders
      PROVE  load'[q] = IF load[q].at = "loading" /\ cacheFile(load[q].server) = f
                        THEN Loading(load[q].server, load[q].got, FALSE) ELSE load[q]
  BY DEF Disturb
<1>3. ASSUME NEW q \in Loaders, load[q].at = "loading"
      PROVE  load[q].server \in Servers /\ load[q].got \in Seq(Cells)
  BY <1>1, <1>3 DEF Loads, Idle, Loading
<1>4. ASSUME NEW s \in Servers, NEW got \in Seq(Cells)
      PROVE  Loading(s, got, FALSE) \in Loads
  BY DEF Loads, Loading
<1>5. ASSUME NEW q \in Loaders PROVE load'[q] \in Loads
  <2>1. CASE load[q].at = "loading" /\ cacheFile(load[q].server) = f
    <3>1. load'[q] = Loading(load[q].server, load[q].got, FALSE)
      BY <1>2, <2>1
    <3>2. load[q].server \in Servers /\ load[q].got \in Seq(Cells)
      BY <1>3, <2>1
    <3>3. Loading(load[q].server, load[q].got, FALSE) \in Loads
      BY <1>4, <3>2, Zenon
    <3> QED
      BY <3>1, <3>3, Zenon
  <2>2. CASE ~(load[q].at = "loading" /\ cacheFile(load[q].server) = f)
    <3>1. load'[q] = load[q] /\ load[q] \in Loads
      BY <1>1, <1>2, <2>2
    <3> QED
      BY <3>1
  <2> QED
    BY <2>1, <2>2
<1> QED
  BY <1>2, <1>3, <1>5 DEF Disturb, Loading

LEMMA StepTypeOK == TypeOK /\ [Next]_vars => TypeOK'
<1> SUFFICES ASSUME TypeOK, [Next]_vars PROVE TypeOK'
  OBVIOUS
<1> USE DEF TypeOK, Idle, Saving, Loading, Loaded
<1>1. ASSUME NEW p \in Savers, NEW w \in Lists, OpenFile(p, w) PROVE TypeOK'
  <2>1. FileOf(w) \in Files
    BY FileOfType
  <2>2. file' \in [Files -> Seq(Cells)] /\ save' \in [Savers -> {Idle} \cup [at : {"saving"}, w : Lists, pos : Nat]]
    BY <1>1, <2>1 DEF OpenFile, Begin
  <2>3. saved' \in [Files -> Lists \cup {NoList}] /\ crossed' \subseteq Files
    BY <1>1, <2>1 DEF OpenFile, Begin
  <2>4. load' \in [Loaders -> Loads]
    BY <1>1, DisturbKeeps DEF OpenFile, Begin
  <2> QED
    BY <2>2, <2>3, <2>4 DEF Loads
<1>2. ASSUME NEW p \in Savers, Write(p) PROVE TypeOK'
  <2> DEFINE w == save[p].w
             n == save[p].pos + 1
  <2>1. w \in Lists /\ n \in Nat \ {0} /\ FileOf(w) \in Files
    BY <1>2, FileOfType DEF Write
  <2>2. file' = [file EXCEPT ![FileOf(w)] = PutCell(@, n, Cell(w, n))]
    BY <1>2 DEF Write
  <2>3. PutCell(file[FileOf(w)], n, Cell(w, n)) \in Seq(Cells)
    BY <2>1, CellTypes, PutCellIsFile
  <2>4. file' \in [Files -> Seq(Cells)]
    BY <2>1, <2>2, <2>3
  <2>5. load' \in [Loaders -> Loads]
    BY <1>2, DisturbKeeps DEF Write
  <2>6. save' \in [Savers -> {Idle} \cup [at : {"saving"}, w : Lists, pos : Nat]]
    BY <1>2, <2>1 DEF Write
  <2> QED
    BY <1>2, <2>4, <2>5, <2>6 DEF Write, Loads
<1>3. ASSUME NEW p \in Savers, SaveOK(p) PROVE TypeOK'
  <2>1. save[p].w \in Lists /\ FileOf(save[p].w) \in Files
    BY <1>3, FileOfType DEF SaveOK
  <2> QED
    BY <1>3, <2>1 DEF SaveOK
<1>4. ASSUME NEW p \in Savers, SaveFailed(p) PROVE TypeOK'
  BY <1>4 DEF SaveFailed
<1>5. ASSUME NEW p \in Loaders, NEW s \in Servers, OpenToLoad(p, s) PROVE TypeOK'
  BY <1>5 DEF OpenToLoad
<1>6. ASSUME NEW p \in Loaders, Read(p) PROVE TypeOK'
  <2> DEFINE f == cacheFile(load[p].server)
             n == Len(load[p].got) + 1
  <2>1. load[p].server \in Servers /\ load[p].got \in Seq(Cells) /\ load[p].quiet \in BOOLEAN
    BY <1>6 DEF Read
  <2>2. f \in Files /\ file[f] \in Seq(Cells)
    BY <2>1 DEF Files
  <2>3. n \in 1..Len(file[f])
    BY <1>6, <2>1, <2>2 DEF Read
  <2>4. Append(load[p].got, file[f][n]) \in Seq(Cells)
    BY <2>1, <2>2, <2>3
  <2>5. load' = [load EXCEPT ![p] = Loading(load[p].server, Append(load[p].got, file[f][n]), load[p].quiet)]
    BY <1>6 DEF Read
  <2>6. load'[p] \in [at : {"loading"}, server : Servers, got : Seq(Cells), quiet : BOOLEAN]
    BY <2>1, <2>4, <2>5
  <2> HIDE DEF f, n
  <2> QED
    BY <1>6, <2>5, <2>6 DEF Read
<1>7. ASSUME NEW p \in Loaders, ReadEnd(p) PROVE TypeOK'
  <2>1. load[p].server \in Servers /\ load[p].got \in Seq(Cells)
    BY <1>7 DEF ReadEnd
  <2>2. PICK tools \in Unmarshal(load[p].got) :
          load' = [load EXCEPT ![p] = Loaded(load[p].server, tools)]
    BY <1>7 DEF ReadEnd
  <2>3. tools \subseteq Lists
    BY <2>1, UnmarshalGives
  <2> QED
    BY <1>7, <2>1, <2>2, <2>3 DEF ReadEnd
<1>8. CASE Restart
  BY <1>8 DEF Restart
<1>9. CASE UNCHANGED vars
  BY <1>9 DEF vars
<1> QED
  BY <1>1, <1>2, <1>3, <1>4, <1>5, <1>6, <1>7, <1>8, <1>9 DEF Next, SaverStep, LoaderStep

\* Every variable has its type: no load returns anything that is not a list of tools, not even
\* of a file that two saves and a restart have left.
THEOREM TypeCorrect == Spec => []TypeOK
<1>1. Init => TypeOK
  BY DEF Init, TypeOK
<1> QED
  BY <1>1, StepTypeOK, PTL DEF Spec

-----------------------------------------------------------------------------
(***************************************************************************)
(* What a file holds. FileIsOneSave says nothing of how far a save under   *)
(* way has got, so it does not survive the next write; FileInv does: a     *)
(* file in which no two saves met has at most one saver, and holds what    *)
(* that one has written.                                                   *)
(***************************************************************************)
Whole(f) == saved[f] # NoList => file[f] = Written(saved[f], Size[saved[f]])
Part(f) == \E w \in Lists, n \in Nat : n <= Size[w] /\ file[f] = Written(w, n)
AloneWith(p, f) ==
  /\ saved[f] = NoList /\ save[p].pos <= Size[save[p].w]
  /\ file[f] = Written(save[p].w, save[p].pos)

OneFile(f) ==
  /\ \A p, q \in SavingTo(f) : p = q
  /\ \A p \in SavingTo(f) : AloneWith(p, f)
  /\ Whole(f) /\ Part(f)
FileInv == \A f \in Files \ crossed : OneFile(f)

LEMMA SaverType ==
  ASSUME TypeOK, NEW p \in Savers, save[p].at = "saving"
  PROVE  save[p].w \in Lists /\ save[p].pos \in Nat
         /\ Size[save[p].w] \in Nat \ {0} /\ FileOf(save[p].w) \in Files
  BY FileOfType DEF TypeOK, Idle

LEMMA SameFile ==
  ASSUME NEW f \in Files, Whole(f), Part(f), file'[f] = file[f], saved'[f] = saved[f]
  PROVE  Whole(f)' /\ Part(f)'
  BY DEF Whole, Part

\* A step of p on the file of its list leaves the savers of the other files alone.
LEMMA OtherFiles ==
  ASSUME NEW f \in Files, OneFile(f), file'[f] = file[f], saved'[f] = saved[f],
         SavingTo(f)' = SavingTo(f), \A p \in SavingTo(f) : save'[p] = save[p]
  PROVE  OneFile(f)'
  BY DEF OneFile, AloneWith, Whole, Part

LEMMA StepFileInv == TypeOK /\ FileInv /\ [Next]_vars => FileInv'
<1> SUFFICES ASSUME TypeOK, FileInv, [Next]_vars, NEW f \in Files, f \notin crossed'
             PROVE  OneFile(f)'
  BY DEF FileInv
<1>1. ASSUME NEW p \in Savers, NEW w \in Lists, OpenFile(p, w) PROVE OneFile(f)'
  <2>1. /\ save[p] = Idle /\ save' = [save EXCEPT ![p] = Saving(w, 0)]
        /\ save \in [Savers -> {Idle} \cup [at : {"saving"}, w : Lists, pos : Nat]]
        /\ file \in [Files -> Seq(Cells)] /\ saved \in [Files -> Lists \cup {NoList}]
    BY <1>1 DEF OpenFile, Begin, TypeOK
  <2>2. FileOf(w) \in Files
    BY FileOfType
  <2>3. p \notin SavingTo(f)
    BY <2>1 DEF SavingTo, Idle
  <2>4. CASE f = FileOf(w)
    <3>1. SavingTo(f) = {}
      BY <1>1, <2>4 DEF OpenFile, Begin
    <3>2. SavingTo(f)' = {p} /\ save'[p] = Saving(w, 0)
      BY <2>1, <2>4, <3>1 DEF SavingTo, Saving, FileOf
    <3>3. file'[f] = <<>> /\ saved'[f] = NoList
      BY <1>1, <2>1, <2>2, <2>4 DEF OpenFile, Begin
    <3>4. Written(w, 0) = <<>> /\ 0 <= Size[w]
      BY DEF Written
    <3>5. AloneWith(p, f)'
      BY <3>2, <3>3, <3>4 DEF AloneWith, Saving, Written
    <3>6. Whole(f)' /\ Part(f)'
      BY <3>3, <3>4 DEF Whole, Part, Written
    <3> QED
      BY <3>2, <3>5, <3>6 DEF OneFile
  <2>5. CASE f # FileOf(w)
    <3>1. f \notin crossed /\ file'[f] = file[f] /\ saved'[f] = saved[f]
      BY <1>1, <2>1, <2>2, <2>5 DEF OpenFile, Begin
    <3>2. SavingTo(f)' = SavingTo(f) /\ \A q \in SavingTo(f) : save'[q] = save[q]
      BY <2>1, <2>3, <2>5 DEF SavingTo, Saving, FileOf
    <3> QED
      BY <3>1, <3>2, OtherFiles DEF FileInv
  <2> QED
    BY <2>4, <2>5
<1>2. ASSUME NEW p \in Savers, Write(p) PROVE OneFile(f)'
  <2> DEFINE w == save[p].w
             n == save[p].pos
  <2>1. /\ save[p].at = "saving" /\ n + 1 <= Size[w]
        /\ file' = [file EXCEPT ![FileOf(w)] = PutCell(@, n + 1, Cell(w, n + 1))]
        /\ save' = [save EXCEPT ![p] = Saving(w, n + 1)]
        /\ saved' = saved /\ f \notin crossed
    BY <1>2 DEF Write
  <2>2. w \in Lists /\ n \in Nat /\ Size[w] \in Nat /\ FileOf(w) \in Files
    BY <2>1, SaverType
  <2>3. /\ save \in [Savers -> {Idle} \cup [at : {"saving"}, w : Lists, pos : Nat]]
        /\ file \in [Files -> Seq(Cells)]
    BY DEF TypeOK
  <2>4. SavingTo(f)' = SavingTo(f)
    BY <2>1, <2>3 DEF SavingTo, Saving, FileOf
  <2>5. CASE f = FileOf(w)
    <3>1. p \in SavingTo(f) /\ AloneWith(p, f) /\ \A q \in SavingTo(f) : q = p
      BY <2>1, <2>5 DEF SavingTo, FileInv, OneFile
    <3>2. file'[f] = Written(w, n + 1)
      BY <2>1, <2>2, <2>3, <2>5, <3>1, PutNext DEF AloneWith
    <3>3. save'[p] = Saving(w, n + 1)
      BY <2>1, <2>3
    <3>4. AloneWith(p, f)'
      <4>1. save'[p].w = w /\ save'[p].pos = n + 1
        BY <3>3 DEF Saving
      <4>2. (file[f] = Written(save[p].w, save[p].pos))'
        BY <3>2, <4>1, Zenon DEF Written
      <4> QED
        BY <2>1, <3>1, <4>1, <4>2 DEF AloneWith
    <3>5. Whole(f)' /\ Part(f)'
      <4>1. saved'[f] = NoList
        BY <2>1, <3>1 DEF AloneWith
      <4>2. (\E v \in Lists, k \in Nat : k <= Size[v] /\ file[f] = Written(v, k))'
        <5>1. n + 1 \in Nat
          BY <2>2
        <5> QED
          BY <2>1, <2>2, <3>2, <5>1, Zenon DEF Written
      <4> QED
        BY <4>1, <4>2 DEF Whole, Part
    <3> QED
      BY <2>4, <3>1, <3>4, <3>5 DEF OneFile
  <2>6. CASE f # FileOf(w)
    <3>1. p \notin SavingTo(f) /\ file'[f] = file[f]
      BY <2>1, <2>2, <2>3, <2>6 DEF SavingTo
    <3>2. \A q \in SavingTo(f) : save'[q] = save[q]
      BY <2>1, <2>3, <3>1 DEF SavingTo
    <3> QED
      BY <2>1, <2>4, <3>1, <3>2, OtherFiles DEF FileInv
  <2> QED
    BY <2>5, <2>6
<1>3. ASSUME NEW p \in Savers, SaveOK(p) \/ SaveFailed(p) PROVE OneFile(f)'
  <2> DEFINE w == save[p].w
  <2>1. /\ save[p].at = "saving" /\ f \notin crossed /\ file' = file
        /\ save' = [save EXCEPT ![p] = Idle]
        /\ saved' = saved \/ (save[p].pos = Size[w] /\ saved' = [saved EXCEPT ![FileOf(w)] = w])
    BY <1>3 DEF SaveOK, SaveFailed
  <2>2. w \in Lists /\ FileOf(w) \in Files /\ OneFile(f)
    BY <2>1, SaverType DEF FileInv
  <2>3. /\ save \in [Savers -> {Idle} \cup [at : {"saving"}, w : Lists, pos : Nat]]
        /\ saved \in [Files -> Lists \cup {NoList}]
    BY DEF TypeOK
  <2>4. SavingTo(f)' = SavingTo(f) \ {p} /\ \A q \in SavingTo(f) \ {p} : save'[q] = save[q]
    BY <2>1, <2>3 DEF SavingTo, Idle
  <2>5. CASE f = FileOf(w)
    <3>1. p \in SavingTo(f)
      BY <2>1, <2>5 DEF SavingTo
    <3>2. AloneWith(p, f) /\ SavingTo(f)' = {}
      BY <2>2, <2>4, <3>1 DEF OneFile
    <3>3. Whole(f)'
      BY <2>1, <2>2, <2>3, <2>5, <3>2 DEF Whole, AloneWith, Written
    <3> QED
      BY <2>1, <2>2, <3>2, <3>3 DEF OneFile, Part, Written
  <2>6. CASE f # FileOf(w)
    <3>1. p \notin SavingTo(f) /\ saved'[f] = saved[f]
      BY <2>1, <2>2, <2>3, <2>6 DEF SavingTo
    <3> QED
      BY <2>1, <2>2, <2>4, <3>1, OtherFiles
  <2> QED
    BY <2>5, <2>6
<1>4. CASE Restart
  <2>1. SavingTo(f)' = {}
    BY <1>4 DEF Restart, SavingTo, Idle
  <2>2. Whole(f)' /\ Part(f)'
    BY <1>4, SameFile DEF Restart, FileInv, OneFile
  <2> QED
    BY <2>1, <2>2 DEF OneFile
<1>5. CASE UNCHANGED <<file, save, saved, crossed>>
  <2>1. SavingTo(f)' = SavingTo(f)
    BY <1>5 DEF SavingTo
  <2> QED
    BY <1>5, <2>1, OtherFiles DEF FileInv
<1> QED
  BY <1>1, <1>2, <1>3, <1>4, <1>5 DEF Next, SaverStep, LoaderStep, OpenToLoad, Read, ReadEnd, vars

LEMMA InitFileInv ==
  ASSUME Lists # {}
  PROVE  Init => FileInv
<1> SUFFICES ASSUME Init, NEW f \in Files PROVE OneFile(f)
  BY DEF FileInv
<1>1. PICK w \in Lists : TRUE
  OBVIOUS
<1>2. SavingTo(f) = {} /\ saved[f] = NoList /\ file[f] = Written(w, 0) /\ 0 <= Size[w]
  BY DEF Init, SavingTo, Idle, Written
<1> QED
  BY <1>2 DEF OneFile, Whole, Part

\* A file in which no two saves met holds the last save that went well, or the part of the last
\* one that was written, for any number of savers, files and lists, through restarts.
THEOREM FilesAreOneSave ==
  ASSUME Lists # {}
  PROVE  Spec => []FileIsOneSave
<1>1. Init => FileInv
  BY InitFileInv
<1>2. TypeOK /\ FileInv => FileIsOneSave
  <2> SUFFICES ASSUME TypeOK, FileInv, NEW f \in Files \ crossed
               PROVE  /\ Whole(f)
                      /\ \E w \in Lists, n \in 0..Len(file[f]) : n <= Size[w] /\ file[f] = Written(w, n)
    BY DEF FileIsOneSave, Whole
  <2>1. PICK w \in Lists, n \in Nat : n <= Size[w] /\ file[f] = Written(w, n)
    BY DEF FileInv, OneFile, Part
  <2>2. n \in 0..Len(file[f])
    BY <2>1, WrittenIsFile
  <2> QED
    BY <2>1, <2>2 DEF FileInv, OneFile
<1> QED
  BY <1>1, <1>2, StepFileInv, TypeCorrect, PTL DEF Spec

-----------------------------------------------------------------------------
(***************************************************************************)
(* Whose tools a load returns: every piece in a file, or read from it, is  *)
(* of a list that is saved there.                                          *)
(***************************************************************************)
FilePlaced(f) ==
  \A i \in 1..Len(file[f]) : file[f][i].of \in Lists => FileOf(file[f][i].of) = f

LoadPlaced(p) ==
  LET f == cacheFile(load[p].server) IN
  /\ load[p].at = "loading" =>
       \A i \in 1..Len(load[p].got) : load[p].got[i].of \in Lists => FileOf(load[p].got[i].of) = f
  /\ load[p].at = "loaded" => \A w \in load[p].tools : FileOf(w) = f

PlaceInv == (\A f \in Files : FilePlaced(f)) /\ (\A p \in Loaders : LoadPlaced(p))

LEMMA SamePlace ==
  ASSUME NEW f \in Files, FilePlaced(f), file'[f] = file[f]
  PROVE  FilePlaced(f)'
  BY DEF FilePlaced, FileOf, cacheFile

LEMMA SameLoad ==
  ASSUME NEW p \in Loaders, LoadPlaced(p), load'[p] = load[p]
  PROVE  LoadPlaced(p)'
  BY DEF LoadPlaced, FileOf, cacheFile

LEMMA DisturbedLoad ==
  ASSUME TypeOK, NEW f, Disturb(f), NEW p \in Loaders, LoadPlaced(p)
  PROVE  LoadPlaced(p)'
<1>1. CASE load'[p] = load[p]
  BY <1>1, SameLoad
<1>2. CASE load'[p] # load[p]
  <2>1. /\ load[p].at = "loading"
        /\ load'[p] = Loading(load[p].server, load[p].got, FALSE)
    BY <1>2 DEF Disturb
  <2>2. load'[p].at = "loading" /\ load'[p].server = load[p].server /\ load'[p].got = load[p].got
    BY <2>1 DEF Loading
  <2> QED
    BY <2>1, <2>2 DEF LoadPlaced, FileOf, cacheFile
<1> QED
  BY <1>1, <1>2

LEMMA LoaderType ==
  ASSUME TypeOK, NEW p \in Loaders, load[p].at = "loading"
  PROVE  /\ load[p].server \in Servers /\ cacheFile(load[p].server) \in Files
         /\ load[p].got \in Seq(Cells) /\ load[p].quiet \in BOOLEAN
         /\ file[cacheFile(load[p].server)] \in Seq(Cells)
  BY DEF TypeOK, Idle, Files

\* What a load that has read one more cell has.
LEMMA ReadOne ==
  ASSUME TypeOK, NEW p \in Loaders, Read(p)
  PROVE  LET cells == file[cacheFile(load[p].server)]
             got == load[p].got
         IN /\ load[p].at = "loading" /\ Len(got) + 1 <= Len(cells)
            /\ load'[p].at = "loading" /\ load'[p].server = load[p].server
            /\ load'[p].quiet = load[p].quiet
            /\ load'[p].got \in Seq(Cells) /\ Len(load'[p].got) = Len(got) + 1
            /\ \A i \in 1..(Len(got) + 1) :
                 load'[p].got[i] = IF i = Len(got) + 1 THEN cells[i] ELSE got[i]
            /\ \A q \in Loaders \ {p} : load'[q] = load[q]
<1> DEFINE cells == file[cacheFile(load[p].server)]
           got == load[p].got
           more == Append(got, cells[Len(got) + 1])
<1>1. load[p].at = "loading" /\ Len(got) + 1 <= Len(cells)
      /\ load' = [load EXCEPT ![p] = Loading(load[p].server, more, load[p].quiet)]
  BY DEF Read
<1>2. got \in Seq(Cells) /\ cells \in Seq(Cells)
  BY <1>1, LoaderType
<1> HIDE DEF cells, got
<1>3. more \in Seq(Cells) /\ Len(more) = Len(got) + 1
      /\ \A i \in 1..(Len(got) + 1) : more[i] = IF i = Len(got) + 1 THEN cells[i] ELSE got[i]
  BY <1>1, <1>2
<1>4. load'[p] = Loading(load[p].server, more, load[p].quiet)
      /\ \A q \in Loaders \ {p} : load'[q] = load[q]
  BY <1>1 DEF TypeOK
<1>5. load'[p].at = "loading" /\ load'[p].server = load[p].server
      /\ load'[p].got = more /\ load'[p].quiet = load[p].quiet
  BY <1>4 DEF Loading
<1> QED
  BY <1>1, <1>3, <1>4, <1>5 DEF cells, got

LEMMA StepPlaceInv == TypeOK /\ PlaceInv /\ [Next]_vars => PlaceInv'
<1> SUFFICES ASSUME TypeOK, PlaceInv, [Next]_vars PROVE PlaceInv'
  OBVIOUS
<1>0. (\A f \in Files : FilePlaced(f)) /\ (\A p \in Loaders : LoadPlaced(p))
  BY DEF PlaceInv
<1>a. (\A f \in Files : FilePlaced(f)') /\ (\A p \in Loaders : LoadPlaced(p)') => PlaceInv'
  BY DEF PlaceInv, Files, cacheFile
<1>b. UNCHANGED file => \A f \in Files : FilePlaced(f)'
  BY <1>0, SamePlace
<1>c. UNCHANGED load => \A p \in Loaders : LoadPlaced(p)'
  BY <1>0, SameLoad
<1>1. ASSUME NEW p \in Savers, NEW w \in Lists, OpenFile(p, w) PROVE PlaceInv'
  <2>1. file' = [file EXCEPT ![FileOf(w)] = <<>>] /\ Disturb(FileOf(w)) /\ file \in [Files -> Seq(Cells)]
    BY <1>1 DEF OpenFile, Begin, TypeOK
  <2>2. ASSUME NEW f \in Files PROVE FilePlaced(f)'
    <3>1. CASE f = FileOf(w)
      <4>1. file'[f] = <<>>
        BY <2>1, <3>1
      <4> QED
        BY <4>1 DEF FilePlaced
    <3>2. CASE f # FileOf(w)
      BY <1>0, <2>1, <3>2, SamePlace
    <3> QED
      BY <3>1, <3>2
  <2> QED
    BY <1>0, <1>a, <2>1, <2>2, DisturbedLoad
<1>2. ASSUME NEW p \in Savers, Write(p) PROVE PlaceInv'
  <2> DEFINE w == save[p].w
             n == save[p].pos + 1
             c == Cell(w, n)
  <2>1. /\ file' = [file EXCEPT ![FileOf(w)] = PutCell(@, n, c)]
        /\ Disturb(FileOf(w)) /\ file \in [Files -> Seq(Cells)]
    BY <1>2 DEF Write, TypeOK
  <2>2. w \in Lists /\ n \in Nat \ {0} /\ FileOf(w) \in Files
    BY <1>2, SaverType DEF Write
  <2>3. c \in Cells /\ c.of = w
    BY <2>2, CellTypes
  <2>4. ASSUME NEW f \in Files PROVE FilePlaced(f)'
    <3>1. CASE f = FileOf(w)
      <4> DEFINE cells == file[f]
                 put == PutCell(cells, n, c)
      <4>0. cells \in Seq(Cells)
        BY <2>1
      <4>1. put \in Seq(Cells) /\ \A i \in 1..Len(put) :
              put[i] = IF i = n THEN c ELSE IF i \in 1..Len(cells) THEN cells[i] ELSE Hole
        <5>1. n \in Nat \ {0} /\ c \in Cells
          BY <2>2, <2>3
        <5> HIDE DEF c, n, cells
        <5> QED
          BY <5>1, <4>0, PutCellIsFile
      <4>2. file'[f] = put
        BY <2>1, <3>1
      <4>3. \A i \in 1..Len(cells) : cells[i].of \in Lists => FileOf(cells[i].of) = f
        BY <1>0 DEF FilePlaced
      <4>4. FileOf(c.of) = f
        BY <2>3, <3>1
      <4> HIDE DEF put, c, n, cells
      <4>5. \A i \in 1..Len(put) : put[i].of \in Lists => FileOf(put[i].of) = f
        BY <4>1, <4>3, <4>4, CellTypes
      <4> QED
        BY <4>2, <4>5 DEF FilePlaced, FileOf, cacheFile
    <3>2. CASE f # FileOf(w)
      BY <1>0, <2>1, <3>2, SamePlace
    <3> QED
      BY <3>1, <3>2
  <2> HIDE DEF w
  <2> QED
    BY <1>0, <1>a, <2>1, <2>4, DisturbedLoad
<1>3. ASSUME NEW p \in Savers, SaveOK(p) \/ SaveFailed(p) PROVE PlaceInv'
  BY <1>3, <1>a, <1>b, <1>c DEF SaveOK, SaveFailed
<1>4. ASSUME NEW p \in Loaders, NEW s \in Servers, OpenToLoad(p, s) PROVE PlaceInv'
  <2>1. load'[p] = Loading(s, <<>>, SavingTo(cacheFile(s)) = {}) /\ \A q \in Loaders \ {p} : load'[q] = load[q]
    BY <1>4 DEF OpenToLoad, TypeOK
  <2>2. load'[p].at = "loading" /\ load'[p].got = <<>>
    BY <2>1 DEF Loading
  <2>3. LoadPlaced(p)'
    BY <2>2 DEF LoadPlaced
  <2>4. \A q \in Loaders : LoadPlaced(q)'
    BY <1>0, <2>1, <2>3, SameLoad
  <2> QED
    BY <1>4, <1>a, <1>b, <2>4 DEF OpenToLoad
<1>5. ASSUME NEW p \in Loaders, Read(p) PROVE PlaceInv'
  <2> DEFINE f == cacheFile(load[p].server)
             cells == file[f]
             got == load[p].got
             more == load'[p].got
  <2>1. load[p].at = "loading" /\ LoadPlaced(p) /\ f \in Files /\ FilePlaced(f)
        /\ got \in Seq(Cells) /\ cells \in Seq(Cells)
    BY <1>0, <1>5, LoaderType DEF Read
  <2>2. /\ \A i \in 1..Len(cells) : cells[i].of \in Lists => FileOf(cells[i].of) = f
        /\ \A i \in 1..Len(got) : got[i].of \in Lists => FileOf(got[i].of) = f
    BY <2>1 DEF FilePlaced, LoadPlaced
  <2>3. /\ Len(got) + 1 <= Len(cells) /\ Len(more) = Len(got) + 1
        /\ \A i \in 1..(Len(got) + 1) : more[i] = IF i = Len(got) + 1 THEN cells[i] ELSE got[i]
    BY <1>5, ReadOne
  <2>4. load'[p].at = "loading" /\ load'[p].server = load[p].server
        /\ \A q \in Loaders \ {p} : load'[q] = load[q]
    BY <1>5, ReadOne
  <2>5. \A i \in 1..Len(more) : more[i].of \in Lists => FileOf(more[i].of) = f
    <3> HIDE DEF f, cells, got, more
    <3> QED
      BY <2>1, <2>2, <2>3
  <2>6. LoadPlaced(p)'
    BY <2>4, <2>5 DEF LoadPlaced, FileOf, cacheFile
  <2>7. \A q \in Loaders : LoadPlaced(q)'
    BY <1>0, <2>4, <2>6, SameLoad
  <2> QED
    BY <1>5, <1>a, <1>b, <2>7 DEF Read
<1>6. ASSUME NEW p \in Loaders, ReadEnd(p) PROVE PlaceInv'
  <2> DEFINE f == cacheFile(load[p].server)
             got == load[p].got
  <2>1. PICK tools \in Unmarshal(got) : load' = [load EXCEPT ![p] = Loaded(load[p].server, tools)]
    BY <1>6 DEF ReadEnd
  <2>2. got \in Seq(Cells) /\ \A i \in 1..Len(got) : got[i].of \in Lists => FileOf(got[i].of) = f
    BY <1>0, <1>6, LoaderType DEF ReadEnd, LoadPlaced
  <2>3. \A w \in tools : FileOf(w) = f
    <3> HIDE DEF f, got
    <3>1. tools \subseteq Lists /\ tools \subseteq Pieces(got)
      BY <2>1, <2>2, UnmarshalGives
    <3>2. DOMAIN got = 1..Len(got)
      BY <2>2
    <3> QED
      BY <2>2, <3>1, <3>2 DEF Pieces
  <2>4. load'[p] = Loaded(load[p].server, tools) /\ \A q \in Loaders \ {p} : load'[q] = load[q]
    BY <2>1 DEF TypeOK
  <2>5. load'[p].at = "loaded" /\ load'[p].server = load[p].server /\ load'[p].tools = tools
    BY <2>4 DEF Loaded
  <2>6. LoadPlaced(p)'
    BY <2>3, <2>5 DEF LoadPlaced, FileOf, cacheFile
  <2>7. \A q \in Loaders : LoadPlaced(q)'
    BY <1>0, <2>4, <2>6, SameLoad
  <2> QED
    BY <1>6, <1>a, <1>b, <2>7 DEF ReadEnd
<1>7. CASE Restart
  <2>1. ASSUME NEW p \in Loaders PROVE LoadPlaced(p)'
    BY <1>7 DEF Restart, Idle, LoadPlaced
  <2> QED
    BY <1>7, <1>a, <1>b, <2>1 DEF Restart
<1>8. CASE UNCHANGED vars
  BY <1>8, <1>a, <1>b, <1>c DEF vars
<1> QED
  BY <1>1, <1>2, <1>3, <1>4, <1>5, <1>6, <1>7, <1>8 DEF Next, SaverStep, LoaderStep

\* No load returns tools of a server whose name differs in more than separators, whatever
\* saves and restarts it meets.
THEOREM ToolsAreOwn == Spec => []OwnTools
<1>1. Init => PlaceInv
  BY DEF Init, Idle, PlaceInv, FilePlaced, LoadPlaced
<1>2. TypeOK /\ PlaceInv => OwnTools
  BY DEF TypeOK, PlaceInv, LoadPlaced, OwnTools, FileOf, cacheFile
<1> QED
  BY <1>1, <1>2, StepPlaceInv, TypeCorrect, PTL DEF Spec

-----------------------------------------------------------------------------
(***************************************************************************)
(* What a load that nobody disturbs returns: it has read the file as it is *)
(* now, and nobody is writing it.                                          *)
(***************************************************************************)
NotSaved(f) == \A q \in Savers : save[q].at = "saving" => FileOf(save[q].w) # f

ReadSoFar(got, cells) == Len(got) <= Len(cells) /\ \A i \in 1..Len(got) : got[i] = cells[i]

QuietRead(p) ==
  LET f == cacheFile(load[p].server) IN
  load[p].at = "loading" /\ load[p].quiet => NotSaved(f) /\ ReadSoFar(load[p].got, file[f])

QuietInv == \A p \in Loaders : QuietRead(p)

LEMMA StillQuiet ==
  ASSUME NEW p \in Loaders, QuietRead(p), load'[p] = load[p], UNCHANGED file,
         \A q \in Savers : save'[q] = save[q] \/ save'[q] = Idle
  PROVE  QuietRead(p)'
<1> SUFFICES ASSUME load[p].at = "loading", load[p].quiet,
                    NEW q \in Savers, save'[q].at = "saving"
             PROVE  FileOf(save'[q].w) # cacheFile(load[p].server)
  BY DEF QuietRead, NotSaved, ReadSoFar, cacheFile, FileOf
<1> QED
  BY DEF QuietRead, NotSaved, Idle

\* Opening a file to write it, and a write, disturb the loads of that file and no other.
LEMMA WriteKeepsQuiet ==
  ASSUME TypeOK, QuietInv, NEW p \in Savers, NEW f \in Files, Disturb(f),
         \A q \in Savers \ {p} : save'[q] = save[q],
         save'[p].at = "saving" => FileOf(save'[p].w) = f,
         \A g \in Files \ {f} : file'[g] = file[g]
  PROVE  QuietInv'
<1> SUFFICES ASSUME NEW q \in Loaders PROVE QuietRead(q)'
  BY DEF QuietInv
<1> DEFINE g == cacheFile(load[q].server)
<1>1. CASE load'[q].at = "loading" /\ load'[q].quiet
  <2>1. /\ load[q].at = "loading" /\ load[q].quiet /\ g # f
        /\ load'[q].server = load[q].server /\ load'[q].got = load[q].got
    BY <1>1, DisturbKeeps
  <2>2. g \in Files
    BY <2>1, LoaderType
  <2>3. NotSaved(g) /\ ReadSoFar(load[q].got, file[g])
    BY <2>1 DEF QuietInv, QuietRead
  <2>4. file'[g] = file[g]
    BY <2>1, <2>2
  <2>5. ASSUME NEW r \in Savers, save'[r].at = "saving" PROVE FileOf(save'[r].w) # g
    BY <2>1, <2>3, <2>5 DEF NotSaved
  <2> QED
    BY <2>1, <2>3, <2>4, <2>5 DEF QuietRead, NotSaved, ReadSoFar, FileOf, cacheFile
<1>2. CASE ~(load'[q].at = "loading" /\ load'[q].quiet)
  BY <1>2 DEF QuietRead
<1> QED
  BY <1>1, <1>2

LEMMA StepQuietInv == TypeOK /\ QuietInv /\ [Next]_vars => QuietInv'
<1> SUFFICES ASSUME TypeOK, QuietInv, [Next]_vars PROVE QuietInv'
  OBVIOUS
<1>a. \A p \in Loaders : QuietRead(p)
  BY DEF QuietInv
<1>1. ASSUME NEW p \in Savers, NEW w \in Lists, OpenFile(p, w) PROVE QuietInv'
  <2>1. /\ Disturb(FileOf(w)) /\ FileOf(w) \in Files
        /\ save' = [save EXCEPT ![p] = Saving(w, 0)]
        /\ file' = [file EXCEPT ![FileOf(w)] = <<>>]
    BY <1>1, FileOfType DEF OpenFile, Begin
  <2>2. save'[p] = Saving(w, 0) /\ \A q \in Savers \ {p} : save'[q] = save[q]
    BY <2>1 DEF TypeOK
  <2>3. save'[p].w = w
    BY <2>2 DEF Saving
  <2>4. \A g \in Files \ {FileOf(w)} : file'[g] = file[g]
    BY <2>1 DEF TypeOK
  <2> QED
    BY <2>1, <2>2, <2>3, <2>4, WriteKeepsQuiet
<1>2. ASSUME NEW p \in Savers, Write(p) PROVE QuietInv'
  <2> DEFINE w == save[p].w
             n == save[p].pos + 1
  <2>1. /\ Disturb(FileOf(w)) /\ FileOf(w) \in Files
        /\ save' = [save EXCEPT ![p] = Saving(w, n)]
        /\ file' = [file EXCEPT ![FileOf(w)] = PutCell(@, n, Cell(w, n))]
    BY <1>2, SaverType DEF Write
  <2> HIDE DEF w, n
  <2>2. save'[p] = Saving(w, n) /\ \A q \in Savers \ {p} : save'[q] = save[q]
    BY <2>1 DEF TypeOK
  <2>3. save'[p].w = w
    BY <2>2 DEF Saving
  <2>4. \A g \in Files \ {FileOf(w)} : file'[g] = file[g]
    BY <2>1 DEF TypeOK
  <2> QED
    BY <2>1, <2>2, <2>3, <2>4, WriteKeepsQuiet
<1>3. ASSUME NEW p \in Savers, SaveOK(p) \/ SaveFailed(p) PROVE QuietInv'
  <2>1. UNCHANGED <<file, load>> /\ \A q \in Savers : save'[q] = save[q] \/ save'[q] = Idle
    BY <1>3 DEF SaveOK, SaveFailed, TypeOK
  <2> QED
    BY <1>a, <2>1, StillQuiet DEF QuietInv
<1>4. ASSUME NEW p \in Loaders, NEW s \in Servers, OpenToLoad(p, s) PROVE QuietInv'
  <2> DEFINE f == cacheFile(s)
             alone == SavingTo(f) = {}
  <2>1. /\ load'[p] = Loading(s, <<>>, alone)
        /\ UNCHANGED <<file, save>> /\ \A q \in Loaders \ {p} : load'[q] = load[q]
    BY <1>4 DEF OpenToLoad, TypeOK
  <2>2. load'[p].server = s /\ load'[p].got = <<>> /\ load'[p].quiet = alone
    <3> HIDE DEF alone
    <3> QED
      BY <2>1 DEF Loading
  <2>3. file'[f] \in Seq(Cells)
    BY <2>1 DEF TypeOK, Files
  <2>4. alone => \A q \in Savers : save'[q].at = "saving" => FileOf(save'[q].w) # f
    BY <2>1 DEF SavingTo
  <2>5. ReadSoFar(load'[p].got, file'[f])
    BY <2>2, <2>3 DEF ReadSoFar
  <2>6. ASSUME alone PROVE QuietRead(p)'
    <3> HIDE DEF alone
    <3> QED
      BY <2>2, <2>4, <2>5, <2>6 DEF QuietRead, NotSaved, ReadSoFar, FileOf, cacheFile
  <2>7. ASSUME ~alone PROVE QuietRead(p)'
    <3> HIDE DEF alone
    <3>1. ~load'[p].quiet
      BY <2>2, <2>7, Zenon
    <3> QED
      BY <3>1 DEF QuietRead
  <2>8. QuietRead(p)'
    BY <2>6, <2>7
  <2> QED
    BY <1>a, <2>1, <2>8, StillQuiet DEF QuietInv
<1>5. ASSUME NEW p \in Loaders, Read(p) PROVE QuietInv'
  <2> DEFINE f == cacheFile(load[p].server)
             cells == file[f]
             got == load[p].got
             more == load'[p].got
  <2>1. /\ load'[p].at = "loading" /\ load'[p].server = load[p].server
        /\ load'[p].quiet = load[p].quiet /\ UNCHANGED <<file, save>>
        /\ \A q \in Loaders \ {p} : load'[q] = load[q]
    BY <1>5, ReadOne DEF Read
  <2>2. ASSUME load[p].quiet PROVE QuietRead(p)'
    <3>1. load[p].at = "loading" /\ NotSaved(f) /\ ReadSoFar(got, cells)
          /\ got \in Seq(Cells) /\ cells \in Seq(Cells)
      BY <1>a, <1>5, <2>2, LoaderType DEF Read, QuietRead
    <3>2. /\ Len(got) + 1 <= Len(cells) /\ Len(more) = Len(got) + 1
          /\ \A i \in 1..(Len(got) + 1) : more[i] = IF i = Len(got) + 1 THEN cells[i] ELSE got[i]
      BY <1>5, ReadOne
    <3>3. ReadSoFar(more, cells)
      <4> HIDE DEF f, cells, got, more
      <4> QED
        BY <3>1, <3>2 DEF ReadSoFar
    <3>4. /\ ReadSoFar(more, file'[f]) /\ load'[p].server = load[p].server
          /\ \A q \in Savers : save'[q].at = "saving" => FileOf(save'[q].w) # f
      BY <2>1, <3>1, <3>3 DEF NotSaved
    <3> QED
      BY <3>4 DEF QuietRead, NotSaved, ReadSoFar, FileOf, cacheFile
  <2>3. ASSUME ~load[p].quiet PROVE QuietRead(p)'
    <3>1. ~load'[p].quiet
      BY <2>1, <2>3, Zenon
    <3> QED
      BY <3>1 DEF QuietRead
  <2>4. QuietRead(p)'
    BY <2>2, <2>3
  <2> QED
    BY <1>a, <2>1, <2>4, StillQuiet DEF QuietInv
<1>6. ASSUME NEW p \in Loaders, ReadEnd(p) PROVE QuietInv'
  <2>1. PICK tools \in Unmarshal(load[p].got) : load' = [load EXCEPT ![p] = Loaded(load[p].server, tools)]
    BY <1>6 DEF ReadEnd
  <2>2. load'[p] = Loaded(load[p].server, tools) /\ \A q \in Loaders \ {p} : load'[q] = load[q]
    BY <2>1 DEF TypeOK
  <2>3. load'[p].at = "loaded"
    BY <2>2 DEF Loaded
  <2>4. QuietRead(p)'
    BY <2>3 DEF QuietRead
  <2> QED
    BY <1>a, <1>6, <2>2, <2>4, StillQuiet DEF ReadEnd, QuietInv
<1>7. CASE Restart
  BY <1>7 DEF Restart, Idle, QuietInv, QuietRead
<1>8. CASE UNCHANGED vars
  BY <1>8, <1>a, StillQuiet DEF vars, QuietInv
<1> QED
  BY <1>1, <1>2, <1>3, <1>4, <1>5, <1>6, <1>7, <1>8 DEF Next, SaverStep, LoaderStep

\* What ReadEnd makes of a file that is one list, or a part of one.
LEMMA QuietReadEnd ==
  ASSUME TypeOK, FileInv, QuietInv, NEW p \in Loaders, ReadEnd(p), load[p].quiet,
         cacheFile(load[p].server) \notin crossed
  PROVE  LET f == cacheFile(load[p].server) IN
         /\ \A w \in load'[p].tools : load'[p].tools = {w} /\ file[f] = Written(w, Size[w])
         /\ saved[f] # NoList => load'[p].tools = {saved[f]}
<1> DEFINE f == cacheFile(load[p].server)
           got == load[p].got
           tools == load'[p].tools
<1>1. /\ load[p].at = "loading" /\ Len(got) >= Len(file[f])
      /\ f \in Files /\ got \in Seq(Cells) /\ file[f] \in Seq(Cells)
  BY LoaderType DEF ReadEnd
<1>2. ReadSoFar(got, file[f])
  BY <1>1 DEF QuietInv, QuietRead
<1>3. PICK read \in Unmarshal(got) : load' = [load EXCEPT ![p] = Loaded(load[p].server, read)]
  BY DEF ReadEnd
<1>4. load'[p] = Loaded(load[p].server, read)
  BY <1>3 DEF TypeOK
<1>5. tools = read
  BY <1>4 DEF Loaded
<1>6. OneFile(f)
  BY <1>1 DEF FileInv
<1> HIDE DEF f, got, tools
<1>7. got = file[f]
  <2>1. Len(got) = Len(file[f]) /\ \A i \in 1..Len(got) : got[i] = file[f][i]
    BY <1>1, <1>2 DEF ReadSoFar
  <2> QED
    BY <1>1, <2>1, SeqEqual
<1>8. PICK v \in Lists, n \in Nat : n <= Size[v] /\ file[f] = Written(v, n)
  BY <1>6 DEF OneFile, Part
<1>9. Unmarshal(got) = IF n = Size[v] THEN {{v}} ELSE {NoTools}
  BY <1>7, <1>8, UnmarshalWritten
<1>10. \A w \in tools : tools = {w} /\ file[f] = Written(w, Size[w])
  BY <1>3, <1>5, <1>8, <1>9 DEF NoTools
<1>11. ASSUME saved[f] # NoList PROVE tools = {saved[f]}
  <2>1. saved[f] \in Lists /\ Size[saved[f]] \in Nat
    BY <1>1, <1>11 DEF TypeOK
  <2>2. file[f] = Written(saved[f], Size[saved[f]])
    BY <1>6, <1>11 DEF OneFile, Whole
  <2>3. Unmarshal(got) = {{saved[f]}}
    BY <1>7, <2>1, <2>2, UnmarshalWritten
  <2> QED
    BY <1>3, <1>5, <2>3
<1> QED
  BY <1>10, <1>11 DEF f, tools

\* A load that no save disturbed, of a file in which no two saves met, returns the last
\* list saved, or one whole list or none if that save failed.
THEOREM LoadIsLastSave == ASSUME Lists # {} PROVE Spec => LoadsWhatWasSaved
<1> DEFINE LoadStep ==
      \A p \in Loaders :
        LET f == cacheFile(load[p].server) IN
        load[p].at = "loading" /\ load'[p].at = "loaded" /\ load[p].quiet /\ f \notin crossed =>
          /\ \A w \in load'[p].tools : load'[p].tools = {w} /\ file[f] = Written(w, Size[w])
          /\ saved[f] # NoList => load'[p].tools = {saved[f]}
<1>1. Init => QuietInv
  BY DEF Init, Idle, QuietInv, QuietRead
<1>2. TypeOK /\ FileInv /\ QuietInv /\ [Next]_vars => [LoadStep]_vars
  <2> SUFFICES ASSUME TypeOK, FileInv, QuietInv, Next, NEW p \in Loaders,
                      load[p].at = "loading", load'[p].at = "loaded", load[p].quiet,
                      cacheFile(load[p].server) \notin crossed
               PROVE  ReadEnd(p)
    BY QuietReadEnd
  <2>1. ASSUME NEW f, Disturb(f) PROVE FALSE
    BY <2>1, DisturbKeeps
  <2>2. ASSUME NEW q \in Savers, SaverStep(q) PROVE FALSE
    BY <2>1, <2>2 DEF SaverStep, OpenFile, Begin, Write, SaveOK, SaveFailed
  <2>3. ~Restart
    BY DEF Restart, Idle
  <2>4. ASSUME NEW q \in Loaders, NEW s \in Servers, OpenToLoad(q, s) PROVE FALSE
    BY <2>4 DEF OpenToLoad, Loading, TypeOK
  <2>5. ASSUME NEW q \in Loaders, Read(q) PROVE FALSE
    BY <2>5, ReadOne
  <2>6. ASSUME NEW q \in Loaders, ReadEnd(q), q # p PROVE FALSE
    BY <2>6 DEF ReadEnd, TypeOK
  <2> QED
    BY <2>2, <2>3, <2>4, <2>5, <2>6 DEF Next, LoaderStep
<1>3. Init => FileInv
  BY InitFileInv
<1> QED
  BY <1>1, <1>2, <1>3, StepFileInv, StepQuietInv, TypeCorrect, PTL DEF Spec, LoadsWhatWasSaved
=============================================================================
