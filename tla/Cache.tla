------------------------------- MODULE Cache -------------------------------
(***************************************************************************)
(* The tool cache on disk: saveCache, loadCache and cacheFile of           *)
(* src/plugin/registry.go, run by every Build and by both background loops *)
(* without a lock between them. os.WriteFile truncates the file and then   *)
(* fills it, so a reader or a crash may find any part of a list, and two   *)
(* writers may overwrite each other.                                       *)
(***************************************************************************)
EXTENDS Naturals, Sequences

CONSTANTS
  Savers,   \* goroutines that save
  Loaders,  \* goroutines that load
  Servers,
  Safe,     \* a server's name with its path separators replaced
  Lists,    \* the tool lists the servers may have
  Of,       \* the server a list is of
  Size      \* how many cells a list fills when it is encoded

ASSUME NoListAssumption == "none" \notin Lists
ASSUME SafeAssumption == DOMAIN Safe = Servers
ASSUME OfAssumption == Of \in [Lists -> Servers]
ASSUME SizeAssumption == Size \in [Lists -> Nat \ {0}]

VARIABLES
  file,    \* the cells of each file; one that does not exist has none
  save,    \* what each saver is writing
  load,    \* what each loader has read
  saved,   \* the last save to each file, if it went well
  crossed  \* files two saves have met in since one last began alone

vars == <<file, save, load, saved, crossed>>

cacheFileShared(s) == CHOOSE name \in {Safe[t] : t \in Servers} : TRUE    \* mutant: one file
cacheFile(s) == Safe[s]
Files == {cacheFile(s) : s \in Servers}

\* A cell is one piece of a list, or the hole a file has where a writer went on behind
\* a truncation.
NoList == "none"
Cell(w, n) == [of |-> w, pos |-> n]
Hole == Cell(NoList, 0)
Cells == [of : Lists, pos : Nat] \cup {Hole}
FileOf(w) == cacheFile(Of[w])

Idle == [at |-> "idle"]
Saving(w, pos) == [at |-> "saving", w |-> w, pos |-> pos]
Loading(s, got, quiet) == [at |-> "loading", server |-> s, got |-> got, quiet |-> quiet]
Loaded(s, tools) == [at |-> "loaded", server |-> s, tools |-> tools]

Init ==
  /\ file = [f \in Files |-> <<>>]
  /\ save = [p \in Savers |-> Idle]
  /\ load = [p \in Loaders |-> Idle]
  /\ saved = [f \in Files |-> NoList]
  /\ crossed = {}

SavingTo(f) == {p \in Savers : save[p].at = "saving" /\ FileOf(save[p].w) = f}

\* Whoever is reading f is no longer alone with it.
Disturb(f) ==
  load' = [p \in Loaders |->
             IF load[p].at = "loading" /\ cacheFile(load[p].server) = f
             THEN Loading(load[p].server, load[p].got, FALSE) ELSE load[p]]

-----------------------------------------------------------------------------
(***************************************************************************)
(* saveCache. A directory that cannot be made or a file that cannot be     *)
(* opened changes nothing.                                                 *)
(***************************************************************************)
Begin(p, w) ==
  LET f == FileOf(w) IN
  /\ save[p] = Idle
  /\ save' = [save EXCEPT ![p] = Saving(w, 0)]
  /\ saved' = [saved EXCEPT ![f] = NoList]
  /\ crossed' = IF SavingTo(f) = {} THEN crossed \ {f} ELSE crossed \cup {f}
  /\ Disturb(f)

OpenInPlace(p, w) == Begin(p, w) /\ UNCHANGED file    \* mutant: no O_TRUNC

\* os.WriteFile opens the file with O_TRUNC.
OpenFile(p, w) ==
  /\ Begin(p, w)
  /\ file' = [file EXCEPT ![FileOf(w)] = <<>>]

\* A file with cell n set, however long it was.
PutCell(cells, n, c) ==
  [i \in 1..(IF n > Len(cells) THEN n ELSE Len(cells)) |->
     IF i = n THEN c ELSE IF i \in DOMAIN cells THEN cells[i] ELSE Hole]

\* The write goes on where the saver's own descriptor is.
Write(p) ==
  LET w == save[p].w
      n == save[p].pos + 1
      f == FileOf(w) IN
  /\ save[p].at = "saving" /\ n <= Size[w]
  /\ file' = [file EXCEPT ![f] = PutCell(@, n, Cell(w, n))]
  /\ save' = [save EXCEPT ![p] = Saving(w, n)]
  /\ Disturb(f)
  /\ UNCHANGED <<saved, crossed>>

SaveOK(p) ==
  /\ save[p].at = "saving" /\ save[p].pos = Size[save[p].w]
  /\ save' = [save EXCEPT ![p] = Idle]
  /\ saved' = [saved EXCEPT ![FileOf(save[p].w)] = save[p].w]
  /\ UNCHANGED <<file, load, crossed>>

\* The write fails part way, and what it wrote stays.
SaveFailed(p) ==
  /\ save[p].at = "saving" /\ save[p].pos < Size[save[p].w]
  /\ save' = [save EXCEPT ![p] = Idle]
  /\ UNCHANGED <<file, load, saved, crossed>>

-----------------------------------------------------------------------------
(***************************************************************************)
(* loadCache. json.Unmarshal makes nothing of bytes that are cut short or  *)
(* too long; pieces of several lists may still fit together.               *)
(***************************************************************************)
NoTools == {}
FitsAnyhow(cells) ==    \* mutant: the bytes between the first and the last are not looked at
  cells # <<>> /\ cells[Len(cells)].of \in Lists /\ Len(cells) = Size[cells[Len(cells)].of]
Pieces(cells) == {cells[i].of : i \in DOMAIN cells}
Fits(cells) ==
  /\ \A i \in DOMAIN cells : cells[i].pos = i
  /\ cells # <<>> /\ Len(cells) = Size[cells[Len(cells)].of]
UnmarshalPrefix(cells) == {Pieces(cells) \cap Lists}    \* mutant: a json.Decoder that takes what is there
Unmarshal(cells) ==
  IF ~Fits(cells) THEN {NoTools}
  ELSE {Pieces(cells)} \cup (IF \E w \in Lists : Pieces(cells) = {w} THEN {} ELSE {NoTools})

OpenToLoad(p, s) ==
  /\ load[p].at \in {"idle", "loaded"}
  /\ load' = [load EXCEPT ![p] = Loading(s, <<>>, SavingTo(cacheFile(s)) = {})]
  /\ UNCHANGED <<file, save, saved, crossed>>

Read(p) ==
  LET cells == file[cacheFile(load[p].server)]
      n == Len(load[p].got) + 1 IN
  /\ load[p].at = "loading" /\ n <= Len(cells)
  /\ load' = [load EXCEPT ![p] = Loading(@.server, Append(@.got, cells[n]), @.quiet)]
  /\ UNCHANGED <<file, save, saved, crossed>>

ReadEnd(p) ==
  LET s == load[p].server IN
  /\ load[p].at = "loading" /\ Len(load[p].got) >= Len(file[cacheFile(s)])
  /\ \E tools \in Unmarshal(load[p].got) : load' = [load EXCEPT ![p] = Loaded(s, tools)]
  /\ UNCHANGED <<file, save, saved, crossed>>

\* The process ends, as by the os.Exit of retryLoop, and another one starts.
Restart ==
  /\ save' = [p \in Savers |-> Idle]
  /\ load' = [p \in Loaders |-> Idle]
  /\ UNCHANGED <<file, saved, crossed>>

-----------------------------------------------------------------------------
SaverStep(p) == (\E w \in Lists : OpenFile(p, w)) \/ Write(p) \/ SaveOK(p) \/ SaveFailed(p)
LoaderStep(p) == (\E s \in Servers : OpenToLoad(p, s)) \/ Read(p) \/ ReadEnd(p)

Next == (\E p \in Savers : SaverStep(p)) \/ (\E p \in Loaders : LoaderStep(p)) \/ Restart

Spec == Init /\ [][Next]_vars

-----------------------------------------------------------------------------
(***************************************************************************)
(* Properties.                                                             *)
(***************************************************************************)

\* Every variable has the type its comment gives it.
TypeOK ==
  /\ file \in [Files -> Seq(Cells)]
  /\ save \in [Savers -> {Idle} \cup [at : {"saving"}, w : Lists, pos : Nat]]
  /\ load \in [Loaders -> {Idle}
                 \cup [at : {"loading"}, server : Servers, got : Seq(Cells), quiet : BOOLEAN]
                 \cup [at : {"loaded"}, server : Servers, tools : SUBSET Lists]]
  /\ saved \in [Files -> Lists \cup {NoList}]
  /\ crossed \subseteq Files

\* The part of w that a file has after n cells were written.
Written(w, n) == [i \in 1..n |-> Cell(w, i)]

\* A file in which no two saves met holds the whole list of the last save that went well;
\* if the last one failed or was cut off by a restart, the part that was written, and
\* nothing of what was there before.
FileIsOneSave ==
  \A f \in Files \ crossed :
    /\ saved[f] # NoList => file[f] = Written(saved[f], Size[saved[f]])
    /\ \E w \in Lists, n \in 0..Len(file[f]) : n <= Size[w] /\ file[f] = Written(w, n)

\* A load that no save disturbed, of a file in which no two saves met, returns one
\* whole list or none, and the last one saved if that save went well: a list that was
\* cut off is not taken for the server's tools.
LoadsWhatWasSaved ==
  [][\A p \in Loaders :
       LET f == cacheFile(load[p].server) IN
       load[p].at = "loading" /\ load'[p].at = "loaded" /\ load[p].quiet /\ f \notin crossed =>
         /\ \A w \in load'[p].tools : load'[p].tools = {w} /\ file[f] = Written(w, Size[w])
         /\ saved[f] # NoList => load'[p].tools = {saved[f]}]_vars

\* However saves and loads interleave, a server gets no tools of another one, unless the
\* names of the two differ in separators only: what the file says of its server is not read.
OwnTools ==
  \A p \in Loaders :
    load[p].at = "loaded" => \A w \in load[p].tools : Safe[Of[w]] = Safe[load[p].server]
=============================================================================
