----------------------------- MODULE StoreProofs -----------------------------
(***************************************************************************)
(* Proofs about Store, for any packages, files, installs and processes and *)
(* any number of kills: the three safety properties of MCStore.  They hold *)
(* if each file has all of its x bits or none (ExecutableOrNot).           *)
(***************************************************************************)
EXTENDS Store, TLAPS

(* Where only some x bits are set, a file is written to one path and       *)
(* looked for, and pruned, at another one.                                 *)
ExecutableOrNot == \A p \in Packages : \A f \in Files[p] : Stored(f) = Assumed(f)

TypeOK ==
  /\ file \in [Paths -> States]
  /\ index \in [Packages -> States]
  /\ pc \in [Installs -> PCs]
  /\ DOMAIN todo = Installs /\ \A w \in Installs : todo[w] \subseteq FilesOf(w)
  /\ writing \in [Installs -> SUBSET Paths]
  /\ DOMAIN source = Installs /\ \A w \in Installs : source[w] \in [FilesOf(w) -> Paths]
  /\ DOMAIN imported = Installs /\ \A w \in Installs : imported[w] \in [FilesOf(w) -> States]
  /\ prune \in [at : {"idle", "remove", "over"}, indexes : SUBSET Packages,
                files : SUBSET Paths]
  /\ crashes \in Nat

There(x) == file[x] # "absent"
Holds(p) == \A f \in Files[p] : There(Stored(f))
Extracting(w) == pc[w] \in {"extract", "write", "index"}

(* What an extraction has done is there: the files it is past, all of them *)
(* once it writes the index, and whatever it is going to link.             *)
ExtractedThere ==
  \A w \in Installs :
    /\ Extracting(w) => \A f \in FilesOf(w) : f \in todo[w] \/ There(Stored(f))
    /\ pc[w] = "index" => todo[w] = {}
LinksThere ==
  \A w \in Installs : pc[w] = "link" => \A f \in FilesOf(w) : There(source[w][f])
WritersWrite ==
  \A w \in Installs : \A x \in writing[w] : pc[w] = "write" /\ There(x)

(* While prune removes, no install runs; an index that is to stay is one   *)
(* of a package in use, and its files are to stay too.                     *)
Kept(p) == p \in Referenced /\ \A f \in Files[p] : Stored(f) \notin prune.files
RemovesUnused ==
  prune.at = "remove" =>
    /\ \A w \in Installs : ~Running(w)
    /\ prune.indexes \cap Referenced = {}
    /\ \A p \in Packages : /\ index[p] # "partial"
                           /\ index[p] = "whole" => p \in prune.indexes \/ Kept(p)

NothingFailed == \A w \in Installs : pc[w] # "failed"

(* The store, whoever was killed. *)
StoreInv == /\ IndexBacked
            /\ ExtractedThere
            /\ LinksThere
            /\ RemovesUnused
            /\ NothingFailed

(* If nobody was: whatever is partial is being written; a package has been *)
(* linked completely or not at all, unless its install is at it.           *)
FilesWritten == \A x \in Paths : file[x] = "partial" => \E v \in Installs : x \in writing[v]
LinksWritten ==
  \A w \in Installs : \A f \in FilesOf(w) :
    imported[w][f] = "partial" => \E v \in Installs : source[w][f] \in writing[v]
IndexesWritten ==
  \A p \in Packages : index[p] = "partial" =>
    \E v \in Installs : PkgOf[v] = p /\ pc[v] = "index"
AllOrNothing ==
  \A w \in Installs : \A f \in FilesOf(w) :
    /\ pc[w] \notin {"link", "done"} => imported[w][f] = "absent"
    /\ pc[w] = "link" => f \in todo[w] \/ imported[w][f] # "absent"
    /\ pc[w] = "done" => imported[w][f] # "absent"

(* Each file belongs to an index, or to one that will be written. *)
Claimed(p) == \/ index[p] = "whole"
              \/ \E w \in Installs : PkgOf[w] = p /\ Extracting(w)
OfPackage(x, p) == \E f \in Files[p] : x = Stored(f)
NoStrays ==
  \A x \in Paths : There(x) =>
    \/ prune.at = "remove" /\ x \in prune.files
    \/ \E p \in Packages : /\ Claimed(p) /\ OfPackage(x, p)
                           /\ prune.at = "remove" => p \in Referenced

Clean == FilesWritten /\ LinksWritten /\ IndexesWritten /\ AllOrNothing /\ NoStrays
CleanInv == crashes = 0 => Clean

IInv == TypeOK /\ WritersWrite /\ StoreInv /\ CleanInv
-----------------------------------------------------------------------------
LEMMA PathsTyped ==
  ASSUME NEW p \in Packages, NEW f \in Files[p]
  PROVE  Stored(f) \in Paths /\ Assumed(f) \in Paths
<1>1. f \in Content \X Modes
  BY StoreAssumption
<1>2. f[1] \in Content
  BY <1>1
<1> QED BY <1>2 DEF Stored, Assumed, Paths

LEMMA InitInv == Init => IInv
<1> SUFFICES ASSUME Init PROVE IInv
  OBVIOUS
<1> USE StoreAssumption DEF Init
<1>1. TypeOK
  BY PathsTyped DEF TypeOK, FilesOf, PCs, States
<1>2. WritersWrite /\ StoreInv
  BY DEF WritersWrite, StoreInv, IndexBacked, ExtractedThere, Extracting, LinksThere,
         RemovesUnused, NothingFailed
<1>3. CleanInv
  BY DEF CleanInv, Clean, FilesWritten, LinksWritten, IndexesWritten, AllOrNothing, NoStrays,
     There
<1> QED BY <1>1, <1>2, <1>3 DEF IInv

(* The paths that an install links from. *)
LEMMA SourcesTyped ==
  ASSUME TypeOK, NEW w \in Installs
  PROVE  /\ PkgOf[w] \in Packages
         /\ \A f \in FilesOf(w) : Stored(f) \in Paths
         /\ [f \in FilesOf(w) |-> Stored(f)] \in [FilesOf(w) -> Paths]
         /\ [f \in FilesOf(w) |-> Assumed(f)] \in [FilesOf(w) -> Paths]
<1>1. PkgOf[w] \in Packages
  BY StoreAssumption
<1> QED BY <1>1, PathsTyped DEF FilesOf

LEMMA LinkingTyped ==
  ASSUME TypeOK, NEW w \in Installs, NEW paths \in [FilesOf(w) -> Paths],
         StartLinking(w, paths)
  PROVE  /\ pc' \in [Installs -> PCs]
         /\ DOMAIN todo' = Installs /\ \A v \in Installs : todo'[v] \subseteq FilesOf(v)
         /\ DOMAIN source' = Installs
         /\ \A v \in Installs : source'[v] \in [FilesOf(v) -> Paths]
<1>1. pc' \in [Installs -> PCs]
  BY DEF TypeOK, StartLinking, Goto, PCs
<1>2. DOMAIN todo' = Installs /\ \A v \in Installs : todo'[v] \subseteq FilesOf(v)
  BY DEF TypeOK, StartLinking
<1>3. /\ DOMAIN source' = Installs
      /\ \A v \in Installs : source'[v] = IF v = w THEN paths ELSE source[v]
  BY DEF TypeOK, StartLinking
<1>4. \A v \in Installs : source'[v] \in [FilesOf(v) -> Paths]
  BY <1>3 DEF TypeOK
<1> QED BY <1>1, <1>2, <1>3, <1>4

(* The variables keep their types, one step per action. *)
LEMMA TypeStep ==
  ASSUME TypeOK, Next
  PROVE  TypeOK'
<1> USE StoreAssumption DEF TypeOK
<1>1. CASE \E w \in Installs : Check(w)
  <2>. PICK w \in Installs : Check(w)
    BY <1>1
  <2>1. CASE StartLinking(w, [f \in FilesOf(w) |-> Assumed(f)])
    BY <2>1, SourcesTyped, LinkingTyped DEF Check
  <2>2. CASE Goto(w, "done") /\ UNCHANGED <<todo, source>>
    BY <2>2 DEF Check, Goto, PCs
  <2>3. CASE Goto(w, "fetch") /\ UNCHANGED <<todo, source>>
    BY <2>3 DEF Check, Goto, PCs
  <2> QED BY <2>1, <2>2, <2>3 DEF Check
<1>2. CASE \E w \in Installs : Fetch(w)
  <2>. PICK w \in Installs : Fetch(w)
    BY <1>2
  <2>1. CASE StartLinking(w, [f \in FilesOf(w) |-> Stored(f)])
    BY <2>1, SourcesTyped, LinkingTyped DEF Fetch
  <2>2. CASE Goto(w, "extract") /\ todo' = [todo EXCEPT ![w] = FilesOf(w)] /\ UNCHANGED source
    BY <2>2 DEF Fetch, Goto, PCs
  <2> QED BY <2>1, <2>2 DEF Fetch
<1>3. CASE \E w \in Installs : FileWritten(w)
  BY <1>3 DEF FileWritten, Goto, PCs, States
<1>4. CASE \E w \in Installs : WriteIndex(w)
  <2>. PICK w \in Installs : WriteIndex(w)
    BY <1>4
  <2>1. CASE StartLinking(w, [f \in FilesOf(w) |-> Stored(f)]) /\ UNCHANGED index
    BY <2>1, SourcesTyped, LinkingTyped DEF WriteIndex
  <2>2. CASE /\ index' = [index EXCEPT ![PkgOf[w]] = "partial"]
             /\ Goto(w, "index") /\ UNCHANGED <<todo, source>>
    BY <2>2 DEF WriteIndex, Goto, PCs, States
  <2> QED BY <2>1, <2>2 DEF WriteIndex
<1>5. CASE \E w \in Installs : IndexWritten(w)
  BY <1>5, SourcesTyped, LinkingTyped DEF IndexWritten, States
<1>6. CASE \E w \in Installs : Linked(w)
  BY <1>6 DEF Linked, Goto, PCs
<1>7. CASE \E w \in Installs : \E f \in FilesOf(w) : Extract(w, f)
  <2>. PICK w \in Installs : \E f \in FilesOf(w) : Extract(w, f)
    BY <1>7
  <2>. PICK f \in FilesOf(w) : Extract(w, f)
    OBVIOUS
  <2>1. Stored(f) \in Paths
    BY SourcesTyped
  <2>2. DOMAIN todo' = Installs /\ \A v \in Installs : todo'[v] \subseteq FilesOf(v)
    BY DEF Extract
  <2>3. file' \in [Paths -> States] /\ pc' \in [Installs -> PCs]
    <3>1. file' \in [Paths -> States]
      BY <2>1 DEF Extract, States
    <3>2. pc' \in [Installs -> PCs]
      BY DEF Extract, Goto, PCs
    <3> QED BY <3>1, <3>2
  <2>4. writing' \in [Installs -> SUBSET Paths]
    BY <2>1 DEF Extract
  <2> QED BY <2>2, <2>3, <2>4 DEF Extract
<1>8. CASE \E w \in Installs : \E f \in FilesOf(w) : Link(w, f)
  <2>. PICK w \in Installs : \E f \in FilesOf(w) : Link(w, f)
    BY <1>8
  <2>. PICK f \in FilesOf(w) : Link(w, f)
    OBVIOUS
  <2>1. DOMAIN todo' = Installs /\ \A v \in Installs : todo'[v] \subseteq FilesOf(v)
    BY DEF Link
  <2>2. pc' \in [Installs -> PCs]
    BY DEF Link, Goto, PCs
  <2>3. DOMAIN imported' = Installs /\ \A v \in Installs : imported'[v] \in [FilesOf(v) -> States]
    <3>1. CASE UNCHANGED imported
      BY <3>1
    <3>2. CASE imported' = [imported EXCEPT ![w][f] = file[source[w][f]]]
      <4>1. file[source[w][f]] \in States
        OBVIOUS
      <4>2. [imported[w] EXCEPT ![f] = file[source[w][f]]] \in [FilesOf(w) -> States]
        BY <4>1
      <4> QED BY <3>2, <4>2
    <3> QED BY <3>1, <3>2 DEF Link
  <2> QED BY <2>1, <2>2, <2>3 DEF Link
<1>9. CASE \E w \in Installs : Drop(w)
  BY <1>9 DEF Drop, Goto, PCs, States
<1>10. CASE \E q \in {ProcessOf[w] : w \in Installs} : Crash(q)
  BY <1>10 DEF Crash, PCs
<1>11. CASE PruneScan
  <2>1. Removable.indexes \subseteq Packages /\ Removable.files \subseteq Paths
    BY PathsTyped DEF Removable, Indexed, Named
  <2>2. CASE prune' = Removable
    <3>1. prune' \in [at : {"idle", "remove", "over"}, indexes : SUBSET Packages,
                      files : SUBSET Paths]
      BY <2>1, <2>2 DEF Removable
    <3> QED BY <1>11, <3>1 DEF PruneScan
  <2>3. CASE prune' = [prune EXCEPT !.at = "over"]
    <3>1. prune' \in [at : {"idle", "remove", "over"}, indexes : SUBSET Packages,
                      files : SUBSET Paths]
      BY <2>3
    <3> QED BY <1>11, <3>1 DEF PruneScan
  <2> QED BY <1>11, <2>2, <2>3 DEF PruneScan
<1>12. CASE PruneOver
  BY <1>12 DEF PruneOver
<1>13. CASE \E p \in Packages : PruneIndex(p)
  BY <1>13 DEF PruneIndex, States
<1>14. CASE \E x \in Paths : PruneFile(x)
  BY <1>14 DEF PruneFile, States
<1> QED
  BY <1>1, <1>2, <1>3, <1>4, <1>5, <1>6, <1>7, <1>8, <1>9, <1>10, <1>11, <1>12, <1>13, <1>14
  DEF Next, Install, Prune

(* What holds whoever is killed. *)
LEMMA StoreStep ==
  ASSUME ExecutableOrNot, TypeOK, StoreInv, Next
  PROVE  StoreInv'
<1> USE StoreAssumption, PathsTyped DEF TypeOK, StoreInv, ExecutableOrNot, FilesOf
<1>1. CASE \E w \in Installs : Check(w)
  <2>. PICK w \in Installs : Check(w)
    BY <1>1
  <2>1. IndexBacked'
    BY DEF IndexBacked, Check
  <2>2. ExtractedThere'
    <3>1. /\ \A v \in Installs \ {w} : pc'[v] = pc[v] /\ todo'[v] = todo[v]
          /\ pc'[w] \in {"done", "link", "fetch"}
          /\ file' = file
      BY DEF Check, StartLinking, Goto
    <3> QED BY <3>1 DEF ExtractedThere, Extracting, There
  <2>3. LinksThere'
    BY DEF LinksThere, There, IndexBacked, Extracting, Check, SpotCheck, StartLinking, Goto
  <2>4. RemovesUnused'
    BY DEF RemovesUnused, Check
  <2>5. NothingFailed'
    BY DEF NothingFailed, Check, StartLinking, Goto
  <2> QED BY <2>1, <2>2, <2>3, <2>4, <2>5
<1>2. CASE \E w \in Installs : Fetch(w)
  <2>. PICK w \in Installs : Fetch(w)
    BY <1>2
  <2>1. IndexBacked'
    BY DEF IndexBacked, Fetch
  <2>2. ExtractedThere'
    <3>1. /\ \A v \in Installs \ {w} : pc'[v] = pc[v] /\ todo'[v] = todo[v]
          /\ pc'[w] \in {"link", "extract"} /\ todo'[w] = FilesOf(w)
          /\ file' = file
      BY DEF Fetch, StartLinking, Goto
    <3> QED BY <3>1 DEF ExtractedThere, Extracting, There
  <2>3. LinksThere'
    BY DEF LinksThere, There, Fetch, Reusable, StartLinking, Goto
  <2>4. RemovesUnused'
    BY DEF RemovesUnused, Running, Fetch
  <2>5. NothingFailed'
    BY DEF NothingFailed, Fetch, StartLinking, Goto
  <2> QED BY <2>1, <2>2, <2>3, <2>4, <2>5
<1>3. CASE \E w \in Installs : FileWritten(w)
  <2>. PICK w \in Installs : FileWritten(w)
    BY <1>3
  <2>1. IndexBacked'
    BY DEF IndexBacked, FileWritten
  <2>2. ExtractedThere'
    BY DEF ExtractedThere, Extracting, There, FileWritten, Goto
  <2>3. LinksThere'
    BY DEF LinksThere, There, FileWritten, Goto
  <2>4. RemovesUnused'
    BY DEF RemovesUnused, Running, FileWritten
  <2>5. NothingFailed'
    BY DEF NothingFailed, FileWritten, Goto
  <2> QED BY <2>1, <2>2, <2>3, <2>4, <2>5
<1>4. CASE \E w \in Installs : WriteIndex(w)
  <2>. PICK w \in Installs : WriteIndex(w)
    BY <1>4
  <2>1. IndexBacked'
    BY DEF IndexBacked, WriteIndex
  <2>2. ExtractedThere'
    BY DEF ExtractedThere, Extracting, There, WriteIndex, StartLinking, Goto
  <2>3. LinksThere'
    BY DEF LinksThere, There, ExtractedThere, Extracting, WriteIndex, StartLinking, Goto
  <2>4. RemovesUnused'
    BY DEF RemovesUnused, Running, WriteIndex
  <2>5. NothingFailed'
    BY DEF NothingFailed, WriteIndex, StartLinking, Goto
  <2> QED BY <2>1, <2>2, <2>3, <2>4, <2>5
<1>5. CASE \E w \in Installs : IndexWritten(w)
  <2>. PICK w \in Installs : IndexWritten(w)
    BY <1>5
  <2>1. IndexBacked'
    BY DEF IndexBacked, ExtractedThere, Extracting, There, IndexWritten
  <2>2. ExtractedThere'
    BY DEF ExtractedThere, Extracting, There, IndexWritten, StartLinking, Goto
  <2>3. LinksThere'
    BY DEF LinksThere, There, ExtractedThere, Extracting, IndexWritten, StartLinking, Goto
  <2>4. RemovesUnused'
    BY DEF RemovesUnused, Running, IndexWritten
  <2>5. NothingFailed'
    BY DEF NothingFailed, IndexWritten, StartLinking, Goto
  <2> QED BY <2>1, <2>2, <2>3, <2>4, <2>5
<1>6. CASE \E w \in Installs : Linked(w)
  <2>. PICK w \in Installs : Linked(w)
    BY <1>6
  <2>1. IndexBacked'
    BY DEF IndexBacked, Linked
  <2>2. ExtractedThere'
    BY DEF ExtractedThere, Extracting, There, Linked, Goto
  <2>3. LinksThere'
    BY DEF LinksThere, There, Linked, Goto
  <2>4. RemovesUnused'
    BY DEF RemovesUnused, Running, Linked
  <2>5. NothingFailed'
    BY DEF NothingFailed, Linked, Goto
  <2> QED BY <2>1, <2>2, <2>3, <2>4, <2>5
<1>7. CASE \E w \in Installs : \E f \in FilesOf(w) : Extract(w, f)
  <2>. PICK w \in Installs : \E f \in FilesOf(w) : Extract(w, f)
    BY <1>7
  <2>. PICK f \in FilesOf(w) : Extract(w, f)
    OBVIOUS
  <2>1. IndexBacked'
    BY DEF IndexBacked, Extract
  <2>2. ExtractedThere'
    BY DEF ExtractedThere, Extracting, There, Extract, Goto
  <2>3. LinksThere'
    BY DEF LinksThere, There, Extract, Goto
  <2>4. RemovesUnused'
    BY DEF RemovesUnused, Running, Extract
  <2>5. NothingFailed'
    BY DEF NothingFailed, Extract, Goto
  <2> QED BY <2>1, <2>2, <2>3, <2>4, <2>5
<1>8. CASE \E w \in Installs : \E f \in FilesOf(w) : Link(w, f)
  <2>. PICK w \in Installs : \E f \in FilesOf(w) : Link(w, f)
    BY <1>8
  <2>. PICK f \in FilesOf(w) : Link(w, f)
    OBVIOUS
  <2>1. IndexBacked'
    BY DEF IndexBacked, Link
  <2>2. ExtractedThere'
    BY DEF ExtractedThere, Extracting, There, Link, Goto
  <2>3. LinksThere'
    BY DEF LinksThere, There, Link
  <2>4. RemovesUnused'
    BY DEF RemovesUnused, Running, Link
  <2>5. NothingFailed'
    BY DEF NothingFailed, LinksThere, There, Link
  <2> QED BY <2>1, <2>2, <2>3, <2>4, <2>5
<1>9. CASE \E w \in Installs : Drop(w)
  <2>. PICK w \in Installs : Drop(w)
    BY <1>9
  <2>1. IndexBacked'
    BY DEF IndexBacked, Drop
  <2>2. ExtractedThere'
    BY DEF ExtractedThere, Extracting, There, Drop, Goto
  <2>3. LinksThere'
    BY DEF LinksThere, There, Drop, Goto
  <2>4. RemovesUnused'
    BY DEF RemovesUnused, Drop
  <2>5. NothingFailed'
    BY DEF NothingFailed, Drop, Goto
  <2> QED BY <2>1, <2>2, <2>3, <2>4, <2>5
<1>10. CASE \E q \in {ProcessOf[w] : w \in Installs} : Crash(q)
  <2>. PICK q \in {ProcessOf[w] : w \in Installs} : Crash(q)
    BY <1>10
  <2>1. IndexBacked'
    BY DEF IndexBacked, Crash
  <2>2. ExtractedThere'
    BY DEF ExtractedThere, Extracting, There, Crash
  <2>3. LinksThere'
    BY DEF LinksThere, There, Crash
  <2>4. RemovesUnused'
    BY DEF RemovesUnused, Crash
  <2>5. NothingFailed'
    BY DEF NothingFailed, Crash
  <2> QED BY <2>1, <2>2, <2>3, <2>4, <2>5
<1>11. CASE PruneScan
  <2>1. IndexBacked'
    BY <1>11 DEF IndexBacked, PruneScan
  <2>2. ExtractedThere'
    BY <1>11 DEF ExtractedThere, Extracting, There, PruneScan
  <2>3. LinksThere'
    BY <1>11 DEF LinksThere, There, PruneScan
  <2>4. RemovesUnused'
    <3>1. CASE prune' = [prune EXCEPT !.at = "over"]
      <4>1. prune'.at = "over"
        BY <3>1
      <4> QED BY <4>1 DEF RemovesUnused
    <3>2. CASE /\ prune' = Removable
               /\ \A p \in Packages : index[p] # "partial"
      <4>1. /\ prune'.indexes = Indexed \ Referenced
            /\ prune'.files = Named(Indexed \ Referenced) \ Named(Indexed \cap Referenced)
        BY <3>2 DEF Removable
      <4>2. Referenced' = Referenced /\ index' = index /\ \A w \in Installs : ~Running(w)'
        BY <1>11 DEF PruneScan, Referenced, ImportedAlready, Running
      <4>3. ASSUME NEW p \in Packages, index[p] = "whole", p \in Referenced,
                   NEW f \in Files[p]
            PROVE  Stored(f) \notin prune'.files
        <5>1. p \in Indexed \cap Referenced /\ Stored(f) = Assumed(f)
          BY <4>3 DEF Indexed
        <5>2. Assumed(f) \in Named(Indexed \cap Referenced)
          BY <5>1 DEF Named
        <5> QED BY <4>1, <5>1, <5>2
      <4>4. \A p \in Packages : index[p] = "whole" /\ p \notin Referenced => p \in prune'.indexes
        BY <4>1 DEF Indexed
      <4> QED BY <3>2, <4>1, <4>2, <4>3, <4>4 DEF RemovesUnused, Kept
    <3> QED BY <1>11, <3>1, <3>2 DEF PruneScan
  <2>5. NothingFailed'
    BY <1>11 DEF NothingFailed, PruneScan
  <2> QED BY <2>1, <2>2, <2>3, <2>4, <2>5
<1>12. CASE PruneOver
  <2>1. IndexBacked'
    BY <1>12 DEF IndexBacked, PruneOver
  <2>2. ExtractedThere'
    BY <1>12 DEF ExtractedThere, Extracting, There, PruneOver
  <2>3. LinksThere'
    BY <1>12 DEF LinksThere, There, PruneOver
  <2>4. RemovesUnused'
    BY <1>12 DEF RemovesUnused, PruneOver
  <2>5. NothingFailed'
    BY <1>12 DEF NothingFailed, PruneOver
  <2> QED BY <2>1, <2>2, <2>3, <2>4, <2>5
<1>13. CASE \E p \in Packages : PruneIndex(p)
  <2>. PICK p \in Packages : PruneIndex(p)
    BY <1>13
  <2>1. IndexBacked'
    BY DEF IndexBacked, PruneIndex
  <2>2. ExtractedThere'
    BY DEF ExtractedThere, Extracting, There, PruneIndex
  <2>3. LinksThere'
    BY DEF LinksThere, There, PruneIndex
  <2>4. RemovesUnused'
    BY DEF RemovesUnused, Running, Kept, Referenced, ImportedAlready, PruneIndex
  <2>5. NothingFailed'
    BY DEF NothingFailed, PruneIndex
  <2> QED BY <2>1, <2>2, <2>3, <2>4, <2>5
<1>14. CASE \E x \in Paths : PruneFile(x)
  <2>. PICK x \in Paths : PruneFile(x)
    BY <1>14
  <2>1. IndexBacked'
    BY DEF IndexBacked, RemovesUnused, Kept, PruneFile
  <2>2. ExtractedThere'
    BY DEF ExtractedThere, Extracting, RemovesUnused, Running, PruneFile
  <2>3. LinksThere'
    BY DEF LinksThere, RemovesUnused, Running, PruneFile
  <2>4. RemovesUnused'
    BY DEF RemovesUnused, Running, Kept, Referenced, ImportedAlready, PruneFile
  <2>5. NothingFailed'
    BY DEF NothingFailed, PruneFile
  <2> QED BY <2>1, <2>2, <2>3, <2>4, <2>5
<1> QED
  BY <1>1, <1>2, <1>3, <1>4, <1>5, <1>6, <1>7, <1>8, <1>9, <1>10, <1>11, <1>12, <1>13, <1>14
  DEF Next, Install, Prune

(* A path that is being written is there, and its writer is at it. *)
LEMMA WritersStep ==
  ASSUME TypeOK, StoreInv, WritersWrite, Next
  PROVE  WritersWrite'
<1>1. CASE \E w \in Installs : Check(w)
  BY <1>1 DEF TypeOK, WritersWrite, There, Check, StartLinking, Goto
<1>2. CASE \E w \in Installs : Fetch(w)
  BY <1>2 DEF TypeOK, WritersWrite, There, Fetch, StartLinking, Goto
<1>3. CASE \E w \in Installs : FileWritten(w)
  BY <1>3 DEF TypeOK, WritersWrite, There, FileWritten, Goto
<1>4. CASE \E w \in Installs : WriteIndex(w)
  BY <1>4 DEF TypeOK, WritersWrite, There, WriteIndex, StartLinking, Goto
<1>5. CASE \E w \in Installs : IndexWritten(w)
  BY <1>5 DEF WritersWrite, There, IndexWritten, StartLinking, Goto
<1>6. CASE \E w \in Installs : Linked(w)
  BY <1>6 DEF WritersWrite, There, Linked, Goto
<1>7. CASE \E w \in Installs : \E f \in FilesOf(w) : Extract(w, f)
  <2>. PICK w \in Installs : \E f \in FilesOf(w) : Extract(w, f)
    BY <1>7
  <2>. PICK f \in FilesOf(w) : Extract(w, f)
    OBVIOUS
  <2>1. Stored(f) \in Paths
    BY SourcesTyped
  <2>2. \A x \in Paths : There(x) => There(x)'
    BY DEF TypeOK, There, Extract
  <2>3. \A v \in Installs \ {w} : pc'[v] = pc[v] /\ writing'[v] = writing[v]
    BY DEF TypeOK, Extract, Goto
  <2>4. \A x \in writing'[w] : pc'[w] = "write" /\ There(x)'
    BY <2>1 DEF TypeOK, WritersWrite, There, Extract, Goto
  <2> QED BY <2>2, <2>3, <2>4 DEF TypeOK, WritersWrite
<1>8. CASE \E w \in Installs : \E f \in FilesOf(w) : Link(w, f)
  BY <1>8 DEF TypeOK, WritersWrite, There, Link, Goto
<1>9. CASE \E w \in Installs : Drop(w)
  BY <1>9 DEF WritersWrite, There, Drop, Goto
<1>10. CASE \E q \in {ProcessOf[w] : w \in Installs} : Crash(q)
  BY <1>10 DEF WritersWrite, There, Crash
<1>11. CASE PruneScan
  BY <1>11 DEF WritersWrite, There, PruneScan
<1>12. CASE PruneOver
  BY <1>12 DEF WritersWrite, There, PruneOver
<1>13. CASE \E p \in Packages : PruneIndex(p)
  BY <1>13 DEF WritersWrite, There, PruneIndex
<1>14. CASE \E x \in Paths : PruneFile(x)
  BY <1>14 DEF WritersWrite, PruneFile, StoreInv, RemovesUnused, Running
<1> QED
  BY <1>1, <1>2, <1>3, <1>4, <1>5, <1>6, <1>7, <1>8, <1>9, <1>10, <1>11, <1>12, <1>13, <1>14
  DEF Next, Install, Prune

(* A step of an install strays from no package that it had claimed. *)
LEMMA StraysStep ==
  ASSUME NoStrays, prune.at # "remove", UNCHANGED prune,
         \A x \in Paths : There(x)' =>
           There(x) \/ \E p \in Packages : Claimed(p)' /\ OfPackage(x, p),
         \A p \in Packages : Claimed(p) => Claimed(p)'
  PROVE  NoStrays'
BY DEF NoStrays, OfPackage

(* What holds until somebody is killed. *)
LEMMA CleanStep ==
  ASSUME ExecutableOrNot, TypeOK, WritersWrite, StoreInv, CleanInv, Next
  PROVE  CleanInv'
<1> SUFFICES ASSUME crashes' = 0 PROVE Clean'
  BY DEF CleanInv
<1>0. CASE \E q \in {ProcessOf[w] : w \in Installs} : Crash(q)
  BY <1>0 DEF Crash, TypeOK
<1>1. CASE \E w \in Installs : Check(w)
  <2>. PICK w \in Installs : Check(w)
    BY <1>1
  <2>0. crashes = 0 /\ Clean
    BY DEF CleanInv, Check
  <2>1. FilesWritten'
    BY <2>0 DEF Clean, FilesWritten, Check
  <2>2. LinksWritten'
    BY <2>0, PathsTyped DEF Clean, TypeOK, LinksWritten, AllOrNothing, WritersWrite, Check,
       StartLinking, Goto, ImportedAlready
  <2>3. IndexesWritten'
    BY <2>0 DEF Clean, TypeOK, IndexesWritten, Check, StartLinking, Goto
  <2>4. AllOrNothing'
    BY <2>0, StoreAssumption DEF Clean, TypeOK, FilesOf, AllOrNothing, Check, StartLinking,
       Goto, ImportedAlready
  <2>5. NoStrays'
    BY <2>0 DEF Clean, TypeOK, NoStrays, There, Claimed, Extracting, ImportedAlready, Check,
       StartLinking, Goto, ImportedAlready
  <2> QED BY <2>1, <2>2, <2>3, <2>4, <2>5 DEF Clean
<1>2. CASE \E w \in Installs : Fetch(w)
  <2>. PICK w \in Installs : Fetch(w)
    BY <1>2
  <2>0. crashes = 0 /\ Clean
    BY DEF CleanInv, Fetch
  <2>1. FilesWritten'
    BY <2>0 DEF Clean, FilesWritten, Fetch
  <2>2. LinksWritten'
    <3>1. /\ imported' = imported /\ writing' = writing
          /\ \A v \in Installs \ {w} : source'[v] = source[v]
      BY DEF TypeOK, Fetch, StartLinking
    <3>2. \A f \in FilesOf(w) : imported[w][f] = "absent"
      BY <2>0 DEF Clean, AllOrNothing, Fetch
    <3> QED BY <2>0, <3>1, <3>2 DEF Clean, LinksWritten
  <2>3. IndexesWritten'
    BY <2>0 DEF Clean, TypeOK, IndexesWritten, Fetch, StartLinking, Goto
  <2>4. AllOrNothing'
    <3>1. /\ imported' = imported /\ pc'[w] \in {"link", "extract"} /\ todo'[w] = FilesOf(w)
          /\ \A v \in Installs \ {w} : pc'[v] = pc[v] /\ todo'[v] = todo[v]
      BY DEF TypeOK, Fetch, StartLinking, Goto
    <3> QED BY <2>0, <3>1 DEF Clean, AllOrNothing, Fetch
  <2>5. NoStrays'
    <3>1. prune.at # "remove" /\ prune' = prune
      BY DEF Fetch, StoreInv, RemovesUnused, Running
    <3>2. \A p \in Packages : Claimed(p) => Claimed(p)'
      BY DEF TypeOK, Claimed, Extracting, Fetch, StartLinking, Goto
    <3>3. \A x \in Paths : There(x)' => There(x)
      BY DEF There, Fetch
    <3> QED BY <2>0, <3>1, <3>2, <3>3, StraysStep DEF Clean
  <2> QED BY <2>1, <2>2, <2>3, <2>4, <2>5 DEF Clean
<1>3. CASE \E w \in Installs : FileWritten(w)
  <2>. PICK w \in Installs : FileWritten(w)
    BY <1>3
  <2>0. crashes = 0 /\ Clean
    BY DEF CleanInv, FileWritten
  <2>1. FilesWritten'
    BY <2>0 DEF Clean, FilesWritten, FileWritten
  <2>2. LinksWritten'
    BY <2>0 DEF Clean, LinksWritten, WritersWrite, FileWritten, Goto
  <2>3. IndexesWritten'
    BY <2>0 DEF Clean, IndexesWritten, FileWritten, Goto
  <2>4. AllOrNothing'
    BY <2>0 DEF Clean, AllOrNothing, FileWritten, Goto
  <2>5. NoStrays'
    <3>1. prune.at # "remove" /\ prune' = prune
      BY DEF FileWritten, StoreInv, RemovesUnused, Running
    <3>2. \A p \in Packages : Claimed(p) => Claimed(p)'
      BY DEF Claimed, Extracting, FileWritten, Goto
    <3>3. \A x \in Paths : There(x)' => There(x)
      BY DEF WritersWrite, There, FileWritten
    <3> QED BY <2>0, <3>1, <3>2, <3>3, StraysStep DEF Clean
  <2> QED BY <2>1, <2>2, <2>3, <2>4, <2>5 DEF Clean
<1>4. CASE \E w \in Installs : WriteIndex(w)
  <2>. PICK w \in Installs : WriteIndex(w)
    BY <1>4
  <2>0. crashes = 0 /\ Clean
    BY DEF CleanInv, WriteIndex
  <2>1. FilesWritten'
    BY <2>0 DEF Clean, FilesWritten, WriteIndex
  <2>2. LinksWritten'
    <3>1. /\ imported' = imported /\ writing' = writing
          /\ \A v \in Installs \ {w} : source'[v] = source[v]
      BY DEF TypeOK, WriteIndex, StartLinking
    <3>2. \A f \in FilesOf(w) : imported[w][f] = "absent"
      BY <2>0 DEF Clean, AllOrNothing, WriteIndex
    <3> QED BY <2>0, <3>1, <3>2 DEF Clean, LinksWritten
  <2>3. IndexesWritten'
    BY <2>0 DEF Clean, TypeOK, IndexesWritten, WriteIndex, StartLinking, Goto
  <2>4. AllOrNothing'
    BY <2>0 DEF Clean, TypeOK, AllOrNothing, WriteIndex, StartLinking, Goto
  <2>5. NoStrays'
    <3>1. prune.at # "remove" /\ prune' = prune
      BY DEF WriteIndex, StoreInv, RemovesUnused, Running
    <3>2. ASSUME NEW p \in Packages, Claimed(p)
          PROVE  Claimed(p)'
      <4>1. CASE index[PkgOf[w]] = "absent"
        BY <3>2, <4>1 DEF TypeOK, Claimed, Extracting, WriteIndex, Goto
      <4>2. CASE index[PkgOf[w]] # "absent" /\ p # PkgOf[w]
        BY <3>2, <4>2 DEF TypeOK, Claimed, Extracting, WriteIndex, StartLinking, Goto
      <4>3. CASE index[PkgOf[w]] # "absent" /\ p = PkgOf[w]
        <5>1. index[p] = "partial" => \E v \in Installs \ {w} : PkgOf[v] = p /\ pc[v] = "index"
          BY <2>0 DEF Clean, IndexesWritten, WriteIndex
        <5> QED BY <4>3, <5>1 DEF TypeOK, States, Claimed, Extracting, WriteIndex,
           StartLinking, Goto
      <4> QED BY <4>1, <4>2, <4>3
    <3>3. \A x \in Paths : There(x)' => There(x)
      BY DEF There, WriteIndex
    <3> QED BY <2>0, <3>1, <3>2, <3>3, StraysStep DEF Clean
  <2> QED BY <2>1, <2>2, <2>3, <2>4, <2>5 DEF Clean
<1>5. CASE \E w \in Installs : IndexWritten(w)
  <2>. PICK w \in Installs : IndexWritten(w)
    BY <1>5
  <2>0. crashes = 0 /\ Clean
    BY DEF CleanInv, IndexWritten
  <2>1. FilesWritten'
    BY <2>0 DEF Clean, FilesWritten, IndexWritten
  <2>2. LinksWritten'
    BY <2>0 DEF Clean, TypeOK, LinksWritten, AllOrNothing, IndexWritten, StartLinking
  <2>3. IndexesWritten'
    BY <2>0 DEF Clean, TypeOK, IndexesWritten, IndexWritten, StartLinking, Goto
  <2>4. AllOrNothing'
    BY <2>0 DEF Clean, TypeOK, AllOrNothing, IndexWritten, StartLinking, Goto
  <2>5. NoStrays'
    <3>1. prune.at # "remove" /\ prune' = prune
      BY DEF IndexWritten, StoreInv, RemovesUnused, Running
    <3>2. \A p \in Packages : Claimed(p) => Claimed(p)'
      BY DEF TypeOK, Claimed, Extracting, IndexWritten, StartLinking, Goto
    <3>3. \A x \in Paths : There(x)' => There(x)
      BY DEF There, IndexWritten
    <3> QED BY <2>0, <3>1, <3>2, <3>3, StraysStep DEF Clean
  <2> QED BY <2>1, <2>2, <2>3, <2>4, <2>5 DEF Clean
<1>6. CASE \E w \in Installs : Linked(w)
  <2>. PICK w \in Installs : Linked(w)
    BY <1>6
  <2>0. crashes = 0 /\ Clean
    BY DEF CleanInv, Linked
  <2>1. FilesWritten'
    BY <2>0 DEF Clean, FilesWritten, Linked
  <2>2. LinksWritten'
    BY <2>0 DEF Clean, LinksWritten, Linked
  <2>3. IndexesWritten'
    BY <2>0 DEF Clean, IndexesWritten, Linked, Goto
  <2>4. AllOrNothing'
    BY <2>0 DEF Clean, AllOrNothing, Linked, Goto
  <2>5. NoStrays'
    BY <2>0 DEF Clean, NoStrays, There, Claimed, Extracting, Referenced, ImportedAlready,
       Linked, Goto
  <2> QED BY <2>1, <2>2, <2>3, <2>4, <2>5 DEF Clean
<1>7. CASE \E w \in Installs : \E f \in FilesOf(w) : Extract(w, f)
  <2>. PICK w \in Installs : \E f \in FilesOf(w) : Extract(w, f)
    BY <1>7
  <2>. PICK f \in FilesOf(w) : Extract(w, f)
    OBVIOUS
  <2>0. crashes = 0 /\ Clean
    BY DEF CleanInv, Extract
  <2>1. FilesWritten'
    BY <2>0 DEF Clean, TypeOK, FilesOf, FilesWritten, WritersWrite, Extract
  <2>2. LinksWritten'
    <3>1. imported' = imported /\ source' = source
          /\ \A v \in Installs \ {w} : writing'[v] = writing[v]
      BY DEF TypeOK, Extract
    <3>2. writing[w] = {}
      BY DEF WritersWrite, Extract
    <3> QED BY <2>0, <3>1, <3>2 DEF Clean, LinksWritten
  <2>3. IndexesWritten'
    BY <2>0 DEF Clean, TypeOK, IndexesWritten, Extract, Goto
  <2>4. AllOrNothing'
    BY <2>0 DEF Clean, TypeOK, AllOrNothing, Extract, Goto
  <2>5. NoStrays'
    <3>1. prune.at # "remove" /\ prune' = prune
      BY DEF Extract, StoreInv, RemovesUnused, Running
    <3>2. \A p \in Packages : Claimed(p) => Claimed(p)'
      BY DEF TypeOK, Claimed, Extracting, Extract, Goto
    <3>3. Claimed(PkgOf[w]) /\ PkgOf[w] \in Packages /\ OfPackage(Stored(f), PkgOf[w])
      BY StoreAssumption DEF Claimed, Extracting, Extract, OfPackage, FilesOf
    <3>4. \A x \in Paths : There(x)' => There(x) \/ x = Stored(f)
      BY DEF TypeOK, There, Extract
    <3> QED BY <2>0, <3>1, <3>2, <3>3, <3>4, StraysStep DEF Clean
  <2> QED BY <2>1, <2>2, <2>3, <2>4, <2>5 DEF Clean
<1>8. CASE \E w \in Installs : \E f \in FilesOf(w) : Link(w, f)
  <2>. PICK w \in Installs : \E f \in FilesOf(w) : Link(w, f)
    BY <1>8
  <2>. PICK f \in FilesOf(w) : Link(w, f)
    OBVIOUS
  <2>0. crashes = 0 /\ Clean
    BY DEF CleanInv, Link
  <2>1. FilesWritten'
    BY <2>0 DEF Clean, FilesWritten, Link
  <2>2. LinksWritten'
    BY <2>0 DEF Clean, TypeOK, LinksWritten, FilesWritten, WritersWrite, Link
  <2>3. IndexesWritten'
    BY <2>0 DEF Clean, TypeOK, IndexesWritten, Link, Goto
  <2>4. AllOrNothing'
    <3>1. imported[w][f] # "absent" \/ imported'[w][f] # "absent"
      BY DEF TypeOK, Link, StoreInv, LinksThere, There
    <3>2. /\ pc'[w] = "link" /\ todo'[w] = todo[w] \ {f}
          /\ \A v \in Installs \ {w} : /\ pc'[v] = pc[v] /\ todo'[v] = todo[v]
                                       /\ imported'[v] = imported[v]
          /\ \A g \in FilesOf(w) \ {f} : imported'[w][g] = imported[w][g]
      BY DEF TypeOK, Link, StoreInv, LinksThere, There
    <3>3. imported'[w][f] # "absent"
      BY <3>1 DEF Link
    <3> QED BY <2>0, <3>2, <3>3 DEF Clean, AllOrNothing, Link
  <2>5. NoStrays'
    <3>1. prune.at # "remove" /\ prune' = prune
      BY DEF Link, StoreInv, RemovesUnused, Running
    <3>2. \A p \in Packages : Claimed(p) => Claimed(p)'
      BY DEF TypeOK, Claimed, Extracting, Link, Goto
    <3>3. \A x \in Paths : There(x)' => There(x)
      BY DEF There, Link
    <3> QED BY <2>0, <3>1, <3>2, <3>3, StraysStep DEF Clean
  <2> QED BY <2>1, <2>2, <2>3, <2>4, <2>5 DEF Clean
<1>9. CASE \E w \in Installs : Drop(w)
  <2>. PICK w \in Installs : Drop(w)
    BY <1>9
  <2>0. crashes = 0 /\ Clean
    BY DEF CleanInv, Drop
  <2>1. FilesWritten'
    BY <2>0 DEF Clean, FilesWritten, Drop
  <2>2. LinksWritten'
    BY <2>0 DEF Clean, LinksWritten, Drop
  <2>3. IndexesWritten'
    BY <2>0 DEF Clean, IndexesWritten, Drop, Goto
  <2>4. AllOrNothing'
    BY <2>0 DEF Clean, TypeOK, AllOrNothing, Drop, Goto
  <2>5. NoStrays'
    BY <2>0 DEF Clean, NoStrays, There, Claimed, Extracting, Drop, Goto
  <2> QED BY <2>1, <2>2, <2>3, <2>4, <2>5 DEF Clean
<1>10. CASE PruneScan
  <2>0. crashes = 0 /\ Clean
    BY <1>10 DEF CleanInv, PruneScan
  <2>1. FilesWritten'
    BY <1>10, <2>0 DEF Clean, FilesWritten, PruneScan
  <2>2. LinksWritten'
    BY <1>10, <2>0 DEF Clean, LinksWritten, PruneScan
  <2>3. IndexesWritten'
    BY <1>10, <2>0 DEF Clean, IndexesWritten, PruneScan
  <2>4. AllOrNothing'
    BY <1>10, <2>0 DEF Clean, AllOrNothing, PruneScan
  <2>5. NoStrays'
    <3>1. \A w \in Installs : ~Extracting(w)
      BY <1>10 DEF PruneScan, Running, Extracting
    <3>2. Referenced' = Referenced /\ index' = index /\ pc' = pc /\ file' = file
      BY <1>10 DEF PruneScan, Referenced, ImportedAlready
    <3>3. \A p \in Packages : (Claimed(p) <=> p \in Indexed) /\ Claimed(p)' = Claimed(p)
      BY <3>1, <3>2 DEF Claimed, Indexed, Extracting
    <3>4. CASE prune'.at # "remove"
      BY <1>10, <2>0, <3>3, <3>4 DEF Clean, NoStrays, There, PruneScan
    <3>5. CASE prune' = Removable
      <4> SUFFICES ASSUME NEW x \in Paths, There(x), x \notin prune'.files
                   PROVE  \E p \in Indexed \cap Referenced : OfPackage(x, p)
        BY <3>2, <3>3, <3>5 DEF NoStrays, There, Removable, Indexed
      <4>1. PICK p \in Indexed : OfPackage(x, p)
        BY <1>10, <2>0, <3>3 DEF Clean, NoStrays, PruneScan
      <4>2. CASE p \notin Referenced
        <5>1. x \in Named(Indexed \ Referenced)
          BY <4>1, <4>2 DEF ExecutableOrNot, OfPackage, Named, Indexed
        <5>2. x \in Named(Indexed \cap Referenced)
          BY <3>5, <5>1 DEF Removable
        <5> QED BY <5>2 DEF ExecutableOrNot, OfPackage, Named, Indexed
      <4> QED BY <4>1, <4>2
    <3> QED BY <1>10, <3>4, <3>5 DEF PruneScan, TypeOK
  <2> QED BY <2>1, <2>2, <2>3, <2>4, <2>5 DEF Clean
<1>11. CASE PruneOver
  <2>0. crashes = 0 /\ Clean
    BY <1>11 DEF CleanInv, PruneOver, TypeOK
  <2>1. FilesWritten'
    BY <1>11, <2>0 DEF Clean, FilesWritten, PruneOver
  <2>2. LinksWritten'
    BY <1>11, <2>0 DEF Clean, LinksWritten, PruneOver
  <2>3. IndexesWritten'
    BY <1>11, <2>0 DEF Clean, IndexesWritten, PruneOver
  <2>4. AllOrNothing'
    BY <1>11, <2>0 DEF Clean, AllOrNothing, PruneOver
  <2>5. NoStrays'
    BY <1>11, <2>0 DEF Clean, NoStrays, There, Claimed, Extracting, Referenced, PruneOver
  <2> QED BY <2>1, <2>2, <2>3, <2>4, <2>5 DEF Clean
<1>12. CASE \E p \in Packages : PruneIndex(p)
  <2>. PICK p \in Packages : PruneIndex(p)
    BY <1>12
  <2>0. crashes = 0 /\ Clean
    BY DEF CleanInv, PruneIndex
  <2>1. FilesWritten'
    BY <2>0 DEF Clean, FilesWritten, PruneIndex
  <2>2. LinksWritten'
    BY <2>0 DEF Clean, LinksWritten, PruneIndex
  <2>3. IndexesWritten'
    BY <2>0 DEF Clean, IndexesWritten, PruneIndex
  <2>4. AllOrNothing'
    BY <2>0 DEF Clean, AllOrNothing, PruneIndex
  <2>5. NoStrays'
    <3>1. p \notin Referenced /\ Referenced' = Referenced /\ prune.at = "remove"
      BY DEF PruneIndex, StoreInv, RemovesUnused, Referenced, ImportedAlready
    <3>2. prune'.at = "remove" /\ prune'.files = prune.files
      BY DEF PruneIndex
    <3>3. \A r \in Packages \ {p} : Claimed(r) => Claimed(r)'
      BY DEF PruneIndex, Claimed, Extracting
    <3> QED BY <2>0, <3>1, <3>2, <3>3 DEF Clean, NoStrays, There, OfPackage, PruneIndex
  <2> QED BY <2>1, <2>2, <2>3, <2>4, <2>5 DEF Clean
<1>13. CASE \E x \in Paths : PruneFile(x)
  <2>. PICK x \in Paths : PruneFile(x)
    BY <1>13
  <2>0. crashes = 0 /\ Clean
    BY DEF CleanInv, PruneFile
  <2>1. FilesWritten'
    BY <2>0 DEF Clean, FilesWritten, PruneFile
  <2>2. LinksWritten'
    BY <2>0 DEF Clean, LinksWritten, PruneFile
  <2>3. IndexesWritten'
    BY <2>0 DEF Clean, IndexesWritten, PruneFile
  <2>4. AllOrNothing'
    BY <2>0 DEF Clean, AllOrNothing, PruneFile
  <2>5. NoStrays'
    BY <2>0 DEF Clean, TypeOK, NoStrays, There, Claimed, Extracting, Referenced,
       ImportedAlready, PruneFile
  <2> QED BY <2>1, <2>2, <2>3, <2>4, <2>5 DEF Clean
<1> QED
  BY <1>0, <1>1, <1>2, <1>3, <1>4, <1>5, <1>6, <1>7, <1>8, <1>9, <1>10, <1>11, <1>12, <1>13
  DEF Next, Install, Prune

(* Every step, and stuttering, keeps the invariant. *)
LEMMA StepInv == ASSUME ExecutableOrNot PROVE IInv /\ [Next]_vars => IInv'
<1> SUFFICES ASSUME IInv, [Next]_vars PROVE IInv'
  OBVIOUS
<1>1. CASE Next
  BY <1>1, TypeStep, StoreStep, WritersStep, CleanStep DEF IInv
<1>2. CASE UNCHANGED vars
  BY <1>2 DEF IInv, vars, TypeOK, WritersWrite, StoreInv, IndexBacked, ExtractedThere,
     LinksThere, RemovesUnused, NothingFailed, CleanInv, Clean, FilesWritten, LinksWritten,
     IndexesWritten, AllOrNothing, NoStrays, There, Kept, Referenced, ImportedAlready,
     Running, Extracting, Claimed, OfPackage
<1> QED BY <1>1, <1>2

(* Whatever is killed, what an index, an extraction or an install counts   *)
(* on is in the store; and until something is killed, whatever is partial  *)
(* is being written, and every file belongs to an index or to one to come. *)
THEOREM Invariance == ASSUME ExecutableOrNot PROVE Spec => []IInv
<1>1. Init => IInv
  BY InitInv
<1>2. IInv /\ [Next]_vars => IInv'
  BY StepInv
<1> QED BY <1>1, <1>2, PTL DEF Spec

(* An index that is whole has all its files: the index is written last,    *)
(* and prune spares the files of indexes that stay (index_file.rs,         *)
(* prune.rs).                                                              *)
THEOREM IndexBackedHolds == ASSUME ExecutableOrNot PROVE Spec => []IndexBacked
<1>1. IInv => IndexBacked
  BY DEF IInv, StoreInv
<1> QED BY <1>1, Invariance, PTL

LEMMA CleanWhole == IInv => CleanInstallsWhole
<1> SUFFICES ASSUME IInv PROVE CleanInstallsWhole
  OBVIOUS
<1>1. \A w \in Installs : pc[w] # "failed"
  BY DEF IInv, StoreInv, NothingFailed
<1>2. ASSUME crashes = 0, \A v \in Installs : writing[v] = {},
             NEW w \in Installs, pc[w] = "done", NEW f \in FilesOf(w)
      PROVE  imported[w][f] = "whole"
  <2>1. imported[w][f] \in States
    BY DEF IInv, TypeOK
  <2>2. imported[w][f] # "absent" /\ imported[w][f] # "partial"
    BY <1>2 DEF IInv, CleanInv, Clean, AllOrNothing, LinksWritten
  <2> QED BY <2>1, <2>2 DEF States
<1> QED BY <1>1, <1>2 DEF CleanInstallsWhole

(* Without kills, what installs have linked is whole once no file is being *)
(* written, though they link files that others are still writing, and      *)
(* check for one file of a package only (create_cas_files.rs).             *)
THEOREM CleanInstallsWholeHolds == ASSUME ExecutableOrNot PROVE Spec => []CleanInstallsWhole
BY CleanWhole, Invariance, PTL

LEMMA StepExact ==
  ASSUME ExecutableOrNot, IInv, IInv', Next
  PROVE  ExactStep
<1>1. ASSUME NEW p \in Referenced, index[p] = "whole"
      PROVE  index'[p] = "whole"
  <2>1. p \in Packages
    BY StoreAssumption DEF Referenced
  <2>2. ASSUME NEW q \in Packages, PruneIndex(q) PROVE index'[p] = "whole"
    BY <1>1, <2>1, <2>2 DEF IInv, TypeOK, StoreInv, RemovesUnused, PruneIndex
  <2> QED BY <1>1, <2>1, <2>2 DEF IInv, TypeOK, Next, Install, Prune, Check, Fetch, FileWritten,
             WriteIndex, IndexWritten, Linked, Extract, Link, Drop, Crash, PruneScan, PruneOver,
             PruneFile
<1>2. ASSUME NEW p \in Referenced, index[p] = "whole", NEW f \in Files[p]
      PROVE  file'[Stored(f)] # "absent"
  BY <1>1, <1>2, StoreAssumption DEF IInv, StoreInv, IndexBacked, Referenced
<1>3. ASSUME prune.at = "remove", prune'.at = "over", crashes' = 0
      PROVE  /\ \A p \in Packages : index'[p] # "absent" => p \in Referenced
             /\ \A x \in Paths : file'[x] # "absent" =>
                  \E p \in Referenced : \E f \in Files[p] : x = Stored(f)
  <2>1. PruneOver
    BY <1>3 DEF IInv, TypeOK, Next, Install, Prune, Check, Fetch, FileWritten,
       WriteIndex, IndexWritten, Linked, Extract, Link, Drop, Crash, PruneScan, PruneIndex,
       PruneFile
  <2>2. /\ prune.indexes = {} /\ prune.files = {} /\ crashes = 0
        /\ index' = index /\ file' = file
    BY <1>3, <2>1 DEF IInv, TypeOK, PruneOver
  <2>3. \A p \in Packages : index[p] # "absent" => p \in Referenced
    BY <1>3, <2>2 DEF IInv, TypeOK, States, StoreInv, RemovesUnused, Kept
  <2>4. \A x \in Paths : There(x) => \E p \in Referenced : OfPackage(x, p)
    BY <1>3, <2>2 DEF IInv, CleanInv, Clean, NoStrays
  <2> QED BY <2>2, <2>3, <2>4 DEF There, OfPackage
<1> QED BY <1>1, <1>2, <1>3 DEF ExactStep

(* Prune takes no index and no file of a package that a project uses, and  *)
(* without kills leaves none that nobody uses (StoreDir::prune).           *)
THEOREM PruneExactHolds == ASSUME ExecutableOrNot PROVE Spec => PruneExact
<1>1. IInv /\ IInv' /\ [Next]_vars => [ExactStep]_vars
  BY StepExact
<1> QED BY <1>1, Invariance, PTL DEF Spec, PruneExact
=============================================================================
