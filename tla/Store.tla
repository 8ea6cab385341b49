------------------------------- MODULE Store -------------------------------
(***************************************************************************)
(* The content-addressed store on disk, and the import of packages from it *)
(* into virtual stores.  Extraction writes the files of a tarball, then    *)
(* its index; an import links the files that an index names.  Installs of  *)
(* one or several processes and `store prune` share the store without a    *)
(* lock, and a process may be killed anywhere.                             *)
(*                                                                         *)
(* ensure_file creates a file, then writes it: until the write is done, or *)
(* for ever when the process dies, the file is there but "partial".  What  *)
(* fetching a tarball involves is in TarballFetch; here it succeeds.       *)
(* Imports are hard links, the first choice of PackageImportMethod::Auto.  *)
(***************************************************************************)
EXTENDS Naturals

CONSTANTS Packages,   \* packages, each one tarball
          Files,      \* files of each: <<content, mode>>
          Manifest,   \* package.json of each
          Installs,   \* imports of a package into a project's virtual store
          PkgOf,      \* the package of each
          ProcessOf,  \* the process that runs it
          MaxCrashes, \* bound: processes killed
          Prunable    \* bound: `store prune` runs, while no install does

Modes == {"none", "some", "all"}   \* how many of the three x bits are set
Content == {f[1] : f \in UNION {Files[p] : p \in Packages}}
Paths == Content \X BOOLEAN        \* with and without the suffix "-exec"

ASSUME StoreAssumption ==
  /\ \A p \in Packages : /\ Files[p] \subseteq Content \X Modes
                         /\ Manifest[p] \in Files[p]
  /\ PkgOf \in [Installs -> Packages]
  /\ DOMAIN ProcessOf = Installs
  /\ MaxCrashes \in Nat
  /\ Prunable \in BOOLEAN

VARIABLES file,     \* files/: what each path holds
          index,    \* index/: the index of each package
          pc,       \* where each install stands
          todo,     \* files it has still to extract or to link
          writing,  \* the path it has created and is writing, if any
          source,   \* the store path it links each of its files from
          imported, \* what it has linked into the virtual store
          prune,    \* `store prune`, and what it means to remove
          crashes

vars == <<file, index, pc, todo, writing, source, imported, prune,
          crashes>>

(* "check"    is the package imported, or indexed?                         *)
(* "fetch"    run_without_mem_cache looks at the store again               *)
(* "extract"  next file of the archive    "write" a file it has created    *)
(* "index"    writing the index           "link"  create_cas_files         *)
PCs == {"check", "fetch", "extract", "write", "index", "link", "done", "failed"}
States == {"absent", "partial", "whole"}

FilesOf(w) == Files[PkgOf[w]]

(* The path a file is written to, with the suffix if every x bit is set... *)
Stored(f) == <<f[1], f[2] = "all">>
(* ... and the one that cas_paths_from_index and prune take it to have.    *)
Assumed(f) == <<f[1], f[2] # "none">>

Init == /\ file = [x \in Paths |-> "absent"]
        /\ index = [p \in Packages |-> "absent"]
        /\ pc = [w \in Installs |-> "check"]
        /\ todo = [w \in Installs |-> {}]
        /\ writing = [w \in Installs |-> {}]
        /\ source = [w \in Installs |-> [f \in FilesOf(w) |-> Stored(f)]]
        /\ imported = [w \in Installs |-> [f \in FilesOf(w) |-> "absent"]]
        /\ prune = [at |-> "idle", indexes |-> {}, files |-> {}]
        /\ crashes = 0

Goto(w, l) == pc' = [pc EXCEPT ![w] = l]

StartLinking(w, paths) ==
  /\ Goto(w, "link")
  /\ todo' = [todo EXCEPT ![w] = FilesOf(w)]
  /\ source' = [source EXCEPT ![w] = paths]

ImportedAlready(w) == imported[w][Manifest[PkgOf[w]]] # "absent"

(* cas_paths_from_index: of the files that the index names, only           *)
(* package.json is looked for.                                             *)
SpotCheck(p) == index[p] = "whole" /\ file[Assumed(Manifest[p])] # "absent"

(* install_package_version and InstallPackageBySnapshot::run, up to the    *)
(* download.                                                               *)
Check(w) ==
  /\ pc[w] = "check"
  /\ prune.at # "remove"
  /\ \/ /\ ImportedAlready(w)
        /\ Goto(w, "done")
        /\ UNCHANGED <<todo, source>>
     \/ /\ ~ImportedAlready(w) /\ SpotCheck(PkgOf[w])
        /\ StartLinking(w, [f \in FilesOf(w) |-> Assumed(f)])
     \/ /\ ~ImportedAlready(w) /\ ~SpotCheck(PkgOf[w])
        /\ Goto(w, "fetch")
        /\ UNCHANGED <<todo, source>>
  /\ UNCHANGED <<file, index, writing, imported, prune, crashes>>

(* cas_paths_from_store_index: here every file is looked for. *)
Reusable(p) == /\ index[p] = "whole"
               /\ \A f \in Files[p] : file[Stored(f)] # "absent"

Fetch(w) ==
  /\ pc[w] = "fetch"
  /\ \/ /\ Reusable(PkgOf[w])
        /\ StartLinking(w, [f \in FilesOf(w) |-> Stored(f)])
     \/ /\ ~Reusable(PkgOf[w])
        /\ Goto(w, "extract")
        /\ todo' = [todo EXCEPT ![w] = FilesOf(w)]
        /\ UNCHANGED source
  /\ UNCHANGED <<file, index, writing, imported, prune, crashes>>

(* Mutant of Extract: wait for whoever is writing the file. *)
ExtractWaits(w, f) ==
  /\ pc[w] = "extract" /\ f \in todo[w]
  /\ file[Stored(f)] # "partial"
  /\ todo' = [todo EXCEPT ![w] = @ \ {f}]
  /\ IF file[Stored(f)] = "whole"
     THEN UNCHANGED <<file, pc, writing>>
     ELSE /\ file' = [file EXCEPT ![Stored(f)] = "partial"]
          /\ writing' = [writing EXCEPT ![w] = {Stored(f)}]
          /\ Goto(w, "write")
  /\ UNCHANGED <<index, source, imported, prune, crashes>>

(* write_cas_file: a file that exists is left alone, in whatever state; a  *)
(* new one is created empty...                                             *)
Extract(w, f) ==
  /\ pc[w] = "extract" /\ f \in todo[w]
  /\ todo' = [todo EXCEPT ![w] = @ \ {f}]
  /\ IF file[Stored(f)] # "absent"
     THEN UNCHANGED <<file, pc, writing>>
     ELSE /\ file' = [file EXCEPT ![Stored(f)] = "partial"]
          /\ writing' = [writing EXCEPT ![w] = {Stored(f)}]
          /\ Goto(w, "write")
  /\ UNCHANGED <<index, source, imported, prune, crashes>>

(* Mutant of FileWritten: those who have linked the file had copied it. *)
FileWrittenAfterCopy(w) ==
  /\ pc[w] = "write"
  /\ file' = [x \in Paths |-> IF x \in writing[w] THEN "whole" ELSE file[x]]
  /\ writing' = [writing EXCEPT ![w] = {}]
  /\ Goto(w, "extract")
  /\ UNCHANGED <<index, todo, source, imported, prune, crashes>>

(* ... and written, also for those who have linked it already. *)
FileWritten(w) ==
  /\ pc[w] = "write"
  /\ file' = [x \in Paths |-> IF x \in writing[w] THEN "whole" ELSE file[x]]
  /\ imported' = [v \in Installs |-> [f \in FilesOf(v) |->
                    IF imported[v][f] = "partial" /\ source[v][f] \in writing[w]
                    THEN "whole" ELSE imported[v][f]]]
  /\ writing' = [writing EXCEPT ![w] = {}]
  /\ Goto(w, "extract")
  /\ UNCHANGED <<index, todo, source, prune, crashes>>

(* write_index_file, in the same way.  The files are linked from where     *)
(* they were written.                                                      *)
WriteIndex(w) ==
  /\ pc[w] = "extract" /\ todo[w] = {}
  /\ \/ /\ index[PkgOf[w]] # "absent"
        /\ StartLinking(w, [f \in FilesOf(w) |-> Stored(f)])
        /\ UNCHANGED index
     \/ /\ index[PkgOf[w]] = "absent"
        /\ index' = [index EXCEPT ![PkgOf[w]] = "partial"]
        /\ Goto(w, "index")
        /\ UNCHANGED <<todo, source>>
  /\ UNCHANGED <<file, writing, imported, prune, crashes>>

IndexWritten(w) ==
  /\ pc[w] = "index"
  /\ index' = [index EXCEPT ![PkgOf[w]] = "whole"]
  /\ StartLinking(w, [f \in FilesOf(w) |-> Stored(f)])
  /\ UNCHANGED <<file, writing, imported, prune, crashes>>

(* create_cas_files links the files in parallel, in any order; link_file   *)
(* leaves a file alone that is there, and fails without a source.          *)
Link(w, f) ==
  /\ pc[w] = "link" /\ f \in todo[w]
  /\ \/ /\ imported[w][f] # "absent"
        /\ todo' = [todo EXCEPT ![w] = @ \ {f}]
        /\ UNCHANGED <<pc, imported>>
     \/ /\ imported[w][f] = "absent" /\ file[source[w][f]] # "absent"
        /\ imported' = [imported EXCEPT ![w][f] = file[source[w][f]]]
        /\ todo' = [todo EXCEPT ![w] = @ \ {f}]
        /\ UNCHANGED pc
     \/ /\ imported[w][f] = "absent" /\ file[source[w][f]] = "absent"
        /\ Goto(w, "failed")
        /\ UNCHANGED <<todo, imported>>
  /\ UNCHANGED <<file, index, writing, source, prune, crashes>>

Linked(w) ==
  /\ pc[w] = "link" /\ todo[w] = {}
  /\ Goto(w, "done")
  /\ UNCHANGED <<file, index, todo, writing, source, imported, prune, crashes>>

Install(w) == \/ Check(w) \/ Fetch(w) \/ FileWritten(w) \/ WriteIndex(w)
              \/ IndexWritten(w) \/ Linked(w)
              \/ \E f \in FilesOf(w) : Extract(w, f) \/ Link(w, f)

Running(w) == pc[w] \notin {"check", "done", "failed"}

(* A process is killed, and its command is run again. *)
Crash(q) ==
  /\ crashes < MaxCrashes
  /\ \E w \in Installs : ProcessOf[w] = q /\ Running(w)
  /\ crashes' = crashes + 1
  /\ LET dead == {w \in Installs : ProcessOf[w] = q} IN
       /\ pc' = [w \in Installs |-> IF w \in dead THEN "check" ELSE pc[w]]
       /\ todo' = [w \in Installs |-> IF w \in dead THEN {} ELSE todo[w]]
       /\ writing' = [w \in Installs |-> IF w \in dead THEN {} ELSE writing[w]]
  /\ UNCHANGED <<file, index, source, imported, prune>>
-----------------------------------------------------------------------------
(* A project uses a package whose package.json is in its virtual store. *)
Referenced == {PkgOf[w] : w \in {v \in Installs : ImportedAlready(v)}}

Indexed == {p \in Packages : index[p] = "whole"}
Named(P) == {Assumed(f) : f \in UNION {Files[p] : p \in P}}

(* Mutant of Removable: only the indexes are removed. *)
RemovableIndexes == [at |-> "remove", indexes |-> Indexed \ Referenced,
                     files |-> {}]

(* The indexes of packages that no project uses, and the files that only   *)
(* they name.                                                              *)
Removable == [at |-> "remove", indexes |-> Indexed \ Referenced,
              files |-> Named(Indexed \ Referenced)
                        \ Named(Indexed \cap Referenced)]

(* Prune settles what to remove, and gives up on an index, or a            *)
(* package.json, that does not parse.                                      *)
PruneScan ==
  /\ prune.at = "idle" /\ Prunable
  /\ \A w \in Installs : ~Running(w)
  /\ prune' = IF \/ \E p \in Packages : index[p] = "partial"
                 \/ \E w \in Installs : imported[w][Manifest[PkgOf[w]]] = "partial"
              THEN [prune EXCEPT !.at = "over"]
              ELSE Removable
  /\ UNCHANGED <<file, index, pc, todo, writing, source, imported, crashes>>

PruneIndex(p) ==
  /\ prune.at = "remove" /\ p \in prune.indexes
  /\ index' = [index EXCEPT ![p] = "absent"]
  /\ prune' = [prune EXCEPT !.indexes = @ \ {p}]
  /\ UNCHANGED <<file, pc, todo, writing, source, imported, crashes>>

(* Mutant of PruneFile: a file may go before the indexes do. *)
PruneFileEarly(x) ==
  /\ prune.at = "remove" /\ x \in prune.files
  /\ file' = [file EXCEPT ![x] = "absent"]
  /\ prune' = [prune EXCEPT !.files = @ \ {x}]
  /\ UNCHANGED <<index, pc, todo, writing, source, imported, crashes>>

PruneFile(x) ==
  /\ prune.at = "remove" /\ prune.indexes = {} /\ x \in prune.files
  /\ file' = [file EXCEPT ![x] = "absent"]
  /\ prune' = [prune EXCEPT !.files = @ \ {x}]
  /\ UNCHANGED <<index, pc, todo, writing, source, imported, crashes>>

(* It ends, or is killed on the way. *)
PruneOver ==
  /\ prune.at = "remove"
  /\ \/ prune.indexes = {} /\ prune.files = {} /\ UNCHANGED crashes
     \/ crashes < MaxCrashes /\ crashes' = crashes + 1
  /\ prune' = [at |-> "over", indexes |-> {}, files |-> {}]
  /\ UNCHANGED <<file, index, pc, todo, writing, source, imported>>

Prune == \/ PruneScan \/ PruneOver
         \/ \E p \in Packages : PruneIndex(p)
         \/ \E x \in Paths : PruneFile(x)

(* The project drops the package: node_modules is removed, or the orphaned *)
(* entry pruned from it.  It may be installed again.                       *)
Drop(w) ==
  /\ pc[w] = "done"
  /\ prune.at # "remove"
  /\ imported' = [imported EXCEPT ![w] = [f \in FilesOf(w) |-> "absent"]]
  /\ Goto(w, "check")
  /\ UNCHANGED <<file, index, todo, writing, source, prune, crashes>>

Next == \/ \E w \in Installs : Install(w) \/ Drop(w)
        \/ \E q \in {ProcessOf[w] : w \in Installs} : Crash(q)
        \/ Prune

(* The threads of a live process run on; nobody has to run prune, but once *)
(* it is removing it goes on.                                              *)
Spec == Init /\ [][Next]_vars
FairSpec == /\ Spec
            /\ \A w \in Installs : WF_vars(Install(w))
            /\ WF_vars(prune.at = "remove" /\ Prune)
-----------------------------------------------------------------------------
(* An index that parses names files that are there: it is written after    *)
(* them and removed before them, whoever is killed in between.             *)
IndexBacked ==
  \A p \in Packages : index[p] = "whole" =>
    \A f \in Files[p] : file[Stored(f)] # "absent"

(* No import misses a file of the store, although the warm path looks for  *)
(* one of them only, and others extract and prune the same files.  As long *)
(* as nothing was killed, an installed package is also complete once those *)
(* who were still writing its files are done.                              *)
CleanInstallsWhole ==
  /\ \A w \in Installs : pc[w] # "failed"
  /\ crashes = 0 /\ (\A v \in Installs : writing[v] = {}) =>
       \A w \in Installs : pc[w] = "done" =>
         \A f \in FilesOf(w) : imported[w][f] = "whole"

(* "Remove all files in the store that don't have reference elsewhere" and *)
(* "prune_removes_only_unreferenced_packages": prune takes neither the     *)
(* index nor a file of a package that a project uses, not even a file that *)
(* such a package shares with one that goes; and when it has gone through, *)
(* and nothing was killed, what is left in the store is used.              *)
ExactStep ==
  /\ \A p \in Referenced : index[p] = "whole" =>
       /\ index'[p] = "whole"
       /\ \A f \in Files[p] : file'[Stored(f)] # "absent"
  /\ prune.at = "remove" /\ prune'.at = "over" /\ crashes' = 0 =>
       /\ \A p \in Packages : index'[p] # "absent" => p \in Referenced
       /\ \A x \in Paths : file'[x] # "absent" =>
            \E p \in Referenced : \E f \in Files[p] : x = Stored(f)
PruneExact == [][ExactStep]_vars

(* Every install ends: nobody waits for the writer of a partial file.      *)
InstallsEnd ==
  \A w \in Installs : pc[w] = "check" ~> pc[w] \in {"done", "failed"}
=============================================================================
