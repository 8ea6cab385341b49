------------------------------ MODULE Resolver ------------------------------
(***************************************************************************)
(* Resolution of a workspace into pnpm-lock.yaml.  The CLI runs Install    *)
(* for one importer after the other; ResolvedPackages is shared by all of  *)
(* them.  Each run walks the dependency graph with one concurrent call of  *)
(* install_and_snapshot_package (with --lockfile-only:                     *)
(* resolve_and_snapshot_package) per dependency: the first call to claim a *)
(* package in ResolvedPackages expands its dependencies and snapshots it,  *)
(* every later one only takes note that it is there.  The run then merges  *)
(* its snapshots with the lockfile it was given, prunes and saves.         *)
(*                                                                         *)
(* A package is a resolved version: which version a range selects is not   *)
(* modelled.  An importer without an entry has the empty entry that        *)
(* ensure_workspace_importers gives it.                                    *)
(***************************************************************************)
EXTENDS Naturals, Functions

CONSTANTS Packages,      \* resolved package versions
          NumImporters,  \* importers, installed in this order
          Regular,       \* dependencies of each package and importer: required
          Optional,      \* ... and optional ones
          Unsupported,   \* packages whose os/cpu/engines exclude this platform
          LockfileOnly,  \* --lockfile-only
          OldEntries     \* importer entries that an earlier install recorded

Importers == 1..NumImporters
Nodes == Importers \cup Packages

ASSUME ResolverAssumption ==
  /\ NumImporters \in Nat
  /\ Importers \cap Packages = {}
  /\ Regular \in [Nodes -> SUBSET Packages]
  /\ Optional \in [Nodes -> SUBSET Packages]
  /\ \A n \in Nodes : Regular[n] \cap Optional[n] = {}
  /\ Unsupported \subseteq Packages
  /\ LockfileOnly \in BOOLEAN
  /\ OldEntries \subseteq [Importers -> SUBSET Packages]

Deps(n) == Regular[n] \cup Optional[n]

(* A call is named by the dependency it resolves. *)
Edges == {e \in Nodes \X Packages : e[2] \in Deps(e[1])}
Children(p) == {e \in Edges : e[1] = p}

VARIABLES importer,  \* the importer whose run is next or under way
          status,    \* of the command
          call,      \* the calls of the current run
          claimed,   \* ResolvedPackages
          snapshots, \* package_snapshots of the run
          imported,  \* packages the run's own calls have imported
          current,   \* current_lockfile, which the runs are given
          lockfile   \* pnpm-lock.yaml

vars == <<importer, status, call, claimed, snapshots, imported, current,
          lockfile>>

Snapshot == [deps : SUBSET Packages, optional : BOOLEAN]
NoSnapshots == [p \in {} |-> {}]

(* The packages that the edges lead to from a set of roots. *)
Reach(roots, next) ==
  {p \in Packages : \A S \in SUBSET Packages :
     /\ roots \subseteq S
     /\ \A q \in S \cap DOMAIN next : next[q] \subseteq S
     => p \in S}

DepsOf(packages) == [p \in DOMAIN packages |-> packages[p].deps]
RootsOf(entries) == UNION {entries[i] : i \in DOMAIN entries}

(* Mutant of Pruned: nothing is pruned. *)
PrunedNothing(entries, packages) == packages

(* prune_unreferenced_packages: keep what some importer still leads to. *)
Pruned(entries, packages) ==
  Restrict(packages,
           DOMAIN packages \cap Reach(RootsOf(entries), DepsOf(packages)))

(* What an earlier install recorded, on a platform all packages support. *)
LockfileOf(entries) ==
  LET all == Reach(RootsOf(entries), [p \in Packages |-> Deps(p)])
      required == {p \in all : \/ \E i \in Importers : p \in entries[i] \cap Regular[i]
                               \/ \E q \in all : p \in Regular[q]}
  IN  [importers |-> entries,
       packages |-> [p \in all |-> [deps |-> Deps(p),
                                    optional |-> p \notin required]]]

Init == /\ importer = 1
        /\ status = "between"
        /\ call = [e \in Edges |-> "none"]
        /\ claimed = {}
        /\ snapshots = NoSnapshots
        /\ imported = {}
        /\ \E entries \in OldEntries : lockfile = LockfileOf(entries)
        /\ current = lockfile
-----------------------------------------------------------------------------
(* should_skip_optional_package_version *)
Skipped(e) == e[2] \in Optional[e[1]] /\ e[2] \in Unsupported

(* The entry does not satisfy the manifest, or settings or overrides       *)
(* recorded in the lockfile have changed, or prefer-frozen-lockfile is     *)
(* off: the direct dependencies are resolved, all at once.                 *)
StartRun ==
  /\ status = "between" /\ importer \in Importers
  /\ status' = "resolving"
  /\ call' = [e \in Edges |-> IF e[1] = importer THEN "resolving" ELSE "none"]
  /\ snapshots' = NoSnapshots
  /\ imported' = {}
  /\ UNCHANGED <<importer, claimed, current, lockfile>>

(* What a frozen run installs: the packages its entry leads to, leaving    *)
(* out optional ones that do not fit the platform and what only they need. *)
Installable(i) ==
  LET kept == {p \in DOMAIN current.packages :
                 ~(p \in Unsupported /\ current.packages[p].optional)}
      next == [p \in kept |-> current.packages[p].deps]
      direct == current.importers[i] \ (Optional[i] \cap Unsupported)
  IN  Reach(direct, next) \cap kept

(* The entry satisfies the manifest: InstallFrozenLockfile, which claims   *)
(* what it installs, or nothing when node_modules is up to date.           *)
RunFrozen ==
  /\ status = "between" /\ importer \in Importers
  /\ current.importers[importer] = Deps(importer)
  /\ \/ UNCHANGED claimed
     \/ ~LockfileOnly /\ claimed' = claimed \cup Installable(importer)
  /\ importer' = importer + 1
  /\ current' = IF LockfileOnly THEN current ELSE lockfile
  /\ UNCHANGED <<status, call, snapshots, imported, lockfile>>
-----------------------------------------------------------------------------
(* package_snapshots.insert *)
Insert(p, deps, optional) ==
  snapshots' = [q \in DOMAIN snapshots \cup {p} |->
                  IF q = p THEN [deps |-> deps, optional |-> optional]
                  ELSE snapshots[q]]

(* InstallPackageFromRegistry downloads, imports and links the package     *)
(* before anybody claims it, each time it is asked for.                    *)
Import(e) ==
  imported' = IF LockfileOnly \/ Skipped(e) THEN imported
              ELSE imported \cup {e[2]}

(* The first to claim the package starts a call for each dependency.  One  *)
(* without dependencies, or skipped, is snapshotted at once.               *)
Claim(e) ==
  /\ call[e] = "resolving"
  /\ e[2] \notin claimed
  /\ claimed' = claimed \cup {e[2]}
  /\ Import(e)
  /\ IF Skipped(e) \/ Children(e[2]) = {}
     THEN /\ call' = [call EXCEPT ![e] = "ok"]
          /\ Insert(e[2], {}, e[2] \in Optional[e[1]])
     ELSE /\ call' = [f \in Edges |-> IF f = e THEN "expanding"
                                      ELSE IF f \in Children(e[2]) THEN "resolving"
                                      ELSE call[f]]
          /\ UNCHANGED snapshots
  /\ UNCHANGED <<importer, status, current, lockfile>>

(* Mutant of Reuse: wait until the snapshot of the claimer is there. *)
ReuseWaits(e) ==
  /\ call[e] = "resolving"
  /\ e[2] \in claimed
  /\ e[2] \in DOMAIN snapshots \cup DOMAIN current.packages
  /\ Import(e)
  /\ call' = [call EXCEPT ![e] = "ok"]
  /\ UNCHANGED <<importer, status, claimed, snapshots, current, lockfile>>

(* The package was claimed before.  Its snapshot, if the run has one yet,  *)
(* is no longer optional when the dependency is required.                  *)
Reuse(e) ==
  /\ call[e] = "resolving"
  /\ e[2] \in claimed
  /\ Import(e)
  /\ call' = [call EXCEPT ![e] = "ok"]
  /\ snapshots' = IF e[2] \in Regular[e[1]] /\ e[2] \in DOMAIN snapshots
                  THEN [snapshots EXCEPT ![e[2]].optional = FALSE]
                  ELSE snapshots
  /\ UNCHANGED <<importer, status, claimed, current, lockfile>>

(* Metadata, download or import failed; optional dependencies fail alike. *)
Fail(e) ==
  /\ call[e] = "resolving"
  /\ call' = [call EXCEPT ![e] = "err"]
  /\ UNCHANGED <<importer, status, claimed, snapshots, imported, current, lockfile>>

Ended(e) == call[e] \in {"ok", "err"}

(* All dependencies have ended: snapshot the package, or pass an error on. *)
Expanded(e) ==
  /\ call[e] = "expanding"
  /\ \A f \in Children(e[2]) : Ended(f)
  /\ IF \E f \in Children(e[2]) : call[f] = "err"
     THEN /\ call' = [call EXCEPT ![e] = "err"]
          /\ UNCHANGED snapshots
     ELSE /\ call' = [call EXCEPT ![e] = "ok"]
          /\ Insert(e[2], Deps(e[2]), e[2] \in Optional[e[1]])
  /\ UNCHANGED <<importer, status, claimed, imported, current, lockfile>>

(* Mutant of MergedEntries: only what this run has resolved. *)
OwnEntry ==
  [i \in Importers |-> IF i = importer THEN Deps(i) ELSE {}]

(* merge_project_snapshot: the importer's entry, beside the given ones. *)
MergedEntries == [current.importers EXCEPT ![importer] = Deps(importer)]

(* The packages of the given lockfile, overridden by the new snapshots. *)
MergedPackages ==
  [p \in DOMAIN current.packages \cup DOMAIN snapshots |->
     IF p \in DOMAIN snapshots THEN snapshots[p] ELSE current.packages[p]]

(* The tail of InstallWithLockfile::run when every direct dependency has   *)
(* resolved: merge, prune and save.  The CLI reloads the lockfile unless   *)
(* --lockfile-only.  (The linking that follows the save has a              *)
(* ResolvedPackages of its own.)                                           *)
Save ==
  /\ status = "resolving"
  /\ \A e \in Children(importer) : call[e] = "ok"
  /\ lockfile' = [importers |-> MergedEntries,
                  packages |-> Pruned(MergedEntries, MergedPackages)]
  /\ current' = IF LockfileOnly THEN current ELSE lockfile'
  /\ status' = "between"
  /\ importer' = importer + 1
  /\ UNCHANGED <<call, claimed, snapshots, imported>>

(* An error of a direct dependency, once all have ended, ends the command. *)
Abort ==
  /\ status = "resolving"
  /\ \A e \in Children(importer) : Ended(e)
  /\ \E e \in Children(importer) : call[e] = "err"
  /\ status' = "failed"
  /\ UNCHANGED <<importer, call, claimed, snapshots, imported, current, lockfile>>

Progress == \/ StartRun \/ RunFrozen \/ Save \/ Abort
            \/ \E e \in Edges : Claim(e) \/ Reuse(e) \/ Expanded(e)

Next == Progress \/ \E e \in Edges : Fail(e)

(* The executor polls ready futures, and requests end; none has to fail. *)
Spec == Init /\ [][Next]_vars
FairSpec == Spec /\ WF_vars(Progress)
-----------------------------------------------------------------------------
Finished == importer > NumImporters

(* "Each importer's Install::run() extends the lockfile incrementally":    *)
(* the entry of an importer that was installed matches its manifest from   *)
(* then on.                                                                *)
ExtendsIncrementally ==
  \A i \in Importers : i < importer => lockfile.importers[i] = Deps(i)

(* When every importer is installed, the lockfile holds the packages the   *)
(* manifests lead to and no others, each with all its dependencies; only   *)
(* packages foreign to the platform may be recorded without theirs.  What  *)
(* a run records as required it has imported into the virtual store when   *)
(* it saves the lockfile, whichever of its users claimed it.  And at all   *)
(* times every dependency recorded for an importer or a package has an     *)
(* entry, although a run writes no snapshot for what an earlier importer   *)
(* has claimed.                                                            *)
LockfileExact ==
  /\ RootsOf(lockfile.importers) \subseteq DOMAIN lockfile.packages
  /\ \A p \in DOMAIN lockfile.packages :
       lockfile.packages[p].deps \subseteq DOMAIN lockfile.packages
  /\ Finished =>
       LET full == [p \in Packages |-> Deps(p)]
           least == [p \in Packages \ Unsupported |-> Deps(p)]
           roots == UNION {Deps(i) : i \in Importers}
       IN  /\ Reach(roots, least) \subseteq DOMAIN lockfile.packages
           /\ DOMAIN lockfile.packages \subseteq Reach(roots, full)
           /\ \A p \in DOMAIN lockfile.packages \ Unsupported :
                lockfile.packages[p].deps = Deps(p)
  /\ ~LockfileOnly /\ status = "between" =>
       \A p \in DOMAIN snapshots : ~snapshots[p].optional => p \in imported

(* The command ends, also on cyclic dependency graphs: no call waits for a *)
(* package that a call above it is expanding.                              *)
Terminates == <>(Finished \/ status = "failed")
=============================================================================
