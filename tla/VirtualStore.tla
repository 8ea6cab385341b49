---------------------------- MODULE VirtualStore ----------------------------
(***************************************************************************)
(* Frozen installs of a workspace into node_modules: the virtual store     *)
(* shared by all importers, its links, and the two files that let a later  *)
(* install be skipped: .modules.yaml (one per importer) and lock.yaml (the *)
(* lockfile as installed).  Commands follow one another; downloads may     *)
(* fail, and a command may be killed.  The lockfile satisfies the          *)
(* manifests (Resolver models installs that resolve).                      *)
(***************************************************************************)
EXTENDS Naturals, Sequences, SequencesExt, FiniteSets

CONSTANTS Packages,
          Name,          \* the name of each package, also its alias
          Unsupported,   \* packages that do not fit the platform
          ImporterOrder, \* the importers, in the order of their ids
          Root,          \* the importer that owns the virtual store
          Lockfiles,     \* what pnpm-lock.yaml may hold
          Commands,      \* the command lines
          MaxMishaps,    \* kills and failed downloads
          MaxEdits,
          None

Importers == ToSet(ImporterOrder)

Over(f, g) == [x \in DOMAIN f \cup DOMAIN g |-> IF x \in DOMAIN f THEN f[x] ELSE g[x]]

(* What a lockfile leads to is in it (LockfileExact in Resolver).          *)
WellFormed(l) ==
  /\ DOMAIN l.prod \subseteq Importers
  /\ DOMAIN l.dev = DOMAIN l.prod /\ DOMAIN l.linked = DOMAIN l.prod
  /\ DOMAIN l.deps \subseteq Packages
  /\ \A p \in DOMAIN l.deps : l.deps[p] \subseteq DOMAIN l.deps
  /\ \A i \in DOMAIN l.prod : l.prod[i] \cup l.dev[i] \subseteq DOMAIN l.deps

ASSUME VirtualStoreAssumption ==
  /\ ImporterOrder \in Seq(Importers)
  /\ Root \in Importers
  /\ \A l \in Lockfiles : WellFormed(l)
  /\ \A c \in Commands : /\ c.targets \subseteq Importers /\ c.targets # {}
                         /\ c.groups \in {"all", "prod"}

(* A lockfile: prod, dev: direct dependencies of each importer it holds;   *)
(* linked: the importers each one links to; deps: the dependencies of each *)
(* package; optional: the packages nobody requires.                        *)
(* A command: targets, groups ("all" or "prod"), frozen, force.            *)
VARIABLES wanted,   \* pnpm-lock.yaml
          current,  \* lock.yaml in the virtual store, or None
          modules,  \* .modules.yaml of each importer, or None
          dir,      \* package directories of the virtual store
          vlink,    \* the packages linked beside each package
          root,     \* the packages linked in node_modules of each importer
          pc, command,
          left,     \* importers still to install
          batch,    \* importers being installed
          plan,     \* packages this CreateVirtualStore is about
          layout,   \* packages the layout thread has still to link
          imports,  \* packages still to import
          claimed,  \* resolved_packages of the process
          mishaps, edits,
          disturbed \* history: packages whose import did not finish, or that a
            \* killed command removed without a word in lock.yaml

disk == <<current, modules, dir, vlink, root>>
process == <<pc, command, left, batch, plan, layout, imports, claimed>>
counters == <<mishaps, edits>>
vars == <<wanted, disk, process, counters, disturbed>>

(* "absent"; "empty", made ahead; "partial", package.json is there but not *)
(* all files; "whole".                                                     *)
Contents == {"absent", "empty", "partial", "whole"}
-----------------------------------------------------------------------------
(* What S leads to among the packages (or importers) of a lockfile; what   *)
(* is not in it is passed over.                                            *)
Reach(next, S) ==
  {x \in DOMAIN next : \A T \in SUBSET DOMAIN next :
     /\ S \cap DOMAIN next \subseteq T
     /\ \A y \in T : next[y] \cap DOMAIN next \subseteq T
     => x \in T}

Direct(l, i, groups) ==
  IF i \notin DOMAIN l.prod THEN {}
  ELSE l.prod[i] \cup (IF groups = "all" THEN l.dev[i] ELSE {})

Installable(l, p) == ~(p \in l.optional /\ p \in Unsupported)

(* filter_installable_optional_dependencies: the walk stops at optional    *)
(* packages that do not fit.                                               *)
FilteredDirect(l, i, groups) == {p \in Direct(l, i, groups) : Installable(l, p)}

Filtered(l, S, groups) ==
  Reach([p \in {q \in DOMAIN l.deps : Installable(l, q)} |-> l.deps[p]],
        UNION {FilteredDirect(l, i, groups) : i \in S})

(* The importers S links to, through any number of links. *)
LinkedClosure(l, S) == Reach(l.linked, S)

(* current_lockfile_for_installers.  Its argument `skipped` has no effect: *)
(* the entries have lost the slash that the paths they are compared with   *)
(* begin with.                                                             *)
CurrentFor(l, S, groups) ==
  LET selected == LinkedClosure(l, S)
      packages == Reach(l.deps, UNION {Direct(l, i, groups) : i \in selected})
  IN [prod |-> [i \in selected |-> l.prod[i]],
      dev |-> [i \in selected |-> IF groups = "all" THEN l.dev[i] ELSE {}],
      linked |-> [i \in selected |-> l.linked[i]],
      deps |-> [p \in packages |-> l.deps[p]],
      optional |-> l.optional \cap packages]

(* Mutant of Preserving: the new lockfile is taken for the others, too. *)
PreservingNew(l, S, groups) ==
  CurrentFor(l, S \cup (IF current = None THEN {} ELSE DOMAIN current.prod), groups)

(* current_lockfile_for_installers_preserving_unselected_importers: what   *)
(* lock.yaml says of the other importers is kept.                          *)
Preserving(l, S, groups) ==
  LET new == CurrentFor(l, S, groups)
      extra == IF current = None THEN {} ELSE DOMAIN current.prod \ S
      old == CurrentFor(current, extra, groups)
  IN IF extra = {} THEN new
     ELSE [prod |-> Over(old.prod, new.prod),
           dev |-> Over(old.dev, new.dev),
           linked |-> Over(old.linked, new.linked),
           deps |-> Over(new.deps, old.deps),
           optional |-> new.optional \cup (old.optional \ DOMAIN new.deps)]

FilteredPackages(l, S, groups) == [p \in Filtered(l, S, groups) |-> l.deps[p]]

(* Mutant of PlanFor: unselected importers are forgotten. *)
PlanForSelected(l, S, groups) == FilteredPackages(l, S, groups)

(* The packages of a frozen install of several importers, with what the    *)
(* unselected ones have installed.                                         *)
PlanFor(l, S, groups) ==
  LET new == FilteredPackages(l, S, groups)
      extra == IF current = None THEN {} ELSE DOMAIN current.prod \ S
  IN IF extra = {} THEN new
     ELSE Over(new, CurrentFor(current, extra, groups).deps)
-----------------------------------------------------------------------------
(* path.exists() of a link follows it. *)
Exists(links, p) == \E q \in links : Name[q] = Name[p] /\ dir[q] # "absent"

Linked(links, S) ==
  {q \in links : \A p \in S : Name[p] # Name[q]} \cup S

LayoutPresent(p, deps) == \A d \in deps : Exists(vlink[p], d)

(* importer_dependencies_ready: directories and links exist. *)
Ready(direct, deps) ==
  /\ \A p \in direct : dir[p] # "absent"
  /\ \A p \in Reach(deps, direct) :
       /\ dir[p] # "absent"
       /\ deps[p] \subseteq DOMAIN deps
       /\ LayoutPresent(p, deps[p])

Compatible(i, groups) == modules[i] # None /\ modules[i].groups = groups

Snapshot(l, i) == <<l.prod[i], l.dev[i], l.linked[i]>>

MatchesCurrent(expected, i) ==
  /\ \A p \in DOMAIN expected.deps :
       /\ p \in DOMAIN current.deps /\ current.deps[p] = expected.deps[p]
       /\ p \in current.optional <=> p \in expected.optional
  /\ i \in DOMAIN current.prod
  /\ Snapshot(current, i) = Snapshot(expected, i)

(* The first part of persisted_install_state_is_reusable: both files are   *)
(* there and say that the lockfile is installed.                           *)
SaysInstalled(i, groups) ==
  /\ Compatible(i, groups)
  /\ current # None
  /\ MatchesCurrent(CurrentFor(wanted, {i}, groups), i)

(* Its shortcut: .modules.yaml is newer than pnpm-lock.yaml.  The lockfile *)
(* is looked for beside node_modules, where only the root has it.          *)
ByTimestamp(i, groups) ==
  SaysInstalled(i, groups) /\ i = Root /\ modules[i].newer

Reusable(i, groups) ==
  \/ ByTimestamp(i, groups)
  \/ /\ SaysInstalled(i, groups)
     /\ LET l == CurrentFor(wanted, {i}, groups)
        IN /\ Ready(Direct(l, i, groups), l.deps)
           /\ \A p \in Direct(l, i, groups) : Exists(root[i], p)
-----------------------------------------------------------------------------
Init == /\ wanted \in Lockfiles
        /\ current = None
        /\ modules = [i \in Importers |-> None]
        /\ dir = [p \in Packages |-> "absent"]
        /\ vlink = [p \in Packages |-> {}]
        /\ root = [i \in Importers |-> {}]
        /\ pc = "idle"
        /\ command = None
        /\ left = {} /\ batch = {}
        /\ plan = << >>
        /\ layout = {} /\ imports = {} /\ claimed = {}
        /\ mishaps = 0 /\ edits = 0
        /\ disturbed = {}

(* The user brings another lockfile and its manifests, with a new time of  *)
(* modification.                                                           *)
Edit ==
  /\ pc = "idle"
  /\ edits < MaxEdits
  /\ edits' = edits + 1
  /\ wanted' \in Lockfiles \ {wanted}
  /\ modules' = [i \in Importers |->
                   IF modules[i] = None THEN None
                   ELSE [modules[i] EXCEPT !.newer = FALSE]]
  /\ UNCHANGED <<current, dir, vlink, root, process, mishaps, disturbed>>

Start ==
  /\ pc = "idle"
  /\ command' \in Commands
  /\ left' = command'.targets
  /\ pc' = "next"
  /\ UNCHANGED <<wanted, disk, batch, plan, layout, imports, claimed, counters,
                 disturbed>>

(* What the process had in memory is gone. *)
Exit == /\ pc' = "idle" /\ command' = None
        /\ left' = {} /\ batch' = {} /\ plan' = << >>
        /\ layout' = {} /\ imports' = {} /\ claimed' = {}

Groups == command.groups

(* should_parallelize_workspace_frozen_install *)
Parallel == Cardinality(command.targets) > 1 /\ command.frozen /\ ~command.force

First == ImporterOrder[CHOOSE k \in DOMAIN ImporterOrder :
                         /\ ImporterOrder[k] \in left
                         /\ \A j \in 1..(k - 1) : ImporterOrder[j] \notin left]

Take == IF Parallel THEN left ELSE {First}

TakeNext == batch' = Take /\ left' = left \ Take

(* Install::run has nothing to do; only a --frozen-lockfile run writes     *)
(* .modules.yaml again.                                                    *)
Skip ==
  /\ pc = "next" /\ left # {}
  /\ ~Parallel /\ ~command.force
  /\ Reusable(First, Groups)
  /\ TakeNext
  /\ pc' = IF command.frozen THEN "modules" ELSE "next"
  /\ UNCHANGED <<wanted, disk, command, plan, layout, imports, claimed,
                 counters, disturbed>>

(* recreate_modules_dir_if_incompatible: the node_modules of importers     *)
(* that were installed with other groups are emptied; the virtual store is *)
(* in that of the root.                                                    *)
Recreated(S) == {i \in S : modules[i] # None /\ ~Compatible(i, Groups)}

Prepare ==
  /\ pc = "next" /\ left # {}
  /\ Parallel \/ command.force \/ ~Reusable(First, Groups)
  /\ TakeNext
  /\ LET gone == Recreated(Take)
     IN /\ modules' = [i \in Importers |-> IF i \in gone THEN None ELSE modules[i]]
        /\ root' = [i \in Importers |-> IF i \in gone THEN {} ELSE root[i]]
        /\ IF Root \in gone
           THEN /\ current' = None
                /\ dir' = [p \in Packages |-> "absent"]
                /\ vlink' = [p \in Packages |-> {}]
           ELSE UNCHANGED <<current, dir, vlink>>
  /\ pc' = "check"
  /\ UNCHANGED <<wanted, command, plan, layout, imports, claimed, counters,
                 disturbed>>

(* CreateVirtualStore is run unless everything is ready. *)
Check ==
  /\ pc = "check"
  /\ LET deps == IF Parallel THEN PlanFor(wanted, batch, Groups)
                 ELSE FilteredPackages(wanted, batch, Groups)
         ready == \A i \in batch : Ready(FilteredDirect(wanted, i, Groups), deps)
     IN IF ready /\ ~command.force
        THEN pc' = "link" /\ UNCHANGED plan
        ELSE pc' = "create" /\ plan' = deps
  /\ UNCHANGED <<wanted, disk, command, left, batch, layout, imports, claimed,
                 counters, disturbed>>

(* Phase 0: all directories are made; the layout thread is started if a    *)
(* link is missing.                                                        *)
PreCreate ==
  /\ pc = "create"
  /\ UNCHANGED <<wanted, current, modules, vlink, root, command, left, batch,
                 plan, claimed, counters, disturbed>>
  /\ dir' = [p \in Packages |->
               IF p \in DOMAIN plan /\ dir[p] = "absent" THEN "empty" ELSE dir[p]]
  /\ imports' = DOMAIN plan
  /\ layout' = IF command.force \/ \E p \in DOMAIN plan : ~LayoutPresent(p, plan[p])'
               THEN {p \in DOMAIN plan : plan[p] # {}}
               ELSE {}
  /\ pc' = "work"

(* The layout thread: a package with a link for each of its dependencies   *)
(* is passed over, wherever they lead.                                     *)
Layout(p) ==
  /\ pc = "work" /\ p \in layout
  /\ layout' = layout \ {p}
  /\ vlink' = IF LayoutPresent(p, plan[p]) THEN vlink
              ELSE [vlink EXCEPT ![p] = Linked(@, plan[p])]
  /\ UNCHANGED <<wanted, current, modules, dir, root, pc, command, left, batch,
                 plan, imports, claimed, counters, disturbed>>

(* Another importer of this process has had it imported. *)
ImportClaimed(p) ==
  /\ pc = "work" /\ p \in imports \cap claimed
  /\ imports' = imports \ {p}
  /\ UNCHANGED <<wanted, disk, pc, command, left, batch, plan, layout, claimed,
                 counters, disturbed>>

(* Mutant of Warm: a directory is enough. *)
WarmEmpty(p) == dir[p] # "absent" /\ ~command.force

(* A package.json is enough for the package to be taken as present. *)
Warm(p) == dir[p] \in {"partial", "whole"} /\ ~command.force

Import(p) ==
  /\ pc = "work" /\ p \in imports \ claimed
  /\ imports' = imports \ {p}
  /\ claimed' = claimed \cup {p}
  /\ IF Warm(p) THEN UNCHANGED <<dir, disturbed>>
     ELSE /\ dir' = [dir EXCEPT ![p] = "whole"]
          /\ disturbed' = disturbed \ {p}
  /\ UNCHANGED <<wanted, current, modules, vlink, root, pc, command, left, batch,
                 plan, layout, counters>>

(* A failure is logged, and the install goes on.  --force has removed what *)
(* there was.                                                              *)
ImportFails(p) ==
  /\ pc = "work" /\ p \in imports \ claimed
  /\ mishaps < MaxMishaps
  /\ ~Warm(p)
  /\ mishaps' = mishaps + 1
  /\ imports' = imports \ {p}
  /\ claimed' = claimed \cup {p}
  /\ dir' = [dir EXCEPT ![p] = IF command.force THEN "absent" ELSE @]
  /\ disturbed' = disturbed \cup {p}
  /\ UNCHANGED <<wanted, current, modules, vlink, root, pc, command, left, batch,
                 plan, layout, edits>>

(* Phase 2.  Orphans are removed if .modules.yaml is absent or as old as   *)
(* modules-cache-max-age; never in the sequential install of a workspace.  *)
MayPrune == Parallel \/ Len(ImporterOrder) = 1

Prune ==
  /\ pc = "work" /\ layout = {} /\ imports = {}
  /\ \/ /\ ~MayPrune \/ modules[Root] # None
        /\ UNCHANGED <<dir, vlink>>
     \/ /\ MayPrune
        /\ dir' = [p \in Packages |-> IF p \in DOMAIN plan THEN dir[p] ELSE "absent"]
        /\ vlink' = [p \in Packages |-> IF p \in DOMAIN plan THEN vlink[p] ELSE {}]
  /\ pc' = "link"
  /\ UNCHANGED <<wanted, current, modules, root, command, left, batch, plan,
                 layout, imports, claimed, counters, disturbed>>

(* SymlinkDirectDependencies: an alias that leads somewhere is left alone. *)
LinkDirect ==
  /\ pc = "link"
  /\ root' = [i \in Importers |->
                IF i \notin batch THEN root[i]
                ELSE Linked(root[i], {p \in FilteredDirect(wanted, i, Groups) :
                                        ~Exists(root[i], p)})]
  /\ pc' = "modules"
  /\ UNCHANGED <<wanted, current, modules, dir, vlink, command, left, batch, plan,
                 layout, imports, claimed, counters, disturbed>>

(* prunedAt has no fractions of a second: it may fall before the time of a *)
(* lockfile written a moment ago.                                          *)
Written(S) ==
  \E newer \in BOOLEAN :
    modules' = [i \in Importers |->
                  IF i \in S THEN [groups |-> Groups, newer |-> newer]
                  ELSE modules[i]]

WriteModules ==
  /\ pc = "modules"
  /\ Written(batch)
  /\ pc' = "next"
  /\ UNCHANGED <<wanted, current, dir, vlink, root, command, left, batch, plan,
                 layout, imports, claimed, counters, disturbed>>

WriteCurrent ==
  /\ pc = "next" /\ left = {}
  /\ current' = Preserving(wanted, command.targets, Groups)
  /\ pc' = "root"
  /\ UNCHANGED <<wanted, modules, dir, vlink, root, command, left, batch, plan,
                 layout, imports, claimed, counters, disturbed>>

(* rewrite_root_modules_manifest_from_current_lockfile, whether or not the *)
(* root is a target.                                                       *)
RewriteRoot ==
  /\ pc = "root"
  /\ Written({Root})
  /\ Exit
  /\ UNCHANGED <<wanted, current, dir, vlink, root, counters, disturbed>>

(* Removed, though lock.yaml still lists them. *)
Unrecorded == IF current = None THEN {}
              ELSE {p \in DOMAIN current.deps : dir[p] = "absent"}

(* The command is killed.  Imports in progress leave what they have done.  *)
Kill ==
  /\ pc # "idle"
  /\ mishaps < MaxMishaps
  /\ mishaps' = mishaps + 1
  /\ \E broken \in SUBSET {p \in imports \ claimed : pc = "work" /\ ~Warm(p)} :
       \E left_behind \in [broken -> IF command.force THEN {"absent", "partial"}
                                     ELSE {"partial"}] :
         dir' = Over(left_behind, dir)
  /\ disturbed' = disturbed \cup {p \in Packages : dir'[p] \in {"empty", "partial"}}
                            \cup {p \in imports : dir'[p] = "absent"}
                            \cup Unrecorded
  /\ Exit
  /\ UNCHANGED <<wanted, current, modules, vlink, root, edits>>

Step == Skip \/ Prepare \/ Check \/ PreCreate
        \/ (\E p \in Packages : Layout(p) \/ ImportClaimed(p) \/ Import(p)
                                \/ ImportFails(p))
        \/ Prune \/ LinkDirect \/ WriteModules \/ WriteCurrent \/ RewriteRoot

Next == Edit \/ Start \/ Step \/ Kill

Spec == Init /\ [][Next]_vars
-----------------------------------------------------------------------------
(* The packages importer i needs, of those that fit the platform. *)
Needed(i, groups) == Filtered(wanted, {i}, groups)

(* Workspaces about which the invariants below are proved (Init and Next   *)
(* do not ask for it).  The root is the first importer: "." comes before   *)
(* other paths, but for names such as "(app)".                             *)
RootFirst == ImporterOrder[1] = Root

(* No project depends on the root. *)
RootUnlinked == \A l \in Lockfiles : \A i \in DOMAIN l.linked : Root \notin l.linked[i]

(* A command that leaves the root out installs all that it will list in    *)
(* lock.yaml: the importers its targets link to are targets, too, and what *)
(* is needed only by packages that do not fit does not fit either.         *)
InstallsListed ==
  \A l \in Lockfiles, c \in Commands : Root \notin c.targets =>
    \A p \in DOMAIN CurrentFor(l, c.targets, c.groups).deps :
      Installable(l, p) => p \in Filtered(l, c.targets, c.groups)

RootApart == RootFirst /\ RootUnlinked /\ InstallsListed

(* A command that has ended leaves every package its targets need with all *)
(* its files, except where a kill or a failed download, then or earlier,   *)
(* kept the import from finishing: no command passes over a package that   *)
(* the ones before it did not import, removed or replaced.                 *)
WholeUnlessDisturbed ==
  pc = "root" =>
    \A i \in command.targets : \A p \in Needed(i, Groups) :
      dir[p] = "whole" \/ p \in disturbed

CurrentClosed ==
  current # None =>
    /\ \A p \in DOMAIN current.deps : current.deps[p] \subseteq DOMAIN current.deps
    /\ \A i \in DOMAIN current.prod :
         current.prod[i] \cup current.dev[i] \subseteq DOMAIN current.deps

(* The check that lets an install be skipped is never satisfied while a    *)
(* package is missing, unless its import did not finish or a command was   *)
(* killed between removing it and writing lock.yaml.  And lock.yaml, which *)
(* it reads, stays closed under dependencies when it is put together from  *)
(* the new lockfile for the targets and the old one for the rest.          *)
ReusableIsPresent ==
  /\ pc = "idle" =>
       \A i \in Importers, g \in {"all", "prod"} :
         Reusable(i, g) =>
           \A p \in Needed(i, g) : dir[p] # "absent" \/ p \in disturbed
  /\ CurrentClosed

(* Orphans are removed, not what an importer that is not a target has      *)
(* installed (of the groups the command is about).                         *)
UnselectedKept ==
  [][pc = "work" /\ pc' = "link" /\ current # None =>
       \A i \in DOMAIN current.prod \ command.targets :
         \A p \in Reach(current.deps, Direct(current, i, Groups)) :
           dir'[p] = dir[p] /\ vlink'[p] = vlink[p]]_vars

(* "if the lockfiles match AND the modules manifest was pruned AFTER the   *)
(* wanted lockfile was last modified, the on-disk state is guaranteed to   *)
(* be current".                                                            *)
GuaranteedCurrent ==
  pc = "idle" =>
    \A g \in {"all", "prod"} :
      ByTimestamp(Root, g) =>
        /\ FilteredDirect(wanted, Root, g) \subseteq root[Root]
        /\ \A p \in Needed(Root, g) :
             dir[p] = "whole" /\ wanted.deps[p] \cap Needed(Root, g) \subseteq vlink[p]
=============================================================================
