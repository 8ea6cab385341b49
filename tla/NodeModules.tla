----------------------------- MODULE NodeModules ----------------------------
(***************************************************************************)
(* What an install makes of node_modules around the virtual store: the     *)
(* links to direct dependencies, the packages hoisted beside them and into *)
(* node_modules/.pnpm/node_modules, and the commands in .bin.  Several     *)
(* installs follow one another while package.json and the settings change, *)
(* and each leaves alone most of what it finds; one that finds settings it *)
(* cannot build on removes node_modules first.  It may be killed between   *)
(* two phases.  Which packages get into the virtual store, and when an     *)
(* install has nothing to do, is in VirtualStore.                          *)
(***************************************************************************)
EXTENDS Integers, Functions

CONSTANTS Packages,     \* records [name, version, peers]: peers is the suffix, 0 for none
          Rank,         \* the order of package names in a BTreeSet
          Deps, Bins,   \* of each package: the packages it depends on, and the commands
                        \* it declares, inside if the target is a file of the package, and
                        \* node if node runs it; each a file of its own
          Manifests,    \* what package.json may ask for: a package for each name
          Settings,     \* what .npmrc may say
          MaxInstalls, MaxChanges, MaxMishaps,  \* bounds
          None

Names == {p.name : p \in Packages}

Over(f, g) == [x \in DOMAIN f \cup DOMAIN g |-> IF x \in DOMAIN f THEN f[x] ELSE g[x]]

ASSUME NodeModulesAssumption ==
  /\ Rank \in [Names -> Nat] /\ \A m, n \in Names : Rank[m] = Rank[n] => m = n
  /\ Names # {} => \E n \in Names : \A m \in Names : Rank[m] <= Rank[n]
  /\ Deps \in [Packages -> SUBSET Packages]
  /\ \A p \in Packages : p.version \in Nat
  /\ Packages # {} => \E q \in Packages : \A p \in Packages : p.version <= q.version
  /\ \A d \in Manifests : \A n \in DOMAIN d : d[n] \in Packages /\ d[n].name = n

VARIABLES
  direct,     \* package.json
  settings,   \* .npmrc
  store,      \* packages in the virtual store
  private,    \* node_modules/.pnpm/node_modules: where each name leads
  root,       \* node_modules: likewise
  privateBin, rootBin,  \* .bin of both: of each command the file that its entry is a link
                        \* to, if it is one, and the one that was written there last
  record,     \* .modules.yaml, or None
  proc,       \* the install that runs
  last,       \* history: how the last install ended
  known,      \* history: names in node_modules of direct dependencies, and those
              \* that an install which did not end has left
  over,       \* history: files of packages that a wrapper was written over
  symlinked,  \* history: an install has made links of commands
  installs, changes, mishaps

tree == <<store, private, root, privateBin, rootBin>>
bounds == <<installs, changes, mishaps>>
vars == <<direct, settings, tree, record, proc, last, known, over, symlinked, bounds>>

Nothing == [n \in {} |-> None]
Idle == [pc |-> "idle"]

Init ==
  /\ direct \in Manifests
  /\ settings \in Settings
  /\ store = {} /\ private = Nothing /\ root = Nothing
  /\ privateBin = Nothing /\ rootBin = Nothing
  /\ record = None
  /\ proc = Idle /\ last = None /\ known = {} /\ over = {} /\ symlinked = FALSE
  /\ installs = 0 /\ changes = 0 /\ mishaps = 0
-----------------------------------------------------------------------------
(* Later patterns override earlier ones, and no pattern matches nothing.   *)
Matches(name, patterns) ==
  \E i \in DOMAIN patterns :
     /\ ~patterns[i].negated /\ name \in patterns[i].names
     /\ \A j \in DOMAIN patterns :
           j > i /\ patterns[j].negated => name \notin patterns[j].names

MaterializesRoot(s) ==
  \/ s.linker = "hoisted"
  \/ s.linker = "isolated" /\ s.symlink

(* What a package leads to: all that every closed set with it has.         *)
Reachable ==
  LET closed == {S \in SUBSET Packages : \A p \in S : Deps[p] \subseteq S}
  IN [p \in Packages |-> {q \in Packages : \A S \in closed : p \in S => q \in S}]
Closure(ps) == UNION {Reachable[p] : p \in ps}

Needed(d) == Closure(Range(d))
-----------------------------------------------------------------------------
(* An entry of a node_modules directory: the package it leads to, through  *)
(* the directory of package via, or a copy of the package.                 *)
Link(p, via) == [pkg |-> p, via |-> via, copy |-> FALSE]
Copy(p) == [pkg |-> p, via |-> p, copy |-> TRUE]

Alive(entry, st) == entry.copy \/ {entry.pkg, entry.via} \subseteq st

(* Path::exists: it follows links.                                         *)
Exists(dir, n, st) == n \in DOMAIN dir /\ Alive(dir[n], st)

(* A copy cannot be made where a link leads nowhere: create_dir_all fails. *)
Blocked(s, dir, n, st) == ~s.symlink /\ n \in DOMAIN dir /\ ~Alive(dir[n], st)

(* link_package: a link that leads to the package already stays, whatever  *)
(* else is there makes way (to .ignored_<name>).                           *)
Entry(s, dir, new, n, st) ==
  IF ~s.symlink THEN Copy(new.pkg)
  ELSE IF Exists(dir, n, st) /\ ~dir[n].copy /\ dir[n].pkg = new.pkg THEN dir[n]
  ELSE new

LinkAll(s, dir, news, st) == Over([n \in DOMAIN news |-> Entry(s, dir, news[n], n, st)], dir)

(* Only what does not exist yet is linked: hoisted packages, and direct    *)
(* dependencies in the pass over the lockfile.                             *)
Missing(dir, news, st) == {n \in DOMAIN news : ~Exists(dir, n, st)}
LinkMissing(s, dir, news, st) ==
  LinkAll(s, dir, [n \in Missing(dir, news, st) |-> news[n]], st)

(* hoist_selected_packages goes by name, and ends at the first failure.    *)
Unblocked(s, dir, news, st) ==
  {n \in DOMAIN news : \A m \in Missing(dir, news, st) :
                          Blocked(s, dir, m, st) => Rank[n] < Rank[m]}
LinkUnblocked(s, dir, news, st) ==
  LinkMissing(s, dir, Restrict(news, Unblocked(s, dir, news, st)), st)
-----------------------------------------------------------------------------
(* Package directories that hoist_virtual_store_packages discovers: those  *)
(* of the packages, and the links to dependencies beside them.             *)
Discovered(st) == UNION {{Link(q, p) : q \in (Deps[p] \cup {p}) \cap st} : p \in st}

(* For each name the highest version, of equal ones the first discovered:  *)
(* the order of a directory listing.                                       *)
Selections(st, wanted) ==
  LET found == {e \in Discovered(st) : e.pkg \in wanted}
      best == {e \in found : \A f \in found : f.pkg.name = e.pkg.name
                                              => f.pkg.version <= e.pkg.version}
      names == {e.pkg.name : e \in best}
  IN {c \in [names -> best] : \A n \in names : c[n].pkg.name = n}

(* CreateVirtualStore hoists from the lockfile instead: peer suffixes      *)
(* decide between equal versions.                                          *)
Preferred(s, p, q) ==
  \/ p.version > q.version
  \/ p.version = q.version /\ (IF s.dedupe THEN p.peers < q.peers ELSE p.peers > q.peers)

FromLockfile(s, locked) ==
  LET wanted == {p \in locked : Matches(p.name, s.private)}
      best(n) == CHOOSE p \in wanted : p.name = n
                   /\ \A q \in wanted \ {p} : q.name = n => Preferred(s, p, q)
  IN [n \in {p.name : p \in wanted} |-> Link(best(n), best(n))]

HoistsFromLockfile(s) == s.symlink /\ (s.hoist \/ s.shamefully)

HoistLockfile(s, dir, locked, st) ==
  IF ~HoistsFromLockfile(s) THEN dir
  ELSE LET all == FromLockfile(s, locked)
           present == {n \in DOMAIN all : all[n].pkg \in st}
       IN LinkMissing(s, dir, [n \in present |-> all[n]], st)

NeedsScan(s) == s.linker = "hoisted" \/ (s.symlink /\ (s.hoist \/ s.shamefully))
HoistsPrivately(s) == NeedsScan(s) /\ (s.hoist \/ s.shamefully)
WantedPrivately(s, n) == HoistsPrivately(s) /\ (s.shamefully \/ Matches(n, s.private))
WantedPublicly(s, n) ==
  IF s.linker = "hoisted" THEN TRUE
  ELSE /\ s.linker # "pnp" /\ HoistsPrivately(s)
       /\ (s.shamefully \/ Matches(n, s.public))

(* collect_bin_entries: targets that are missing or outside are ignored.   *)
Commands(p) == {b.command : b \in {c \in Bins[p] : c.inside}}

(* prefer_symlinked_executables_enabled, for what node need not run.       *)
Symlinks(s) == IF s.executables = None THEN s.linker = "hoisted" ELSE s.executables
LinkedTo(s, p, b) == Symlinks(s) /\ \E c \in Bins[p] : c.command = b /\ c.inside /\ ~c.node

(* A command's file, by its canonical path: in a copy in node_modules, or  *)
(* in a directory of the virtual store, where siblings are links or copies.*)
File(s, e, b) ==
  [pkg |-> e.pkg, command |-> b,
   at |-> IF e.copy THEN None ELSE IF s.symlink THEN e.pkg ELSE e.via]

There(f, dir, st) ==
  IF f.at # None THEN f.at \in st
  ELSE Exists(dir, f.pkg.name, st) /\ f.command \in Commands(dir[f.pkg.name].pkg)

(* Commands whose entry is a link that leads nowhere: it does not exist,   *)
(* and neither a link nor a file can be made in its place.                 *)
Stuck(bin, dir, st) == {b \in DOMAIN bin : bin[b].link # None /\ ~There(bin[b].link, dir, st)}

(* The commands of each package in chosen that a pass over them, by name,  *)
(* writes: all, or those before the first that is stuck.                   *)
All(chosen) == [n \in DOMAIN chosen |-> Commands(chosen[n].pkg)]
Reached(chosen, stuck) ==
  LET all == All(chosen)
      failing == {n \in DOMAIN chosen : all[n] \cap stuck # {}}
      first == CHOOSE n \in failing : \A m \in failing : Rank[n] <= Rank[m]
  IN IF failing = {} THEN {all}
     ELSE {[n \in DOMAIN chosen |-> IF Rank[n] < Rank[first] THEN all[n]
                                   ELSE IF n = first THEN some ELSE {}] :
             some \in SUBSET (all[first] \ stuck)}

LastOf(names) == CHOOSE n \in names : \A m \in names : Rank[m] <= Rank[n]
Writers(done, b) == {n \in DOMAIN done : b \in done[n]}
Linkers(s, chosen, done, b) == {n \in Writers(done, b) : LinkedTo(s, chosen[n].pkg, b)}

(* write_bin_wrapper.  A link takes the place of what is there; a wrapper  *)
(* is written into it, and so into the file that a link leads to.          *)
LinkAfter(s, chosen, bin, names, b) ==
  IF names # {} THEN File(s, chosen[LastOf(names)], b)
  ELSE IF b \in DOMAIN bin THEN bin[b].link ELSE None

Wrapped(s, chosen, done, bin) ==
  Over([b \in UNION Range(done) |->
          [link |-> LinkAfter(s, chosen, bin, Linkers(s, chosen, done, b), b),
           runs |-> File(s, chosen[LastOf(Writers(done, b))], b)]], bin)

Before(names, n) == {m \in names : Rank[m] < Rank[n]}
Into(s, chosen, done, bin, n, b) ==
  LinkAfter(s, chosen, bin, Before(Linkers(s, chosen, done, b), n), b)
WrapperCommands(s, chosen, done, n) == {b \in done[n] : n \notin Linkers(s, chosen, done, b)}
WrittenOver(s, chosen, done, bin) ==
  (UNION {{Into(s, chosen, done, bin, n, b) : b \in WrapperCommands(s, chosen, done, n)} :
            n \in DOMAIN done}) \ {None}

(* link_bins_for_manifest: of the direct dependencies that are there.      *)
DirectEntries == [n \in {m \in DOMAIN direct : Exists(root, m, store)} |-> root[n]]
-----------------------------------------------------------------------------
(* What .modules.yaml records of the settings.                             *)
RecordOf(s) == [linker |-> s.linker, private |-> s.private, public |-> s.public]

(* shamefully-hoist makes all packages public (npmrc/src/lib.rs:731).      *)
ASSUME SettingsAssumption ==
  /\ \A s \in Settings : s.shamefully => \A n \in Names : Matches(n, s.public)
  /\ None \notin {RecordOf(s) : s \in Settings} /\ None \notin {"failed", "fresh", "frozen"}

(* Used by a mutant: the public patterns are not compared.                 *)
CompatibleButPublic ==
  record = None \/ [record EXCEPT !.public = settings.public] = RecordOf(settings)

(* modules_manifest_is_compatible.                                         *)
Compatible == record = None \/ record = RecordOf(settings)

(* recreate_modules_dir_if_incompatible: all goes, .modules.yaml too, but  *)
(* for entries with a dot that are none of pacquet's.                      *)
Start(fresh, force) ==
  /\ proc = Idle /\ installs < MaxInstalls
  /\ installs' = installs + 1
  /\ proc' = [pc |-> IF fresh THEN "resolve" ELSE "relink", fresh |-> fresh, force |-> force]
  /\ last' = None /\ symlinked' = (symlinked \/ Symlinks(settings))
  /\ IF Compatible
     THEN UNCHANGED <<tree, record, known>>
     ELSE /\ store' = {} /\ private' = Nothing /\ root' = Nothing
          /\ privateBin' = Nothing /\ rootBin' = Nothing
          /\ record' = None /\ known' = {}
  /\ UNCHANGED <<direct, settings, over, changes, mishaps>>

Fail == proc' = Idle /\ last' = "failed" /\ known' = known \cup DOMAIN root'
Advance(pc) == proc' = [proc EXCEPT !.pc = pc] /\ UNCHANGED last

DirectLinks == [n \in DOMAIN direct |-> Link(direct[n], direct[n])]

(* InstallPackageFromRegistry: each package is imported, and linked if it  *)
(* is a direct dependency.  When one fails, others have been through.      *)
Resolve ==
  /\ proc.pc = "resolve"
  /\ \E got \in SUBSET DOMAIN direct :
        LET st == store \cup Needed([n \in got |-> direct[n]])
            done == {n \in got : MaterializesRoot(settings) => ~Blocked(settings, root, n, st)}
        IN /\ store' = st
           /\ root' = IF ~MaterializesRoot(settings) THEN root
                      ELSE LinkAll(settings, root, Restrict(DirectLinks, done), st)
           /\ got # DOMAIN direct => mishaps < MaxMishaps
           /\ mishaps' = IF got = DOMAIN direct THEN mishaps ELSE mishaps + 1
           /\ IF done = DOMAIN direct THEN Advance("relink") /\ UNCHANGED known ELSE Fail
  /\ UNCHANGED <<direct, settings, private, privateBin, rootBin, record, over, symlinked,
                installs, changes>>

(* InstallFrozenLockfile, which a fresh install ends with too: packages    *)
(* that fail are only logged, orphans are pruned when .modules.yaml is old *)
(* or absent, and direct links that exist are kept.                        *)
Relink ==
  /\ proc.pc = "relink"
  /\ \E failed \in SUBSET (IF proc.fresh THEN {} ELSE Needed(direct) \ store),
       expired \in BOOLEAN :
        LET need == Needed(direct)
            ready == need \subseteq store /\ ~proc.force
            got == store \cup (need \ failed)
            st == IF expired \/ record = None THEN got \cap need ELSE got
        IN /\ failed # {} => mishaps < MaxMishaps
           /\ mishaps' = IF failed = {} THEN mishaps ELSE mishaps + 1
           /\ IF ready
              THEN UNCHANGED <<store, private>>
              ELSE store' = st /\ private' = HoistLockfile(settings, private, need, got)
           /\ LET blocked == {n \in DOMAIN direct : Blocked(settings, root, n, store')}
              IN IF ~MaterializesRoot(settings)
                 THEN Advance("hoist") /\ UNCHANGED <<root, known>>
                 ELSE IF blocked # {}
                 THEN /\ \E some \in SUBSET (DOMAIN direct \ blocked) :
                         root' = LinkMissing(settings, root, Restrict(DirectLinks, some), store')
                      /\ Fail
                 ELSE /\ root' = LinkMissing(settings, root, DirectLinks, store')
                      /\ known' = known \cup DOMAIN direct
                      /\ Advance("hoist")
  /\ UNCHANGED <<direct, settings, privateBin, rootBin, record, over, symlinked,
                installs, changes>>

(* hoist_virtual_store_packages, with the commands of what is hoisted; a   *)
(* command in node_modules/.bin that cannot be written is only logged.     *)
Hoist ==
  /\ proc.pc = "hoist"
  /\ \E chosen \in Selections(store, {p \in store : WantedPrivately(settings, p.name)}),
       public \in Selections(store, {p \in store : WantedPublicly(settings, p.name)}) :
     \E mine \in Reached(chosen, Stuck(privateBin, root, store)) :
        LET clear == Unblocked(settings, private, chosen, store) = DOMAIN chosen
            bound == clear /\ mine = All(chosen)
            ahead == IF bound THEN Unblocked(settings, root, public, store) ELSE {}
            ends == bound /\ ahead = DOMAIN public
        IN /\ private' = LinkUnblocked(settings, private, chosen, store)
           /\ privateBin' = IF clear THEN Wrapped(settings, chosen, mine, privateBin)
                            ELSE privateBin
           /\ root' = LinkMissing(settings, root, Restrict(public, ahead), store)
           /\ \E theirs \in Reached(public, Stuck(rootBin, root', store)) :
                LET listed == ends /\ settings.linker = "hoisted"
                IN /\ rootBin' = IF listed THEN Wrapped(settings, public, theirs, rootBin)
                                 ELSE rootBin
                   /\ over' = over
                        \cup (IF clear THEN WrittenOver(settings, chosen, mine, privateBin) ELSE {})
                        \cup (IF listed THEN WrittenOver(settings, public, theirs, rootBin)
                              ELSE {})
           /\ IF ends THEN Advance("bins") /\ UNCHANGED known ELSE Fail
  /\ UNCHANGED <<direct, settings, store, record, symlinked, bounds>>

LinkBins ==
  /\ proc.pc = "bins"
  /\ \E done \in Reached(DirectEntries, Stuck(rootBin, root, store)) :
        /\ rootBin' = Wrapped(settings, DirectEntries, done, rootBin)
        /\ over' = over \cup WrittenOver(settings, DirectEntries, done, rootBin)
        /\ UNCHANGED root
        /\ IF done = All(DirectEntries) THEN Advance("record") /\ UNCHANGED known ELSE Fail
  /\ UNCHANGED <<direct, settings, store, private, privateBin, record, symlinked, bounds>>

WriteRecord ==
  /\ proc.pc = "record"
  /\ record' = RecordOf(settings)
  /\ proc' = Idle /\ last' = IF proc.fresh THEN "fresh" ELSE "frozen"
  /\ UNCHANGED <<direct, settings, tree, known, over, symlinked, bounds>>

(* A kill between two phases.  What was hoisted is then recorded nowhere.  *)
Kill ==
  /\ proc # Idle /\ mishaps < MaxMishaps
  /\ mishaps' = mishaps + 1
  /\ UNCHANGED tree /\ Fail
  /\ UNCHANGED <<direct, settings, record, over, symlinked, installs, changes>>

(* The user changes package.json, or .npmrc.                               *)
Change ==
  /\ proc = Idle /\ installs > 0 /\ changes < MaxChanges
  /\ changes' = changes + 1 /\ last' = None
  /\ \/ direct' \in Manifests \ {direct} /\ UNCHANGED settings
     \/ settings' \in Settings \ {settings} /\ UNCHANGED direct
  /\ UNCHANGED <<tree, record, proc, known, over, symlinked, installs, mishaps>>

Next ==
  \/ \E fresh, force \in BOOLEAN : Start(fresh, force)
  \/ Resolve \/ Relink \/ Hoist \/ LinkBins \/ WriteRecord
  \/ Kill \/ Change

Spec == Init /\ [][Next]_vars
-----------------------------------------------------------------------------
Completed == last \in {"fresh", "frozen"}

(* After an install, every package in the virtual store that the settings  *)
(* hoist is found under its name: whatever was pruned, failed or left over *)
(* from before, and whichever entry was kept, none leads nowhere           *)
(* (hoist_virtual_store.rs:143-163, symlink_package.rs:207-262).  And a    *)
(* package that the patterns exclude, with the last that matches, is not   *)
(* beside the direct dependencies, whatever the settings were before       *)
(* (hoist_virtual_store.rs:109, install.rs:1890).                          *)
HoistedExactly ==
  Completed =>
    /\ \A p \in store :
         /\ WantedPrivately(settings, p.name) => Exists(private, p.name, store)
         /\ WantedPublicly(settings, p.name) => Exists(root, p.name, store)
    /\ \A n \in DOMAIN root :
         n \in known \/ settings.linker = "hoisted" \/ Matches(n, settings.public)

(* The file that a direct dependency brings for a command; of several the  *)
(* last one does.                                                          *)
DirectFile(b) == LET entries == DirectEntries
                 IN File(settings, entries[LastOf(Writers(All(entries), b))], b)

(* Direct dependencies come before everything hoisted.  After a fresh      *)
(* install each name leads to the version that package.json asks for,      *)
(* although public hoisting of an earlier install may have used it         *)
(* (install_package_from_registry.rs:274, hoist_virtual_store.rs:155).  A  *)
(* command was last written for the last direct dependency that offers it, *)
(* in the version that node_modules leads to: its entry is a link to that  *)
(* dependency's file, or its wrapper, which may have gone over the file of *)
(* another package that an older link leads to (link_bins.rs:11, 229-254). *)
(* And no package's file is ever written over unless an install had        *)
(* prefer-symlinked-executables on, which the hoisted linker has by        *)
(* default; without it a command runs its direct dependency.  (With it, a  *)
(* hoisted package's wrapper may have gone over that dependency's own      *)
(* file.)                                                                  *)
DirectFirst ==
  /\ last = "fresh" /\ MaterializesRoot(settings)
       => \A n \in DOMAIN direct : Exists(root, n, store) /\ root[n].pkg = direct[n]
  /\ Completed =>
       \A b \in UNION Range(All(DirectEntries)) :
          /\ rootBin[b].runs = DirectFile(b)
          /\ rootBin[b].link \in {None, DirectFile(b)} \cup over
  /\ ~symlinked => over = {} /\ \A b \in DOMAIN rootBin : rootBin[b].link = None
=============================================================================
