--------------------------- MODULE ProjectCommands --------------------------
(***************************************************************************)
(* The commands that change the projects of a workspace: add, remove,      *)
(* update, link, unlink, install, prune, dedupe and import, one after the  *)
(* other.  Each edits package.json or pnpm-workspace.yaml, before or after *)
(* the install it runs for every project it is about, reads pnpm-lock.yaml *)
(* back between two projects and writes lock.yaml when it is over.  A      *)
(* command may fail or be killed in between, and leaves what it has done.  *)
(*                                                                         *)
(* A version is a number, and a range is the lowest version it accepts.    *)
(* How the packages get into the virtual store is left to VirtualStore.    *)
(***************************************************************************)
EXTENDS Integers, FiniteSets, Functions

CONSTANTS Root, Members,  \* the projects of the workspace
          Rank,           \* their order in a BTreeMap, the root first
          Names,          \* of packages
          Newest,         \* the newest version of each that will be published
          Legacy,         \* the version of each that package-lock.json names
          Manifests,      \* what a user may write into each package.json
          Commands,       \* command lines
          MaxCommands,    \* bound on commands
          MaxEdits,       \* bound on edits by the user
          MaxMishaps,     \* bound on failures and kills
          None

Importers == Members \cup {Root}

Over(f, g) == [x \in DOMAIN f \cup DOMAIN g |-> IF x \in DOMAIN f THEN f[x] ELSE g[x]]

(* "link:" specifiers and references, relative to the project's directory  *)
(* or, for an override of pnpm-workspace.yaml, to the root's.              *)
OwnLink == -1
RootLink == -2
IsLocal(to) == to < 0

Tools == {"install", "prune", "dedupe", "import", "add", "remove", "update", "link", "unlink"}

(* What a user writes is a link, or a range that what is published from    *)
(* the beginning satisfies.                                                *)
ASSUME ProjectAssumption ==
  /\ Root \notin Members /\ None \notin Importers
  /\ Rank \in [Importers -> Nat]
  /\ \A i, j \in Importers : Rank[i] = Rank[j] => i = j
  /\ Legacy \in [Names -> Nat]
  /\ \A deps \in Manifests : DOMAIN deps \subseteq Names /\ deps \in [DOMAIN deps -> OwnLink..1]
  /\ Commands \subseteq [tool : Tools, at : Importers, filter : SUBSET Importers,
                       names : SUBSET Names, recursive : BOOLEAN]

VARIABLES
  published,  \* the newest version of each package
  manifest,   \* package.json of each project: the specifier of each dependency
  overrides,  \* the names pnpm-workspace.yaml overrides with a link
  lock,       \* pnpm-lock.yaml: an entry for each project, and the overrides
  current,    \* lock.yaml of each virtual store: the entries it has, if it is there
  modules,    \* .modules.yaml of each project: the virtual store it names
  newer,      \* the root's is later than pnpm-lock.yaml
  links,      \* node_modules of each project: where each name leads
  store,      \* the packages in the virtual store below each project
  proc,       \* the command that runs
  settled,    \* history: projects that a command was done with, and no later one began
  stale,      \* history: dependencies whose link or package something else than an
              \* install of the project has left behind, moved or taken
  doubtful,   \* history: dependencies that an override has come to or left since
              \* they were resolved
  warm,       \* history: all was installed, and nothing happened since
  commands, edits, mishaps

disk == <<manifest, overrides, lock, current, modules, newer, links, store>>
history == <<settled, stale, doubtful, warm>>
bounds == <<commands, edits, mishaps>>
vars == <<published, disk, proc, history, bounds>>

NoEntry == [n \in {} |-> 0]
NoLockfile == [missing |-> TRUE]
Idle == [pc |-> "idle"]

Init ==
  /\ published = [n \in Names |-> 1]
  /\ manifest \in [Importers -> Manifests]
  /\ overrides = {}
  /\ lock = NoLockfile
  /\ current = [i \in Importers |-> NoEntry]
  /\ modules = [i \in Importers |-> None]
  /\ newer = FALSE
  /\ links = [i \in Importers |-> NoEntry]
  /\ store = [i \in Importers |-> {}]
  /\ proc = Idle
  /\ settled = {} /\ stale = {} /\ doubtful = {} /\ warm = FALSE
  /\ commands = 0 /\ edits = 0 /\ mishaps = 0
-----------------------------------------------------------------------------
(* add, remove, link and unlink use the virtual store of the project that  *)
(* they are about, the others that of the root (effective_virtual_store_dir).*)
InstallLike == {"install", "prune", "dedupe", "import"}
OwnStore(tool) == tool \in {"add", "remove", "link", "unlink"}
StoreOf(tool, i) == IF OwnStore(tool) THEN i ELSE Root

First(S) == CHOOSE i \in S : \A j \in S : Rank[i] <= Rank[j]

(* run_with_preferred_versions: the root stands for the whole workspace. *)
InstallTargets(i) == IF i = Root THEN Importers ELSE {i}

(* The projects that a command line is about: those it names with --filter,*)
(* all with --recursive (add leaves out the root), or the present one.     *)
Recursive(c) == c.recursive \/ c.filter # {}
TargetsOf(c) ==
  CASE c.filter # {} -> c.filter
    [] c.filter = {} /\ c.recursive -> IF c.tool = "add" THEN Members ELSE Importers
    [] OTHER -> IF c.tool \in InstallLike THEN InstallTargets(c.at) ELSE {c.at}

OverrideRef(i) == IF i = Root THEN OwnLink ELSE RootLink

(* The version that the lockfile of npm or yarn names, if it fits. *)
Preferred(n, spec) == IF Legacy[n] >= spec THEN Legacy[n] ELSE published[n]

(* What a direct dependency is resolved to: the override, applied as it is *)
(* written, the linked directory, the version of the lockfile that is      *)
(* imported, or the newest that fits.                                      *)
Resolved(i, n, spec, tool) ==
  CASE n \in overrides -> OverrideRef(i)
    [] n \notin overrides /\ IsLocal(spec) -> OwnLink
    [] OTHER -> IF tool = "import" THEN Preferred(n, spec) ELSE published[n]

EntryFor(i, deps, tool) ==
  [n \in DOMAIN deps |-> [spec |-> deps[n], to |-> Resolved(i, n, deps[n], tool)]]

(* Where the link of a dependency leads, and whether anything is there. *)
Leads(i, s, to) == <<IF IsLocal(to) THEN i ELSE s, to>>
Alive(n, l, packages) ==
  IF IsLocal(l[2]) THEN l[2] = OwnLink ELSE <<n, l[2]>> \in packages[l[1]]

PackagesOf(entry) == {<<n, entry[n].to>> : n \in {m \in DOMAIN entry : ~IsLocal(entry[m].to)}}
LinksOf(i, s, entry) == [n \in DOMAIN entry |-> Leads(i, s, entry[n].to)]

(* Mutant: a dependency that the manifest has lost is not noticed. *)
SatisfiedWithout(entry, deps) ==
  /\ DOMAIN deps \subseteq DOMAIN entry
  /\ \A n \in DOMAIN deps : entry[n].spec = deps[n]

(* satisfies_package_manifest *)
Satisfied(entry, deps) ==
  /\ DOMAIN entry = DOMAIN deps
  /\ \A n \in DOMAIN deps : /\ entry[n].spec = deps[n]
                            /\ IsLocal(deps[n]) \/ IsLocal(entry[n].to) \/ entry[n].to >= deps[n]

(* lockfile_is_reusable: the overrides are those of the lockfile. *)
Reusable(held, i, deps) ==
  held # NoLockfile /\ held.overrides = overrides /\ Satisfied(held.entries[i], deps)

(* persisted_install_state_is_reusable: lock.yaml has the entry, and the   *)
(* time stamp, for the root alone, or the directories and links are there. *)
Persisted(held, i, s) ==
  /\ modules[i] = s
  /\ i \in DOMAIN current[s] /\ current[s][i] = held.entries[i]
  /\ \/ i = Root /\ newer
     \/ \A n \in DOMAIN held.entries[i] :
          LET to == held.entries[i][n].to IN
          IsLocal(to) \/ /\ <<n, to>> \in store[s]
                         /\ n \in DOMAIN links[i] /\ Alive(n, links[i][n], store)

(* The fast path of Install::run: every entry satisfies its manifest, but  *)
(* the root's is compared with the one at hand.                            *)
AllReusable(held, i, deps) ==
  held # NoLockfile /\ \A j \in Importers :
    Reusable(held, j, IF j \in {i, Root} THEN deps ELSE manifest[j])

(* Dependencies of which node_modules has not what their entry says. *)
Diverges(l, linked, i, n) ==
  /\ l # NoLockfile /\ n \in DOMAIN l.entries[i]
  /\ n \in DOMAIN linked[i] => linked[i][n] # Leads(i, modules[i], l.entries[i][n].to)
Diverging(l, linked) == {d \in Importers \X Names : Diverges(l, linked, d[1], d[2])}

(* Users of names whose override comes or goes. *)
Concerned(S) ==
  {d \in Importers \X S : lock # NoLockfile /\ d[2] \in DOMAIN lock.entries[d[1]]}
-----------------------------------------------------------------------------
(* A package is published; somebody edits a package.json. *)
Publish(n) ==
  /\ proc = Idle /\ published[n] < Newest[n]
  /\ published' = [published EXCEPT ![n] = @ + 1]
  /\ UNCHANGED <<disk, proc, history, bounds>>

Edit(i, deps) ==
  /\ proc = Idle /\ edits < MaxEdits /\ deps # manifest[i]
  /\ edits' = edits + 1
  /\ manifest' = [manifest EXCEPT ![i] = deps]
  /\ settled' = settled \ {i}
  /\ warm' = FALSE
  /\ UNCHANGED <<published, overrides, lock, current, modules, newer, links, store, proc,
                 stale, doubtful, commands, mishaps>>

Process(c, held, queue, work, pc) ==
  [cmd |-> c, held |-> held, queue |-> queue, work |-> work, pc |-> pc, ran |-> {},
   draft |-> NoEntry, entry |-> NoEntry]

Begins(c) == proc = Idle /\ commands < MaxCommands /\ commands' = commands + 1

(* A command begins with the lockfile that it finds. *)
Start(c) ==
  /\ Begins(c)
  /\ c.tool \notin {"import", "dedupe"}
  /\ proc' = IF c.tool \in InstallLike
             THEN Process(c, lock, {}, TargetsOf(c), "install")
             ELSE Process(c, lock, TargetsOf(c), {}, "edit")
  /\ warm' = FALSE
  /\ UNCHANGED <<published, disk, settled, stale, doubtful, edits, mishaps>>

(* import removes the lockfile, then resolves with --lockfile-only. *)
StartImport(c) ==
  /\ Begins(c) /\ c.tool = "import"
  /\ lock' = NoLockfile
  /\ proc' = Process(c, NoLockfile, {}, TargetsOf(c), "install")
  /\ settled' = {} /\ warm' = FALSE
  /\ UNCHANGED <<published, manifest, overrides, current, modules, newer, links, store,
                 stale, doubtful, edits, mishaps>>

(* Mutant: the overrides of the lockfile are never brought up to date. *)
MergedStale(held, i, entry) ==
  [entries |-> [IF held = NoLockfile THEN [j \in Importers |-> NoEntry] ELSE held.entries
                EXCEPT ![i] = entry],
   overrides |-> IF held = NoLockfile THEN {} ELSE held.overrides]

Merged(held, i, entry) ==
  [entries |-> [IF held = NoLockfile THEN [j \in Importers |-> NoEntry] ELSE held.entries
                EXCEPT ![i] = entry],
   overrides |-> overrides]

(* dedupe resolves every project with --lockfile-only in a copy of the     *)
(* workspace, where each run starts from the lockfile of before the        *)
(* command, and takes over the file that the last one saves.               *)
StartDedupe(c) ==
  /\ Begins(c) /\ c.tool = "dedupe"
  /\ LET i == CHOOSE j \in TargetsOf(c) : \A k \in TargetsOf(c) : Rank[k] <= Rank[j]
     IN  lock' = Merged(lock, i, EntryFor(i, manifest[i], c.tool))
  /\ newer' = FALSE
  /\ proc' = Process(c, lock', {}, TargetsOf(c), "install")
  /\ stale' = stale \cup Diverging(lock', links)
  /\ settled' = {} /\ warm' = FALSE
  /\ UNCHANGED <<published, manifest, overrides, current, modules, links, store, doubtful, edits,
                 mishaps>>
-----------------------------------------------------------------------------
(* The edits.  Each leaves it to Install to go on with work, or, if there  *)
(* is nothing to do for the project, passes on to the next.                *)
AtEdit(i, tool) ==
  /\ proc.pc = "edit" /\ proc.cmd.tool = tool
  /\ proc.queue # {} /\ i = First(proc.queue)

Installing(i, work, deps) ==
  [proc EXCEPT !.queue = @ \ {i}, !.work = work, !.pc = "install", !.draft = deps,
               !.ran = @ \cup {i}]
PassOver(i) == [proc EXCEPT !.queue = @ \ {i}]

(* Add::run keeps the new manifest to itself until the install is over. *)
EditAdd(i) ==
  /\ AtEdit(i, "add")
  /\ LET added == [n \in proc.cmd.names |-> published[n]]
     IN  proc' = Installing(i, {i}, Over(added, manifest[i]))
  /\ UNCHANGED <<published, disk, history, bounds>>

(* apply_remove_to_manifest takes the packages out of node_modules first,  *)
(* then gives up if one was missing, unless it works recursively, and      *)
(* writes package.json before the install.                                 *)
EditRemove(i) ==
  /\ AtEdit(i, "remove")
  /\ LET removed == proc.cmd.names \cap DOMAIN manifest[i]
         missing == proc.cmd.names \ DOMAIN manifest[i]
         deps == Restrict(manifest[i], DOMAIN manifest[i] \ removed)
     IN  /\ links' = [links EXCEPT ![i] = Restrict(@, DOMAIN @ \ removed)]
         /\ stale' = stale \cup ({i} \X removed)
         /\ \/ /\ ~Recursive(proc.cmd) /\ missing # {}
               /\ proc' = Idle
               /\ UNCHANGED <<manifest, settled>>
            \/ /\ Recursive(proc.cmd) \/ missing = {}
               /\ manifest' = [manifest EXCEPT ![i] = deps]
               /\ settled' = IF removed = {} THEN settled ELSE settled \ {i}
               /\ proc' = IF removed = {} THEN PassOver(i) ELSE Installing(i, {i}, deps)
  /\ UNCHANGED <<published, overrides, lock, current, modules, newer, store, doubtful, warm,
                 bounds>>

Updated(deps, matched) ==
  [n \in DOMAIN deps |-> IF n \in matched /\ ~IsLocal(deps[n]) THEN published[n] ELSE deps[n]]

(* update raises the ranges, writes package.json, and runs a whole install *)
(* command for the project, unless none of the packages it was given is    *)
(* there.                                                                  *)
EditUpdate(i) ==
  /\ AtEdit(i, "update")
  /\ LET matched == IF proc.cmd.names = {} THEN DOMAIN manifest[i]
                    ELSE proc.cmd.names \cap DOMAIN manifest[i]
         deps == Updated(manifest[i], matched)
     IN  /\ manifest' = [manifest EXCEPT ![i] = deps]
         /\ settled' = IF deps = manifest[i] THEN settled ELSE settled \ {i}
         /\ proc' = IF matched = {} /\ proc.cmd.names # {} THEN PassOver(i)
                    ELSE [Installing(i, InstallTargets(i), NoEntry) EXCEPT !.held = lock]
  /\ UNCHANGED <<published, overrides, lock, current, modules, newer, links, store,
                 stale, doubtful, warm, bounds>>

WithLinks(deps, names) == Over([n \in names |-> OwnLink], deps)
WithoutLinks(deps, names) ==
  Restrict(deps, {n \in DOMAIN deps : ~(n \in names /\ IsLocal(deps[n]))})

(* link writes the dependency into package.json and an override, relative  *)
(* to the root, into pnpm-workspace.yaml.                                  *)
EditLink(i) ==
  /\ AtEdit(i, "link")
  /\ LET deps == WithLinks(manifest[i], proc.cmd.names)
     IN  /\ manifest' = [manifest EXCEPT ![i] = deps]
         /\ proc' = Installing(i, {i}, deps)
  /\ overrides' = overrides \cup proc.cmd.names
  /\ doubtful' = doubtful \cup Concerned(proc.cmd.names \ overrides)
  /\ settled' = settled \ {i}
  /\ UNCHANGED <<published, lock, current, modules, newer, links, store, stale, warm, bounds>>

(* unlink_in_project: the project changes if it loses a dependency or an   *)
(* override is removed, which happens only once in a workspace.            *)
EditUnlink(i) ==
  /\ AtEdit(i, "unlink")
  /\ LET asked == IF proc.cmd.names = {} THEN Names ELSE proc.cmd.names
         deps == WithoutLinks(manifest[i], asked)
         released == asked \cap overrides
         changed == deps # manifest[i] \/ released # {}
     IN  /\ manifest' = [manifest EXCEPT ![i] = deps]
         /\ overrides' = overrides \ released
         /\ doubtful' = doubtful \cup Concerned(released)
         /\ settled' = IF changed THEN settled \ {i} ELSE settled
         /\ proc' = IF changed THEN Installing(i, {i}, deps) ELSE PassOver(i)
  /\ UNCHANGED <<published, lock, current, modules, newer, links, store, stale, warm, bounds>>
-----------------------------------------------------------------------------
(* Install::run for one project. *)
At(i, pc) == proc.pc = pc /\ proc.work # {} /\ i = First(proc.work)
Tool == proc.cmd.tool
Deps(i) == IF OwnStore(Tool) THEN proc.draft ELSE manifest[i]
Here(i) == StoreOf(Tool, i)
LockfileOnly == Tool = "import"
Forced == Tool = "prune"
PrefersFrozen == Tool \notin {"update", "import"}

Done(i) == [proc EXCEPT !.work = @ \ {i}, !.pc = "install"]

(* The fast path of Install::run; a node_modules of another virtual store. *)
NothingToDo(i) ==
  /\ PrefersFrozen /\ ~Forced
  /\ AllReusable(proc.held, i, Deps(i)) /\ Persisted(proc.held, i, Here(i))
Foreign(i) == ~LockfileOnly /\ modules[i] \notin {None, Here(i)}

(* It writes nothing. *)
Skip(i) ==
  /\ At(i, "install")
  /\ NothingToDo(i)
  /\ proc' = IF Tool = "add" THEN [proc EXCEPT !.pc = "save manifest"] ELSE Done(i)
  /\ settled' = settled \cup {i}
  /\ UNCHANGED <<published, disk, stale, doubtful, warm, bounds>>

(* A node_modules that names another virtual store is emptied.  Then the   *)
(* entry is resolved anew, linked, or found to be in place already.        *)
Begin(i) ==
  /\ At(i, "install")
  /\ ~NothingToDo(i)
  /\ LET foreign == Foreign(i)
         reuse == PrefersFrozen /\ Reusable(proc.held, i, Deps(i))
     IN  /\ links' = IF foreign THEN [links EXCEPT ![i] = NoEntry] ELSE links
         /\ modules' = IF foreign THEN [modules EXCEPT ![i] = None] ELSE modules
         /\ store' = IF foreign /\ Here(i) = i THEN [store EXCEPT ![i] = {}] ELSE store
         /\ current' = IF foreign /\ Here(i) = i THEN [current EXCEPT ![i] = NoEntry] ELSE current
         /\ proc' = IF ~reuse THEN [proc EXCEPT !.pc = "resolve"]
                    ELSE [proc EXCEPT !.entry = proc.held.entries[i],
                                      !.pc = IF ~Forced /\ ~foreign
                                                /\ Persisted(proc.held, i, Here(i))
                                             THEN "finish" ELSE "link"]
  /\ settled' = settled \ {i}
  /\ UNCHANGED <<published, manifest, overrides, lock, newer, stale, doubtful, warm, bounds>>

(* InstallWithLockfile resolves the direct dependencies and, at the same   *)
(* time, imports and links them, wherever their links led.                 *)
Resolve(i) ==
  /\ At(i, "resolve")
  /\ LET entry == EntryFor(i, Deps(i), Tool)
     IN  /\ proc' = [proc EXCEPT !.entry = entry, !.pc = "save"]
         /\ IF LockfileOnly THEN UNCHANGED <<links, store>>
            ELSE /\ links' = [links EXCEPT ![i] = Over(LinksOf(i, Here(i), entry), @)]
                 /\ store' = [store EXCEPT ![Here(i)] = @ \cup PackagesOf(entry)]
  /\ UNCHANGED <<published, manifest, overrides, lock, current, modules, newer, history, bounds>>

(* The lockfile in memory, with the new entry and the present overrides. *)
Save(i) ==
  /\ At(i, "save")
  /\ lock' = Merged(proc.held, i, proc.entry)
  /\ newer' = FALSE
  /\ proc' = IF LockfileOnly THEN Done(i) ELSE [proc EXCEPT !.pc = "relink"]
  /\ stale' = IF LockfileOnly THEN stale \cup Diverging(lock', links)
              ELSE stale \ ({i} \X DOMAIN proc.entry)
  /\ doubtful' = doubtful \ ({i} \X Names)
  /\ UNCHANGED <<published, manifest, overrides, current, modules, links, store, settled, warm,
                 bounds>>

(* InstallFrozenLockfile: an orphan check if there is no .modules.yaml, or *)
(* its age is not trusted, which must be skipped in a workspace; the       *)
(* packages that are missing; the links that are missing, or local.  After *)
(* a resolution ("relink") the check is not skipped.                       *)
Link(i) ==
  /\ At(i, "link") \/ At(i, "relink")
  /\ LET s == Here(i)
         entry == proc.entry
         needed == PackagesOf(entry)
         prunes == /\ proc.pc = "relink"
                   /\ Forced \/ ~(needed \subseteq store[s])
                   /\ Forced \/ modules[i] = None
         kept == IF prunes THEN store[s] \cap needed ELSE store[s]
         Stays(n) == /\ n \in DOMAIN links[i] /\ ~IsLocal(entry[n].to)
                     /\ Alive(n, links[i][n], [store EXCEPT ![s] = kept \cup needed])
         Evicted(j, n) == /\ n \in DOMAIN links[j] /\ s \in {links[j][n][1], modules[j]}
                          /\ <<n, links[j][n][2]>> \in store[s] \ (kept \cup needed)
         evicted == {d \in Importers \X Names : Evicted(d[1], d[2])}
         old == {n \in DOMAIN entry : Stays(n) /\ links[i][n][2] # entry[n].to}
         made == [n \in {m \in DOMAIN entry : ~Stays(m)} |-> Leads(i, s, entry[n].to)]
     IN  /\ store' = [store EXCEPT ![s] = kept \cup needed]
         /\ links' = [links EXCEPT ![i] = Over(made, @)]
         /\ stale' = ((stale \cup evicted) \ ({i} \X DOMAIN entry)) \cup ({i} \X old)
  /\ proc' = [proc EXCEPT !.pc = "finish"]
  /\ UNCHANGED <<published, manifest, overrides, lock, current, modules, newer, settled, doubtful,
                 warm, bounds>>

(* Mutant: the lockfile is read back only if there was none. *)
FinishUnread(i) ==
  /\ At(i, "finish")
  /\ modules' = [modules EXCEPT ![i] = Here(i)]
  /\ newer' \in {newer, newer \/ i = Root}
  /\ proc' = IF Tool = "add" 
             THEN [proc EXCEPT !.pc = "save manifest", !.held = IF @ = NoLockfile THEN lock ELSE @]
             ELSE [Done(i) EXCEPT !.held = IF @ = NoLockfile THEN lock ELSE @]
  /\ settled' = settled \cup {i}
  /\ UNCHANGED <<published, manifest, overrides, lock, current, links, store, stale,
                 doubtful, warm, bounds>>

(* write_modules_manifest: its time stamp has no fractions of a second, so *)
(* it may be the older one although it is written last.  Then the lockfile *)
(* is read back.                                                           *)
Finish(i) ==
  /\ At(i, "finish")
  /\ modules' = [modules EXCEPT ![i] = Here(i)]
  /\ newer' \in {newer, newer \/ i = Root}
  /\ proc' = IF Tool = "add" THEN [proc EXCEPT !.pc = "save manifest", !.held = lock]
             ELSE [Done(i) EXCEPT !.held = lock]
  /\ settled' = settled \cup {i}
  /\ UNCHANGED <<published, manifest, overrides, lock, current, links, store, stale,
                 doubtful, warm, bounds>>

SaveManifest(i) ==
  /\ At(i, "save manifest")
  /\ manifest' = [manifest EXCEPT ![i] = proc.draft]
  /\ proc' = Done(i)
  /\ UNCHANGED <<published, overrides, lock, current, modules, newer, links, store, history,
                 bounds>>
-----------------------------------------------------------------------------
(* The next project, or the end of a command that edits. *)
NextProject ==
  /\ proc.pc = "install" /\ proc.work = {}
  /\ Tool \notin InstallLike \cup {"update"}
  /\ proc' = [proc EXCEPT !.pc = "edit"]
  /\ UNCHANGED <<published, disk, history, bounds>>

Entries(held, S) == [j \in S |-> held.entries[j]]
Preserving(held, S, s) ==
  Over(Entries(held, S), current[s])

(* lock.yaml: add keeps what it has of other projects, the others do not;  *)
(* link, and unlink without -r, write none.                                *)
Conclude ==
  /\ proc.pc = "edit" /\ proc.queue = {}
  /\ LET c == proc.cmd
         s == StoreOf(c.tool, c.at)
         held == proc.held
         S == IF c.tool = "unlink" THEN proc.ran ELSE TargetsOf(c)
         silent == \/ held = NoLockfile \/ c.tool = "link"
                   \/ c.tool \in {"unlink", "update"} /\ proc.ran = {}
                   \/ c.tool = "unlink" /\ ~c.recursive
     IN  current' = IF silent THEN current
                    ELSE [current EXCEPT ![s] = IF c.tool = "add" THEN Preserving(held, S, s)
                                                ELSE Entries(held, S)]
  /\ proc' = Idle
  /\ UNCHANGED <<published, manifest, overrides, lock, modules, newer, links, store, history,
                 bounds>>

(* The end of an install command, or of the one that update runs, which    *)
(* writes the root's .modules.yaml again.                                  *)
Record ==
  /\ proc.pc = "install" /\ proc.work = {}
  /\ Tool \in InstallLike \cup {"update"}
  /\ LET targets == IF Tool = "update" THEN InstallTargets(CHOOSE i \in proc.ran :
                                               \A j \in proc.ran : Rank[j] <= Rank[i])
                    ELSE TargetsOf(proc.cmd)
     IN  /\ current' = IF LockfileOnly THEN current
                       ELSE [current EXCEPT ![Root] = Preserving(proc.held, targets, Root)]
         /\ warm' = (Tool = "install" /\ targets = Importers)
  /\ newer' \in {newer, newer \/ (~LockfileOnly /\ modules[Root] # None)}
  /\ proc' = IF Tool = "update" THEN [proc EXCEPT !.pc = "edit"] ELSE Idle
  /\ UNCHANGED <<published, manifest, overrides, lock, modules, links, store, settled, stale,
                 doubtful, bounds>>

(* The command is killed, or fails: in the middle of a resolution, some    *)
(* dependencies are imported and linked already.                           *)
Abort ==
  /\ proc # Idle /\ mishaps < MaxMishaps
  /\ mishaps' = mishaps + 1
  /\ \E S \in SUBSET Names :
       IF proc.pc = "resolve" /\ ~LockfileOnly
       THEN LET i == First(proc.work)
                entry == EntryFor(i, Restrict(Deps(i), S \cap DOMAIN Deps(i)), Tool)
            IN  /\ links' = [links EXCEPT ![i] = Over(LinksOf(i, Here(i), entry), @)]
                /\ store' = [store EXCEPT ![Here(i)] = @ \cup PackagesOf(entry)]
       ELSE S = {} /\ UNCHANGED <<links, store>>
  /\ stale' = stale \cup Diverging(lock, links')
  /\ settled' = IF proc.work = {} THEN settled ELSE settled \ {First(proc.work)}
  /\ proc' = Idle
  /\ UNCHANGED <<published, manifest, overrides, lock, current, modules, newer, doubtful, warm,
                 commands, edits>>

Step == \/ \E i \in Importers :
             \/ EditAdd(i) \/ EditRemove(i) \/ EditUpdate(i) \/ EditLink(i) \/ EditUnlink(i)
             \/ Skip(i) \/ Begin(i) \/ Resolve(i) \/ Save(i) \/ Link(i) \/ Finish(i)
             \/ SaveManifest(i)
        \/ NextProject \/ Conclude \/ Record

Next == \/ \E n \in Names : Publish(n)
        \/ \E i \in Importers, deps \in Manifests : Edit(i, deps)
        \/ \E c \in Commands : Start(c) \/ StartImport(c) \/ StartDedupe(c)
        \/ (proc # Idle /\ Step)
        \/ Abort
        \/ (proc = Idle /\ UNCHANGED vars)

Spec == Init /\ [][Next]_vars
-----------------------------------------------------------------------------
(* A project that the last command about it was done with is in order:     *)
(* pnpm-lock.yaml has its dependencies with their specifiers, none of them *)
(* is linked from the workspace unless it, or an override, says so, and    *)
(* its node_modules leads to what the lockfile says, which is there.       *)
(* Except for what other commands have left behind: a link that was moved  *)
(* or taken by a command that then failed or was killed, a version that    *)
(* dedupe or import has changed in the lockfile alone, a package that      *)
(* another project's prune took, an override that another project has made *)
(* or removed.                                                             *)
SettledAgrees ==
  proc = Idle =>
    \A i \in settled :
      LET entry == lock.entries[i] IN
      /\ DOMAIN entry = DOMAIN manifest[i]
      /\ \A n \in DOMAIN entry :
           /\ entry[n].spec = manifest[i][n]
           /\ <<i, n>> \notin doubtful =>
                (IsLocal(entry[n].to) <=> (IsLocal(manifest[i][n]) \/ n \in overrides))
           /\ <<i, n>> \notin stale =>
                /\ n \in DOMAIN links[i] /\ links[i][n][2] = entry[n].to
                /\ entry[n].to = RootLink \/ Alive(n, links[i][n], store)

(* "Each importer's Install::run() extends the lockfile incrementally": a  *)
(* command changes no entry but that of the project it is working on, with *)
(* the entries of the projects before it kept.  (Not import and dedupe.)   *)
EntriesKept ==
  [][proc # Idle /\ proc.pc = "save" /\ ~LockfileOnly /\ lock # NoLockfile =>
       \A j \in Importers \ {First(proc.work)} : lock'.entries[j] = lock.entries[j]]_vars

(* When everything has been installed, an install has nothing to do for    *)
(* any project: what it has written is what the next one looks for.        *)
(* (Projects with links that another command has made stale are excepted   *)
(* from what concerns node_modules.)                                       *)
WarmInstallSkips ==
  proc = Idle /\ warm =>
    \A i \in Importers :
      /\ Reusable(lock, i, manifest[i])
      /\ stale \cap ({i} \X DOMAIN lock.entries[i]) = {} => Persisted(lock, i, Root)

(* "Pruning is skipped per-importer to avoid deleting sibling importers'   *)
(* packages from the shared virtual store": no link of another project     *)
(* loses the package that it leads to.                                     *)
SiblingsKept ==
  [][proc # Idle /\ proc.work # {} =>
       \A j \in Importers \ {First(proc.work)} : \A n \in DOMAIN links[j] :
         Alive(n, links[j][n], store) => Alive(n, links[j][n], store')]_vars
=============================================================================
