------------------------ MODULE ProjectCommandsProofs ------------------------
(***************************************************************************)
(* Proofs about ProjectCommands, for any workspace, packages, manifests,   *)
(* command lines and any number of commands, edits, publications, failures *)
(* and kills: the properties that MCProjectCommands checks, from one       *)
(* inductive invariant.                                                    *)
(***************************************************************************)
EXTENDS ProjectCommands, TLAPS

(* Types. *)
IsMap(f, X) == DOMAIN f \subseteq Names /\ f \in [DOMAIN f -> X]
IsDeps(d) == IsMap(d, Int)
Refs == {x \in Int : x >= RootLink}
IsEntry(e) == IsMap(e, [spec : Int, to : Refs])
Places(i) == {i, Root} \X Int
IsLockfile(l) == /\ DOMAIN l.entries = Importers
                 /\ \A i \in Importers : IsEntry(l.entries[i])

Busy == {"resolve", "save", "link", "relink", "finish", "save manifest"}
Fields == {"cmd", "held", "queue", "work", "pc", "ran", "draft", "entry"}
IsProcess(q) ==
  /\ DOMAIN q = Fields /\ q.cmd \in Commands
  /\ q.held # NoLockfile => IsLockfile(q.held)
  /\ q.queue \subseteq Importers
  /\ q.pc \in {"edit", "install"} \cup Busy
  /\ IsDeps(q.draft) /\ IsEntry(q.entry)

TypeOK ==
  /\ published \in [Names -> Nat \ {0}]
  /\ DOMAIN manifest = Importers /\ \A i \in Importers : IsDeps(manifest[i])
  /\ lock # NoLockfile => IsLockfile(lock)
  /\ DOMAIN current = Importers /\ DOMAIN modules = Importers /\ DOMAIN store = Importers
  /\ \A i \in Importers : modules[i] \in {None, i, Root}
  /\ DOMAIN links = Importers
  /\ \A i \in Importers : IsMap(links[i], Places(i))
  /\ proc = Idle \/ IsProcess(proc)
  /\ settled \subseteq Importers

(* The project in whose turn the command is. *)
Cur == First(proc.work)
Running == proc # Idle

(* What the command goes by is pnpm-lock.yaml as it is, but between its    *)
(* saving and its reading back; import, which goes by none, has settled    *)
(* nothing.                                                                *)
Held ==
  Running => /\ Tool # "import" /\ proc.pc \notin {"relink", "finish"} => proc.held = lock
             /\ Tool = "import" => /\ settled = {} /\ proc.held = NoLockfile
                                   /\ proc.pc \in {"install", "resolve", "save"}
             /\ Tool \in InstallLike => proc.pc # "edit"

(* How far the command is with the project. *)
Turn ==
  proc.pc \in Busy =>
    /\ proc.work # {} /\ Cur \in Importers
    /\ proc.pc # "save manifest" =>
         Cur \notin settled /\ (~LockfileOnly => modules[Cur] \in {None, Here(Cur)})

Resolving ==
  proc.pc = "save" =>
    /\ proc.entry = EntryFor(Cur, Deps(Cur), Tool)
    /\ ~LockfileOnly =>
         /\ \A n \in DOMAIN proc.entry :
              /\ n \in DOMAIN links[Cur]
              /\ links[Cur][n] = Leads(Cur, Here(Cur), proc.entry[n].to)
         /\ PackagesOf(proc.entry) \subseteq store[Here(Cur)]

Linking ==
  /\ proc.pc \in {"link", "relink", "finish"} =>
       /\ ~LockfileOnly
       /\ lock # NoLockfile /\ lock.entries[Cur] = proc.entry /\ lock.overrides = overrides
       /\ Satisfied(proc.entry, Deps(Cur))
  /\ proc.pc = "finish" =>
       \A n \in DOMAIN proc.entry : <<Cur, n>> \notin stale =>
         /\ n \in DOMAIN links[Cur]
         /\ IsLocal(proc.entry[n].to) \/ <<n, proc.entry[n].to>> \in store[Here(Cur)]
  /\ proc.pc = "save manifest" =>
       /\ Tool = "add"
       /\ lock # NoLockfile /\ Satisfied(lock.entries[Cur], proc.draft)

(* add, remove, link and unlink work on one project at a time; only add    *)
(* has written its package.json not yet.                                   *)
Drafts ==
  /\ proc.pc = "edit" => proc.work = {}
  /\ Running /\ OwnStore(Tool) /\ proc.work # {} =>
       proc.work = {Cur} /\ (Tool # "add" => proc.draft = manifest[Cur])

Ranged(deps) == \A n \in DOMAIN deps : deps[n] <= published[n]
Ranges == /\ \A i \in Importers : Ranged(manifest[i])
          /\ Running => Ranged(proc.draft)

(* The lockfile has what the manifest of a settled project wishes.         *)
Wished(i) == IF proc.pc = "save manifest" /\ i = Cur THEN proc.draft ELSE manifest[i]
Settling ==
  \A i \in settled :
    /\ lock # NoLockfile /\ modules[i] # None
    /\ DOMAIN lock.entries[i] = DOMAIN Wished(i)
    /\ \A n \in DOMAIN Wished(i) : lock.entries[i][n].spec = Wished(i)[n]

(* Entries are local where the specifier or an override is. *)
Locals ==
  lock # NoLockfile =>
    \A i \in Importers : \A n \in DOMAIN lock.entries[i] : <<i, n>> \notin doubtful =>
      (IsLocal(lock.entries[i][n].to) <=> IsLocal(lock.entries[i][n].spec) \/ n \in overrides)

(* Links lead to what the entry says, and that is there. *)
Fresh(i, n) == <<i, n>> \notin stale
LinksAgree ==
  lock # NoLockfile =>
    \A i \in Importers : \A n \in DOMAIN lock.entries[i] :
      Fresh(i, n) /\ n \in DOMAIN links[i] /\ ~(proc.pc = "save" /\ i = Cur) =>
        links[i][n][2] = lock.entries[i][n].to

LinksAlive ==
  \A i \in Importers : \A n \in DOMAIN links[i] :
    Fresh(i, n) => links[i][n][2] = RootLink \/ Alive(n, links[i][n], store)

(* What an installed project has an entry of is linked and there.          *)
Present ==
  lock # NoLockfile =>
    \A i \in Importers : \A n \in DOMAIN lock.entries[i] :
      Fresh(i, n) /\ modules[i] # None =>
        /\ n \in DOMAIN links[i]
        /\ ~IsLocal(lock.entries[i][n].to) =>
             <<n, lock.entries[i][n].to>> \in store[modules[i]]

(* What is done of an install of the whole workspace, and what it leaves.  *)
Ready(i) == /\ lock # NoLockfile /\ lock.overrides = overrides
            /\ Satisfied(lock.entries[i], manifest[i]) /\ modules[i] = Root
Warmth ==
  /\ Running => ~warm
  /\ Running /\ Tool = "install" /\ TargetsOf(proc.cmd) = Importers =>
       \A i \in Importers \ proc.work : Ready(i)
  /\ warm => \A i \in Importers :
       Ready(i) /\ i \in DOMAIN current[Root] /\ current[Root][i] = lock.entries[i]

IInv == TypeOK /\ Held /\ Turn /\ Resolving /\ Linking /\ Drafts /\ Ranges /\ Settling
        /\ Locals /\ LinksAgree /\ LinksAlive /\ Present /\ Warmth
-----------------------------------------------------------------------------
(* Maps, and the first of one.                                             *)
LEMMA FirstIs ==
  ASSUME NEW i \in Importers
  PROVE  First({i}) = i
BY ProjectAssumption DEF First

(* Maps put over one another, or restricted, are maps.                     *)
LEMMA MapFacts ==
  ASSUME NEW X, NEW f, IsMap(f, X)
  PROVE  /\ \A n \in DOMAIN f : n \in Names /\ f[n] \in X
         /\ \A g : IsMap(g, X) => IsMap(Over(f, g), X)
         /\ \A S : IsMap(Restrict(f, S \cap DOMAIN f), X)
BY DEF IsMap, Over, Restrict

(* The empty map is one of any kind.                                       *)
LEMMA NoMap ==
  ASSUME NEW X
  PROVE  IsMap(NoEntry, X) /\ DOMAIN NoEntry = {}
BY DEF IsMap, NoEntry

(* What a direct dependency is resolved to.                                *)
LEMMA ResolvedFacts ==
  ASSUME TypeOK, NEW i \in Importers, NEW n \in Names, NEW spec \in Int, NEW tool,
         spec <= published[n]
  PROVE  /\ Resolved(i, n, spec, tool) \in Refs
         /\ IsLocal(Resolved(i, n, spec, tool)) <=> (IsLocal(spec) \/ n \in overrides)
         /\ IsLocal(Resolved(i, n, spec, tool)) \/ Resolved(i, n, spec, tool) >= spec
<1>1. published[n] \in Nat /\ Legacy[n] \in Nat /\ Nat \subseteq Refs
  BY ProjectAssumption DEF TypeOK, Refs, RootLink
<1>2. CASE n \in overrides
  BY <1>2 DEF Resolved, OverrideRef, OwnLink, RootLink, IsLocal, Refs
<1>3. CASE n \notin overrides /\ IsLocal(spec)
  BY <1>3 DEF Resolved, OwnLink, RootLink, IsLocal, Refs
<1>4. CASE n \notin overrides /\ ~IsLocal(spec)
  <2>1. Resolved(i, n, spec, tool) = IF tool = "import" THEN Preferred(n, spec) ELSE published[n]
    BY <1>4 DEF Resolved
  <2> QED BY <1>1, <1>4, <2>1 DEF Preferred, IsLocal
<1> QED BY <1>2, <1>3, <1>4

(* A newly resolved entry satisfies the manifest, and is local where the   *)
(* specifier or an override is.                                            *)
LEMMA EntryFacts ==
  ASSUME TypeOK, NEW i \in Importers, NEW deps, IsDeps(deps), Ranged(deps), NEW tool
  PROVE  LET e == EntryFor(i, deps, tool) IN
         /\ IsEntry(e) /\ Satisfied(e, deps)
         /\ \A n \in DOMAIN e : IsLocal(e[n].to) <=> IsLocal(e[n].spec) \/ n \in overrides
<1> DEFINE e == EntryFor(i, deps, tool)
<1>1. /\ DOMAIN e = DOMAIN deps
      /\ e = [n \in DOMAIN deps |-> [spec |-> deps[n], to |-> Resolved(i, n, deps[n], tool)]]
  BY DEF EntryFor
<1>2. ASSUME NEW n \in DOMAIN deps
      PROVE  /\ n \in Names /\ deps[n] \in Int
             /\ e[n].spec = deps[n] /\ e[n].to \in Refs /\ e[n] \in [spec : Int, to : Refs]
             /\ IsLocal(e[n].to) <=> IsLocal(deps[n]) \/ n \in overrides
             /\ IsLocal(e[n].to) \/ e[n].to >= deps[n]
  <2>1. n \in Names /\ deps[n] \in Int /\ deps[n] <= published[n]
    BY DEF IsDeps, IsMap, Ranged
  <2>2. e[n].spec = deps[n] /\ e[n].to = Resolved(i, n, deps[n], tool)
        /\ e[n] = [spec |-> deps[n], to |-> Resolved(i, n, deps[n], tool)]
    BY <1>1
  <2> QED BY <2>1, <2>2, ResolvedFacts
<1>3. IsEntry(e)
  BY <1>1, <1>2 DEF IsEntry, IsMap
<1>4. Satisfied(e, deps)
  BY <1>1, <1>2 DEF Satisfied
<1> QED BY <1>1, <1>2, <1>3, <1>4

(* The lockfile that a resolution saves has the new entry, and the others  *)
(* as they were held.                                                      *)
LEMMA MergedFacts ==
  ASSUME NEW held, held # NoLockfile => IsLockfile(held), NEW i,
         NEW e, i \in Importers => IsEntry(e)
  PROVE  LET l == Merged(held, i, e) IN
         /\ l # NoLockfile /\ IsLockfile(l) /\ l.overrides = overrides
         /\ i \in Importers => l.entries[i] = e
         /\ \A j \in Importers \ {i} :
              l.entries[j] = IF held = NoLockfile THEN NoEntry ELSE held.entries[j]
<1> DEFINE l == Merged(held, i, e)
           old == IF held = NoLockfile THEN [j \in Importers |-> NoEntry] ELSE held.entries
<1>1. l = [entries |-> [old EXCEPT ![i] = e], overrides |-> overrides]
  BY DEF Merged
<1>2. DOMAIN old = Importers /\ \A j \in Importers : IsEntry(old[j])
  BY NoMap DEF IsLockfile, IsEntry
<1>3. l.entries = [old EXCEPT ![i] = e] /\ l.overrides = overrides
  BY <1>1
<1>4. l # NoLockfile
  <2>1. "entries" \in DOMAIN l /\ "entries" \notin DOMAIN NoLockfile
    BY <1>1 DEF NoLockfile
  <2> QED BY <2>1
<1> HIDE DEF l
<1>5. /\ DOMAIN l.entries = Importers
      /\ \A j \in Importers : l.entries[j] = IF j = i THEN e ELSE old[j]
  BY <1>2, <1>3
<1>6. IsLockfile(l)
  BY <1>2, <1>5 DEF IsLockfile
<1>7. \A j \in Importers \ {i} :
        l.entries[j] = IF held = NoLockfile THEN NoEntry ELSE held.entries[j]
  BY <1>5
<1> QED BY <1>3, <1>4, <1>5, <1>6, <1>7 DEF l
-----------------------------------------------------------------------------
(* What the steps make of the process.                                     *)
LEMMA ProcessIs ==
  ASSUME TypeOK
  PROVE  /\ Running => IsProcess(proc)
         /\ ~Running => proc.pc = "idle"
BY DEF TypeOK, Running, Idle

(* A process is not idle.                                                  *)
LEMMA ProcessRuns ==
  ASSUME NEW q, IsProcess(q)
  PROVE  q # Idle
<1>1. Idle.pc = "idle" /\ "idle" \notin {"edit", "install"} \cup Busy
  BY DEF Idle, Busy
<1> QED BY <1>1 DEF IsProcess

(* A command that begins.                                                  *)
LEMMA NewProcess ==
  ASSUME NEW c \in Commands, NEW held, held # NoLockfile => IsLockfile(held),
         NEW queue \in SUBSET Importers, NEW work, NEW pc \in {"edit", "install"}
  PROVE  LET q == Process(c, held, queue, work, pc) IN
         /\ IsProcess(q)
         /\ q.cmd = c /\ q.held = held /\ q.queue = queue /\ q.work = work /\ q.pc = pc
         /\ q.draft = NoEntry
BY NoMap DEF Process, IsProcess, Fields, IsDeps, IsEntry

Kept(q, fields) == \A f \in fields : q[f] = proc[f]

(* The command goes on to another stage.                                   *)
LEMMA StageFacts ==
  ASSUME IsProcess(proc), NEW p \in {"edit", "install"} \cup Busy
  PROVE  LET q == [proc EXCEPT !.pc = p] IN
         IsProcess(q) /\ q.pc = p /\ Kept(q, Fields \ {"pc"})
BY DEF IsProcess, Fields, Kept

(* It goes on with another lockfile.                                       *)
LEMMA HoldFacts ==
  ASSUME IsProcess(proc), NEW p \in {"edit", "install"} \cup Busy, NEW held,
         held # NoLockfile => IsLockfile(held)
  PROVE  LET q == [proc EXCEPT !.pc = p, !.held = held] IN
         IsProcess(q) /\ q.pc = p /\ q.held = held /\ Kept(q, Fields \ {"pc", "held"})
BY DEF IsProcess, Fields, Kept

(* It goes on with another entry.                                          *)
LEMMA EntryStage ==
  ASSUME IsProcess(proc), NEW p \in {"edit", "install"} \cup Busy, NEW e, IsEntry(e)
  PROVE  LET q == [proc EXCEPT !.entry = e, !.pc = p] IN
         IsProcess(q) /\ q.pc = p /\ q.entry = e /\ Kept(q, Fields \ {"pc", "entry"})
BY DEF IsProcess, Fields, Kept

(* It is done with a project.                                              *)
LEMMA DoneFacts ==
  ASSUME IsProcess(proc), NEW i
  PROVE  /\ IsProcess(Done(i)) /\ Done(i).pc = "install" /\ Done(i).work = proc.work \ {i}
         /\ Kept(Done(i), Fields \ {"pc", "work"})
BY DEF IsProcess, Fields, Kept, Done

(* It is done with a project, and has read the lockfile back.              *)
LEMMA DoneHeld ==
  ASSUME IsProcess(proc), NEW i, NEW held, held # NoLockfile => IsLockfile(held)
  PROVE  LET q == [Done(i) EXCEPT !.held = held] IN
         /\ IsProcess(q) /\ q.pc = "install" /\ q.work = proc.work \ {i} /\ q.held = held
         /\ Kept(q, Fields \ {"pc", "work", "held"})
BY DEF IsProcess, Fields, Kept, Done

(* It passes a project over.                                               *)
LEMMA PassFacts ==
  ASSUME IsProcess(proc), NEW i
  PROVE  /\ IsProcess(PassOver(i)) /\ Kept(PassOver(i), Fields \ {"queue"})
BY DEF IsProcess, Fields, Kept, PassOver

(* It has edited a manifest and installs.                                  *)
LEMMA InstallingFacts ==
  ASSUME IsProcess(proc), NEW i, NEW work, NEW deps, IsDeps(deps)
  PROVE  LET q == Installing(i, work, deps) IN
         /\ IsProcess(q) /\ q.pc = "install" /\ q.work = work /\ q.draft = deps
         /\ Kept(q, {"cmd", "held", "entry"})
BY DEF IsProcess, Fields, Kept, Installing

(* update has edited a manifest and installs by the lockfile that it finds.*)
LEMMA InstallingHeld ==
  ASSUME IsProcess(proc), NEW i, NEW work, NEW deps, IsDeps(deps), NEW held,
         held # NoLockfile => IsLockfile(held)
  PROVE  LET q == [Installing(i, work, deps) EXCEPT !.held = held] IN
         /\ IsProcess(q) /\ q.pc = "install" /\ q.work = work /\ q.draft = deps
         /\ q.held = held /\ Kept(q, {"cmd", "entry"})
BY DEF IsProcess, Fields, Kept, Installing
-----------------------------------------------------------------------------
(* A step that leaves lockfile and node_modules alone.                     *)
Nets == Locals /\ LinksAgree /\ LinksAlive /\ Present
Netted == <<overrides, lock, modules, links, store, stale, doubtful>>

(* What relates lockfile, links and packages holds on if none of them      *)
(* changes.                                                                *)
LEMMA NetsKept ==
  ASSUME Nets, UNCHANGED Netted, proc.pc # "save", proc'.pc # "save"
  PROVE  Nets'
BY DEF Nets, Netted, Locals, LinksAgree, LinksAlive, Present, Fresh, Alive

(* No project is under way.                                                *)
LEMMA NotBusy ==
  ASSUME proc.pc \notin Busy
  PROVE  /\ Turn /\ Resolving /\ Linking
         /\ \A i : Wished(i) = manifest[i]
BY DEF Turn, Resolving, Linking, Wished, Busy

(* No project is under way after the step.                                 *)
LEMMA NotBusyNext ==
  ASSUME proc'.pc \notin Busy
  PROVE  /\ Turn' /\ Resolving' /\ Linking'
         /\ \A i : Wished(i)' = manifest'[i]
BY DEF Turn, Resolving, Linking, Wished, Busy

(* Nothing to do: the entry satisfies the manifest already, and the project*)
(* is settled.                                                             *)
LEMMA SkipStep ==
  ASSUME IInv, Running, NEW i \in Importers, Skip(i)
  PROVE  IInv'
<1>1. TypeOK /\ IsProcess(proc) /\ proc.pc = "install" /\ i = Cur /\ proc.held = lock
      /\ Tool \notin {"import", "update"}
  BY ProcessIs DEF IInv, Skip, At, Cur, Held, NothingToDo, PrefersFrozen
<1>2. lock # NoLockfile /\ lock.overrides = overrides /\ Satisfied(lock.entries[i], Deps(i))
      /\ modules[i] = Here(i)
  BY <1>1 DEF Skip, NothingToDo, AllReusable, Reusable, Persisted
<1>3. Here(i) \in Importers /\ None \notin Importers
  BY ProjectAssumption DEF Here, StoreOf, Importers
<1>4. UNCHANGED <<published, manifest, current, newer, warm>> /\ UNCHANGED Netted
      /\ settled' = settled \cup {i}
  BY DEF Skip, disk, Netted
<1>5. proc.pc \notin Busy /\ proc.pc # "save" /\ Nets
  BY <1>1 DEF Busy, IInv, Nets
<1>6. CASE Tool = "add"
  <2>1. IsProcess(proc') /\ proc'.pc = "save manifest" /\ Kept(proc', Fields \ {"pc"})
    BY <1>1, <1>6, StageFacts DEF Skip, Busy
  <2>2. Running' /\ proc'.work = proc.work /\ Tool' = "add" /\ proc'.cmd = proc.cmd
        /\ proc'.held = proc.held /\ proc'.draft = proc.draft /\ Cur' = i
    BY <1>1, <1>6, <2>1, ProcessRuns DEF Kept, Fields, Cur, Tool, Running
  <2>3. Deps(i) = proc.draft
    BY <1>6 DEF Deps, OwnStore
  <2>4. TypeOK'
    BY <1>1, <1>4, <2>1 DEF TypeOK, Netted
  <2>5. Held' /\ Turn' /\ Resolving' /\ Linking'
    <3>1. Held'
      BY <1>1, <1>4, <2>1, <2>2 DEF Held, Netted, InstallLike
    <3>2. proc.work # {}
      BY DEF Skip, At
    <3>3. Turn' /\ Resolving'
      BY <2>1, <2>2, <3>2 DEF Turn, Resolving
    <3>4. lock' = lock
      BY <1>4 DEF Netted
    <3>5. Linking'
      BY <1>2, <2>1, <2>2, <2>3, <3>4 DEF Linking
    <3> QED BY <3>1, <3>3, <3>5
  <2>6. Drafts' /\ Ranges'
    <3>1. OwnStore(Tool)' <=> OwnStore(Tool)
      BY <1>6, <2>2 DEF OwnStore
    <3>2. Drafts'
      BY <1>1, <1>4, <1>6, <2>1, <2>2, <3>1 DEF IInv, Drafts
    <3>3. Ranges'
      BY <1>4, <2>2 DEF IInv, Ranges, Ranged
    <3> QED BY <3>2, <3>3
  <2>7. Settling'
    <3>1. Wished(i)' = proc.draft /\ \A j \in Importers \ {i} : Wished(j)' = manifest[j]
      BY <1>4, <2>1, <2>2 DEF Wished
    <3>2. \A j \in settled : Wished(j) = manifest[j]
      BY <1>5, NotBusy
    <3>3. settled \subseteq Importers /\ UNCHANGED <<lock, modules>>
      BY <1>1, <1>4 DEF TypeOK, Netted
    <3>4. ASSUME NEW j \in settled', j # i
          PROVE  /\ modules[j] # None /\ DOMAIN lock.entries[j] = DOMAIN manifest[j]
                 /\ \A n \in DOMAIN manifest[j] : lock.entries[j][n].spec = manifest[j][n]
      BY <1>4, <3>2, <3>4 DEF IInv, Settling
    <3>5. /\ modules[i] # None /\ DOMAIN lock.entries[i] = DOMAIN proc.draft
          /\ \A n \in DOMAIN proc.draft : lock.entries[i][n].spec = proc.draft[n]
      BY <1>2, <1>3, <2>3 DEF Satisfied
    <3> QED BY <1>2, <1>4, <3>1, <3>3, <3>4, <3>5 DEF Settling
  <2>8. Nets'
    BY <1>4, <1>5, <2>1, NetsKept
  <2>9. Warmth'
    BY <1>4, <2>2 DEF IInv, Warmth, Netted, Ready, Running, Satisfied
  <2> QED BY <2>4, <2>5, <2>6, <2>7, <2>8, <2>9 DEF IInv, Nets
<1>7. CASE Tool # "add"
  <2>1. IsProcess(proc') /\ proc'.pc = "install" /\ proc'.work = proc.work \ {i}
        /\ Kept(proc', Fields \ {"pc", "work"})
    BY <1>1, <1>7, DoneFacts DEF Skip
  <2>2. Running' /\ Tool' = Tool /\ proc'.cmd = proc.cmd /\ proc'.held = proc.held
        /\ proc'.draft = proc.draft /\ proc'.pc \notin Busy
    BY <2>1, ProcessRuns DEF Kept, Fields, Tool, Running, Busy
  <2>3. Deps(i) = manifest[i] /\ (OwnStore(Tool) => proc'.work = {})
    BY <1>1, <1>7, <2>1 DEF Deps, IInv, Drafts, Skip, At
  <2>4. TypeOK'
    BY <1>1, <1>4, <2>1 DEF TypeOK, Netted
  <2>5. Held' /\ Turn' /\ Resolving' /\ Linking'
    BY <1>1, <1>4, <2>1, <2>2, NotBusyNext DEF Held, Netted
  <2>6. Drafts' /\ Ranges'
    BY <1>1, <1>4, <2>1, <2>2, <2>3 DEF IInv, Drafts, Ranges, Ranged, Running
  <2>7. Settling'
    BY <1>2, <1>3, <1>4, <1>5, <2>2, <2>3, NotBusy, NotBusyNext
    DEF IInv, Settling, Netted, Satisfied
  <2>8. Nets'
    BY <1>4, <1>5, <2>1, NetsKept
  <2>9. Warmth'
    BY <1>2, <1>4, <2>1, <2>2, <2>3
    DEF IInv, Warmth, Netted, Ready, Running, Satisfied, Here, StoreOf, OwnStore
  <2> QED BY <2>4, <2>5, <2>6, <2>7, <2>8, <2>9 DEF IInv, Nets
<1> QED BY <1>6, <1>7
-----------------------------------------------------------------------------
(* A project uses its own virtual store or that of the root.               *)
LEMMA StoreFacts ==
  ASSUME TypeOK, NEW i \in Importers
  PROVE  /\ Here(i) \in {i, Root} /\ Here(i) \in Importers /\ Root \in Importers
         /\ modules[i] \in {None, i, Root} /\ None \notin Importers
         /\ \A n \in DOMAIN links[i] :
              n \in Names /\ links[i][n][1] \in {i, Root} /\ links[i][n][2] \in Int
<1>1. Here(i) \in {i, Root} /\ Root \in Importers /\ None \notin Importers
  BY ProjectAssumption DEF Here, StoreOf, Importers
<1>2. \A n \in DOMAIN links[i] : n \in Names /\ links[i][n] \in Places(i)
  BY MapFacts DEF TypeOK
<1> QED BY <1>1, <1>2 DEF TypeOK, Places

(* A node_modules of another virtual store is that of the root, in a       *)
(* command that uses the project's own.                                    *)
LEMMA BeginNets ==
  ASSUME TypeOK, Nets, Running, NEW i \in Importers, Begin(i), proc.pc # "save", proc'.pc # "save"
  PROVE  Nets'
<1>1. UNCHANGED <<lock, overrides, stale, doubtful>>
  BY DEF Begin
<1>2. CASE ~Foreign(i)
  <2>1. UNCHANGED Netted
    BY <1>1, <1>2 DEF Begin, Netted
  <2> QED BY <2>1, NetsKept
<1>3. CASE Foreign(i)
  <2>1. /\ links'[i] = NoEntry /\ modules'[i] = None
        /\ \A j \in Importers \ {i} : links'[j] = links[j] /\ modules'[j] = modules[j]
    BY <1>3 DEF Begin, TypeOK
  <2>2. DOMAIN links'[i] = {}
    BY <2>1, NoMap
  <2>3. \A j \in Importers : (j = i /\ Here(i) = i) \/ store'[j] = store[j]
    BY <1>3 DEF Begin, TypeOK
  <2>4. ASSUME NEW j \in Importers \ {i}
        PROVE  /\ \A n \in DOMAIN links[j] : store'[links[j][n][1]] = store[links[j][n][1]]
               /\ modules[j] # None => store'[modules[j]] = store[modules[j]]
    <3>1. Here(i) = i => i # Root
      BY <1>3, StoreFacts DEF Foreign
    <3>2. \A k \in {j, Root} : store'[k] = store[k]
      BY <2>3, <3>1, StoreFacts
    <3> QED BY <3>2, StoreFacts
  <2>5. Locals'
    BY <1>1 DEF Nets, Locals
  <2>6. LinksAgree'
    BY <1>1, <2>1, <2>2 DEF Nets, LinksAgree, Fresh
  <2>7. LinksAlive'
    <3> SUFFICES ASSUME NEW j \in Importers, NEW n \in DOMAIN links'[j], Fresh(j, n)'
                 PROVE  links'[j][n][2] = RootLink \/ Alive(n, links'[j][n], store')
      BY DEF LinksAlive, Alive
    <3>1. j # i /\ links'[j] = links[j] /\ Fresh(j, n)
      BY <1>1, <2>1, <2>2 DEF Fresh
    <3> QED BY <2>4, <3>1 DEF Nets, LinksAlive, Alive
  <2>8. Present'
    BY <1>1, <2>1, <2>4 DEF Nets, Present, Fresh
  <2> QED BY <2>5, <2>6, <2>7, <2>8 DEF Nets
<1> QED BY <1>2, <1>3

(* An install of a project begins; it is settled no more.                  *)
LEMMA BeginStep ==
  ASSUME IInv, Running, NEW i \in Importers, Begin(i)
  PROVE  IInv'
<1>1. TypeOK /\ IsProcess(proc) /\ proc.pc = "install" /\ i = Cur /\ proc.work # {}
      /\ (Tool # "import" => proc.held = lock)
  BY ProcessIs DEF IInv, Begin, At, Cur, Held
<1>2. UNCHANGED <<published, manifest, overrides, lock, stale, doubtful, warm>>
      /\ settled' = settled \ {i}
  BY DEF Begin
<1>3. proc.pc \notin Busy /\ Nets
  BY <1>1 DEF Busy, IInv, Nets
<1> DEFINE reuse == PrefersFrozen /\ Reusable(proc.held, i, Deps(i))
           p == IF ~Forced /\ ~Foreign(i) /\ Persisted(proc.held, i, Here(i))
                THEN "finish" ELSE "link"
<1>4. /\ IsProcess(proc') /\ Kept(proc', Fields \ {"pc", "entry"})
      /\ ~reuse => proc'.pc = "resolve"
      /\ reuse => proc'.pc = p /\ proc'.entry = proc.held.entries[i]
  <2>1. CASE ~reuse
    <3>1. proc' = [proc EXCEPT !.pc = "resolve"]
      BY <2>1 DEF Begin
    <3> QED BY <1>1, <2>1, <3>1, StageFacts DEF Busy, Kept
  <2>2. CASE reuse
    <3>1. proc' = [proc EXCEPT !.entry = proc.held.entries[i], !.pc = p]
      BY <2>2 DEF Begin
    <3>2. proc.held # NoLockfile /\ IsLockfile(proc.held) /\ IsEntry(proc.held.entries[i])
      BY <1>1, <2>2 DEF Reusable, IsProcess, IsLockfile
    <3>3. p \in {"edit", "install"} \cup Busy
      BY DEF Busy
    <3> HIDE DEF p
    <3> QED BY <1>1, <2>2, <3>1, <3>2, <3>3, EntryStage
  <2> QED BY <2>1, <2>2
<1>5. /\ Running' /\ proc'.pc \in {"resolve", "link", "finish"} /\ proc'.cmd = proc.cmd
      /\ proc'.held = proc.held /\ proc'.draft = proc.draft /\ proc'.work = proc.work
      /\ Tool' = Tool /\ Cur' = i /\ Here(i)' = Here(i) /\ LockfileOnly' = LockfileOnly
      /\ Deps(i)' = Deps(i)
  BY <1>1, <1>2, <1>4, ProcessRuns
  DEF Running, Kept, Fields, Tool, Cur, Here, LockfileOnly, Deps, OwnStore
<1>6. proc'.pc \in {"link", "finish"} => reuse /\ proc'.entry = proc.held.entries[i]
  BY <1>4
<1>7. proc'.pc = "finish" => ~Foreign(i) /\ Persisted(proc.held, i, Here(i))
  BY <1>4
<1>8. TypeOK'
  <2>1. /\ DOMAIN links' = Importers /\ DOMAIN modules' = Importers
        /\ DOMAIN store' = Importers /\ DOMAIN current' = Importers
        /\ \A j \in Importers : modules'[j] \in {modules[j], None}
                                /\ links'[j] \in {links[j], NoEntry}
    BY <1>1 DEF Begin, TypeOK
  <2>2. \A j \in Importers : IsMap(links'[j], Places(j))
    BY <1>1, <2>1, NoMap DEF TypeOK
  <2> QED BY <1>1, <1>2, <1>4, <2>1, <2>2 DEF TypeOK
<1>9. Held'
  BY <1>1, <1>2, <1>4, <1>5, <1>6 DEF IInv, Held, PrefersFrozen
<1>10. Turn'
  <2>1. ~LockfileOnly => modules'[i] \in {None, Here(i)}
    BY <1>1 DEF Begin, Foreign, TypeOK
  <2> QED BY <1>1, <1>2, <1>5, <2>1 DEF Turn
<1>11. Resolving' /\ (proc'.pc \notin {"link", "finish"} => Linking')
  BY <1>5 DEF Resolving, Linking
<1>12. ASSUME proc'.pc \in {"link", "finish"} PROVE Linking'
  <2>1. /\ reuse /\ proc.held = lock /\ lock # NoLockfile /\ lock.overrides = overrides
        /\ Satisfied(lock.entries[i], Deps(i)) /\ proc'.entry = lock.entries[i] /\ ~LockfileOnly
    BY <1>1, <1>6, <1>12 DEF PrefersFrozen, Reusable, LockfileOnly
  <2>2. ASSUME proc'.pc = "finish", NEW n \in DOMAIN proc'.entry, <<i, n>> \notin stale
        PROVE  /\ n \in DOMAIN links'[i]
               /\ IsLocal(proc'.entry[n].to) \/ <<n, proc'.entry[n].to>> \in store'[Here(i)]
    <3>1. UNCHANGED <<links, store>> /\ modules[i] = Here(i)
      BY <1>7, <2>2 DEF Begin, Persisted
    <3>2. modules[i] # None
      BY <1>1, <3>1, StoreFacts
    <3> QED BY <1>3, <2>1, <2>2, <3>1, <3>2 DEF Nets, Present, Fresh
  <2> QED BY <1>2, <1>5, <2>1, <2>2 DEF Linking
<1>13. Drafts' /\ Ranges'
  BY <1>1, <1>2, <1>5 DEF IInv, Drafts, Ranges, Ranged, Running, Cur
<1>14. Settling'
  <2>1. \A j \in Importers \ {i} : modules'[j] = modules[j]
    BY <1>1 DEF Begin, TypeOK
  <2>2. \A j : Wished(j) = manifest[j] /\ Wished(j)' = manifest[j]
    BY <1>2, <1>3, <1>5, NotBusy DEF Wished
  <2> QED BY <1>1, <1>2, <2>1, <2>2 DEF IInv, Settling, TypeOK
<1>15. Nets'
  BY <1>1, <1>3, <1>5, BeginNets
<1>16. Warmth'
  <2>1. ~warm'
    BY <1>2 DEF IInv, Warmth
  <2>2. \A j \in Importers \ {i} : modules'[j] = modules[j]
    BY <1>1 DEF Begin, TypeOK
  <2>3. Tool = "install" /\ modules[i] = Root => modules'[i] = modules[i]
    BY DEF Begin, Foreign, Here, StoreOf, OwnStore
  <2> QED BY <1>1, <1>2, <1>5, <2>1, <2>2, <2>3 DEF IInv, Warmth, Ready, Running
<1> QED BY <1>8, <1>9, <1>10, <1>11, <1>12, <1>13, <1>14, <1>15, <1>16 DEF IInv, Nets
-----------------------------------------------------------------------------
(* What a dependency that was just resolved leads to.                      *)
LEMMA LeadsFacts ==
  ASSUME NEW i, NEW s, NEW to \in Refs, NEW n, NEW packages,
         IsLocal(to) \/ <<n, to>> \in packages[s]
  PROVE  /\ Leads(i, s, to)[2] = to
         /\ Leads(i, s, to)[2] = RootLink \/ Alive(n, Leads(i, s, to), packages)
<1>1. CASE IsLocal(to)
  BY <1>1 DEF Leads, Alive, Refs, OwnLink, RootLink, IsLocal
<1>2. CASE ~IsLocal(to)
  BY <1>2 DEF Leads, Alive
<1> QED BY <1>1, <1>2

(* What an entry refers to and is not local is one of its packages.        *)
LEMMA PackagesFacts ==
  ASSUME NEW e, NEW n \in DOMAIN e
  PROVE  IsLocal(e[n].to) \/ <<n, e[n].to>> \in PackagesOf(e)
BY DEF PackagesOf

(* The links and packages that a resolution brings, as far as it got.      *)
Brings(i, e) ==
  /\ \A j \in Importers \ {i} : links'[j] = links[j]
  /\ \A j \in Importers : store[j] \subseteq store'[j]
  /\ DOMAIN links' = Importers /\ DOMAIN store' = Importers
  /\ PackagesOf(e) \subseteq store'[Here(i)]
  /\ DOMAIN links'[i] = DOMAIN e \cup DOMAIN links[i]
  /\ \A n \in DOMAIN links[i] \ DOMAIN e : links'[i][n] = links[i][n]
  /\ \A n \in DOMAIN e : links'[i][n] = Leads(i, Here(i), e[n].to) /\ links'[i][n][2] = e[n].to
  /\ \A j \in Importers : IsMap(links'[j], Places(j))
  /\ \A j \in Importers : \A n \in DOMAIN links'[j] :
       Fresh(j, n) => links'[j][n][2] = RootLink \/ Alive(n, links'[j][n], store')

(* A resolution leaves each link that was alive alive, and those it makes  *)
(* are.                                                                    *)
LEMMA Brought ==
  ASSUME TypeOK, LinksAlive, NEW i \in Importers, NEW e, IsEntry(e),
         links' = [links EXCEPT ![i] = Over(LinksOf(i, Here(i), e), @)],
         store' = [store EXCEPT ![Here(i)] = @ \cup PackagesOf(e)]
  PROVE  Brings(i, e)
<1> DEFINE m == LinksOf(i, Here(i), e)
<1>1. /\ links'[i] = Over(m, links[i]) /\ \A j \in Importers \ {i} : links'[j] = links[j]
      /\ DOMAIN links' = Importers /\ DOMAIN store' = Importers
  BY DEF TypeOK
<1>2. /\ store'[Here(i)] = store[Here(i)] \cup PackagesOf(e)
      /\ \A j \in Importers \ {Here(i)} : store'[j] = store[j]
  BY StoreFacts DEF TypeOK
<1>3. /\ DOMAIN links'[i] = DOMAIN e \cup DOMAIN links[i]
      /\ \A n \in DOMAIN links[i] \ DOMAIN e : links'[i][n] = links[i][n]
      /\ \A n \in DOMAIN e : links'[i][n] = Leads(i, Here(i), e[n].to)
  BY <1>1 DEF Over, LinksOf
<1>4. \A n \in DOMAIN e : n \in Names /\ e[n].to \in Refs /\ e[n].to \in Int
  BY MapFacts DEF IsEntry, Refs
<1>5. \A n \in DOMAIN e : Leads(i, Here(i), e[n].to) \in Places(i)
                          /\ Leads(i, Here(i), e[n].to)[2] = e[n].to
  BY <1>4, StoreFacts DEF Leads, Places
<1>6. \A j \in Importers : IsMap(links'[j], Places(j))
  <2>1. IsMap(m, Places(i))
    BY <1>4, <1>5 DEF IsMap, LinksOf
  <2>2. \A j \in Importers : IsMap(links[j], Places(j))
    BY DEF TypeOK
  <2>3. IsMap(links'[i], Places(i))
    BY <1>1, <2>1, <2>2, MapFacts
  <2> QED BY <1>1, <2>2, <2>3
<1>7. ASSUME NEW j \in Importers, NEW n \in DOMAIN links'[j], Fresh(j, n)
      PROVE  links'[j][n][2] = RootLink \/ Alive(n, links'[j][n], store')
  <2>1. CASE j = i /\ n \in DOMAIN e
    <3>1. IsLocal(e[n].to) \/ <<n, e[n].to>> \in store'[Here(i)]
      BY <1>2, <2>1, PackagesFacts
    <3> DEFINE to == e[n].to
               l == Leads(i, Here(i), to)
    <3>2. links'[j][n] = l /\ to \in Refs
      BY <1>3, <1>4, <2>1
    <3>3. l[2] = RootLink \/ Alive(n, l, store')
      <4> HIDE DEF to
      <4>1. IsLocal(to) \/ <<n, to>> \in store'[Here(i)]
        BY <3>1 DEF to
      <4> QED BY <3>2, <4>1, LeadsFacts
    <3> HIDE DEF l
    <3> QED BY <3>2, <3>3
  <2>2. CASE ~(j = i /\ n \in DOMAIN e)
    <3>1. n \in DOMAIN links[j] /\ links'[j][n] = links[j][n]
      BY <1>1, <1>3, <2>2
    <3>2. links[j][n][1] \in Importers /\ store[links[j][n][1]] \subseteq store'[links[j][n][1]]
      BY <1>2, <3>1, StoreFacts
    <3> QED BY <1>7, <3>1, <3>2 DEF LinksAlive, Alive
  <2> QED BY <2>1, <2>2
<1> QED BY <1>1, <1>2, <1>3, <1>5, <1>6, <1>7 DEF Brings

(* The resolution of a project.                                            *)
LEMMA ResolveStep ==
  ASSUME IInv, Running, NEW i \in Importers, Resolve(i)
  PROVE  IInv'
<1> DEFINE e == EntryFor(i, Deps(i), Tool)
<1>1. TypeOK /\ IsProcess(proc) /\ proc.pc = "resolve" /\ i = Cur /\ proc.work # {}
  BY ProcessIs DEF IInv, Resolve, At, Cur
<1>2. UNCHANGED <<published, manifest, overrides, lock, current, modules, settled, stale,
                  doubtful, warm>>
  BY DEF Resolve, history
<1>3. IsDeps(Deps(i)) /\ Ranged(Deps(i))
  BY <1>1 DEF Deps, IInv, Ranges, TypeOK, IsProcess
<1>4. IsEntry(e)
  BY <1>1, <1>3, EntryFacts
<1>5. IsProcess(proc') /\ proc'.pc = "save" /\ proc'.entry = e
      /\ Kept(proc', Fields \ {"pc", "entry"})
  <2> HIDE DEF e
  <2>1. proc' = [proc EXCEPT !.entry = e, !.pc = "save"]
    BY DEF Resolve, e
  <2> QED BY <1>1, <1>4, <2>1, EntryStage DEF Busy
<1>6. /\ Running' /\ proc'.cmd = proc.cmd
      /\ proc'.held = proc.held /\ proc'.draft = proc.draft /\ proc'.work = proc.work
      /\ Tool' = Tool /\ Cur' = i /\ Here(i)' = Here(i) /\ LockfileOnly' = LockfileOnly
      /\ Deps(i)' = Deps(i)
  BY <1>1, <1>2, <1>5, ProcessRuns
  DEF Running, Kept, Fields, Tool, Cur, Here, LockfileOnly, Deps, OwnStore
<1>7. e' = e
  BY <1>2, <1>6 DEF EntryFor, Resolved, Preferred
<1>8. /\ \A j \in Importers \ {i} : links'[j] = links[j]
      /\ \A j \in Importers : store[j] \subseteq store'[j]
      /\ DOMAIN links' = Importers /\ DOMAIN store' = Importers
      /\ \A j \in Importers : IsMap(links'[j], Places(j))
      /\ DOMAIN links[i] \subseteq DOMAIN links'[i]
      /\ \A j \in Importers : \A n \in DOMAIN links'[j] :
           Fresh(j, n) => links'[j][n][2] = RootLink \/ Alive(n, links'[j][n], store')
      /\ ~LockfileOnly =>
           /\ PackagesOf(e) \subseteq store'[Here(i)]
           /\ \A n \in DOMAIN e : n \in DOMAIN links'[i]
                                  /\ links'[i][n] = Leads(i, Here(i), e[n].to)
  <2> HIDE DEF e
  <2>1. CASE LockfileOnly
    <3>1. UNCHANGED <<links, store>>
      BY <2>1 DEF Resolve
    <3> QED BY <1>1, <2>1, <3>1 DEF IInv, TypeOK, LinksAlive
  <2>2. CASE ~LockfileOnly
    <3>1. /\ links' = [links EXCEPT ![i] = Over(LinksOf(i, Here(i), e), @)]
          /\ store' = [store EXCEPT ![Here(i)] = @ \cup PackagesOf(e)]
      BY <2>2 DEF Resolve, e
    <3>2. Brings(i, e)
      BY <1>1, <1>4, <3>1, Brought DEF IInv
    <3> QED BY <2>2, <3>2 DEF Brings
  <2> QED BY <2>1, <2>2
<1> HIDE DEF e
<1>9. TypeOK'
  BY <1>1, <1>2, <1>5, <1>8 DEF TypeOK
<1>10. Held' /\ Turn'
  BY <1>1, <1>2, <1>5, <1>6 DEF IInv, Held, Turn, Busy
<1>11. Resolving'
  <2>1. proc'.entry = e'
    BY <1>5, <1>7
  <2> QED BY <1>5, <1>6, <1>8, <2>1 DEF Resolving, e
<1>12. Linking'
  BY <1>5 DEF Linking
<1>13. Drafts' /\ Ranges'
  BY <1>1, <1>2, <1>5, <1>6 DEF IInv, Drafts, Ranges, Ranged, Running, Cur
<1>14. Settling'
  BY <1>1, <1>2, <1>5 DEF IInv, Settling, Wished
<1>15. Nets'
  <2>1. Locals'
    BY <1>2 DEF IInv, Locals
  <2>2. LinksAgree'
    BY <1>1, <1>2, <1>5, <1>6, <1>8 DEF IInv, LinksAgree, Fresh
  <2>3. LinksAlive'
    <3>1. \A j, n : Fresh(j, n)' <=> Fresh(j, n)
      BY <1>2 DEF Fresh
    <3>2. \A j \in Importers : \A n \in DOMAIN links'[j] :
            Alive(n, links[j][n], store)' <=> Alive(n, links'[j][n], store')
      BY DEF Alive
    <3> QED BY <1>8, <3>1, <3>2 DEF LinksAlive
  <2>4. Present'
    <3> SUFFICES ASSUME lock # NoLockfile, NEW j \in Importers, NEW n \in DOMAIN lock.entries[j],
                        Fresh(j, n), modules[j] # None
                 PROVE  /\ n \in DOMAIN links'[j]
                        /\ ~IsLocal(lock.entries[j][n].to) =>
                             <<n, lock.entries[j][n].to>> \in store'[modules[j]]
      BY <1>2 DEF Present, Fresh
    <3>1. modules[j] \in Importers
      BY <1>1, StoreFacts
    <3> QED BY <1>8, <3>1 DEF IInv, Present
  <2> QED BY <2>1, <2>2, <2>3, <2>4 DEF Nets
<1>16. Warmth'
  BY <1>2, <1>6 DEF IInv, Warmth, Ready, Running
<1> QED BY <1>9, <1>10, <1>11, <1>12, <1>13, <1>14, <1>15, <1>16 DEF IInv, Nets
-----------------------------------------------------------------------------
(* A dependency that is linked as its entry says.                          *)
LEMMA Convergent ==
  ASSUME NEW l, l # NoLockfile, IsLockfile(l), NEW linked, NEW packages,
         NEW i \in Importers, NEW n \in DOMAIN l.entries[i], <<i, n>> \notin Diverging(l, linked),
         n \in DOMAIN linked[i] =>
           linked[i][n][2] = RootLink \/ Alive(n, linked[i][n], packages)
  PROVE  LET to == l.entries[i][n].to IN
         /\ n \in DOMAIN linked[i] /\ linked[i][n][2] = to
         /\ ~IsLocal(to) => <<n, to>> \in packages[modules[i]]
<1> DEFINE to == l.entries[i][n].to
<1>1. n \in Names
  BY MapFacts DEF IsLockfile, IsEntry
<1>2. ~Diverges(l, linked, i, n)
  <2>1. <<i, n>> \in Importers \X Names /\ <<i, n>>[1] = i /\ <<i, n>>[2] = n
    BY <1>1
  <2> QED BY <2>1 DEF Diverging
<1>3. n \in DOMAIN linked[i] /\ linked[i][n] = Leads(i, modules[i], to)
  BY <1>2 DEF Diverges
<1>4. linked[i][n][2] = to
  BY <1>3 DEF Leads
<1>5. ASSUME ~IsLocal(to) PROVE <<n, to>> \in packages[modules[i]]
  <2>1. linked[i][n][1] = modules[i] /\ to # RootLink
    BY <1>3, <1>5 DEF Leads, IsLocal, RootLink
  <2> QED BY <1>3, <1>4, <1>5, <2>1 DEF Alive
<1> QED BY <1>3, <1>4, <1>5

(* After the lockfile is saved, links and packages agree with the new      *)
(* entry, or are stale.                                                    *)
LEMMA SaveNets ==
  ASSUME IInv, Running, NEW i \in Importers, Save(i), proc'.pc # "save"
  PROVE  Nets'
<1>1. TypeOK /\ IsProcess(proc) /\ proc.pc = "save" /\ i = Cur /\ IsEntry(proc.entry)
  BY ProcessIs DEF IInv, Save, At, Cur, IsProcess
<1>2. UNCHANGED <<overrides, modules, links, store>> /\ doubtful' = doubtful \ ({i} \X Names)
      /\ lock' = Merged(proc.held, i, proc.entry)
  BY DEF Save
<1>3. /\ lock' # NoLockfile /\ IsLockfile(lock') /\ lock'.entries[i] = proc.entry
      /\ \A j \in Importers \ {i} :
           lock'.entries[j] = IF proc.held = NoLockfile THEN NoEntry ELSE proc.held.entries[j]
  BY <1>1, <1>2, MergedFacts DEF IsProcess
<1>4. IF LockfileOnly THEN proc.held = NoLockfile ELSE proc.held = lock
  BY <1>1 DEF IInv, Held, LockfileOnly
<1>5. /\ proc.entry = EntryFor(i, Deps(i), Tool)
      /\ ~LockfileOnly =>
           /\ \A n \in DOMAIN proc.entry :
                /\ n \in DOMAIN links[i]
                /\ links[i][n] = Leads(i, Here(i), proc.entry[n].to)
           /\ PackagesOf(proc.entry) \subseteq store[Here(i)]
      /\ ~LockfileOnly => modules[i] \in {None, Here(i)}
  BY <1>1 DEF IInv, Resolving, Turn, Busy
<1>6. IsDeps(Deps(i)) /\ Ranged(Deps(i))
  BY <1>1 DEF Deps, IInv, Ranges, TypeOK, IsProcess
<1>7. \A n \in DOMAIN NoEntry : FALSE
  BY NoMap
<1>8. Locals'
  <2> SUFFICES ASSUME NEW j \in Importers, NEW n \in DOMAIN lock'.entries[j],
                      <<j, n>> \notin doubtful'
               PROVE  IsLocal(lock'.entries[j][n].to) <=>
                        IsLocal(lock'.entries[j][n].spec) \/ n \in overrides
    BY <1>2, <1>3 DEF Locals
  <2>1. CASE j = i
    BY <1>1, <1>3, <1>5, <1>6, <2>1, EntryFacts
  <2>2. CASE j # i
    <3>1. <<j, n>> \notin doubtful
      BY <1>2, <2>2
    <3>2. proc.held # NoLockfile /\ lock'.entries[j] = proc.held.entries[j]
      BY <1>3, <1>7, <2>2
    <3> QED BY <1>4, <3>1, <3>2 DEF IInv, Locals
  <2> QED BY <2>1, <2>2
<1>9. CASE LockfileOnly
  <2>1. stale' = stale \cup Diverging(lock', links)
    BY <1>9 DEF Save
  <2>2. LinksAlive'
    BY <1>2, <2>1 DEF IInv, LinksAlive, Fresh, Alive
  <2>3. ASSUME NEW j \in Importers, NEW n \in DOMAIN lock'.entries[j], Fresh(j, n)'
        PROVE  LET to == lock'.entries[j][n].to IN
               /\ n \in DOMAIN links[j] /\ links[j][n][2] = to
               /\ ~IsLocal(to) => <<n, to>> \in store[modules[j]]
    <3>1. <<j, n>> \notin Diverging(lock', links) /\ Fresh(j, n)
      BY <2>1, <2>3 DEF Fresh
    <3>2. n \in DOMAIN links[j] => links[j][n][2] = RootLink \/ Alive(n, links[j][n], store)
      BY <3>1 DEF IInv, LinksAlive
    <3> QED BY <1>3, <3>1, <3>2, Convergent
  <2>4. LinksAgree' /\ Present'
    BY <1>2, <2>3 DEF LinksAgree, Present
  <2> QED BY <1>8, <2>2, <2>4 DEF Nets
<1>10. CASE ~LockfileOnly
  <2>1. stale' = stale \ ({i} \X DOMAIN proc.entry)
    BY <1>10 DEF Save
  <2>2. \A j \in Importers : \A n :
          Fresh(j, n)' => Fresh(j, n) \/ (j = i /\ n \in DOMAIN proc.entry)
    BY <2>1 DEF Fresh
  <2>3. \A n \in DOMAIN proc.entry : proc.entry[n].to \in Refs
    BY <1>1, MapFacts DEF IsEntry
  <2>4. LinksAlive'
    <3> SUFFICES ASSUME NEW j \in Importers, NEW n \in DOMAIN links[j], Fresh(j, n)'
                 PROVE  links[j][n][2] = RootLink \/ Alive(n, links[j][n], store)
      BY <1>2 DEF LinksAlive, Alive
    <3>1. CASE Fresh(j, n)
      BY <3>1 DEF IInv, LinksAlive
    <3>2. CASE j = i /\ n \in DOMAIN proc.entry
      <4> DEFINE to == proc.entry[n].to
      <4>1. IsLocal(to) \/ <<n, to>> \in store[Here(i)]
        BY <1>5, <1>10, <3>2, PackagesFacts
      <4>2. links[j][n] = Leads(i, Here(i), to) /\ to \in Refs
        BY <1>5, <1>10, <2>3, <3>2
      <4> HIDE DEF to
      <4> QED BY <4>1, <4>2, LeadsFacts
    <3> QED BY <2>2, <3>1, <3>2
  <2>5. \A j \in Importers \ {i} :
          \A n \in DOMAIN lock'.entries[j] :
            lock # NoLockfile /\ n \in DOMAIN lock.entries[j]
            /\ lock'.entries[j] = lock.entries[j]
    BY <1>3, <1>4, <1>7, <1>10
  <2>6. LinksAgree'
    <3> SUFFICES ASSUME NEW j \in Importers, NEW n \in DOMAIN lock'.entries[j],
                        Fresh(j, n)', n \in DOMAIN links[j]
                 PROVE  links[j][n][2] = lock'.entries[j][n].to
      BY <1>2 DEF LinksAgree
    <3>1. CASE j = i
      BY <1>3, <1>5, <1>10, <2>3, <3>1 DEF Leads
    <3>2. CASE j # i
      BY <1>1, <2>2, <2>5, <3>2 DEF IInv, LinksAgree
    <3> QED BY <3>1, <3>2
  <2>7. Present'
    <3> SUFFICES ASSUME NEW j \in Importers, NEW n \in DOMAIN lock'.entries[j],
                        Fresh(j, n)', modules[j] # None
                 PROVE  /\ n \in DOMAIN links[j]
                        /\ ~IsLocal(lock'.entries[j][n].to) =>
                             <<n, lock'.entries[j][n].to>> \in store[modules[j]]
      BY <1>2 DEF Present
    <3>1. CASE j = i
      <4>1. modules[i] = Here(i)
        BY <1>5, <1>10, <3>1
      <4>2. IsLocal(proc.entry[n].to) \/ <<n, proc.entry[n].to>> \in PackagesOf(proc.entry)
        BY <1>3, <3>1, PackagesFacts
      <4> QED BY <1>3, <1>5, <1>10, <3>1, <4>1, <4>2
    <3>2. CASE j # i
      BY <2>2, <2>5, <3>2 DEF IInv, Present
    <3> QED BY <3>1, <3>2
  <2> QED BY <1>8, <2>4, <2>6, <2>7 DEF Nets
<1> QED BY <1>9, <1>10

(* The saving of the lockfile, from the one that was held.                 *)
LEMMA SaveStep ==
  ASSUME IInv, Running, NEW i \in Importers, Save(i)
  PROVE  IInv'
<1>1. TypeOK /\ IsProcess(proc) /\ proc.pc = "save" /\ i = Cur /\ IsEntry(proc.entry)
      /\ proc.work # {}
  BY ProcessIs DEF IInv, Save, At, Cur, IsProcess
<1>2. UNCHANGED <<published, manifest, overrides, current, modules, links, store, settled, warm>>
      /\ lock' = Merged(proc.held, i, proc.entry)
  BY DEF Save
<1>3. /\ lock' # NoLockfile /\ IsLockfile(lock') /\ lock'.overrides = overrides
      /\ lock'.entries[i] = proc.entry
      /\ \A j \in Importers \ {i} :
           lock'.entries[j] = IF proc.held = NoLockfile THEN NoEntry ELSE proc.held.entries[j]
  BY <1>1, <1>2, MergedFacts DEF IsProcess
<1>4. Satisfied(proc.entry, Deps(i))
  <2>1. IsDeps(Deps(i)) /\ Ranged(Deps(i))
    BY <1>1 DEF Deps, IInv, Ranges, TypeOK, IsProcess
  <2>2. proc.entry = EntryFor(i, Deps(i), Tool)
    BY <1>1 DEF IInv, Resolving
  <2> QED BY <1>1, <2>1, <2>2, EntryFacts
<1>5. /\ i \notin settled /\ (~LockfileOnly => modules[i] \in {None, Here(i)})
      /\ ~LockfileOnly => proc.held = lock
      /\ LockfileOnly => settled = {} /\ proc.held = NoLockfile
  BY <1>1 DEF IInv, Turn, Busy, Held, LockfileOnly
<1>6. /\ Running' /\ IsProcess(proc') /\ proc'.cmd = proc.cmd /\ Tool' = Tool
      /\ proc'.held = proc.held /\ proc'.draft = proc.draft
      /\ LockfileOnly => proc'.pc = "install" /\ proc'.work = proc.work \ {i}
      /\ ~LockfileOnly => /\ proc'.pc = "relink" /\ proc'.work = proc.work
                          /\ proc'.entry = proc.entry
  <2>1. CASE LockfileOnly
    <3>1. proc' = Done(i)
      BY <2>1 DEF Save
    <3> QED BY <1>1, <2>1, <3>1, DoneFacts, ProcessRuns DEF Kept, Fields, Tool, Running
  <2>2. CASE ~LockfileOnly
    <3>1. proc' = [proc EXCEPT !.pc = "relink"]
      BY <2>2 DEF Save
    <3>2. IsProcess(proc') /\ proc'.pc = "relink" /\ Kept(proc', Fields \ {"pc"})
      BY <1>1, <3>1, StageFacts DEF Busy
    <3> QED BY <2>2, <3>2, ProcessRuns DEF Kept, Fields, Tool, Running
  <2> QED BY <2>1, <2>2
<1>7. TypeOK'
  BY <1>1, <1>2, <1>3, <1>6 DEF TypeOK
<1>8. Held'
  BY <1>1, <1>2, <1>5, <1>6 DEF IInv, Held, LockfileOnly, InstallLike
<1>9. proc'.work = proc.work => /\ Cur' = i /\ Deps(i)' = Deps(i) /\ Here(i)' = Here(i)
  BY <1>1, <1>2, <1>6 DEF Cur, Deps, Here, OwnStore
<1>10. Turn' /\ Resolving' /\ Linking'
  <2>1. CASE LockfileOnly
    BY <1>6, <2>1, NotBusyNext DEF Busy
  <2>2. CASE ~LockfileOnly
    <3>1. Turn' /\ Resolving'
      BY <1>1, <1>2, <1>5, <1>6, <1>9, <2>2 DEF Turn, Resolving, LockfileOnly
    <3>2. Linking'
      BY <1>2, <1>3, <1>4, <1>6, <1>9, <2>2 DEF Linking, LockfileOnly
    <3> QED BY <3>1, <3>2
  <2> QED BY <2>1, <2>2
<1>11. Drafts' /\ Ranges'
  <2>1. Ranges'
    BY <1>2, <1>6 DEF IInv, Ranges, Ranged, Running
  <2>2. LockfileOnly => ~OwnStore(Tool)
    BY DEF LockfileOnly, OwnStore
  <2>3. Drafts'
    BY <1>1, <1>2, <1>6, <1>9, <2>2 DEF IInv, Drafts, OwnStore
  <2> QED BY <2>1, <2>3
<1>12. Settling'
  <2> SUFFICES ASSUME NEW j \in settled
               PROVE  /\ modules[j] # None
                      /\ DOMAIN lock'.entries[j] = DOMAIN Wished(j)'
                      /\ \A n \in DOMAIN Wished(j)' :
                           lock'.entries[j][n].spec = Wished(j)'[n]
    BY <1>2, <1>3 DEF Settling
  <2>1. j # i /\ j \in Importers /\ ~LockfileOnly
    BY <1>1, <1>5 DEF TypeOK
  <2>2. Wished(j)' = manifest[j] /\ Wished(j) = manifest[j]
    BY <1>1, <1>2, <1>6, <2>1 DEF Wished
  <2>3. lock # NoLockfile /\ lock'.entries[j] = lock.entries[j]
    BY <1>3, <1>5, <2>1 DEF IInv, Settling
  <2> QED BY <2>2, <2>3 DEF IInv, Settling
<1>13. Nets'
  BY <1>6, SaveNets
<1>14. Warmth'
  <2>1. ~warm'
    BY <1>2 DEF IInv, Warmth
  <2>2. ASSUME Tool = "install", TargetsOf(proc.cmd) = Importers, NEW j \in Importers \ proc'.work
        PROVE  Ready(j)'
    <3>1. ~LockfileOnly /\ proc.held = lock /\ Deps(i) = manifest[i]
      BY <1>5, <2>2 DEF LockfileOnly, Deps, OwnStore
    <3>2. Ready(j)
      BY <1>6, <2>2, <3>1 DEF IInv, Warmth
    <3>3. lock' # NoLockfile /\ lock'.overrides = overrides'
      BY <1>2, <1>3
    <3>4. Satisfied(lock'.entries[j], manifest'[j])
      BY <1>2, <1>3, <1>4, <3>1, <3>2 DEF Ready
    <3> QED BY <1>2, <3>2, <3>3, <3>4 DEF Ready, Satisfied
  <2> QED BY <1>6, <2>1, <2>2 DEF Warmth
<1> QED BY <1>7, <1>8, <1>10, <1>11, <1>12, <1>13, <1>14 DEF IInv, Nets
-----------------------------------------------------------------------------
(* What a frozen install of a project makes of its links, of the virtual   *)
(* store, and of what other projects rely on.                              *)
Relinks(i, s, entry) ==
  /\ DOMAIN links' = Importers /\ DOMAIN store' = Importers
  /\ \A j \in Importers \ {i} : links'[j] = links[j]
  /\ \A j \in Importers \ {s} : store'[j] = store[j]
  /\ PackagesOf(entry) \subseteq store'[s]
  /\ DOMAIN links'[i] = DOMAIN links[i] \cup DOMAIN entry
  /\ \A n \in DOMAIN links[i] \ DOMAIN entry : links'[i][n] = links[i][n]
  /\ \A n \in DOMAIN entry :
       \/ links'[i][n] = Leads(i, s, entry[n].to)
       \/ /\ n \in DOMAIN links[i] /\ links'[i][n] = links[i][n]
          /\ Alive(n, links[i][n], store')
  /\ \A n \in DOMAIN entry : Fresh(i, n)' => links'[i][n][2] = entry[n].to
  /\ \A j \in Importers, n \in Names : ~(j = i /\ n \in DOMAIN entry) /\ Fresh(j, n)' =>
       /\ Fresh(j, n)
       /\ n \in DOMAIN links[j] /\ s \in {links[j][n][1], modules[j]}
          /\ <<n, links[j][n][2]>> \in store[s] => <<n, links[j][n][2]>> \in store'[s]

(* What Link does is what Relinks says.                                    *)
LEMMA LinkFacts ==
  ASSUME TypeOK, NEW i \in Importers, Link(i)
  PROVE  Relinks(i, Here(i), proc.entry)
<1> DEFINE s == Here(i)
           entry == proc.entry
           needed == PackagesOf(entry)
           prunes == /\ proc.pc = "relink"
                     /\ Forced \/ ~(needed \subseteq store[s])
                     /\ Forced \/ modules[i] = None
           kept == IF prunes THEN store[s] \cap needed ELSE store[s]
           after == [store EXCEPT ![s] = kept \cup needed]
           Stays(n) == /\ n \in DOMAIN links[i] /\ ~IsLocal(entry[n].to)
                       /\ Alive(n, links[i][n], after)
           Evicted(j, n) == /\ n \in DOMAIN links[j] /\ s \in {links[j][n][1], modules[j]}
                            /\ <<n, links[j][n][2]>> \in store[s] \ (kept \cup needed)
           evicted == {d \in Importers \X Names : Evicted(d[1], d[2])}
           old == {n \in DOMAIN entry : Stays(n) /\ links[i][n][2] # entry[n].to}
           made == [n \in {m \in DOMAIN entry : ~Stays(m)} |-> Leads(i, s, entry[n].to)]
<1>1. /\ store' = after
      /\ links' = [links EXCEPT ![i] = Over(made, @)]
      /\ stale' = ((stale \cup evicted) \ ({i} \X DOMAIN entry)) \cup ({i} \X old)
  BY DEF Link
<1> HIDE DEF prunes
<1>2. /\ DOMAIN links' = Importers /\ DOMAIN store' = Importers
      /\ \A j \in Importers \ {i} : links'[j] = links[j]
      /\ \A j \in Importers \ {s} : store'[j] = store[j]
      /\ links'[i] = Over(made, links[i])
      /\ store'[s] = kept \cup needed
  BY <1>1, StoreFacts DEF TypeOK
<1>3. /\ DOMAIN links'[i] = DOMAIN links[i] \cup DOMAIN entry
      /\ \A n \in DOMAIN links[i] \ DOMAIN entry : links'[i][n] = links[i][n]
      /\ \A n \in DOMAIN entry : links'[i][n] = IF Stays(n) THEN links[i][n]
                                                ELSE Leads(i, s, entry[n].to)
  <2> HIDE DEF after
  <2>1. \A n \in DOMAIN entry : Stays(n) => n \in DOMAIN links[i]
    OBVIOUS
  <2> HIDE DEF Stays
  <2> QED BY <1>2, <2>1 DEF Over
<1>4. ASSUME NEW n \in DOMAIN entry, Fresh(i, n)'
      PROVE  links'[i][n][2] = entry[n].to
  <2>1. n \notin old
    BY <1>1, <1>4 DEF Fresh
  <2>2. Stays(n) => links[i][n][2] = entry[n].to
    BY <2>1
  <2>3. Leads(i, s, entry[n].to)[2] = entry[n].to
    BY DEF Leads
  <2> HIDE DEF Stays
  <2> QED BY <1>3, <2>2, <2>3
<1>5. ASSUME NEW j \in Importers, NEW n \in Names, ~(j = i /\ n \in DOMAIN entry), Fresh(j, n)'
      PROVE  /\ Fresh(j, n)
             /\ n \in DOMAIN links[j] /\ s \in {links[j][n][1], modules[j]}
                /\ <<n, links[j][n][2]>> \in store[s] => <<n, links[j][n][2]>> \in store'[s]
  <2>1. <<j, n>> \notin stale \cup evicted
    <3> HIDE DEF evicted, old
    <3> QED BY <1>1, <1>5 DEF Fresh
  <2>2. ~Evicted(j, n)
    <3>1. <<j, n>> \in Importers \X Names /\ <<j, n>>[1] = j /\ <<j, n>>[2] = n
      OBVIOUS
    <3> HIDE DEF Evicted
    <3> QED BY <2>1, <3>1
  <2> QED BY <1>2, <2>1, <2>2 DEF Fresh
<1>6. \A n \in DOMAIN entry : Stays(n) => n \in DOMAIN links[i] /\ Alive(n, links[i][n], store')
  BY <1>1
<1> HIDE DEF Stays, kept
<1> QED BY <1>2, <1>3, <1>4, <1>5, <1>6 DEF Relinks

(* After a frozen install, links and packages agree, but for what it has   *)
(* evicted.                                                                *)
LEMMA LinkNets ==
  ASSUME IInv, Running, NEW i \in Importers, Link(i), proc'.pc # "save"
  PROVE  Nets'
<1> DEFINE s == Here(i)
           entry == proc.entry
<1>1. TypeOK /\ IsProcess(proc) /\ proc.pc \in {"link", "relink"} /\ i = Cur /\ IsEntry(entry)
  BY ProcessIs DEF IInv, Link, At, Cur, IsProcess
<1>2. UNCHANGED <<overrides, lock, modules, doubtful>>
  BY DEF Link
<1>3. lock # NoLockfile /\ IsLockfile(lock) /\ lock.entries[i] = entry
      /\ modules[i] \in {None, s}
  BY <1>1 DEF IInv, Linking, Turn, Busy, TypeOK
<1>4. Relinks(i, s, entry)
  BY <1>1, LinkFacts
<1> HIDE DEF s, entry
<1>5. s \in Importers /\ \A n \in DOMAIN entry : n \in Names /\ entry[n].to \in Refs
  BY <1>1, StoreFacts, MapFacts DEF IsEntry, s
<1>6. \A n \in DOMAIN entry : IsLocal(entry[n].to) \/ <<n, entry[n].to>> \in store'[s]
  BY <1>4, PackagesFacts DEF Relinks
<1>7. Locals'
  BY <1>2 DEF IInv, Locals
<1>8. LinksAgree'
  <2> SUFFICES ASSUME NEW j \in Importers, NEW n \in DOMAIN lock.entries[j], Fresh(j, n)',
                      n \in DOMAIN links'[j]
               PROVE  links'[j][n][2] = lock.entries[j][n].to
    BY <1>2 DEF LinksAgree
  <2>1. n \in Names
    BY <1>3, MapFacts DEF IsLockfile, IsEntry
  <2>2. CASE j = i
    BY <1>3, <1>4, <2>2 DEF Relinks
  <2>3. CASE j # i
    <3>1. Fresh(j, n) /\ links'[j] = links[j]
      BY <1>4, <2>1, <2>3 DEF Relinks
    <3> QED BY <1>1, <1>3, <2>3, <3>1 DEF IInv, LinksAgree
  <2> QED BY <2>2, <2>3
<1>9. LinksAlive'
  <2> SUFFICES ASSUME NEW j \in Importers, NEW n \in DOMAIN links'[j], Fresh(j, n)'
               PROVE  links'[j][n][2] = RootLink \/ Alive(n, links'[j][n], store')
    BY DEF LinksAlive, Alive
  <2>1. CASE j = i /\ n \in DOMAIN entry
    <3>1. CASE links'[i][n] = Leads(i, s, entry[n].to)
      <4> DEFINE to == entry[n].to
                 l == Leads(i, s, to)
      <4>1. to \in Refs /\ (IsLocal(to) \/ <<n, to>> \in store'[s])
        BY <1>5, <1>6, <2>1
      <4>2. l[2] = RootLink \/ Alive(n, l, store')
        <5> HIDE DEF to
        <5> QED BY <4>1, LeadsFacts
      <4> QED BY <2>1, <3>1, <4>2
    <3>2. CASE Alive(n, links'[i][n], store')
      BY <2>1, <3>2
    <3> QED BY <1>4, <2>1, <3>1, <3>2 DEF Relinks
  <2>2. CASE ~(j = i /\ n \in DOMAIN entry)
    <3>1. n \in DOMAIN links[j] /\ links'[j][n] = links[j][n]
      BY <1>4, <2>2 DEF Relinks
    <3>2. n \in Names /\ links[j][n][1] \in Importers
      BY <1>1, <3>1, StoreFacts
    <3>3. Fresh(j, n) /\ (s = links[j][n][1] /\ <<n, links[j][n][2]>> \in store[s] =>
                            <<n, links[j][n][2]>> \in store'[s])
      BY <1>4, <2>2, <3>1, <3>2 DEF Relinks
    <3>4. links[j][n][1] # s => store'[links[j][n][1]] = store[links[j][n][1]]
      BY <1>4, <3>2 DEF Relinks
    <3>5. links[j][n][2] = RootLink \/ Alive(n, links[j][n], store)
      BY <3>1, <3>3 DEF IInv, LinksAlive
    <3> QED BY <3>1, <3>3, <3>4, <3>5 DEF Alive
  <2> QED BY <2>1, <2>2
<1>10. Present'
  <2> SUFFICES ASSUME NEW j \in Importers, NEW n \in DOMAIN lock.entries[j], Fresh(j, n)',
                      modules[j] # None
               PROVE  /\ n \in DOMAIN links'[j]
                      /\ ~IsLocal(lock.entries[j][n].to) =>
                           <<n, lock.entries[j][n].to>> \in store'[modules[j]]
    BY <1>2 DEF Present
  <2>1. n \in Names
    BY <1>3, MapFacts DEF IsLockfile, IsEntry
  <2>2. CASE j = i
    BY <1>3, <1>4, <1>6, <2>2 DEF Relinks
  <2>3. CASE j # i
    <3>1. Fresh(j, n) /\ links'[j] = links[j]
          /\ (n \in DOMAIN links[j] /\ s = modules[j] /\ <<n, links[j][n][2]>> \in store[s] =>
                <<n, links[j][n][2]>> \in store'[s])
      BY <1>4, <2>1, <2>3 DEF Relinks
    <3>2. n \in DOMAIN links[j] /\ (~IsLocal(lock.entries[j][n].to) =>
                                      <<n, lock.entries[j][n].to>> \in store[modules[j]])
      BY <1>3, <3>1 DEF IInv, Present
    <3>3. links[j][n][2] = lock.entries[j][n].to
      BY <1>1, <1>3, <3>1, <3>2 DEF IInv, LinksAgree
    <3>4. modules[j] # s => store'[modules[j]] = store[modules[j]]
      BY <1>1, <1>4, StoreFacts DEF Relinks
    <3> QED BY <3>1, <3>2, <3>3, <3>4
  <2> QED BY <2>2, <2>3
<1> QED BY <1>7, <1>8, <1>9, <1>10 DEF Nets

(* The frozen install of a project.                                        *)
LEMMA LinkStep ==
  ASSUME IInv, Running, NEW i \in Importers, Link(i)
  PROVE  IInv'
<1>1. TypeOK /\ IsProcess(proc) /\ proc.pc \in {"link", "relink"} /\ i = Cur
      /\ IsEntry(proc.entry) /\ proc.work # {}
  BY ProcessIs DEF IInv, Link, At, Cur, IsProcess
<1>2. UNCHANGED <<published, manifest, overrides, lock, current, modules, settled, warm>>
      /\ proc' = [proc EXCEPT !.pc = "finish"]
  BY DEF Link
<1>3. /\ ~LockfileOnly
      /\ lock # NoLockfile /\ lock.entries[i] = proc.entry /\ lock.overrides = overrides
      /\ Satisfied(proc.entry, Deps(i))
      /\ i \notin settled /\ modules[i] \in {None, Here(i)}
  BY <1>1 DEF IInv, Linking, Turn, Busy
<1>4. IsProcess(proc') /\ proc'.pc = "finish" /\ Kept(proc', Fields \ {"pc"})
  BY <1>1, <1>2, StageFacts DEF Busy
<1>5. /\ Running' /\ proc'.cmd = proc.cmd
      /\ proc'.held = proc.held /\ proc'.draft = proc.draft /\ proc'.work = proc.work
      /\ Tool' = Tool /\ Cur' = i /\ Here(i)' = Here(i) /\ LockfileOnly' = LockfileOnly
      /\ Deps(i)' = Deps(i) /\ proc'.entry = proc.entry
  BY <1>1, <1>2, <1>4, ProcessRuns
  DEF Running, Kept, Fields, Tool, Cur, Here, LockfileOnly, Deps, OwnStore
<1>6. Relinks(i, Here(i), proc.entry)
  BY <1>1, LinkFacts
<1>7. Nets'
  BY <1>4, LinkNets
<1>8. TypeOK'
  <2>1. \A j \in Importers : IsMap(links'[j], Places(j))
    <3>1. \A j \in Importers : IsMap(links[j], Places(j))
      BY <1>1 DEF TypeOK
    <3>2. ASSUME NEW n \in DOMAIN links'[i]
          PROVE  n \in Names /\ links'[i][n] \in Places(i)
      <4>1. n \in DOMAIN links[i] => n \in Names /\ links[i][n] \in Places(i)
        BY <3>1, MapFacts
      <4>2. n \in DOMAIN proc.entry => n \in Names /\ proc.entry[n].to \in Int
        BY <1>1, MapFacts DEF IsEntry, Refs
      <4>3. n \in DOMAIN proc.entry => Leads(i, Here(i), proc.entry[n].to) \in Places(i)
        BY <1>1, <4>2, StoreFacts DEF Leads, Places
      <4> QED BY <1>6, <3>2, <4>1, <4>2, <4>3 DEF Relinks
    <3>3. links'[i] = [n \in DOMAIN links'[i] |-> links'[i][n]]
      BY <1>1 DEF Link, TypeOK, Over
    <3>4. IsMap(links'[i], Places(i))
      BY <3>2, <3>3 DEF IsMap
    <3> QED BY <1>6, <3>1, <3>4 DEF Relinks
  <2> QED BY <1>1, <1>2, <1>4, <1>6, <2>1 DEF TypeOK, Relinks
<1>9. Held'
  BY <1>1, <1>2, <1>3, <1>4, <1>5 DEF IInv, Held, LockfileOnly, InstallLike
<1>10. Turn' /\ Resolving'
  BY <1>1, <1>2, <1>3, <1>4, <1>5 DEF Turn, Resolving
<1>11. Linking'
  <2>1. ASSUME NEW n \in DOMAIN proc.entry, Fresh(i, n)'
        PROVE  /\ n \in DOMAIN links'[i]
               /\ IsLocal(proc.entry[n].to) \/ <<n, proc.entry[n].to>> \in store'[Here(i)]
    BY <1>6, PackagesFacts DEF Relinks
  <2> QED BY <1>2, <1>3, <1>4, <1>5, <2>1 DEF Linking, Fresh
<1>12. Drafts' /\ Ranges'
  BY <1>1, <1>2, <1>4, <1>5 DEF IInv, Drafts, Ranges, Ranged, Running, Cur
<1>13. Settling'
  BY <1>1, <1>2, <1>4 DEF IInv, Settling, Wished
<1>14. Warmth'
  BY <1>2, <1>5 DEF IInv, Warmth, Ready, Running, Satisfied
<1> QED BY <1>7, <1>8, <1>9, <1>10, <1>11, <1>12, <1>13, <1>14 DEF IInv, Nets
-----------------------------------------------------------------------------
(* The end of an install: .modules.yaml is written, and the lockfile read  *)
(* back.                                                                   *)
LEMMA FinishStep ==
  ASSUME IInv, Running, NEW i \in Importers, Finish(i)
  PROVE  IInv'
<1>1. TypeOK /\ IsProcess(proc) /\ proc.pc = "finish" /\ i = Cur /\ proc.work # {}
  BY ProcessIs DEF IInv, Finish, At, Cur
<1>2. UNCHANGED <<published, manifest, overrides, lock, current, links, store, stale, doubtful,
                  warm>>
      /\ settled' = settled \cup {i}
  BY DEF Finish
<1>3. /\ ~LockfileOnly
      /\ lock # NoLockfile /\ IsLockfile(lock) /\ lock.entries[i] = proc.entry
      /\ lock.overrides = overrides /\ Satisfied(proc.entry, Deps(i))
      /\ \A n \in DOMAIN proc.entry : Fresh(i, n) =>
           /\ n \in DOMAIN links[i]
           /\ IsLocal(proc.entry[n].to) \/ <<n, proc.entry[n].to>> \in store[Here(i)]
  BY <1>1 DEF IInv, Linking, TypeOK, Fresh
<1>4. /\ modules'[i] = Here(i) /\ \A j \in Importers \ {i} : modules'[j] = modules[j]
      /\ DOMAIN modules' = Importers /\ Here(i) \in {i, Root} /\ Here(i) # None
  BY <1>1, StoreFacts DEF Finish, TypeOK
<1>5. /\ IsProcess(proc') /\ proc'.held = lock /\ proc'.cmd = proc.cmd
      /\ proc'.draft = proc.draft /\ Tool' = Tool /\ Running'
      /\ Tool = "add" => proc'.pc = "save manifest" /\ proc'.work = proc.work
      /\ Tool # "add" => proc'.pc = "install" /\ proc'.work = proc.work \ {i}
  <2>1. CASE Tool = "add"
    <3>1. proc' = [proc EXCEPT !.pc = "save manifest", !.held = lock]
      BY <2>1 DEF Finish
    <3>2. /\ IsProcess(proc') /\ proc'.pc = "save manifest" /\ proc'.held = lock
          /\ Kept(proc', Fields \ {"pc", "held"})
      <4>1. IsProcess(proc) /\ (lock # NoLockfile => IsLockfile(lock))
            /\ "save manifest" \in {"edit", "install"} \cup Busy
        BY <1>1, <1>3 DEF Busy
      <4> HIDE <1>1, <1>3
      <4> QED BY <3>1, <4>1, HoldFacts
    <3> QED BY <2>1, <3>2, ProcessRuns DEF Kept, Fields, Tool, Running
  <2>2. CASE Tool # "add"
    <3>1. proc' = [Done(i) EXCEPT !.held = lock]
      BY <2>2 DEF Finish
    <3>2. /\ IsProcess(proc') /\ proc'.pc = "install" /\ proc'.held = lock
          /\ proc'.work = proc.work \ {i} /\ Kept(proc', Fields \ {"pc", "work", "held"})
      <4>1. IsProcess(proc) /\ (lock # NoLockfile => IsLockfile(lock))
        BY <1>1, <1>3
      <4> HIDE <1>1, <1>3
      <4> QED BY <3>1, <4>1, DoneHeld
    <3> QED BY <2>2, <3>2, ProcessRuns DEF Kept, Fields, Tool, Running
  <2> QED BY <2>1, <2>2
<1>6. Tool = "add" => Deps(i) = proc.draft /\ Cur' = i
  BY <1>1, <1>5 DEF Deps, OwnStore, Cur
<1>7. Tool # "add" => Deps(i) = manifest[i] /\ (OwnStore(Tool) => proc'.work = {})
  BY <1>1, <1>5 DEF Deps, IInv, Drafts
<1>8. TypeOK'
  BY <1>1, <1>2, <1>4, <1>5 DEF TypeOK
<1>9. Held'
  BY <1>2, <1>3, <1>5 DEF Held, LockfileOnly, InstallLike
<1>10. Turn' /\ Resolving' /\ Linking'
  <2>1. CASE Tool = "add"
    <3>1. Turn' /\ Resolving'
      BY <1>1, <1>5, <1>6, <2>1 DEF Turn, Resolving
    <3>2. Linking'
      BY <1>2, <1>3, <1>5, <1>6, <2>1 DEF Linking, Satisfied
    <3> QED BY <3>1, <3>2
  <2>2. CASE Tool # "add"
    BY <1>5, <2>2, NotBusyNext DEF Busy
  <2> QED BY <2>1, <2>2
<1>11. Drafts' /\ Ranges'
  <2>1. Ranges'
    BY <1>1, <1>2, <1>5 DEF IInv, Ranges, Ranged, Running
  <2>2. Drafts'
    <3>1. CASE Tool = "add"
      BY <1>1, <1>2, <1>5, <1>6, <3>1 DEF IInv, Drafts, OwnStore
    <3>2. CASE Tool # "add"
      BY <1>5, <1>7, <3>2 DEF Drafts, OwnStore
    <3> QED BY <3>1, <3>2
  <2> QED BY <2>1, <2>2
<1>12. Settling'
  <2> SUFFICES ASSUME NEW j \in settled'
               PROVE  /\ modules'[j] # None
                      /\ DOMAIN lock.entries[j] = DOMAIN Wished(j)'
                      /\ \A n \in DOMAIN Wished(j)' : lock.entries[j][n].spec = Wished(j)'[n]
    BY <1>2, <1>3 DEF Settling
  <2>1. CASE j = i
    <3>1. Wished(i)' = Deps(i)
      BY <1>2, <1>5, <1>6, <1>7 DEF Wished
    <3> QED BY <1>3, <1>4, <2>1, <3>1 DEF Satisfied
  <2>2. CASE j # i
    <3>1. j \in settled /\ j \in Importers
      BY <1>1, <1>2, <2>2 DEF TypeOK
    <3>2. Wished(j)' = manifest[j] /\ Wished(j) = manifest[j]
      BY <1>1, <1>2, <1>5, <1>6, <2>2 DEF Wished
    <3> QED BY <1>4, <2>2, <3>1, <3>2 DEF IInv, Settling
  <2> QED BY <2>1, <2>2
<1>13. Locals' /\ LinksAgree' /\ LinksAlive' /\ Present'
  <2>1. Locals'
    BY <1>2 DEF IInv, Locals
  <2>2. LinksAgree'
    BY <1>1, <1>2, <1>5 DEF IInv, LinksAgree, Fresh
  <2>3. LinksAlive'
    BY <1>2 DEF IInv, LinksAlive, Fresh, Alive
  <2>4. Present'
    <3> SUFFICES ASSUME NEW j \in Importers, NEW n \in DOMAIN lock.entries[j], Fresh(j, n),
                        modules'[j] # None
                 PROVE  /\ n \in DOMAIN links[j]
                        /\ ~IsLocal(lock.entries[j][n].to) =>
                             <<n, lock.entries[j][n].to>> \in store[modules'[j]]
      BY <1>2 DEF Present, Fresh
    <3>1. CASE j = i
      BY <1>3, <1>4, <3>1
    <3>2. CASE j # i
      BY <1>3, <1>4, <3>2 DEF IInv, Present
    <3> QED BY <3>1, <3>2
  <2> QED BY <2>1, <2>2, <2>3, <2>4
<1>14. Warmth'
  <2>1. ~warm'
    BY <1>2 DEF IInv, Warmth
  <2>2. ASSUME Tool = "install", TargetsOf(proc.cmd) = Importers, NEW j \in Importers \ proc'.work
        PROVE  Ready(j)'
    <3>1. Here(i) = Root /\ proc'.work = proc.work \ {i} /\ Deps(i) = manifest[i]
      BY <1>5, <1>7, <2>2 DEF Here, StoreOf, OwnStore
    <3>2. CASE j = i
      BY <1>2, <1>3, <1>4, <3>1, <3>2 DEF Ready, Satisfied
    <3>3. CASE j # i
      BY <1>2, <1>4, <2>2, <3>1, <3>3 DEF IInv, Warmth, Ready, Satisfied
    <3> QED BY <3>2, <3>3
  <2> QED BY <1>5, <2>1, <2>2 DEF Warmth
<1> QED BY <1>8, <1>9, <1>10, <1>11, <1>12, <1>13, <1>14 DEF IInv

(* add writes package.json, as the lockfile has it already.                *)
LEMMA SaveManifestStep ==
  ASSUME IInv, Running, NEW i \in Importers, SaveManifest(i)
  PROVE  IInv'
<1>1. TypeOK /\ IsProcess(proc) /\ proc.pc = "save manifest" /\ i = Cur /\ proc.work # {}
      /\ Tool = "add" /\ proc.held = lock
  BY ProcessIs DEF IInv, SaveManifest, At, Cur, Linking, Held
<1>2. UNCHANGED <<published, current, settled, warm>> /\ UNCHANGED Netted
      /\ proc' = Done(i)
  BY DEF SaveManifest, history, Netted
<1>3. /\ manifest'[i] = proc.draft /\ \A j \in Importers \ {i} : manifest'[j] = manifest[j]
      /\ DOMAIN manifest' = Importers /\ IsDeps(proc.draft)
  BY <1>1 DEF SaveManifest, TypeOK, IsProcess
<1>4. IsProcess(proc') /\ proc'.pc = "install" /\ Kept(proc', Fields \ {"pc", "work"})
      /\ proc'.work = proc.work \ {i}
  BY <1>1, <1>2, DoneFacts
<1>5. /\ Running' /\ proc'.cmd = proc.cmd /\ proc'.held = proc.held /\ proc'.draft = proc.draft
      /\ Tool' = Tool /\ proc'.pc \notin Busy
  BY <1>4, ProcessRuns DEF Running, Kept, Fields, Tool, Busy
<1>6. proc'.work = {}
  BY <1>1, <1>4 DEF IInv, Drafts, OwnStore, Running
<1>7. TypeOK'
  BY <1>1, <1>2, <1>3, <1>4 DEF TypeOK, Netted
<1>8. Held' /\ Turn' /\ Resolving' /\ Linking' /\ Drafts'
  BY <1>1, <1>2, <1>4, <1>5, <1>6, NotBusyNext DEF Held, Drafts, Netted, InstallLike
<1>9. Ranges'
  BY <1>2, <1>3, <1>5 DEF IInv, Ranges, Ranged, Running
<1>10. Settling'
  <2>1. \A j \in Importers : Wished(j)' = Wished(j)
    BY <1>1, <1>3, <1>5, NotBusyNext DEF Wished
  <2>2. settled' \subseteq Importers /\ UNCHANGED <<settled, lock, modules>>
    BY <1>1, <1>2 DEF TypeOK, Netted
  <2>3. \A j \in settled :
          /\ lock # NoLockfile /\ modules[j] # None
          /\ DOMAIN lock.entries[j] = DOMAIN Wished(j)'
          /\ \A n \in DOMAIN Wished(j)' : lock.entries[j][n].spec = Wished(j)'[n]
    BY <2>1, <2>2 DEF IInv, Settling
  <2> QED BY <2>2, <2>3 DEF Settling
<1>11. Nets'
  BY <1>1, <1>2, <1>4, NetsKept DEF IInv, Nets
<1>12. Warmth'
  BY <1>1, <1>2, <1>5 DEF IInv, Warmth, Running
<1> QED BY <1>7, <1>8, <1>9, <1>10, <1>11, <1>12 DEF IInv, Nets

(* The next project.                                                       *)
LEMMA NextProjectStep ==
  ASSUME IInv, Running, NextProject
  PROVE  IInv'
<1>1. TypeOK /\ IsProcess(proc) /\ proc.pc = "install" /\ proc.work = {}
      /\ Tool \notin InstallLike \cup {"update"} /\ proc.held = lock
  BY ProcessIs DEF IInv, NextProject, Held, InstallLike
<1>2. UNCHANGED <<published, manifest, current, settled, warm>> /\ UNCHANGED Netted
      /\ proc' = [proc EXCEPT !.pc = "edit"]
  BY DEF NextProject, disk, history, Netted
<1>3. IsProcess(proc') /\ proc'.pc = "edit" /\ Kept(proc', Fields \ {"pc"})
  BY <1>1, <1>2, StageFacts
<1>4. /\ Running' /\ proc'.cmd = proc.cmd /\ proc'.held = proc.held /\ proc'.draft = proc.draft
      /\ Tool' = Tool /\ proc'.pc \notin Busy /\ proc.pc \notin Busy /\ proc'.work = {}
  BY <1>1, <1>3, ProcessRuns DEF Running, Kept, Fields, Tool, Busy
<1>5. TypeOK'
  BY <1>1, <1>2, <1>3 DEF TypeOK, Netted
<1>6. Held' /\ Turn' /\ Resolving' /\ Linking' /\ Drafts'
  BY <1>1, <1>2, <1>3, <1>4, NotBusyNext DEF Held, Drafts, Netted, InstallLike
<1>7. Ranges'
  BY <1>2, <1>4 DEF IInv, Ranges, Ranged, Running
<1>8. Settling'
  BY <1>2, <1>4, NotBusy, NotBusyNext DEF IInv, Settling, Netted
<1>9. Nets'
  BY <1>1, <1>2, <1>3, NetsKept DEF IInv, Nets
<1>10. Warmth'
  BY <1>1, <1>2, <1>4 DEF IInv, Warmth, Running, InstallLike
<1> QED BY <1>5, <1>6, <1>7, <1>8, <1>9, <1>10 DEF IInv, Nets

(* The end of a command that edits.                                        *)
LEMMA ConcludeStep ==
  ASSUME IInv, Running, Conclude
  PROVE  IInv'
<1>1. TypeOK /\ IsProcess(proc) /\ proc.pc = "edit" /\ proc.pc \notin Busy
  BY ProcessIs DEF IInv, Conclude, Busy
<1>2. UNCHANGED <<published, manifest, settled, warm>> /\ UNCHANGED Netted /\ proc' = Idle
  BY DEF Conclude, history, Netted
<1>3. DOMAIN current' = Importers
  BY <1>1 DEF Conclude, TypeOK
<1>4. ~Running' /\ proc'.pc = "idle" /\ proc'.pc \notin Busy
  BY <1>2 DEF Running, Idle, Busy
<1>5. TypeOK'
  BY <1>1, <1>2, <1>3 DEF TypeOK, Netted
<1>6. Held' /\ Turn' /\ Resolving' /\ Linking' /\ Drafts'
  BY <1>4, NotBusyNext DEF Held, Drafts
<1>7. Ranges'
  BY <1>2, <1>4 DEF IInv, Ranges, Ranged
<1>8. Settling'
  BY <1>1, <1>2, <1>4, NotBusy, NotBusyNext DEF IInv, Settling, Netted
<1>9. Nets'
  BY <1>1, <1>2, <1>4, NetsKept DEF IInv, Nets
<1>10. Warmth'
  BY <1>2, <1>4 DEF IInv, Warmth
<1> QED BY <1>5, <1>6, <1>7, <1>8, <1>9, <1>10 DEF IInv, Nets

(* The end of an install, which is warm if it was one of all projects.     *)
LEMMA RecordStep ==
  ASSUME IInv, Running, Record
  PROVE  IInv'
<1>1. TypeOK /\ IsProcess(proc) /\ proc.pc = "install" /\ proc.work = {} /\ proc.pc \notin Busy
      /\ (Tool # "import" => proc.held = lock)
  BY ProcessIs DEF IInv, Record, Held, Busy
<1>2. UNCHANGED <<published, manifest, settled>> /\ UNCHANGED Netted
  BY DEF Record, Netted
<1>3. DOMAIN current' = Importers
  BY <1>1 DEF Record, TypeOK
<1>4. /\ proc'.pc \notin Busy /\ proc'.pc # "save" /\ (proc' = Idle \/ IsProcess(proc'))
      /\ Tool # "update" => proc' = Idle
      /\ Tool = "update" => proc'.pc = "edit" /\ Running' /\ Kept(proc', Fields \ {"pc"})
      /\ Running' => Tool = "update"
  <2>1. CASE Tool = "update"
    <3>1. proc' = [proc EXCEPT !.pc = "edit"]
      BY <2>1 DEF Record
    <3>2. IsProcess(proc') /\ proc'.pc = "edit" /\ Kept(proc', Fields \ {"pc"})
      BY <1>1, <3>1, StageFacts
    <3> QED BY <2>1, <3>2, ProcessRuns DEF Running, Busy
  <2>2. CASE Tool # "update"
    <3>1. proc' = Idle
      BY <2>2 DEF Record
    <3> QED BY <2>2, <3>1 DEF Idle, Busy, Running
  <2> QED BY <2>1, <2>2
<1>5. Running' => /\ Tool' = "update" /\ proc'.held = lock /\ proc'.draft = proc.draft
                  /\ proc'.work = {}
  BY <1>1, <1>4 DEF Kept, Fields, Tool
<1>6. TypeOK'
  BY <1>1, <1>2, <1>3, <1>4 DEF TypeOK, Netted
<1>7. Held' /\ Turn' /\ Resolving' /\ Linking'
  BY <1>2, <1>4, <1>5, NotBusyNext DEF Held, Netted, InstallLike
<1>8. Drafts' /\ Ranges'
  <2>1. Drafts'
    BY <1>4, <1>5 DEF Drafts, Idle
  <2>2. Ranges'
    BY <1>2, <1>4, <1>5 DEF IInv, Ranges, Ranged
  <2> QED BY <2>1, <2>2
<1>9. Settling'
  BY <1>1, <1>2, <1>4, NotBusy, NotBusyNext DEF IInv, Settling, Netted
<1>10. Nets'
  BY <1>1, <1>2, <1>4, NetsKept DEF IInv, Nets
<1>11. Warmth'
  <2>1. warm' => Tool = "install" /\ TargetsOf(proc.cmd) = Importers
    BY DEF Record
  <2>2. Running' => ~warm'
    BY <1>4, <2>1
  <2>3. ASSUME warm', NEW i \in Importers
        PROVE  Ready(i)' /\ i \in DOMAIN current'[Root] /\ current'[Root][i] = lock'.entries[i]
    <3>1. Tool = "install" /\ TargetsOf(proc.cmd) = Importers /\ proc.held = lock
      BY <1>1, <2>1, <2>3
    <3>2. \A j \in Importers : Ready(j)
      BY <1>1, <3>1 DEF IInv, Warmth
    <3>3. current' = [current EXCEPT ![Root] = Preserving(proc.held, Importers, Root)]
      BY <3>1 DEF Record, LockfileOnly
    <3>4. current'[Root] = Over(Entries(lock, Importers), current[Root])
      BY <1>1, <3>1, <3>3 DEF Preserving, TypeOK, Importers
    <3>5. i \in DOMAIN current'[Root] /\ current'[Root][i] = lock.entries[i]
      BY <3>4 DEF Over, Entries
    <3> QED BY <1>2, <3>2, <3>5 DEF Ready, Netted, Satisfied
  <2>4. ~(Running' /\ Tool' = "install" /\ TargetsOf(proc'.cmd) = Importers)
    BY <1>5
  <2> QED BY <2>2, <2>3, <2>4 DEF Warmth
<1> QED BY <1>6, <1>7, <1>8, <1>9, <1>10, <1>11 DEF IInv, Nets
-----------------------------------------------------------------------------
(* Between two commands: a publication, an edit by the user, the start of  *)
(* a command.                                                              *)
LEMMA Resting ==
  ASSUME proc = Idle
  PROVE  proc.pc \notin Busy /\ proc.pc # "save" /\ ~Running
BY DEF Idle, Busy, Running

(* A publication: what was resolved stays as it is.                        *)
LEMMA PublishStep ==
  ASSUME IInv, NEW n \in Names, Publish(n)
  PROVE  IInv'
<1>1. proc = Idle /\ ~Running /\ proc.pc \notin Busy /\ TypeOK
  BY Resting DEF Publish, IInv
<1>2. UNCHANGED <<manifest, current, proc, settled, warm>> /\ UNCHANGED Netted
  BY DEF Publish, disk, history, Netted
<1>3. /\ published' \in [Names -> Nat \ {0}]
      /\ \A m \in Names : published[m] <= published'[m] /\ published[m] \in Int
  <2>1. /\ published \in [Names -> Nat \ {0}]
        /\ published' = [published EXCEPT ![n] = published[n] + 1]
    BY <1>1 DEF Publish, TypeOK
  <2>2. \A m \in Names : published'[m] = IF m = n THEN published[n] + 1 ELSE published[m]
    BY <2>1
  <2> QED BY <2>1, <2>2
<1>4. ~Running' /\ proc'.pc \notin Busy
  BY <1>1, <1>2 DEF Running
<1>5. TypeOK'
  BY <1>1, <1>2, <1>3 DEF TypeOK, Netted
<1>6. Ranges'
  <2> SUFFICES ASSUME NEW i \in Importers, NEW m \in DOMAIN manifest[i]
               PROVE  manifest[i][m] <= published'[m]
    BY <1>2, <1>4 DEF Ranges, Ranged
  <2>1. m \in Names /\ manifest[i][m] \in Int
    BY <1>1, MapFacts DEF TypeOK, IsDeps
  <2>2. manifest[i][m] <= published[m]
    BY DEF IInv, Ranges, Ranged
  <2> QED BY <1>3, <2>1, <2>2
<1>7. Held' /\ Turn' /\ Resolving' /\ Linking' /\ Drafts'
  BY <1>1, <1>2, <1>4, NotBusyNext DEF Held, Drafts, Idle
<1>8. Settling' /\ Warmth'
  <2>1. Settling'
    BY <1>1, <1>2, <1>4, NotBusy, NotBusyNext DEF IInv, Settling, Netted
  <2>2. Warmth'
    BY <1>2, <1>4 DEF IInv, Warmth, Netted, Ready, Satisfied
  <2> QED BY <2>1, <2>2
<1>9. Nets'
  BY <1>1, <1>2, Resting, NetsKept DEF IInv, Nets
<1> QED BY <1>5, <1>6, <1>7, <1>8, <1>9 DEF IInv, Nets

(* An edit by the user: the project is settled no more.                    *)
LEMMA EditStep ==
  ASSUME IInv, NEW i \in Importers, NEW deps \in Manifests, Edit(i, deps)
  PROVE  IInv'
<1>1. proc = Idle /\ ~Running /\ proc.pc \notin Busy /\ TypeOK
  BY Resting DEF Edit, IInv
<1>2. UNCHANGED <<published, current, proc>> /\ UNCHANGED Netted /\ settled' = settled \ {i}
      /\ ~warm'
  BY DEF Edit, Netted
<1>3. /\ manifest'[i] = deps /\ \A j \in Importers \ {i} : manifest'[j] = manifest[j]
      /\ DOMAIN manifest' = Importers
  BY <1>1 DEF Edit, TypeOK
<1>4. IsDeps(deps) /\ Ranged(deps)
  <2>1. DOMAIN deps \subseteq Names /\ deps \in [DOMAIN deps -> OwnLink..1]
    BY ProjectAssumption
  <2>2. \A n \in DOMAIN deps : n \in Names /\ deps[n] \in Int /\ deps[n] <= 1
    BY <2>1 DEF OwnLink
  <2>3. deps \in [DOMAIN deps -> Int]
    BY <2>1, <2>2
  <2>4. \A n \in Names : published[n] \in Nat \ {0}
    BY <1>1 DEF TypeOK
  <2>5. Ranged(deps)
    BY <2>2, <2>4 DEF Ranged
  <2> QED BY <2>1, <2>3, <2>5 DEF IsDeps, IsMap
<1>5. ~Running' /\ proc'.pc \notin Busy
  BY <1>1, <1>2 DEF Running
<1>6. TypeOK'
  BY <1>1, <1>2, <1>3, <1>4 DEF TypeOK, Netted
<1>7. Ranges'
  BY <1>2, <1>3, <1>4, <1>5 DEF IInv, Ranges, Ranged
<1>8. Held' /\ Turn' /\ Resolving' /\ Linking' /\ Drafts'
  BY <1>1, <1>2, <1>5, NotBusyNext DEF Held, Drafts, Idle
<1>9. Settling'
  BY <1>1, <1>2, <1>3, <1>5, NotBusy, NotBusyNext DEF IInv, Settling, Netted, TypeOK
<1>10. Warmth'
  BY <1>2, <1>5 DEF Warmth
<1>11. Nets'
  BY <1>1, <1>2, Resting, NetsKept DEF IInv, Nets
<1> QED BY <1>6, <1>7, <1>8, <1>9, <1>10, <1>11 DEF IInv, Nets

(* A command is about projects of the workspace.                           *)
LEMMA TargetsFacts ==
  ASSUME NEW c \in Commands
  PROVE  TargetsOf(c) \subseteq Importers /\ c.names \subseteq Names /\ c.tool \in Tools
<1>1. c.at \in Importers /\ c.filter \subseteq Importers /\ c.names \subseteq Names
      /\ c.tool \in Tools
  BY ProjectAssumption
<1>2. Members \subseteq Importers /\ InstallTargets(c.at) \subseteq Importers
  BY <1>1 DEF Importers, InstallTargets
<1>3. CASE c.filter # {}
  BY <1>1, <1>3 DEF TargetsOf
<1>4. CASE c.filter = {} /\ c.recursive
  BY <1>1, <1>2, <1>4 DEF TargetsOf
<1>5. CASE c.filter = {} /\ ~c.recursive
  BY <1>1, <1>2, <1>5 DEF TargetsOf
<1> QED BY <1>1, <1>3, <1>4, <1>5

(* A command begins with the lockfile that it finds.                       *)
LEMMA StartStep ==
  ASSUME IInv, NEW c \in Commands, Start(c)
  PROVE  IInv'
<1>1. proc = Idle /\ ~Running /\ proc.pc \notin Busy /\ proc.pc # "save" /\ TypeOK
  BY Resting DEF Start, Begins, IInv
<1>2. UNCHANGED <<published, manifest, current, settled>> /\ UNCHANGED Netted /\ ~warm'
  BY DEF Start, Netted, disk
<1>3. IsProcess(proc') /\ proc'.cmd = c /\ proc'.held = lock /\ proc'.draft = NoEntry
      /\ IF c.tool \in InstallLike THEN proc'.pc = "install" /\ proc'.work = TargetsOf(c)
         ELSE proc'.pc = "edit" /\ proc'.work = {}
  <2>1. lock # NoLockfile => IsLockfile(lock)
    BY <1>1 DEF TypeOK
  <2>2. CASE c.tool \in InstallLike
    <3>1. proc' = Process(c, lock, {}, TargetsOf(c), "install")
      BY <2>2 DEF Start
    <3> QED BY <2>1, <2>2, <3>1, NewProcess
  <2>3. CASE c.tool \notin InstallLike
    <3>1. proc' = Process(c, lock, TargetsOf(c), {}, "edit")
      BY <2>3 DEF Start
    <3> QED BY <2>1, <2>3, <3>1, NewProcess, TargetsFacts
  <2> QED BY <2>2, <2>3
<1>4. proc'.pc \in {"edit", "install"} /\ proc'.pc \notin Busy /\ Tool' = c.tool
      /\ c.tool # "import"
  BY <1>3 DEF Busy, Tool, Start
<1>5. TypeOK'
  BY <1>1, <1>2, <1>3 DEF TypeOK, Netted
<1>6. Held' /\ Turn' /\ Resolving' /\ Linking'
  BY <1>2, <1>3, <1>4, NotBusyNext DEF Held, Netted
<1>7. Drafts'
  BY <1>3, <1>4 DEF Drafts, OwnStore, InstallLike
<1>8. Ranges'
  BY <1>2, <1>3, NoMap DEF IInv, Ranges, Ranged
<1>9. Settling'
  BY <1>1, <1>2, <1>4, NotBusy, NotBusyNext DEF IInv, Settling, Netted
<1>10. Nets'
  BY <1>1, <1>2, <1>4, NetsKept DEF IInv, Nets
<1>11. Warmth'
  BY <1>2, <1>3, <1>4 DEF Warmth, InstallLike
<1> QED BY <1>5, <1>6, <1>7, <1>8, <1>9, <1>10, <1>11 DEF IInv, Nets

(* import removes the lockfile: no project is settled.                     *)
LEMMA StartImportStep ==
  ASSUME IInv, NEW c \in Commands, StartImport(c)
  PROVE  IInv'
<1>1. proc = Idle /\ ~Running /\ TypeOK /\ c.tool = "import"
  BY Resting DEF StartImport, Begins, IInv
<1>2. UNCHANGED <<published, manifest, current, overrides, modules, links, store, stale, doubtful>>
      /\ lock' = NoLockfile /\ settled' = {} /\ ~warm'
  BY DEF StartImport
<1>3. IsProcess(proc') /\ proc'.cmd = c /\ proc'.held = NoLockfile /\ proc'.draft = NoEntry
      /\ proc'.pc = "install" /\ proc'.work = TargetsOf(c)
  <2>1. proc' = Process(c, NoLockfile, {}, TargetsOf(c), "install")
    BY DEF StartImport
  <2> QED BY <2>1, NewProcess
<1>4. proc'.pc \notin Busy /\ proc'.pc # "edit" /\ Tool' = "import"
  BY <1>1, <1>3 DEF Busy, Tool
<1>5. TypeOK'
  BY <1>1, <1>2, <1>3 DEF TypeOK
<1>6. Held' /\ Turn' /\ Resolving' /\ Linking'
  BY <1>2, <1>3, <1>4, NotBusyNext DEF Held
<1>7. Drafts' /\ Ranges'
  BY <1>2, <1>3, <1>4, NoMap DEF IInv, Drafts, OwnStore, Ranges, Ranged
<1>8. Settling' /\ Warmth'
  BY <1>2, <1>4 DEF Settling, Warmth
<1>9. Locals' /\ LinksAgree' /\ Present'
  BY <1>2 DEF Locals, LinksAgree, Present
<1>10. LinksAlive'
  BY <1>2 DEF IInv, LinksAlive, Fresh, Alive
<1> QED BY <1>5, <1>6, <1>7, <1>8, <1>9, <1>10 DEF IInv

(* dedupe takes over another lockfile: what diverges from it is stale.     *)
LEMMA StartDedupeStep ==
  ASSUME IInv, NEW c \in Commands, StartDedupe(c)
  PROVE  IInv'
<1> DEFINE i == CHOOSE j \in TargetsOf(c) : \A k \in TargetsOf(c) : Rank[k] <= Rank[j]
<1>1. proc = Idle /\ ~Running /\ proc.pc \notin Busy /\ TypeOK /\ c.tool = "dedupe"
  BY Resting DEF StartDedupe, Begins, IInv
<1>2. UNCHANGED <<published, manifest, current, overrides, modules, links, store, doubtful>>
      /\ settled' = {} /\ ~warm' /\ stale' = stale \cup Diverging(lock', links)
  BY DEF StartDedupe
<1>3. PICK k : lock' = Merged(lock, k, EntryFor(k, manifest[k], c.tool))
  BY DEF StartDedupe
<1> HIDE DEF i
<1> DEFINE e == EntryFor(k, manifest[k], c.tool)
<1>4. k \in Importers => IsEntry(e) /\ \A n \in DOMAIN e :
                           IsLocal(e[n].to) <=> IsLocal(e[n].spec) \/ n \in overrides
  BY <1>1, EntryFacts DEF IInv, Ranges, TypeOK
<1> HIDE DEF e
<1>5. /\ lock' # NoLockfile /\ IsLockfile(lock')
      /\ k \in Importers => lock'.entries[k] = e
      /\ \A j \in Importers \ {k} :
           lock'.entries[j] = IF lock = NoLockfile THEN NoEntry ELSE lock.entries[j]
  <2>1. lock' = Merged(lock, k, e) /\ (lock # NoLockfile => IsLockfile(lock))
    BY <1>1, <1>3 DEF e, TypeOK
  <2> QED BY <1>4, <2>1, MergedFacts
<1>6. IsProcess(proc') /\ proc'.cmd = c /\ proc'.held = lock' /\ proc'.draft = NoEntry
      /\ proc'.pc = "install" /\ proc'.work = TargetsOf(c)
  <2>1. proc' = Process(c, lock', {}, TargetsOf(c), "install")
    BY DEF StartDedupe
  <2> QED BY <1>5, <2>1, NewProcess
<1>7. proc'.pc \notin Busy /\ proc'.pc # "edit" /\ Tool' = "dedupe"
  BY <1>1, <1>6 DEF Busy, Tool
<1>8. TypeOK'
  BY <1>1, <1>2, <1>5, <1>6 DEF TypeOK
<1>9. Held' /\ Turn' /\ Resolving' /\ Linking'
  BY <1>2, <1>6, <1>7, NotBusyNext DEF Held
<1>10. Drafts' /\ Ranges'
  BY <1>2, <1>6, <1>7, NoMap DEF IInv, Drafts, OwnStore, Ranges, Ranged
<1>11. Settling' /\ Warmth'
  BY <1>2, <1>7 DEF Settling, Warmth
<1>12. Locals'
  <2> SUFFICES ASSUME NEW j \in Importers, NEW n \in DOMAIN lock'.entries[j],
                      <<j, n>> \notin doubtful
               PROVE  IsLocal(lock'.entries[j][n].to) <=>
                        IsLocal(lock'.entries[j][n].spec) \/ n \in overrides
    BY <1>2 DEF Locals
  <2>1. CASE j = k
    BY <1>4, <1>5, <2>1
  <2>2. CASE j # k
    BY <1>5, <2>2, NoMap DEF IInv, Locals
  <2> QED BY <2>1, <2>2
<1>13. LinksAlive'
  BY <1>2 DEF IInv, LinksAlive, Fresh, Alive
<1>14. LinksAgree' /\ Present'
  <2>1. ASSUME NEW j \in Importers, NEW n \in DOMAIN lock'.entries[j], Fresh(j, n)'
        PROVE  LET to == lock'.entries[j][n].to IN
               /\ n \in DOMAIN links[j] /\ links[j][n][2] = to
               /\ ~IsLocal(to) => <<n, to>> \in store[modules[j]]
    <3>1. <<j, n>> \notin Diverging(lock', links) /\ Fresh(j, n)
      BY <1>2, <2>1 DEF Fresh
    <3>2. n \in DOMAIN links[j] => links[j][n][2] = RootLink \/ Alive(n, links[j][n], store)
      BY <3>1 DEF IInv, LinksAlive
    <3> QED BY <1>5, <3>1, <3>2, Convergent
  <2> QED BY <1>2, <2>1 DEF LinksAgree, Present
<1> QED BY <1>8, <1>9, <1>10, <1>11, <1>12, <1>13, <1>14 DEF IInv
-----------------------------------------------------------------------------
(* The edits of one project: what they do to the process.                  *)
LEMMA EditFacts ==
  ASSUME IInv, Running, NEW i, NEW tool, AtEdit(i, tool)
  PROVE  /\ TypeOK /\ Nets /\ IsProcess(proc) /\ proc.pc = "edit" /\ proc.pc \notin Busy
         /\ Tool = tool /\ tool \notin InstallLike /\ proc.held = lock /\ proc.work = {}
         /\ proc.cmd.names \subseteq Names
         /\ \A j : Wished(j) = manifest[j]
<1>1. TypeOK /\ Nets /\ IsProcess(proc) /\ proc.pc = "edit" /\ proc.pc \notin Busy
  BY ProcessIs DEF IInv, AtEdit, Nets, Busy
<1>2. Tool = tool /\ tool \notin InstallLike /\ proc.held = lock /\ proc.work = {}
  BY <1>1 DEF IInv, AtEdit, Held, Drafts, Tool, InstallLike
<1>3. proc.cmd.names \subseteq Names
  BY <1>1, TargetsFacts DEF IsProcess
<1> QED BY <1>1, <1>2, <1>3, NotBusy

(* Whatever an edit does, it leaves the command between two projects, or at*)
(* the install of one.                                                     *)
LEMMA EditNext ==
  ASSUME IInv, Running, NEW i \in Importers, NEW tool, AtEdit(i, tool), UNCHANGED <<lock, warm>>,
         NEW deps, IsDeps(deps),
         \/ proc' = Installing(i, {i}, deps) /\ (tool # "add" => manifest'[i] = deps)
         \/ tool = "update"
            /\ proc' = [Installing(i, InstallTargets(i), NoEntry) EXCEPT !.held = lock]
         \/ proc' = PassOver(i)
         \/ proc' = Idle
  PROVE  /\ Held' /\ Turn' /\ Resolving' /\ Linking' /\ Drafts' /\ Warmth'
         /\ (proc' = Idle \/ IsProcess(proc')) /\ proc'.pc \notin Busy /\ proc'.pc # "save"
         /\ Running' => proc'.draft \in {proc.draft, deps, NoEntry}
         /\ \A j : Wished(j)' = manifest'[j]
<1>1. TypeOK /\ IsProcess(proc) /\ proc.pc = "edit" /\ Tool = tool /\ tool \notin InstallLike
      /\ proc.held = lock /\ proc.work = {}
  BY EditFacts
<1>2. ~warm /\ ~warm'
  BY DEF IInv, Warmth
<1>3. CASE proc' = Idle
  <2>1. ~Running' /\ proc'.pc \notin Busy /\ proc'.pc # "save" /\ proc'.pc # "edit"
    BY <1>3 DEF Running, Idle, Busy
  <2> QED BY <1>2, <1>3, <2>1, NotBusyNext DEF Held, Drafts, Warmth
<1>4. CASE proc' = PassOver(i)
  <2>1. IsProcess(proc') /\ Kept(proc', Fields \ {"queue"})
    BY <1>1, <1>4, PassFacts
  <2>2. Running' /\ Tool' = tool /\ proc'.pc = "edit" /\ proc'.held = lock /\ proc'.work = {}
        /\ proc'.draft = proc.draft /\ proc'.pc \notin Busy
    BY <1>1, <2>1, ProcessRuns DEF Kept, Fields, Running, Tool, Busy
  <2> QED BY <1>1, <1>2, <2>1, <2>2, NotBusyNext DEF Held, Drafts, Warmth, InstallLike
<1>5. CASE proc' = Installing(i, {i}, deps) /\ (tool # "add" => manifest'[i] = deps)
  <2>1. IsProcess(proc') /\ proc'.pc = "install" /\ proc'.work = {i} /\ proc'.draft = deps
        /\ Kept(proc', {"cmd", "held", "entry"})
    BY <1>1, <1>5, InstallingFacts
  <2>2. Running' /\ Tool' = tool /\ proc'.held = lock /\ proc'.pc \notin Busy /\ Cur' = i
    BY <1>1, <2>1, ProcessRuns, FirstIs DEF Kept, Running, Tool, Busy, Cur
  <2> QED BY <1>1, <1>2, <1>5, <2>1, <2>2, NotBusyNext DEF Held, Drafts, Warmth, InstallLike
<1>6. CASE /\ tool = "update"
           /\ proc' = [Installing(i, InstallTargets(i), NoEntry) EXCEPT !.held = lock]
  <2>1. IsProcess(proc') /\ proc'.pc = "install" /\ proc'.draft = NoEntry /\ proc'.held = lock
        /\ Kept(proc', {"cmd", "entry"})
    <3>1. IsDeps(NoEntry) /\ (lock # NoLockfile => IsLockfile(lock))
      BY <1>1, NoMap DEF IsDeps, TypeOK
    <3> QED BY <1>1, <1>6, <3>1, InstallingHeld
  <2>2. Running' /\ Tool' = tool /\ proc'.pc \notin Busy
    BY <1>1, <2>1, ProcessRuns DEF Kept, Running, Tool, Busy
  <2> QED BY <1>1, <1>2, <1>6, <2>1, <2>2, NotBusyNext
          DEF Held, Drafts, Warmth, InstallLike, OwnStore
<1> QED BY <1>3, <1>4, <1>5, <1>6

(* add: the draft has ranges that what is published satisfies.             *)
LEMMA EditAddStep ==
  ASSUME IInv, Running, NEW i \in Importers, EditAdd(i)
  PROVE  IInv'
<1> DEFINE added == [n \in proc.cmd.names |-> published[n]]
           deps == Over(added, manifest[i])
<1>1. AtEdit(i, "add") /\ proc' = Installing(i, {i}, deps)
      /\ UNCHANGED <<published, manifest, current, settled, warm, lock>> /\ UNCHANGED Netted
  BY DEF EditAdd, disk, history, Netted
<1>2. /\ TypeOK /\ Nets /\ proc.pc # "save" /\ proc.cmd.names \subseteq Names
      /\ \A j : Wished(j) = manifest[j]
  BY <1>1, EditFacts
<1>3. IsDeps(deps) /\ Ranged(deps)
  <2>1. \A n \in proc.cmd.names : n \in Names /\ published[n] \in Int
    BY <1>2 DEF TypeOK
  <2>2. IsDeps(added) /\ IsDeps(manifest[i])
    BY <1>2, <2>1 DEF IsDeps, IsMap, TypeOK
  <2>3. IsDeps(deps)
    <3> HIDE DEF added
    <3> QED BY <2>2, MapFacts DEF IsDeps
  <2>4. \A n \in DOMAIN deps : deps[n] \in {published[n], manifest[i][n]}
          /\ (n \in DOMAIN manifest[i] \/ deps[n] = published[n])
    BY DEF Over
  <2>5. \A n \in DOMAIN manifest[i] : manifest[i][n] <= published[n]
    BY DEF IInv, Ranges, Ranged
  <2>6. \A n \in DOMAIN deps : n \in Names /\ published[n] <= published[n]
    BY <1>2, <2>3, MapFacts DEF IsDeps, TypeOK
  <2> HIDE DEF deps
  <2> QED BY <2>3, <2>4, <2>5, <2>6 DEF Ranged
<1> HIDE DEF deps
<1>4. /\ Held' /\ Turn' /\ Resolving' /\ Linking' /\ Drafts' /\ Warmth'
      /\ (proc' = Idle \/ IsProcess(proc')) /\ proc'.pc # "save"
      /\ Running' => proc'.draft \in {proc.draft, deps, NoEntry}
      /\ \A j : Wished(j)' = manifest'[j]
  BY <1>1, <1>3, EditNext
<1>5. TypeOK'
  BY <1>1, <1>2, <1>4 DEF TypeOK, Netted
<1>6. Ranges'
  BY <1>1, <1>3, <1>4, NoMap DEF IInv, Ranges, Ranged
<1>7. Settling'
  BY <1>1, <1>2, <1>4 DEF IInv, Settling, Netted
<1>8. Nets'
  BY <1>1, <1>2, <1>4, NetsKept
<1> QED BY <1>4, <1>5, <1>6, <1>7, <1>8 DEF IInv, Nets

(* remove: the links that it takes are stale.                              *)
LEMMA RemoveStep ==
  ASSUME IInv, Running, NEW i \in Importers, EditRemove(i)
  PROVE  IInv'
<1> DEFINE removed == proc.cmd.names \cap DOMAIN manifest[i]
           deps == Restrict(manifest[i], DOMAIN manifest[i] \ removed)
<1>1. AtEdit(i, "remove")
      /\ UNCHANGED <<published, overrides, lock, current, modules, store, doubtful, warm>>
      /\ stale' = stale \cup ({i} \X removed)
  BY DEF EditRemove
<1>2. /\ TypeOK /\ Nets /\ proc.pc # "save" /\ \A j : Wished(j) = manifest[j]
      /\ IsDeps(manifest[i])
  BY <1>1, EditFacts DEF TypeOK
<1>3. IsDeps(deps) /\ Ranged(deps) /\ DOMAIN deps = DOMAIN manifest[i] \ removed
      /\ \A n \in DOMAIN deps : deps[n] = manifest[i][n]
  <2>1. DOMAIN deps = DOMAIN manifest[i] \ removed
        /\ \A n \in DOMAIN deps : deps[n] = manifest[i][n]
    BY DEF Restrict
  <2>2. DOMAIN manifest[i] \ removed = (DOMAIN manifest[i] \ removed) \cap DOMAIN manifest[i]
    OBVIOUS
  <2>3. IsDeps(deps)
    <3> HIDE DEF removed
    <3> QED BY <1>2, <2>2, MapFacts DEF IsDeps
  <2> HIDE DEF deps
  <2> QED BY <2>1, <2>3 DEF IInv, Ranges, Ranged
<1>4. /\ \A j \in Importers \ {i} : links'[j] = links[j]
      /\ DOMAIN links' = Importers /\ DOMAIN links'[i] = DOMAIN links[i] \ removed
      /\ \A n \in DOMAIN links'[i] : links'[i][n] = links[i][n]
      /\ \A j \in Importers : IsMap(links'[j], Places(j))
  <2> DEFINE kept == Restrict(links[i], DOMAIN links[i] \ removed)
  <2>1. /\ links'[i] = kept /\ \A j \in Importers \ {i} : links'[j] = links[j]
        /\ DOMAIN links' = Importers
    BY <1>2 DEF EditRemove, TypeOK
  <2>2. DOMAIN kept = DOMAIN links[i] \ removed /\ \A n \in DOMAIN kept : kept[n] = links[i][n]
    BY DEF Restrict
  <2>3. IsMap(kept, Places(i))
    <3>1. DOMAIN links[i] \ removed = (DOMAIN links[i] \ removed) \cap DOMAIN links[i]
      OBVIOUS
    <3> HIDE DEF removed
    <3> QED BY <1>2, <3>1, MapFacts DEF TypeOK
  <2> HIDE DEF kept, removed
  <2> QED BY <1>2, <2>1, <2>2, <2>3 DEF TypeOK
<1>5. \/ proc' = Idle /\ UNCHANGED <<manifest, settled>>
      \/ /\ manifest' = [manifest EXCEPT ![i] = deps]
         /\ settled' = IF removed = {} THEN settled ELSE settled \ {i}
         /\ proc' = IF removed = {} THEN PassOver(i) ELSE Installing(i, {i}, deps)
  BY DEF EditRemove
<1> HIDE DEF removed, deps
<1>6. /\ DOMAIN manifest' = Importers /\ manifest'[i] \in {manifest[i], deps}
      /\ \A j \in Importers \ {i} : manifest'[j] = manifest[j]
      /\ proc' = Installing(i, {i}, deps) => manifest'[i] = deps \/ proc' = Idle
  BY <1>2, <1>5 DEF TypeOK
<1>7. /\ Held' /\ Turn' /\ Resolving' /\ Linking' /\ Drafts' /\ Warmth'
      /\ (proc' = Idle \/ IsProcess(proc')) /\ proc'.pc # "save"
      /\ Running' => proc'.draft \in {proc.draft, deps, NoEntry}
      /\ \A j : Wished(j)' = manifest'[j]
  BY <1>1, <1>3, <1>5, <1>6, EditNext
<1>8. TypeOK'
  BY <1>1, <1>2, <1>3, <1>4, <1>5, <1>6, <1>7 DEF TypeOK
<1>9. Ranges'
  BY <1>1, <1>3, <1>6, <1>7, NoMap DEF IInv, Ranges, Ranged
<1>10. Settling'
  <2> SUFFICES ASSUME NEW j \in settled'
               PROVE  /\ lock # NoLockfile /\ modules[j] # None
                      /\ DOMAIN lock.entries[j] = DOMAIN manifest'[j]
                      /\ \A n \in DOMAIN manifest'[j] : lock.entries[j][n].spec = manifest'[j][n]
    BY <1>1, <1>7 DEF Settling
  <2>1. j \in settled /\ j \in Importers
    BY <1>2, <1>5 DEF TypeOK
  <2>2. /\ lock # NoLockfile /\ modules[j] # None
        /\ DOMAIN lock.entries[j] = DOMAIN manifest[j]
        /\ \A n \in DOMAIN manifest[j] : lock.entries[j][n].spec = manifest[j][n]
    BY <1>2, <2>1 DEF IInv, Settling
  <2>3. DOMAIN manifest'[j] = DOMAIN manifest[j]
        /\ \A n \in DOMAIN manifest[j] : manifest'[j][n] = manifest[j][n]
    BY <1>2, <1>3, <1>5, <1>6, <2>1 DEF TypeOK
  <2> QED BY <2>2, <2>3
<1>11. \A j \in Importers : \A n : Fresh(j, n)' <=> Fresh(j, n) /\ ~(j = i /\ n \in removed)
  BY <1>1 DEF Fresh
<1>12. Locals' /\ LinksAgree' /\ LinksAlive' /\ Present'
  <2>1. Locals'
    BY <1>1, <1>2 DEF Nets, Locals
  <2>2. LinksAgree'
    BY <1>1, <1>2, <1>4, <1>7, <1>11 DEF Nets, LinksAgree
  <2>3. LinksAlive'
    <3> SUFFICES ASSUME NEW j \in Importers, NEW n \in DOMAIN links'[j], Fresh(j, n)'
                 PROVE  links'[j][n][2] = RootLink \/ Alive(n, links'[j][n], store)
      BY <1>1 DEF LinksAlive, Alive
    <3>1. n \in DOMAIN links[j] /\ links'[j][n] = links[j][n] /\ Fresh(j, n)
      BY <1>4, <1>11
    <3> QED BY <1>2, <3>1 DEF Nets, LinksAlive
  <2>4. Present'
    BY <1>1, <1>2, <1>4, <1>11 DEF Nets, Present
  <2> QED BY <2>1, <2>2, <2>3, <2>4
<1> QED BY <1>7, <1>8, <1>9, <1>10, <1>12 DEF IInv

(* update: a manifest that it changes is settled no more.                  *)
LEMMA UpdateStep ==
  ASSUME IInv, Running, NEW i \in Importers, EditUpdate(i)
  PROVE  IInv'
<1>1. AtEdit(i, "update")
      /\ UNCHANGED <<published, current, warm, lock>> /\ UNCHANGED Netted
  BY DEF EditUpdate, Netted
<1>2. /\ TypeOK /\ Nets /\ proc.pc # "save" /\ \A j : Wished(j) = manifest[j]
      /\ IsDeps(manifest[i])
  BY <1>1, EditFacts DEF TypeOK
<1>3. PICK matched :
        /\ manifest' = [manifest EXCEPT ![i] = Updated(manifest[i], matched)]
        /\ settled' = IF Updated(manifest[i], matched) = manifest[i] THEN settled
                      ELSE settled \ {i}
        /\ \/ proc' = PassOver(i)
           \/ proc' = [Installing(i, InstallTargets(i), NoEntry) EXCEPT !.held = lock]
  BY DEF EditUpdate
<1> DEFINE deps == Updated(manifest[i], matched)
<1>4. IsDeps(deps) /\ Ranged(deps)
  <2>1. /\ DOMAIN deps = DOMAIN manifest[i] /\ deps = [n \in DOMAIN manifest[i] |-> deps[n]]
        /\ \A n \in DOMAIN deps : deps[n] \in {published[n], manifest[i][n]}
    BY DEF Updated
  <2>2. \A n \in DOMAIN manifest[i] : /\ n \in Names /\ published[n] \in Int
                                      /\ manifest[i][n] \in Int
                                      /\ manifest[i][n] <= published[n]
    BY <1>2, MapFacts DEF IsDeps, TypeOK, IInv, Ranges, Ranged
  <2> HIDE DEF deps
  <2>3. \A n \in DOMAIN deps : n \in Names /\ deps[n] \in Int /\ deps[n] <= published[n]
    BY <2>1, <2>2
  <2> QED BY <2>1, <2>3 DEF IsDeps, IsMap, Ranged
<1> HIDE DEF deps
<1>5. /\ DOMAIN manifest' = Importers /\ manifest'[i] = deps
      /\ \A j \in Importers \ {i} : manifest'[j] = manifest[j]
  BY <1>2, <1>3 DEF TypeOK, deps
<1>6. /\ Held' /\ Turn' /\ Resolving' /\ Linking' /\ Drafts' /\ Warmth'
      /\ (proc' = Idle \/ IsProcess(proc')) /\ proc'.pc # "save"
      /\ Running' => proc'.draft \in {proc.draft, deps, NoEntry}
      /\ \A j : Wished(j)' = manifest'[j]
  BY <1>1, <1>3, <1>4, EditNext
<1>7. settled' \subseteq settled /\ (i \in settled' => deps = manifest[i])
  BY <1>3 DEF deps
<1>8. TypeOK'
  BY <1>1, <1>2, <1>4, <1>5, <1>6, <1>7 DEF TypeOK, Netted
<1>9. Ranges'
  BY <1>1, <1>4, <1>5, <1>6, NoMap DEF IInv, Ranges, Ranged
<1>10. Settling'
  BY <1>1, <1>2, <1>5, <1>6, <1>7 DEF IInv, Settling, Netted, TypeOK
<1>11. Nets'
  BY <1>1, <1>2, <1>6, NetsKept
<1> QED BY <1>6, <1>8, <1>9, <1>10, <1>11 DEF IInv, Nets

(* An override that comes to names, or goes.                               *)
LEMMA Overridden ==
  ASSUME TypeOK, Nets, NEW S, S \subseteq Names, doubtful' = doubtful \cup Concerned(S),
         \A n : n \notin S => (n \in overrides' <=> n \in overrides),
         UNCHANGED <<lock, modules, links, store, stale>>, proc.pc # "save", proc'.pc # "save"
  PROVE  Nets'
<1>1. Locals'
  <2> SUFFICES ASSUME lock # NoLockfile, NEW j \in Importers, NEW n \in DOMAIN lock.entries[j],
                      <<j, n>> \notin doubtful'
               PROVE  IsLocal(lock.entries[j][n].to) <=>
                        IsLocal(lock.entries[j][n].spec) \/ n \in overrides'
    BY DEF Locals
  <2>1. <<j, n>> \notin doubtful /\ <<j, n>> \notin Concerned(S)
    OBVIOUS
  <2>2. n \notin S
    <3>1. <<j, n>>[1] = j /\ <<j, n>>[2] = n
      OBVIOUS
    <3> QED BY <2>1, <3>1 DEF Concerned
  <2> QED BY <2>1, <2>2 DEF Nets, Locals
<1>2. LinksAgree' /\ LinksAlive' /\ Present'
  BY DEF Nets, LinksAgree, LinksAlive, Present, Fresh, Alive
<1> QED BY <1>1, <1>2 DEF Nets

(* link: the entries of names it overrides are doubtful.                   *)
LEMMA EditLinkStep ==
  ASSUME IInv, Running, NEW i \in Importers, EditLink(i)
  PROVE  IInv'
<1> DEFINE names == proc.cmd.names
           deps == WithLinks(manifest[i], names)
<1>1. /\ AtEdit(i, "link") /\ proc' = Installing(i, {i}, deps) /\ settled' = settled \ {i}
      /\ UNCHANGED <<published, current, warm, lock, modules, links, store, stale>>
      /\ overrides' = overrides \cup names
      /\ doubtful' = doubtful \cup Concerned(names \ overrides)
  BY DEF EditLink
<1>2. /\ TypeOK /\ Nets /\ proc.pc # "save" /\ \A j : Wished(j) = manifest[j]
      /\ IsDeps(manifest[i]) /\ names \subseteq Names
  BY <1>1, EditFacts DEF TypeOK
<1>3. IsDeps(deps) /\ Ranged(deps)
  <2> DEFINE own == [n \in names |-> OwnLink]
  <2>1. IsDeps(own)
    BY <1>2 DEF IsDeps, IsMap, OwnLink
  <2>2. IsDeps(deps)
    <3>1. deps = Over(own, manifest[i])
      BY DEF WithLinks
    <3> HIDE DEF own, deps
    <3> QED BY <1>2, <2>1, <3>1, MapFacts DEF IsDeps
  <2>3. ASSUME NEW n \in DOMAIN deps
        PROVE  deps[n] = OwnLink \/ (n \in DOMAIN manifest[i] /\ deps[n] = manifest[i][n])
    <3>1. deps = Over(own, manifest[i]) /\ DOMAIN own = names /\ \A m \in names : own[m] = OwnLink
      BY DEF WithLinks
    <3> HIDE DEF own, deps
    <3>2. n \in DOMAIN own \cup DOMAIN manifest[i]
          /\ deps[n] = IF n \in DOMAIN own THEN own[n] ELSE manifest[i][n]
      BY <2>3, <3>1 DEF Over
    <3> QED BY <3>1, <3>2
  <2> HIDE DEF deps
  <2>4. \A n \in DOMAIN deps : published[n] \in Nat
    BY <1>2, <2>2, MapFacts DEF IsDeps, TypeOK
  <2>5. \A n \in DOMAIN manifest[i] : manifest[i][n] <= published[n]
    BY DEF IInv, Ranges, Ranged
  <2>6. Ranged(deps)
    BY <2>3, <2>4, <2>5 DEF Ranged, OwnLink
  <2> QED BY <2>2, <2>6
<1>4. /\ DOMAIN manifest' = Importers /\ manifest'[i] = deps
      /\ \A j \in Importers \ {i} : manifest'[j] = manifest[j]
  BY <1>2 DEF EditLink, TypeOK
<1> HIDE DEF deps, names
<1>5. /\ Held' /\ Turn' /\ Resolving' /\ Linking' /\ Drafts' /\ Warmth'
      /\ (proc' = Idle \/ IsProcess(proc')) /\ proc'.pc # "save"
      /\ Running' => proc'.draft \in {proc.draft, deps, NoEntry}
      /\ \A j : Wished(j)' = manifest'[j]
  BY <1>1, <1>3, <1>4, EditNext
<1>6. TypeOK'
  BY <1>1, <1>2, <1>3, <1>4, <1>5 DEF TypeOK
<1>7. Ranges'
  BY <1>1, <1>3, <1>4, <1>5, NoMap DEF IInv, Ranges, Ranged
<1>8. Settling'
  BY <1>1, <1>2, <1>4, <1>5 DEF IInv, Settling, TypeOK
<1>9. Nets'
  BY <1>1, <1>2, <1>5, Overridden
<1> QED BY <1>5, <1>6, <1>7, <1>8, <1>9 DEF IInv, Nets

(* unlink: the entries of names it releases are doubtful.                  *)
LEMMA EditUnlinkStep ==
  ASSUME IInv, Running, NEW i \in Importers, EditUnlink(i)
  PROVE  IInv'
<1> DEFINE asked == IF proc.cmd.names = {} THEN Names ELSE proc.cmd.names
           deps == WithoutLinks(manifest[i], asked)
           released == asked \cap overrides
           changed == deps # manifest[i] \/ released # {}
<1>1. /\ AtEdit(i, "unlink")
      /\ proc' = IF changed THEN Installing(i, {i}, deps) ELSE PassOver(i)
      /\ settled' = IF changed THEN settled \ {i} ELSE settled
      /\ UNCHANGED <<published, current, warm, lock, modules, links, store, stale>>
      /\ overrides' = overrides \ released
      /\ doubtful' = doubtful \cup Concerned(released)
  BY DEF EditUnlink
<1>2. /\ TypeOK /\ Nets /\ proc.pc # "save" /\ \A j : Wished(j) = manifest[j]
      /\ IsDeps(manifest[i])
  BY <1>1, EditFacts DEF TypeOK
<1>3. released \subseteq Names
  BY <1>1, EditFacts
<1>4. IsDeps(deps) /\ Ranged(deps)
  <2> DEFINE S == {n \in DOMAIN manifest[i] : ~(n \in asked /\ IsLocal(manifest[i][n]))}
  <2>1. deps = Restrict(manifest[i], S) /\ S = S \cap DOMAIN manifest[i]
    BY DEF WithoutLinks
  <2>2. IsDeps(deps)
    <3> HIDE DEF S, deps
    <3> QED BY <1>2, <2>1, MapFacts DEF IsDeps
  <2>3. \A n \in DOMAIN deps : n \in DOMAIN manifest[i] /\ deps[n] = manifest[i][n]
    BY DEF WithoutLinks, Restrict
  <2> HIDE DEF deps
  <2> QED BY <2>2, <2>3 DEF IInv, Ranges, Ranged
<1>5. /\ DOMAIN manifest' = Importers /\ manifest'[i] = deps
      /\ \A j \in Importers \ {i} : manifest'[j] = manifest[j]
  BY <1>2 DEF EditUnlink, TypeOK
<1> HIDE DEF deps, released
<1>6. /\ Held' /\ Turn' /\ Resolving' /\ Linking' /\ Drafts' /\ Warmth'
      /\ (proc' = Idle \/ IsProcess(proc')) /\ proc'.pc # "save"
      /\ Running' => proc'.draft \in {proc.draft, deps, NoEntry}
      /\ \A j : Wished(j)' = manifest'[j]
  BY <1>1, <1>4, <1>5, EditNext
<1>7. settled' \subseteq settled /\ (i \in settled' => deps = manifest[i])
  BY <1>1
<1>8. TypeOK'
  BY <1>1, <1>2, <1>4, <1>5, <1>6, <1>7 DEF TypeOK
<1>9. Ranges'
  BY <1>1, <1>4, <1>5, <1>6, NoMap DEF IInv, Ranges, Ranged
<1>10. Settling'
  BY <1>1, <1>2, <1>5, <1>6, <1>7 DEF IInv, Settling, TypeOK
<1>11. Nets'
  BY <1>1, <1>2, <1>3, <1>6, Overridden
<1> QED BY <1>6, <1>8, <1>9, <1>10, <1>11 DEF IInv, Nets
-----------------------------------------------------------------------------
(* A failure or a kill: what diverges from the lockfile is stale, and the  *)
(* project at hand is not settled.                                         *)
LEMMA AbortStep ==
  ASSUME IInv, Abort
  PROVE  IInv'
<1>1. Running /\ TypeOK /\ IsProcess(proc) /\ ~warm
  BY ProcessIs DEF Abort, IInv, Running, Warmth
<1>2. /\ UNCHANGED <<published, manifest, overrides, lock, current, modules, doubtful, warm>>
      /\ proc' = Idle /\ stale' = stale \cup Diverging(lock, links')
      /\ settled' = IF proc.work = {} THEN settled ELSE settled \ {Cur}
  BY DEF Abort, Cur
<1>3. /\ DOMAIN links' = Importers /\ DOMAIN store' = Importers
      /\ \A j \in Importers : IsMap(links'[j], Places(j))
      /\ \A j \in Importers : \A n \in DOMAIN links'[j] :
           Fresh(j, n) => links'[j][n][2] = RootLink \/ Alive(n, links'[j][n], store')
  <2>1. PICK S \in SUBSET Names :
          IF proc.pc = "resolve" /\ ~LockfileOnly
          THEN LET e == EntryFor(Cur, Restrict(Deps(Cur), S \cap DOMAIN Deps(Cur)), Tool)
               IN  /\ links' = [links EXCEPT ![Cur] = Over(LinksOf(Cur, Here(Cur), e), @)]
                   /\ store' = [store EXCEPT ![Here(Cur)] = @ \cup PackagesOf(e)]
          ELSE S = {} /\ UNCHANGED <<links, store>>
    BY DEF Abort, Cur
  <2>2. CASE proc.pc = "resolve" /\ ~LockfileOnly
    <3> DEFINE deps == Restrict(Deps(Cur), S \cap DOMAIN Deps(Cur))
               e == EntryFor(Cur, deps, Tool)
    <3>1. Cur \in Importers
      BY <2>2 DEF IInv, Turn, Busy
    <3>2. IsDeps(Deps(Cur)) /\ Ranged(Deps(Cur))
      BY <1>1, <3>1 DEF Deps, IInv, Ranges, TypeOK, IsProcess
    <3>3. IsDeps(deps)
      BY <3>2, MapFacts DEF IsDeps
    <3>4. \A n \in DOMAIN deps : n \in DOMAIN Deps(Cur) /\ deps[n] = Deps(Cur)[n]
      BY DEF Restrict
    <3>5. Ranged(deps)
      <4> HIDE DEF deps
      <4> QED BY <3>2, <3>4 DEF Ranged
    <3>6. /\ links' = [links EXCEPT ![Cur] = Over(LinksOf(Cur, Here(Cur), e), @)]
          /\ store' = [store EXCEPT ![Here(Cur)] = @ \cup PackagesOf(e)]
      BY <2>1, <2>2
    <3> HIDE DEF deps
    <3>7. IsEntry(e)
      BY <1>1, <3>1, <3>3, <3>5, EntryFacts
    <3> HIDE DEF e
    <3>8. Brings(Cur, e)
      BY <1>1, <3>1, <3>6, <3>7, Brought DEF IInv
    <3> QED BY <3>8 DEF Brings
  <2>3. CASE ~(proc.pc = "resolve" /\ ~LockfileOnly)
    <3>1. UNCHANGED <<links, store>>
      BY <2>1, <2>3
    <3> QED BY <1>1, <3>1 DEF IInv, TypeOK, LinksAlive
  <2> QED BY <2>2, <2>3
<1>4. ~Running' /\ proc'.pc \notin Busy /\ proc'.pc # "edit"
  BY <1>2 DEF Running, Idle, Busy
<1>5. TypeOK'
  BY <1>1, <1>2, <1>3 DEF TypeOK
<1>6. Held' /\ Turn' /\ Resolving' /\ Linking' /\ Drafts' /\ Ranges' /\ Warmth'
  <2>1. Ranges'
    BY <1>2, <1>4 DEF IInv, Ranges, Ranged
  <2> QED BY <1>1, <1>2, <1>4, <2>1, NotBusyNext DEF Held, Drafts, Warmth
<1>7. Settling'
  <2>1. settled' \subseteq settled
    BY <1>2
  <2>2. \A j \in settled' : Wished(j) = manifest[j]
    BY <1>2 DEF IInv, Turn, Wished, Busy
  <2> QED BY <1>2, <1>4, <2>1, <2>2, NotBusyNext DEF IInv, Settling
<1>8. Locals'
  BY <1>2 DEF IInv, Locals
<1>9. \A j, n : Fresh(j, n)' => Fresh(j, n) /\ <<j, n>> \notin Diverging(lock, links')
  BY <1>2 DEF Fresh
<1>10. LinksAlive'
  BY <1>3, <1>9 DEF LinksAlive, Alive
<1>11. LinksAgree' /\ Present'
  <2>1. ASSUME lock # NoLockfile, NEW j \in Importers, NEW n \in DOMAIN lock.entries[j],
               Fresh(j, n)'
        PROVE  LET to == lock.entries[j][n].to IN
               /\ n \in DOMAIN links'[j] /\ links'[j][n][2] = to
               /\ ~IsLocal(to) => <<n, to>> \in store'[modules[j]]
    <3>1. <<j, n>> \notin Diverging(lock, links') /\ Fresh(j, n) /\ IsLockfile(lock)
      BY <1>1, <1>9, <2>1 DEF TypeOK
    <3>2. n \in DOMAIN links'[j] => links'[j][n][2] = RootLink \/ Alive(n, links'[j][n], store')
      BY <1>3, <3>1
    <3> QED BY <2>1, <3>1, <3>2, Convergent
  <2> QED BY <1>2, <2>1 DEF LinksAgree, Present
<1> QED BY <1>5, <1>6, <1>7, <1>8, <1>10, <1>11 DEF IInv

(* Nothing is installed in the beginning.                                  *)
LEMMA InitHolds ==
  ASSUME Init
  PROVE  IInv
<1>1. /\ lock = NoLockfile /\ proc = Idle /\ settled = {} /\ ~warm /\ ~Running
      /\ proc.pc \notin Busy /\ proc.pc # "edit"
  BY DEF Init, Idle, Busy, Running
<1>2. published = [n \in Names |-> 1] /\ manifest \in [Importers -> Manifests]
  BY DEF Init
<1>3. \A deps \in Manifests : IsDeps(deps) /\ \A n \in DOMAIN deps : n \in Names /\ deps[n] <= 1
  <2> SUFFICES ASSUME NEW deps \in Manifests
               PROVE  IsDeps(deps) /\ \A n \in DOMAIN deps : n \in Names /\ deps[n] <= 1
    OBVIOUS
  <2>1. DOMAIN deps \subseteq Names /\ deps \in [DOMAIN deps -> OwnLink..1]
    BY ProjectAssumption
  <2>2. \A n \in DOMAIN deps : n \in Names /\ deps[n] \in Int /\ deps[n] <= 1
    BY <2>1 DEF OwnLink
  <2> QED BY <2>1, <2>2 DEF IsDeps, IsMap
<1>4. TypeOK
  <2>1. \A i \in Importers : links[i] = NoEntry /\ modules[i] = None
    BY DEF Init
  <2>2. \A i \in Importers : IsMap(links[i], Places(i))
    BY <2>1, NoMap
  <2>3. DOMAIN links = Importers /\ DOMAIN modules = Importers /\ DOMAIN store = Importers
        /\ DOMAIN current = Importers
    BY DEF Init
  <2> QED BY <1>1, <1>2, <1>3, <2>1, <2>2, <2>3 DEF TypeOK
<1>5. Ranges
  BY <1>1, <1>2, <1>3 DEF Ranges, Ranged
<1>6. LinksAlive
  BY NoMap DEF Init, LinksAlive
<1> QED BY <1>1, <1>4, <1>5, <1>6, NotBusy
        DEF IInv, Held, Drafts, Settling, Locals, LinksAgree, Present, Warmth

(* Nothing changes.                                                        *)
LEMMA Stuttering ==
  ASSUME IInv, UNCHANGED vars
  PROVE  IInv'
<1>1. UNCHANGED <<published, manifest, overrides, lock, current, modules, newer, links, store,
                  proc, settled, stale, doubtful, warm>>
  BY DEF vars, disk, history
<1>2. TypeOK' /\ Held' /\ Turn' /\ Drafts' /\ Ranges'
  BY <1>1 DEF IInv, TypeOK, Held, Turn, Drafts, Ranges, Ranged, Running, Cur, Tool, LockfileOnly,
              Here
<1>3. Resolving'
  BY <1>1 DEF IInv, Resolving, Cur, Tool, LockfileOnly, Here, Deps, EntryFor, Resolved, Preferred
<1>4. Linking'
  BY <1>1 DEF IInv, Linking, Cur, Tool, LockfileOnly, Here, Deps, Satisfied
<1>5. Settling'
  BY <1>1 DEF IInv, Settling, Wished, Cur
<1>6. Locals' /\ LinksAgree' /\ LinksAlive' /\ Present'
  BY <1>1 DEF IInv, Locals, LinksAgree, LinksAlive, Present, Fresh, Alive, Cur
<1>7. Warmth'
  BY <1>1 DEF IInv, Warmth, Ready, Running, Tool, Satisfied
<1> QED BY <1>2, <1>3, <1>4, <1>5, <1>6, <1>7 DEF IInv

(* Each step keeps the invariant.                                          *)
LEMMA NextStep ==
  ASSUME IInv, [Next]_vars
  PROVE  IInv'
<1>1. CASE UNCHANGED vars
  BY <1>1, Stuttering
<1>2. ASSUME NEW n \in Names, Publish(n) PROVE IInv'
  BY <1>2, PublishStep
<1>3. ASSUME NEW i \in Importers, NEW deps \in Manifests, Edit(i, deps) PROVE IInv'
  BY <1>3, EditStep
<1>4. ASSUME NEW c \in Commands, Start(c) \/ StartImport(c) \/ StartDedupe(c) PROVE IInv'
  BY <1>4, StartStep, StartImportStep, StartDedupeStep
<1>5. CASE Running /\ Step
  <2>1. ASSUME NEW i \in Importers,
               EditAdd(i) \/ EditRemove(i) \/ EditUpdate(i) \/ EditLink(i) \/ EditUnlink(i)
        PROVE  IInv'
    BY <1>5, <2>1, EditAddStep, RemoveStep, UpdateStep, EditLinkStep, EditUnlinkStep
  <2>2. ASSUME NEW i \in Importers, Skip(i) \/ Begin(i) \/ Resolve(i) \/ Save(i) \/ Link(i)
                                    \/ Finish(i) \/ SaveManifest(i)
        PROVE  IInv'
    BY <1>5, <2>2, SkipStep, BeginStep, ResolveStep, SaveStep, LinkStep, FinishStep,
       SaveManifestStep
  <2>3. CASE NextProject \/ Conclude \/ Record
    BY <1>5, <2>3, NextProjectStep, ConcludeStep, RecordStep
  <2> QED BY <1>5, <2>1, <2>2, <2>3 DEF Step
<1>6. CASE Abort
  BY <1>6, AbortStep
<1> QED BY <1>1, <1>2, <1>3, <1>4, <1>5, <1>6 DEF Next, Running
-----------------------------------------------------------------------------
(* The inductive invariant: how far the command is with its project, what  *)
(* it goes by, and that lockfile, links and packages agree but for stale   *)
(* and doubtful dependencies.                                              *)
THEOREM Invariance == Spec => []IInv
<1>1. Init => IInv
  BY InitHolds
<1>2. IInv /\ [Next]_vars => IInv'
  BY NextStep
<1> QED BY <1>1, <1>2, PTL DEF Spec

(* The promise of install, add, remove, update, link and unlink: when a    *)
(* command is done with a project, pnpm-lock.yaml has its dependencies     *)
(* with their specifiers, and node_modules leads to what it says, which is *)
(* there; until somebody edits package.json, whatever other commands       *)
(* begin, fail or are killed, but for what these have moved or taken.      *)
THEOREM SettledAgreesHolds == Spec => []SettledAgrees
<1>1. IInv => SettledAgrees
  <2> SUFFICES ASSUME IInv, proc = Idle, NEW i \in settled
               PROVE  LET entry == lock.entries[i] IN
                      /\ DOMAIN entry = DOMAIN manifest[i]
                      /\ \A n \in DOMAIN entry :
                           /\ entry[n].spec = manifest[i][n]
                           /\ <<i, n>> \notin doubtful =>
                                (IsLocal(entry[n].to) <=>
                                   (IsLocal(manifest[i][n]) \/ n \in overrides))
                           /\ <<i, n>> \notin stale =>
                                /\ n \in DOMAIN links[i] /\ links[i][n][2] = entry[n].to
                                /\ entry[n].to = RootLink \/ Alive(n, links[i][n], store)
    BY DEF SettledAgrees
  <2>1. proc.pc # "save" /\ Wished(i) = manifest[i] /\ i \in Importers
    BY Resting, NotBusy DEF IInv, TypeOK
  <2>2. /\ lock # NoLockfile /\ modules[i] # None
        /\ DOMAIN lock.entries[i] = DOMAIN manifest[i]
        /\ \A n \in DOMAIN manifest[i] : lock.entries[i][n].spec = manifest[i][n]
    BY <2>1 DEF IInv, Settling
  <2>3. ASSUME NEW n \in DOMAIN lock.entries[i]
        PROVE  <<i, n>> \notin doubtful =>
                 (IsLocal(lock.entries[i][n].to) <=> (IsLocal(manifest[i][n]) \/ n \in overrides))
    BY <2>1, <2>2 DEF IInv, Locals
  <2>4. ASSUME NEW n \in DOMAIN lock.entries[i], <<i, n>> \notin stale
        PROVE  /\ n \in DOMAIN links[i] /\ links[i][n][2] = lock.entries[i][n].to
               /\ lock.entries[i][n].to = RootLink \/ Alive(n, links[i][n], store)
    <3>1. n \in DOMAIN links[i]
      BY <2>1, <2>2, <2>4 DEF IInv, Present, Fresh
    <3>2. links[i][n][2] = lock.entries[i][n].to
      BY <2>1, <2>2, <2>4, <3>1 DEF IInv, LinksAgree, Fresh
    <3> QED BY <2>1, <2>4, <3>1, <3>2 DEF IInv, LinksAlive, Fresh
  <2> QED BY <2>2, <2>3, <2>4
<1> QED BY <1>1, Invariance, PTL

(* After an install of the whole workspace the next one has nothing to do: *)
(* the lockfile is reusable for every project, and what lock.yaml,         *)
(* .modules.yaml and node_modules say is what                              *)
(* persisted_install_state_is_reusable asks for.                           *)
THEOREM WarmInstallSkipsHolds == Spec => []WarmInstallSkips
<1>1. IInv => WarmInstallSkips
  <2> SUFFICES ASSUME IInv, proc = Idle, warm, NEW i \in Importers
               PROVE  /\ Reusable(lock, i, manifest[i])
                      /\ stale \cap ({i} \X DOMAIN lock.entries[i]) = {} => Persisted(lock, i, Root)
    BY DEF WarmInstallSkips
  <2>1. Ready(i) /\ i \in DOMAIN current[Root] /\ current[Root][i] = lock.entries[i]
    BY DEF IInv, Warmth
  <2>2. Reusable(lock, i, manifest[i])
    BY <2>1 DEF Ready, Reusable
  <2>3. ASSUME stale \cap ({i} \X DOMAIN lock.entries[i]) = {}
        PROVE  Persisted(lock, i, Root)
    <3>1. modules[i] = Root /\ Root # None /\ Root \in Importers
      BY <2>1, ProjectAssumption DEF Ready, Importers
    <3>2. ASSUME NEW n \in DOMAIN lock.entries[i], ~IsLocal(lock.entries[i][n].to)
          PROVE  /\ <<n, lock.entries[i][n].to>> \in store[Root]
                 /\ n \in DOMAIN links[i] /\ Alive(n, links[i][n], store)
      <4>1. Fresh(i, n)
        BY <2>3, <3>2 DEF Fresh
      <4>2. lock # NoLockfile /\ proc.pc # "save"
        BY <2>1, Resting DEF Ready
      <4>3. n \in DOMAIN links[i] /\ <<n, lock.entries[i][n].to>> \in store[Root]
        BY <3>1, <3>2, <4>1, <4>2 DEF IInv, Present
      <4>4. links[i][n][2] = lock.entries[i][n].to
        BY <4>1, <4>2, <4>3 DEF IInv, LinksAgree
      <4>5. links[i][n][2] # RootLink
        BY <3>2, <4>4 DEF IsLocal, RootLink
      <4> QED BY <4>1, <4>3, <4>5 DEF IInv, LinksAlive
    <3> QED BY <2>1, <3>1, <3>2 DEF Persisted
  <2> QED BY <2>2, <2>3
<1> QED BY <1>1, Invariance, PTL

(* "Each importer's Install::run() extends the lockfile incrementally": a  *)
(* command that saves the lockfile changes the entry of the project it is  *)
(* working on and no other.                                                *)
THEOREM EntriesKeptHolds == Spec => EntriesKept
<1> DEFINE Keeps == proc # Idle /\ proc.pc = "save" /\ ~LockfileOnly /\ lock # NoLockfile =>
                      \A j \in Importers \ {First(proc.work)} : lock'.entries[j] = lock.entries[j]
<1>1. IInv /\ [Next]_vars => [Keeps]_vars
  <2> SUFFICES ASSUME IInv, Next, proc # Idle, proc.pc = "save", ~LockfileOnly, lock # NoLockfile,
                      NEW j \in Importers \ {Cur}
               PROVE  lock'.entries[j] = lock.entries[j]
    BY DEF Cur
  <2>1. TypeOK /\ IsProcess(proc) /\ Running /\ proc.held = lock
    BY ProcessIs DEF IInv, Running, Held, LockfileOnly
  <2>2. CASE lock' = lock
    BY <2>2
  <2>3. ASSUME NEW i \in Importers, Save(i)
        PROVE  lock'.entries[j] = lock.entries[j]
    <3>1. i = Cur /\ lock' = Merged(lock, i, proc.entry) /\ IsEntry(proc.entry)
      BY <2>1, <2>3 DEF Save, At, Cur, IsProcess
    <3> QED BY <2>1, <3>1, MergedFacts DEF TypeOK
  <2>4. lock' = lock \/ \E i \in Importers : Save(i)
    <3>1. CASE Step
      <4>1. ASSUME NEW i \in Importers,
                   EditAdd(i) \/ EditRemove(i) \/ EditUpdate(i) \/ EditLink(i) \/ EditUnlink(i)
            PROVE  lock' = lock
        BY <4>1 DEF EditAdd, EditRemove, EditUpdate, EditLink, EditUnlink, disk
      <4>2. ASSUME NEW i \in Importers,
                   Skip(i) \/ Begin(i) \/ Resolve(i) \/ Link(i) \/ Finish(i) \/ SaveManifest(i)
            PROVE  lock' = lock
        BY <4>2 DEF Skip, Begin, Resolve, Link, Finish, SaveManifest, disk
      <4>3. CASE NextProject \/ Conclude \/ Record
        BY <4>3 DEF NextProject, Conclude, Record, disk
      <4> QED BY <3>1, <4>1, <4>2, <4>3 DEF Step
    <3>2. CASE Abort
      BY <3>2 DEF Abort
    <3>3. proc = Idle \/ Step \/ Abort
      BY DEF Next, Publish, Edit, Start, StartImport, StartDedupe, Begins
    <3> QED BY <3>1, <3>2, <3>3
  <2> QED BY <2>2, <2>3, <2>4
<1> QED BY <1>1, Invariance, PTL DEF Spec, EntriesKept
=============================================================================
