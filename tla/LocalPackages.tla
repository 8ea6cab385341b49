--------------------------- MODULE LocalPackages ----------------------------
(***************************************************************************)
(* Directories that a run of InstallWithLockfile resolves: dependencies    *)
(* with file:, and workspace packages that are copied instead of linked.   *)
(* snapshot_local_directory_package calls itself for the local packages    *)
(* that a directory depends on; all calls of a run interleave on one       *)
(* thread, and share the set RESOLVING that is to stop cycles.             *)
(*                                                                         *)
(* A state of the run has its calls, by their way from the importer; the   *)
(* directories being resolved; and package_snapshots.  A specifier is      *)
(* [proto, to]; a reference is a version, or a link or copy of a directory *)
(* with what it is relative to (the directory that asks for it, the one of *)
(* the lockfile, or the importer's), and the peers a copy was resolved     *)
(* with.  What these directories have from the registry is claimed and     *)
(* snapshotted as in Resolver, without being installed.                    *)
(***************************************************************************)
EXTENDS FiniteSets, SequencesExt

CONSTANTS Failed, None

NoPeers == [n \in {} |-> {}]
Version(v) == [to |-> "version", at |-> v, base |-> None, peers |-> NoPeers]
Link(dir, base) == [to |-> "link", at |-> dir, base |-> base, peers |-> NoPeers]
Copy(dir, base, peers) == [to |-> "file", at |-> dir, base |-> base, peers |-> peers]

Call(name, stage, spec, dir, base, result) ==
  [name |-> name, stage |-> stage, spec |-> spec, dir |-> dir, base |-> base, result |-> result,
   suffixes |-> NoPeers]
Done(name, result) == Call(name, "done", None, None, None, result)
Ask(name, spec) == Call(name, "asked", spec, None, None, None)
Enter(name, dir, base) == Call(name, "new", None, dir, base, None)

Manifest(w, dir) ==
  IF dir \in DOMAIN w.dirs THEN w.dirs[dir] ELSE [name |-> None, deps |-> NoPeers, peers |-> NoPeers]

(* apply_workspace_root_override *)
Overridden(w, name, spec) == IF name \in DOMAIN w.overrides THEN w.overrides[name] ELSE spec

(* resolve_workspace_dependency_for_install: a directory, None or Failed.  *)
WorkspaceFor(w, name, spec, depth) ==
  CASE spec.proto = "workspace" -> IF name \in DOMAIN w.workspace THEN w.workspace[name].dir ELSE Failed
    [] /\ spec.proto = "registry" /\ name \in DOMAIN w.workspace
       /\ w.config.link = "deep" \/ (w.config.link = "direct" /\ depth = 0)
       /\ w.workspace[name].version = spec.to -> w.workspace[name].dir
    [] OTHER -> None

(* should_inject_workspace_dependency *)
Injects(w, name, spec) ==
  spec.proto = "workspace" /\ (w.config.inject \/ name \in w.injected)

(* What becomes of a direct dependency.  With disable-relink-local-dir-    *)
(* deps a copy that is in node_modules is not looked at.                   *)
Direct(w, name) ==
  LET spec == Overridden(w, name, Manifest(w, w.at).deps[name])
      package == WorkspaceFor(w, name, spec, 0)
      Copied(dir) == IF w.config.disableRelink /\ name \in w.present
                     THEN Done(name, Copy(dir, "lockfile", NoPeers))
                     ELSE Enter(name, dir, "lockfile")
  IN  CASE spec.proto = "link" -> Done(name, Link(spec.to, "own"))
        [] spec.proto = "file" -> Copied(spec.to)
        [] spec.proto \in {"workspace", "registry", "catalog"} ->
             CASE package = Failed -> Done(name, Failed)
               [] package = None -> Ask(name, spec)
               [] OTHER -> IF Injects(w, name, spec) THEN Copied(package)
                           ELSE Done(name, Link(package, "own"))

(* What becomes of a dependency of a directory. *)
Child(w, dir, name) ==
  LET spec == Manifest(w, dir).deps[name]
      package == WorkspaceFor(w, name, spec, 1)
  IN  CASE spec.proto = "link" -> Done(name, Link(spec.to, "own"))
        [] spec.proto = "file" -> Enter(name, spec.to, "lockfile")
        [] spec.proto \in {"workspace", "registry", "catalog"} ->
             CASE package = Failed -> Done(name, Failed)
               [] package = None -> Ask(name, Overridden(w, name, spec))
               [] OTHER -> Enter(name, package, "lockfile")

(* resolve_local_peer_dependency: a peer of a directory is resolved as the *)
(* importer that is installed asks for it, if it does.                     *)
Peer(w, dir, name) ==
  LET own == Manifest(w, w.at)
      available == own.peers @@ own.deps
      asks == name \in DOMAIN available
      spec == Overridden(w, name, IF asks THEN available[name] ELSE Manifest(w, dir).peers[name])
      package == WorkspaceFor(w, name, spec, 1)
  IN  CASE spec.proto = "link" -> Done(name, Link(spec.to, "importer"))
        [] spec.proto = "file" -> Enter(name, spec.to, "importer")
        [] spec.proto \in {"workspace", "registry", "catalog"} ->
             CASE package = Failed -> Done(name, Failed)
               [] package \notin {Failed, None} -> Done(name, Link(package, "lockfile"))
               [] OTHER -> IF asks \/ w.config.autoPeers THEN Ask(name, spec) ELSE Done(name, None)
-----------------------------------------------------------------------------
Start(w) ==
  [calls |-> [path \in {<<<<"dep", n>>>> : n \in DOMAIN Manifest(w, w.at).deps} |->
                Direct(w, path[1][2])],
   resolving |-> {}, claimed |-> {}, snapshots |-> NoPeers]

Below(s, path, kind) ==
  {p \in DOMAIN s.calls : Len(p) = Len(path) + 1 /\ IsPrefix(path, p) /\ p[Len(p)][1] = kind}

WithCalls(s, path, stage, new) == [s EXCEPT !.calls = new @@ [@ EXCEPT ![path].stage = stage]]

Peers(w, s, path) ==
  LET dir == s.calls[path].dir
  IN  WithCalls(s, path, "peers",
                [p \in {Append(path, <<"peer", n>>) : n \in DOMAIN Manifest(w, dir).peers} |->
                   Peer(w, dir, p[Len(p)][2])])

Children(w, s, path) ==
  LET dir == s.calls[path].dir
  IN  WithCalls(s, path, "children",
                [p \in {Append(path, <<"dep", n>>) : n \in DOMAIN Manifest(w, dir).deps} |->
                   Child(w, dir, p[Len(p)][2])])

Ended(s, path, result, suffixes) ==
  [s EXCEPT !.calls[path].stage = "done", !.calls[path].result = result,
            !.calls[path].suffixes = suffixes,
            !.resolving = IF s.calls[path].stage \in {"peers", "children"}
                          THEN @ \ {s.calls[path].dir} ELSE @]

(* The directory is being resolved, by a call above or by any other: it    *)
(* is taken for a cycle, and linked.                                       *)
Entered(w, s, path) ==
  LET dir == s.calls[path].dir
  IN  IF dir \in s.resolving THEN Ended(s, path, Link(dir, "lockfile"), NoPeers)
      ELSE Peers(w, [s EXCEPT !.resolving = @ \cup {dir}], path)

(* The suffixes of the peers, and of what was resolved below: of two for   *)
(* one name, the one that came first.                                      *)
Merged(own, many) ==
  LET names == (UNION {DOMAIN m : m \in many}) \ DOMAIN own
      Of(n) == {m[n] : m \in {m \in many : n \in DOMAIN m}}
  IN  {own @@ f : f \in {f \in [names -> UNION {Of(n) : n \in names}] :
                           \A n \in names : f[n] \in Of(n)}}

(* Mutant of KeyOf: the peers are not part of the key. *)
KeyWithoutPeers(name, ref) == [name |-> name, ref |-> [ref EXCEPT !.peers = NoPeers]]

KeyOf(name, ref) == [name |-> name, ref |-> ref]

(* All dependencies are there: the snapshot is inserted, under the name of *)
(* the manifest and with the peers in its reference.                       *)
Snapshotted(w, s, path) ==
  LET c == s.calls[path]
      peers == {p \in Below(s, path, "peer") : s.calls[p].result # None}
      deps == Below(s, path, "dep")
      Results(ps) == [n \in {s.calls[p].name : p \in ps} |->
                        s.calls[CHOOSE p \in ps : s.calls[p].name = n].result]
      own == Manifest(w, c.dir).name
  IN  {LET ref == Copy(c.dir, c.base, suffixes)
           key == KeyOf(IF own = None THEN c.name ELSE own, ref)
           snapshot == [dir |-> c.dir, deps |-> Results(deps) @@ Results(peers)]
       IN  [Ended(s, path, ref, suffixes) EXCEPT !.snapshots = (key :> snapshot) @@ @] :
         suffixes \in Merged(Results(peers), {s.calls[p].suffixes : p \in peers \cup deps})}

(* An entry that no catalog has: it fails the install of a package, and    *)
(* becomes version 0.0.0 when the package is only resolved, for the        *)
(* lockfile or for a directory that depends on it.                         *)
Unknown(w, spec) == spec.proto = "catalog" /\ spec.to \notin DOMAIN w.catalogs
Installs(w, s, path) ==
  ~w.config.lockfileOnly /\ \A i \in DOMAIN path : s.calls[SubSeq(path, 1, i)].spec # None

(* resolve_and_snapshot_package: a workspace package is linked, whatever   *)
(* else a package depends on is resolved by a call of its own, as long as  *)
(* nobody else has claimed the package.                                    *)
PackageDep(w, name, declared) ==
  LET spec == Overridden(w, name, declared)
      package == WorkspaceFor(w, name, spec, 1)
  IN  CASE package = Failed -> Done(name, Failed)
        [] package = None -> Ask(name, spec)
        [] OTHER -> Done(name, Link(package, "lockfile"))

Resolved(w, s, path) ==
  LET c == s.calls[path]
      version == IF c.spec.proto = "catalog" THEN w.catalogs[c.spec.to] ELSE c.spec.to
      package == <<c.name, version>>
      deps == IF package \in DOMAIN w.registry THEN w.registry[package] ELSE NoPeers
  IN  CASE Unknown(w, c.spec) ->
             Ended(s, path, IF Installs(w, s, path) THEN Failed ELSE Version("0.0.0"), NoPeers)
        [] package \in w.missing -> Ended(s, path, Failed, NoPeers)
        [] package \in s.claimed -> Ended(s, path, Version(version), NoPeers)
        [] OTHER -> WithCalls([s EXCEPT !.claimed = @ \cup {package},
                                        !.calls[path].base = version],
                              path, "expanding",
                              [p \in {Append(path, <<"dep", n>>) : n \in DOMAIN deps} |->
                                 PackageDep(w, p[Len(p)][2], deps[p[Len(p)][2]])])

Expanded(s, path) ==
  LET c == s.calls[path]
      deps == [n \in {s.calls[p].name : p \in Below(s, path, "dep")} |->
                 s.calls[Append(path, <<"dep", n>>)].result]
  IN  [Ended(s, path, Version(c.base), NoPeers)
        EXCEPT !.snapshots = (KeyOf(c.name, Version(c.base)) :> [dir |-> None, deps |-> deps]) @@ @]

AllDone(s, paths) == \A p \in paths : s.calls[p].stage = "done"
AnyFailed(s, paths) == \E p \in paths : s.calls[p].result = Failed

(* One step of one call. *)
Steps(w, s) ==
  UNION {
    LET c == s.calls[path]
        peers == Below(s, path, "peer")
        deps == Below(s, path, "dep")
    IN  CASE c.stage = "asked" -> {Resolved(w, s, path)}
          [] c.stage = "expanding" /\ AllDone(s, deps) ->
               {IF AnyFailed(s, deps) THEN Ended(s, path, Failed, NoPeers) ELSE Expanded(s, path)}
          [] c.stage = "new" -> {Entered(w, s, path)}
          [] c.stage = "peers" /\ AllDone(s, peers) ->
               {IF AnyFailed(s, peers) THEN Ended(s, path, Failed, NoPeers) ELSE Children(w, s, path)}
          [] c.stage = "children" /\ AllDone(s, deps) ->
               IF AnyFailed(s, deps) THEN {Ended(s, path, Failed, NoPeers)} ELSE Snapshotted(w, s, path)
          [] OTHER -> {} :
    path \in DOMAIN s.calls}

Roots(s) == {p \in DOMAIN s.calls : Len(p) = 1}
AllEnded(s) == AllDone(s, Roots(s))
-----------------------------------------------------------------------------
(* resolve_local_directory_snapshot_by_link *)
ByLink(s, ref, dir) ==
  {s.snapshots[k] : k \in {k \in DOMAIN s.snapshots : k.ref = ref /\ s.snapshots[k].dir = dir}}

(* local_directory_snapshot_is_subset_of_project: what the copy needs, the *)
(* project has; entries are the importers of the lockfile that was there.  *)
RECURSIVE Subset(_, _, _, _)
Subset(w, s, snapshot, entry) ==
  \A n \in DOMAIN snapshot.deps :
    /\ n \in DOMAIN entry
    /\ \/ entry[n] = snapshot.deps[n]
       \/ /\ snapshot.deps[n].to = "file" /\ entry[n].to = "link"
          /\ n \in DOMAIN w.workspace
          /\ LET dir == w.workspace[n].dir
                 there == ByLink(s, snapshot.deps[n], dir)
             IN  /\ dir \in DOMAIN w.entries
                 /\ \E t \in there : Subset(w, s, t, w.entries[dir])

(* dedupe_injected_direct_dependencies: a copy becomes a link when the     *)
(* workspace package has all that the copy would have.                     *)
Deduped(w, s, name) ==
  LET ref == s.calls[<<<<"dep", name>>>>].result
      spec == Manifest(w, w.at).deps[name]
      dir == WorkspaceFor(w, name, spec, 0)
  IN  IF /\ w.config.dedupe /\ Injects(w, name, spec) /\ dir # Failed /\ ref.to = "file"
         /\ dir \in DOMAIN w.entries
         /\ \E t \in ByLink(s, ref, dir) : Subset(w, s, t, w.entries[dir])
      THEN Link(dir, "own") ELSE ref

Entry(w, s) == [n \in DOMAIN Manifest(w, w.at).deps |-> Deduped(w, s, n)]
-----------------------------------------------------------------------------
DepsOf(snapshot) == {snapshot.deps[n] : n \in DOMAIN snapshot.deps}
Refs(s) == UNION {DepsOf(s.snapshots[k]) : k \in DOMAIN s.snapshots}
Copies(s, refs) == {k \in DOMAIN s.snapshots : k.ref.to = "file" /\ k.ref \in refs}

RECURSIVE Reaches(_, _, _)
Reaches(s, keys, seen) ==
  LET next == Copies(s, UNION {DepsOf(s.snapshots[k]) : k \in keys}) \ seen
  IN  IF next = {} THEN seen ELSE Reaches(s, next, seen \cup next)

(* No copy is to contain itself, however the calls interleave. *)
Acyclic(s) == \A k \in DOMAIN s.snapshots : k \notin Reaches(s, {k}, {})

(* Every reference to a copy finds its snapshot, if it is relative to the  *)
(* lockfile, and every version its own, unless no catalog has it; and      *)
(* every directory that was linked to end a cycle is copied.               *)
Whole(s, kept) ==
  /\ \A k \in DOMAIN s.snapshots : \A n \in DOMAIN s.snapshots[k].deps :
       LET r == s.snapshots[k].deps[n] IN
       (r.to = "version" /\ r.at # "0.0.0") => KeyOf(n, r) \in DOMAIN s.snapshots
  /\ \A r \in Refs(s) \cup {s.calls[p].result : p \in Roots(s)} :
       (r.to = "file" /\ r.base = "lockfile" /\ r \notin kept)
         => \E k \in DOMAIN s.snapshots : k.ref = r /\ s.snapshots[k].dir = r.at
  /\ \A p \in DOMAIN s.calls :
       (/\ s.calls[p].dir # None /\ s.calls[p].result # None
        /\ s.calls[p].result.to = "link" /\ s.calls[p].result.base = "lockfile")
         => \E k \in DOMAIN s.snapshots : s.snapshots[k].dir = s.calls[p].dir

(* A project that stands for a copy of it has the same version of all that *)
(* the copy depends on, or its own link where the copy has a copy.         *)
StandsIn(w, s, ref, dir) ==
  \E k \in Copies(s, {ref}) : LET deps == s.snapshots[k].deps IN
    \A n \in DOMAIN deps :
      /\ n \in DOMAIN w.entries[dir]
      /\ deps[n] = w.entries[dir][n] \/ (deps[n].to = "file" /\ w.entries[dir][n].to = "link")
=============================================================================
