------------------------------- MODULE Deploy -------------------------------
(***************************************************************************)
(* pacquet deploy: one project of a workspace is copied to a directory     *)
(* outside, with a lockfile of its own from which a frozen install makes   *)
(* the target's node_modules.  What the shared lockfile says relative to   *)
(* itself or to a project, the copy must say relative to the target.       *)
(*                                                                         *)
(* A path is a sequence of components.  A reference is a version, or a     *)
(* link: or file: to a relative path; a key of the packages is a name and  *)
(* a reference that is not a link.  An importer has dir, name and one      *)
(* function from names to references per group, a package its dir (<<>>    *)
(* when the registry has it) and deps and optional.                        *)
(***************************************************************************)
EXTENDS Integers, FiniteSets, SequencesExt

CONSTANT Failed

Reference(to, path) == [to |-> to, path |-> path]
Registry == Reference("version", <<>>)
Key(name, ref) == [name |-> name, ref |-> ref]

(* What a path leads to when the file system follows its dots. *)
Canonical(path) ==
  FoldLeft(LAMBDA p, c : IF c = ".." THEN SubSeq(p, 1, Len(p) - 1) ELSE Append(p, c),
           <<>>, path)

Common(p, q) ==
  Cardinality({n \in 1 .. Len(p) : n <= Len(q) /\ SubSeq(p, 1, n) = SubSeq(q, 1, n)})

(* to_relative_path, which takes ".." for a directory like any other. *)
RelativePath(from, to) ==
  LET n == Common(from, to)
  IN  [i \in 1 .. Len(from) - n |-> ".."] \o SubSeq(to, n + 1, Len(to))
-----------------------------------------------------------------------------
(* match_selector and select_source_project: the ids of the importers that *)
(* one selector, and all of them, stand for; at is the current one.        *)
MatchSelector(importers, at, selector) ==
  LET matching == {i \in DOMAIN importers : selector \in {i, importers[i].name}}
  IN  CASE selector = "" -> {}
        [] selector \in {".", at} -> {at}
        [] at = "." /\ selector = importers["."].name -> {"."}
        [] matching = {} -> {}
        [] OTHER -> {CHOOSE i \in matching : TRUE}

SelectSource(importers, at, filters) ==
  LET matches == IF filters = {} THEN {at} \ {"."}
                 ELSE UNION {MatchSelector(importers, at, s) : s \in filters}
  IN  IF Cardinality(matches) = 1 THEN CHOOSE i \in matches : TRUE ELSE Failed


(* rewrite_local_reference *)
RewriteReference(base, ref, target, source) ==
  LET there == Canonical(base \o ref.path)
  IN  CASE ref.to = "version" -> ref
        [] there = source -> Reference("link", <<>>)
        [] OTHER -> Reference("file", RelativePath(target, there))

(* rewrite_resolved_dependency_map, and what project_snapshot_to_package_  *)
(* snapshot does with each reference: a link is relative to its project.   *)
RewriteProjectDeps(deps, dir, root, target, source) ==
  [n \in DOMAIN deps |->
     RewriteReference(IF deps[n].to = "link" THEN dir ELSE root, deps[n], target, source)]

(* rewrite_package_snapshot_dependency: all are relative to the lockfile. *)
RewritePackageDeps(deps, root, target, source) ==
  [n \in DOMAIN deps |-> RewriteReference(root, deps[n], target, source)]

(* rewrite_package_snapshot *)
RewritePackage(package, root, target, source) ==
  [dir |-> IF package.dir = <<>> THEN <<>>
           ELSE RelativePath(target, Canonical(root \o package.dir)),
   deps |-> RewritePackageDeps(package.deps, root, target, source),
   optional |-> RewritePackageDeps(package.optional, root, target, source)]

(* project_snapshot_to_package_snapshot: another project becomes a package *)
(* that has its dependencies and optional ones.                            *)
ProjectAsPackage(importer, root, target, source) ==
  [dir |-> RelativePath(target, importer.dir),
   deps |-> RewriteProjectDeps(importer.prod, importer.dir, root, target, source),
   optional |-> RewriteProjectDeps(importer.optional, importer.dir, root, target, source)]

(* rewrite_project_snapshot and build_deploy_manifest, which gives         *)
(* package.json the same specifiers.                                       *)
RewriteProject(importer, root, target, source) ==
  [prod |-> RewriteProjectDeps(importer.prod, importer.dir, root, target, source),
   optional |-> RewriteProjectDeps(importer.optional, importer.dir, root, target, source),
   dev |-> RewriteProjectDeps(importer.dev, importer.dir, root, target, source)]

RewriteKey(key, root, target, source) ==
  [key EXCEPT !.ref = RewriteReference(root, @, target, source)]

RewritePackages(packages, root, target, source) ==
  LET Rewritten(k) == RewriteKey(k, root, target, source)
  IN  [key \in {Rewritten(k) : k \in DOMAIN packages} |->
         RewritePackage(packages[CHOOSE k \in DOMAIN packages : Rewritten(k) = key],
                        root, target, source)]

(* The packages that the other importers become. *)
AddedProjects(importers, chosen, root, target) ==
  LET source == importers[chosen].dir
      others == DOMAIN importers \ {chosen}
      KeyOf(i) == Key(importers[i].name, Reference("file", RelativePath(target, importers[i].dir)))
  IN  [key \in {KeyOf(i) : i \in others} |->
         ProjectAsPackage(importers[CHOOSE i \in others : KeyOf(i) = key], root, target, source)]

(* rewrite_patched_dependencies *)
RewritePatched(patched, root, target) ==
  [p \in DOMAIN patched |-> RelativePath(target, root \o patched[p])]

(* create_deploy_files: a package of the lockfile goes before the project  *)
(* that it was copied from.                                                *)
CreateDeployFiles(importers, packages, patched, chosen, root, target) ==
  LET source == importers[chosen].dir
  IN  [importer |-> RewriteProject(importers[chosen], root, target, source),
       packages |-> RewritePackages(packages, root, target, source)
                      @@ AddedProjects(importers, chosen, root, target),
       patched |-> RewritePatched(patched, root, target)]

(* A key that ends in link: does not parse when the lockfile is read.      *)
Readable(files) == \A k \in DOMAIN files.packages : k.ref.to # "link"

NoFiles == [importer |-> <<>>]

(* run.  lockfile says whether there is one, listed the importers in it,   *)
(* protocol whether the project has workspace: specifiers, and occupied    *)
(* what is in the target.  What is refused leaves the target alone; where  *)
(* the target lies is asked of the path as it was given.                   *)
Run(w) ==
  LET chosen == SelectSource(w.importers, w.at, w.filters)
      source == w.importers[chosen].dir
      there == Canonical(w.target)
      files == CreateDeployFiles([i \in w.listed |-> w.importers[i]], w.packages, w.patched,
                                 chosen, w.root, w.target)
      Left(value, target) == [value |-> value, target |-> target, chosen |-> chosen]
  IN  CASE ~ w.workspace \/ chosen = Failed -> Left(Failed, "kept")
        [] IsPrefix(source, w.target) -> Left(Failed, "kept")
        [] w.occupied /\ ~ w.force -> Left(Failed, "kept")
        [] w.occupied /\ IsPrefix(there, source) -> Left(Failed, "source removed")
        [] ~ w.lockfile -> IF w.protocol THEN Left(Failed, "copied") ELSE Left(NoFiles, "copied")
        [] chosen \notin w.listed -> Left(Failed, "copied")
        [] ~ Readable(files) -> Left(Failed, "written")
        [] OTHER -> Left(files, "written")
-----------------------------------------------------------------------------
(* Where a reference of the target's lockfile leads: to a key of its       *)
(* packages, or to a directory.                                            *)
Directory(path) == [dir |-> path]
Dangling == [dir |-> <<"..">>]

(* local_link_target, for a direct dependency. *)
DirectTarget(files, target, name, ref) ==
  IF ref.to = "version" \/ Key(name, ref) \in DOMAIN files.packages THEN Key(name, ref)
  ELSE Directory(Canonical(target \o ref.path))

(* create_symlink_layout, for a dependency of a package. *)
LayoutTarget(files, target, name, ref) ==
  CASE ref.to = "link" -> Directory(Canonical(target \o ref.path))
    [] ref.to = "version" \/ Key(name, ref) \in DOMAIN files.packages -> Key(name, ref)
    [] OTHER -> Dangling

(* What is there: the package of the registry, or the directory that is    *)
(* copied or linked.                                                       *)
Place(files, target, to) ==
  IF "dir" \in DOMAIN to THEN to
  ELSE IF to.ref.to = "version" THEN to
  ELSE Directory(Canonical(target \o files.packages[to].dir))

DepsOf(package) == {<<n, package.deps[n]>> : n \in DOMAIN package.deps}
                     \cup {<<n, package.optional[n]>> : n \in DOMAIN package.optional}

RECURSIVE Reached(_, _, _)
Reached(files, target, keys) ==
  LET next == keys \cup {t \in {LayoutTarget(files, target, d[1], d[2]) :
                                  d \in UNION {DepsOf(files.packages[k]) : k \in keys}} :
                           "dir" \notin DOMAIN t}
  IN  IF next = keys THEN keys ELSE Reached(files, target, next)

AllDeps(importer) == importer.prod @@ importer.optional @@ importer.dev

(* The dependencies of the copy, and of every package below it, lead where *)
(* those of the project, the importer or the package that they came from   *)
(* lead; where those lead to the project, to the copy of it.  The same     *)
(* holds of the patches.                                                   *)
Leads(w, chosen, files) ==
  LET mine == w.importers[chosen]
      Meant(n, ref, dir) ==
        LET there == Canonical((IF ref.to = "link" THEN dir ELSE w.root) \o ref.path)
        IN  CASE ref.to = "version" -> Key(n, ref)
              [] there = mine.dir -> Directory(w.target)
              [] OTHER -> Directory(there)
      AllMeant(deps, dir) == {<<n, Meant(n, deps[n], dir)>> : n \in DOMAIN deps}
      Origin(k) ==
        LET place == Place(files, w.target, k)
            from == {i \in DOMAIN w.importers : Directory(w.importers[i].dir) = place}
        IN  IF from = {}
            THEN AllMeant(w.packages[k].deps @@ w.packages[k].optional, w.root)
            ELSE LET i == CHOOSE j \in from : TRUE
                 IN  AllMeant(w.importers[i].prod @@ w.importers[i].optional, w.importers[i].dir)
      Laid(k) == {<<d[1], Place(files, w.target, LayoutTarget(files, w.target, d[1], d[2]))>> :
                    d \in DepsOf(files.packages[k])}
      wanted == AllDeps(files.importer)
      direct == [n \in DOMAIN wanted |-> DirectTarget(files, w.target, n, wanted[n])]
      keys == {direct[n] : n \in {m \in DOMAIN direct : "dir" \notin DOMAIN direct[m]}}
  IN  /\ \A n \in DOMAIN wanted :
           Place(files, w.target, direct[n]) = Meant(n, AllDeps(mine)[n], mine.dir)
      /\ \A k \in Reached(files, w.target, keys) : Laid(k) = Origin(k)
      /\ \A p \in DOMAIN w.patched :
           Canonical(w.target \o files.patched[p]) = Canonical(w.root \o w.patched[p])
=============================================================================
