---------------------------- MODULE LockfileFile ----------------------------
(***************************************************************************)
(* pnpm-lock.yaml as a file: how a lockfile is written, in version 9, and  *)
(* what a later command reads.  The file holds what belongs to a version   *)
(* of a package once, and apart from it the dependencies of each variant   *)
(* that differs in its peers; the specifiers of an importer are gathered   *)
(* from its dependencies.                                                  *)
(*                                                                         *)
(* A lockfile is [version, single, settings, neverBuilt, rest, importers,  *)
(* packages].  An importer has its specifiers and one function per group   *)
(* from names to [spec, to]; a key of the packages is [registry, name, v,  *)
(* peers, local], a package [info, deps], and deps lead to records [kind,  *)
(* name, v, peers].  Whether a name is scoped, or ends in the name of a    *)
(* field, the model's names say in a set.                                  *)
(***************************************************************************)
EXTENDS Integers, FiniteSets, Functions, Overrides

CONSTANTS Failed, None,
          EndInField,  \* names of packages that end in "engines" or "resolution"
          WithComma    \* infos with an engine like "4.x, 5.x"

Field == "engines"
Groups == {"prod", "optional", "dev"}

Key(registry, name, v, peers, local) ==
  [registry |-> registry, name |-> name, v |-> v, peers |-> peers, local |-> local]
Dep(kind, name, v, peers) == [kind |-> kind, name |-> name, v |-> v, peers |-> peers]
-----------------------------------------------------------------------------
(* v9_package_id_from_dependency_path: a local package keeps its peers. *)
PackageId(key) == IF key.local THEN key ELSE [key EXCEPT !.peers = "none"]

(* The settings that are not written when they have this value. *)
Omitted == [peersSuffix |-> 1000, inject |-> FALSE, dedupePeers |-> FALSE]

(* Mutant of NormalizedSettings: auto-install-peers is on anyway. *)
NormalizedSettingsMore(settings) ==
  IF settings = None THEN None
  ELSE LET omitted == Over([autoInstallPeers |-> TRUE], Omitted)
           s == [field \in DOMAIN settings |->
                   IF field \in DOMAIN omitted /\ settings[field] = omitted[field]
                   THEN None ELSE settings[field]]
       IN  IF \A field \in DOMAIN s : s[field] = None THEN None ELSE s

(* normalize_settings_for_pnpm *)
NormalizedSettings(settings) ==
  IF settings = None THEN None
  ELSE LET s == [field \in DOMAIN settings |->
                   IF field \in DOMAIN Omitted /\ settings[field] = Omitted[field]
                   THEN None ELSE settings[field]]
       IN  IF \A field \in DOMAIN s : s[field] = None THEN None ELSE s

(* inline_simple_map_blocks: every key that ends in engines: or            *)
(* resolution: is written as that field, the name of a dependency too.     *)
WrittenName(name) == IF name \in EndInField THEN Field ELSE name

(* project_snapshot_to_file *)
WrittenDeps(deps) ==
  [n \in {WrittenName(m) : m \in DOMAIN deps} |->
     deps[CHOOSE m \in DOMAIN deps : WrittenName(m) = n]]

(* convert_lockfile_to_v9, without the layout.  Of two variants of a       *)
(* package the first one met gives what they share.                        *)
ToV9(lockfile) ==
  LET keys == DOMAIN lockfile.packages
  IN  [version |-> 9, settings |-> lockfile.settings, rest |-> lockfile.rest,
       importers |-> [i \in DOMAIN lockfile.importers |->
                        [g \in Groups |-> lockfile.importers[i][g]]],
       infos |-> [id \in {PackageId(k) : k \in keys} |->
                    lockfile.packages[CHOOSE k \in keys : PackageId(k) = id].info],
       snapshots |-> [k \in keys |-> lockfile.packages[k].deps]]

(* render_lockfile_content *)
Render(lockfile) ==
  LET v9 == ToV9(lockfile)
  IN  [v9 EXCEPT !.settings = NormalizedSettings(@),
                 !.importers = [i \in DOMAIN @ |->
                                  [g \in Groups |-> WrittenDeps(v9.importers[i][g])]]]
-----------------------------------------------------------------------------
(* dependency_path_from_v9_key: the registry becomes a part of the name. *)
ParsedKey(key) ==
  IF key.registry = None THEN key
  ELSE Key(None, <<key.registry, key.name>>, key.v, key.peers, FALSE)

(* PackageSnapshotDependency::deserialize.  An alias whose first peer is   *)
(* scoped and has peers itself, as in x@1.0.0(@s/y@1.0.0(z@1.0.0)), is     *)
(* taken for y@1.0.0 of a registry: the slash comes first.                 *)
ParsedDep(dep) ==
  IF dep.kind = "alias" /\ dep.peers = "scoped nested"
  THEN Dep("path", "y", dep.v, "nested") ELSE dep

(* collect_specifiers *)
Conflicting(importer) ==
  \E g, h \in Groups : \E n \in DOMAIN importer[g] \cap DOMAIN importer[h] :
    importer[g][n].spec # importer[h][n].spec

(* file_project_to_internal *)
Specifiers(importer) ==
  LET Of(g) == [n \in DOMAIN importer[g] |-> importer[g][n].spec]
  IN  Over(Of("prod"), Over(Of("optional"), Of("dev")))

(* The info of a snapshot: under its own key, or without the peers. *)
InfoOf(infos, key) ==
  IF key \in DOMAIN infos THEN infos[key]
  ELSE IF PackageId(key) \in DOMAIN infos THEN infos[PackageId(key)] ELSE Failed

(* convert_v9_to_lockfile *)
FromV9(file) ==
  LET keys == {ParsedKey(k) : k \in DOMAIN file.snapshots}
      Infos == [id \in {ParsedKey(k) : k \in DOMAIN file.infos} |->
                  file.infos[CHOOSE k \in DOMAIN file.infos : ParsedKey(k) = id]]
      DepsAt(k) == file.snapshots[CHOOSE j \in DOMAIN file.snapshots : ParsedKey(j) = k]
  IN  IF \/ \E i \in DOMAIN file.importers : Conflicting(file.importers[i])
         \/ \E k \in keys : InfoOf(Infos, k) = Failed
      THEN Failed
      ELSE [version |-> 9, single |-> DOMAIN file.importers = {"."},
            settings |-> file.settings, neverBuilt |-> None, rest |-> file.rest,
            importers |-> [i \in DOMAIN file.importers |->
                             Over(file.importers[i], [specifiers |-> Specifiers(file.importers[i])])],
            packages |-> [k \in keys |->
                            [info |-> InfoOf(Infos, k),
                             deps |-> [n \in DOMAIN DepsAt(k) |-> ParsedDep(DepsAt(k)[n])]]]]

HasComma(info) == info \in WithComma

(* parse_lockfile_content of a file that was written: the engines in flow  *)
(* style end at the comma, and what follows has no value.                  *)
Parse(file) ==
  IF \E id \in DOMAIN file.infos : HasComma(file.infos[id]) THEN Failed ELSE FromV9(file)

(* parse_lockfile_content of version 6, which has less. *)
ParseV6(file) == [file EXCEPT !.rest = [f \in DOMAIN @ |-> IF f = "overrides" THEN @[f] ELSE None]]

(* save_to_path, and load_from_path by the next command; and what the      *)
(* afterAllResolved hook is given and returns when it changes nothing.     *)
Reloaded(lockfile) == Parse(Render(lockfile))
ThroughHook(lockfile) == FromV9(ToV9(lockfile))
-----------------------------------------------------------------------------
(* What a lockfile must not have to come back as it was written.           *)
Plain(lockfile) ==
  /\ \A i \in DOMAIN lockfile.importers :
       /\ ~ Conflicting(lockfile.importers[i])
       /\ \A g \in Groups : DOMAIN lockfile.importers[i][g] \cap EndInField = {}
  /\ \A k \in DOMAIN lockfile.packages :
       LET package == lockfile.packages[k]
       IN  /\ k.registry = None
           /\ ~ HasComma(package.info)
           /\ \A n \in DOMAIN package.deps : ParsedDep(package.deps[n]) = package.deps[n]

(* The same lockfile for every later command: what was left out of the     *)
(* settings stands for what it was.                                        *)
Same(before, after, default) ==
  LET Setting(s, field) == IF s = None THEN default[field]
                           ELSE IF s[field] = None THEN default[field] ELSE s[field]
  IN  /\ after.rest = before.rest
      /\ after.importers = before.importers
      /\ after.packages = before.packages
      /\ \A field \in DOMAIN default :
           Setting(after.settings, field) = Setting(before.settings, field)
=============================================================================
