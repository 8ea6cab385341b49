---------------------------- MODULE LockfileCheck ---------------------------
(***************************************************************************)
(* When pnpm-lock.yaml is up to date.  An install reuses the entry of an   *)
(* importer instead of resolving it only if the settings recorded in the   *)
(* lockfile are the current ones and the entry satisfies package.json; a   *)
(* frozen install fails otherwise.  Against that stands what an install    *)
(* that resolves writes down.                                              *)
(*                                                                         *)
(* A manifest has one function from names to specifiers per group, and     *)
(* meta and publishDir; an importer's entry has its specifiers, one        *)
(* function from names to resolved versions per group, and the same two.   *)
(***************************************************************************)
EXTENDS PackageSpecs, Overrides

CONSTANT None  \* a field that is not there

Groups == {"prod", "optional", "dev"}
NoDeps == [n \in {} |-> {}]

WithoutLinks(deps) == Restrict(deps, {n \in DOMAIN deps : deps[n].proto # "link"})

(* resolve_catalog_specifier and validate_catalog_entry: spec.to names the *)
(* catalog.  What a catalog may not hold stays a catalog: specifier.       *)
CatalogEntry(catalogs, name, spec) ==
  IF /\ <<spec.to, name>> \in DOMAIN catalogs
     /\ catalogs[<<spec.to, name>>].proto \notin {"catalog", "workspace", "link", "file"}
  THEN catalogs[<<spec.to, name>>] ELSE spec

(* resolve_catalog_specs_in_map *)
ResolveCatalogs(deps, catalogs) ==
  [n \in DOMAIN deps |-> IF deps[n].proto = "catalog"
                         THEN CatalogEntry(catalogs, n, deps[n]) ELSE deps[n]]

(* extract_manifest, with the catalogs resolved. *)
Extracted(manifest, catalogs) ==
  [manifest EXCEPT !.prod = ResolveCatalogs(@, catalogs),
                   !.dev = ResolveCatalogs(@, catalogs),
                   !.optional = ResolveCatalogs(@, catalogs),
                   !.peer = ResolveCatalogs(@, catalogs)]

(* Peers that are installed although no other group has them: dependencies *)
(* that the entry must list.                                               *)
AutoPeers(manifest, entry) ==
  Restrict(manifest.peer,
           (DOMAIN manifest.peer \cap DOMAIN entry.specifiers)
             \ (DOMAIN manifest.prod \cup DOMAIN manifest.dev \cup DOMAIN manifest.optional))

AutoInstalled(manifest, entry, config) ==
  IF config.autoInstallPeers THEN AutoPeers(manifest, entry) ELSE NoDeps

WithPeers(manifest, entry, config) ==
  [manifest EXCEPT !.prod = Over(@, AutoInstalled(manifest, entry, config))]

(* Links are left out with excludeLinksFromLockfile. *)
KeptDeps(deps, config) == IF config.excludeLinks THEN WithoutLinks(deps) ELSE deps

(* A name in several groups is looked for in one of them only. *)
NamesOf(manifest, group) ==
  DOMAIN manifest[group] \
    IF group = "optional" THEN {}
    ELSE IF group = "prod" THEN DOMAIN manifest.optional
    ELSE DOMAIN manifest.prod \cup DOMAIN manifest.optional

NotLinked(versions) == {n \in DOMAIN versions : versions[n][1] \notin {"link", "file"}}

(* Mutant of GroupSatisfied: the group of a dependency does not matter. *)
GroupSatisfiedAnywhere(manifest, entry, specifiers, group, strict) ==
  \A n \in NamesOf(manifest, group) :
    /\ \E g \in Groups : n \in DOMAIN entry[g]
    /\ strict => n \in DOMAIN specifiers /\ specifiers[n] = manifest[group][n]

(* The loop of satisfies_package_manifest over one group. *)
GroupSatisfied(manifest, entry, specifiers, group, strict) ==
  LET names == NamesOf(manifest, group)
  IN  /\ Cardinality(names) \in {Cardinality(DOMAIN entry[group]),
                                 Cardinality(NotLinked(entry[group]))}
      /\ \A n \in names :
           /\ n \in DOMAIN entry[group]
           /\ strict => n \in DOMAIN specifiers /\ specifiers[n] = manifest[group][n]
           /\ (/\ n \in DOMAIN specifiers
               /\ specifiers[n].proto = "registry" /\ IsRange(specifiers[n].op)
               /\ entry[group][n][1] = "version")
              => Satisfies(entry[group][n][2], specifiers[n])

(* satisfies_package_manifest_with_catalogs; strict for lockfiles from     *)
(* version 9 on.                                                           *)
SatisfiesManifest(entry, raw, config, strict) ==
  LET manifest == Extracted(raw, config.catalogs)
      peers == AutoInstalled(manifest, entry, config)
      existing == KeptDeps(Over(manifest.optional,
                                Over(manifest.prod, Over(manifest.dev, peers))), config)
      specifiers == KeptDeps(entry.specifiers, config)
      kept == [WithPeers(manifest, entry, config) EXCEPT !.prod = KeptDeps(@, config),
                                                         !.dev = KeptDeps(@, config),
                                                         !.optional = KeptDeps(@, config)]
  IN  /\ strict => specifiers = existing
      /\ entry.publishDir = manifest.publishDir
      /\ entry.meta = manifest.meta
      /\ \A g \in Groups : GroupSatisfied(kept, entry, specifiers, g, strict)

(* direct_workspace_links_match_current_config, of all groups. *)
LinksMatch(entry, manifest, config, workspace) ==
  \A g \in Groups : \A n \in DOMAIN manifest[g] :
    LET target == ExpectedWorkspace(workspace, config.linkWorkspace, n, manifest[g][n])
    IN  target = NoName \/ \E h \in Groups :
          /\ n \in DOMAIN entry[h]
          /\ entry[h][n] = <<"link", workspace[target].dir>>
-----------------------------------------------------------------------------
(* all_catalogs_are_up_to_date: what the lockfile recorded of the catalogs *)
(* is still in them.                                                       *)
CatalogsUpToDate(catalogs, recorded) ==
  recorded = None \/ \A k \in DOMAIN recorded :
    k \in DOMAIN catalogs /\ catalogs[k] = recorded[k]

SettingOr(settings, field, default) ==
  IF settings = None THEN default
  ELSE IF settings[field] = None THEN default ELSE settings[field]

(* get_outdated_lockfile_setting: the first setting that has changed.      *)
(* dedupePeers is always off.  A setting that the lockfile does not have   *)
(* stands for its default, except for the first two, which match anything. *)
OutdatedSetting(lockfile, config) ==
  LET s == lockfile.settings
  IN  IF ~ CatalogsUpToDate(config.catalogs, lockfile.catalogs) THEN "catalogs"
      ELSE IF lockfile.overrides # config.overrides THEN "overrides"
      ELSE IF lockfile.extensions # config.extensions THEN "packageExtensionsChecksum"
      ELSE IF SettingOr(s, "autoInstallPeers", config.autoInstallPeers) # config.autoInstallPeers
      THEN "settings.autoInstallPeers"
      ELSE IF SettingOr(s, "excludeLinks", config.excludeLinks) # config.excludeLinks
      THEN "settings.excludeLinksFromLockfile"
      ELSE IF SettingOr(s, "peersSuffix", 1000) # config.peersSuffix
      THEN "settings.peersSuffixMaxLength"
      ELSE IF lockfile.pnpmfile # config.pnpmfile THEN "pnpmfileChecksum"
      ELSE IF SettingOr(s, "inject", FALSE) # config.inject
      THEN "settings.injectWorkspacePackages"
      ELSE IF SettingOr(s, "dedupePeers", FALSE) THEN "settings.dedupePeers"
      ELSE IF lockfile.ignored # config.ignored THEN "ignoredOptionalDependencies"
      ELSE None

(* satisfies_root_lockfile_config *)
PatchesMatch(lockfile, config) == lockfile.patched = config.patched

(* lockfile_is_reusable of Install::run *)
Reusable(lockfile, importer, manifest, config, workspace) ==
  /\ importer \in DOMAIN lockfile.importers
  /\ OutdatedSetting(lockfile, config) = None
  /\ SatisfiesManifest(lockfile.importers[importer], manifest, config, lockfile.version >= 9)
  /\ LinksMatch(lockfile.importers[importer], manifest, config, workspace)
  /\ PatchesMatch(lockfile, config)

(* What --frozen-lockfile asks for, which does not look at the links. *)
FrozenAccepts(lockfile, importer, manifest, config) ==
  /\ importer \in DOMAIN lockfile.importers
  /\ OutdatedSetting(lockfile, config) = None
  /\ SatisfiesManifest(lockfile.importers[importer], manifest, config, lockfile.version >= 9)
  /\ PatchesMatch(lockfile, config)
-----------------------------------------------------------------------------
(* What an install writes down.  hooked is the manifest that the           *)
(* readPackage hook returns: its dependencies are resolved, the entry is   *)
(* built from package.json as it is.                                       *)

(* resolve_catalog_from_lockfile: the version pinned in the lockfile goes  *)
(* before the workspace's catalog.                                         *)
PinnedCatalog(pinned, catalogs, name, spec) ==
  IF spec.proto = "catalog" /\ <<spec.to, name>> \in DOMAIN pinned
  THEN pinned[<<spec.to, name>>]
  ELSE IF spec.proto = "catalog" THEN CatalogEntry(catalogs, name, spec) ELSE spec

(* unique_direct_dependencies: an unknown catalog entry is left out.       *)
UniqueDirect(hooked, groups, pinned, catalogs) ==
  {d \in UNION {{<<n, PinnedCatalog(pinned, catalogs, n, hooked[g][n])>> :
                   n \in DOMAIN hooked[g]} : g \in groups} : d[2].proto # "catalog"}

(* resolved_direct_dependencies, or Failed if one of them fails. *)
ResolveAll(direct, config, workspace, injected, packages) ==
  LET all == [d \in direct |->
                ResolveDirect(d[1], d[2], config.overrides, workspace, config.linkWorkspace,
                              injected \/ config.inject, packages[d[1]])]
  IN  IF \E d \in direct : all[d] = Failed THEN Failed ELSE all

(* should_include_dependency_in_lockfile *)
Included(spec, version, excludeLinks) ==
  excludeLinks /\ spec.proto # "workspace" => version[1] # "link"

(* Mutant of BuildSnapshot: no specifiers of optional ones. *)
BuildSnapshotForgetful(manifest, groups, resolved, excludeLinks) ==
  LET Listed(g) == {n \in DOMAIN manifest[g] :
                      /\ g \in groups
                      /\ <<n, manifest[g][n]>> \in DOMAIN resolved
                      /\ Included(manifest[g][n], resolved[<<n, manifest[g][n]>>], excludeLinks)}
      Specs(g) == Restrict(manifest[g], Listed(g))
      Versions(g) == [n \in Listed(g) |-> resolved[<<n, manifest[g][n]>>]]
  IN  [specifiers |-> Over(Specs("dev"), Specs("prod")),
       prod |-> Versions("prod"), optional |-> Versions("optional"), dev |-> Versions("dev"),
       meta |-> manifest.meta, publishDir |-> manifest.publishDir]

(* build_project_snapshot, of the groups that are installed: a dependency  *)
(* is listed if what package.json says was resolved.                       *)
BuildSnapshot(manifest, groups, resolved, excludeLinks) ==
  LET Listed(g) == {n \in DOMAIN manifest[g] :
                      /\ g \in groups
                      /\ <<n, manifest[g][n]>> \in DOMAIN resolved
                      /\ Included(manifest[g][n], resolved[<<n, manifest[g][n]>>], excludeLinks)}
      Versions(g) == [n \in Listed(g) |-> resolved[<<n, manifest[g][n]>>]]
      Specs(g) == Restrict(manifest[g], Listed(g))
  IN  [specifiers |-> Over(Specs("optional"), Over(Specs("dev"), Specs("prod"))),
       prod |-> Versions("prod"), optional |-> Versions("optional"), dev |-> Versions("dev"),
       meta |-> manifest.meta, publishDir |-> manifest.publishDir]

EmptyEntry == [specifiers |-> NoDeps, prod |-> NoDeps, optional |-> NoDeps, dev |-> NoDeps,
               meta |-> None, publishDir |-> None]

(* merge_project_snapshot and ensure_workspace_importers *)
MergedImporters(existing, importer, entry, projects) ==
  Over([i \in {importer} |-> entry], Over(existing, [i \in projects |-> EmptyEntry]))

(* The lockfile that InstallWithLockfile::run saves: settings are those of *)
(* the configuration, but catalogs and ignoredOptionalDependencies those   *)
(* of the lockfile before.                                                 *)
SavedLockfile(existing, importer, entry, projects, config) ==
  [version |-> 9,
   importers |-> MergedImporters(IF existing = None THEN NoDeps ELSE existing.importers,
                                 importer, entry, projects),
   settings |-> [autoInstallPeers |-> config.autoInstallPeers,
                 excludeLinks |-> config.excludeLinks, peersSuffix |-> config.peersSuffix,
                 inject |-> config.inject, dedupePeers |-> FALSE],
   catalogs |-> IF existing = None THEN None ELSE existing.catalogs,
   overrides |-> config.overrides, extensions |-> config.extensions,
   pnpmfile |-> config.pnpmfile,
   ignored |-> IF existing = None THEN None ELSE existing.ignored,
   patched |-> config.patched]
=============================================================================
