---------------------------- MODULE PackageSpecs ----------------------------
(***************************************************************************)
(* Specifiers: what add and update write into package.json, and what an    *)
(* install makes of it - a version of the registry, a workspace package, a *)
(* directory.  Versions are triples; a specifier is a record of protocol,  *)
(* range operator, version and target, never a string.  The metadata of a  *)
(* package is [versions, latest, deprecated]; NoVersion stands for a       *)
(* missing dist-tag.                                                       *)
(***************************************************************************)
EXTENDS Integers, FiniteSets, Functions

CONSTANT Failed  \* what cannot be had: no metadata, an error

NoVersion == <<>>
NoName == "-"

Version(major, minor, patch) == <<major, minor, patch>>

(* The order of node_semver, without prereleases. *)
Older(a, b) == \/ a[1] < b[1]
               \/ a[1] = b[1] /\ a[2] < b[2]
               \/ a[1] = b[1] /\ a[2] = b[2] /\ a[3] < b[3]

Newest(versions) == CHOOSE v \in versions : \A w \in versions : ~ Older(v, w)
Oldest(versions) == CHOOSE v \in versions : \A w \in versions : ~ Older(w, v)

Specifier(proto, op, v, to) == [proto |-> proto, op |-> op, v |-> v, to |-> to]
Plain(op, v) == Specifier("registry", op, v, NoName)
NoSpec == Specifier("none", "none", NoVersion, NoName)
Link(dir) == Specifier("link", "none", NoVersion, dir)
File(dir) == Specifier("file", "none", NoVersion, dir)

(* ^ ~ = >= and x ranges of the major or the minor version; "*" is any     *)
(* version.  A tag, and a bare ^ or ~, do not parse as a range.            *)
IsRange(op) == op \in {"^", "~", "=", ">=", "x", "m.x", "*"}

Satisfies(v, spec) ==
  \/ spec.op = "*"
  \/ spec.op = ">=" /\ ~ Older(v, spec.v)
  \/ spec.op = "=" /\ v = spec.v
  \/ spec.op \in {"^", "x"} /\ v[1] = spec.v[1]
     /\ (spec.op = "^" => ~ Older(v, spec.v))
  \/ spec.op \in {"~", "m.x"} /\ v[1] = spec.v[1] /\ v[2] = spec.v[2]
     /\ (spec.op = "~" => ~ Older(v, spec.v))

(* latest, or a version: what PackageTag parses. *)
IsTag(spec) == spec.proto = "registry" /\ spec.op \in {"latest", "="}
-----------------------------------------------------------------------------
(* The metadata of the registry and their mirror in the cache directory. *)

LatestIfAvailable(package) ==
  IF package.latest \in package.versions THEN package.latest ELSE NoVersion

(* Mutant of PinnedVersion: a deprecated version is as good as any. *)
PinnedVersionDeprecated(package, spec) ==
  LET latest == LatestIfAvailable(package)
      satisfying == {v \in package.versions : Satisfies(v, spec)}
  IN  IF spec.op = "*"
      THEN IF latest # NoVersion THEN latest
           ELSE IF package.versions = {} THEN NoVersion ELSE Oldest(package.versions)
      ELSE IF ~ IsRange(spec.op) \/ satisfying = {} THEN NoVersion
      ELSE IF latest \in satisfying THEN latest ELSE Newest(satisfying)

(* Package::pinned_version: latest when it satisfies the range, otherwise  *)
(* the newest version that does, a deprecated one only if all are.         *)
PinnedVersion(package, spec) ==
  LET latest == LatestIfAvailable(package)
      satisfying == {v \in package.versions : Satisfies(v, spec)}
      maintained == satisfying \ package.deprecated
  IN  IF spec.op = "*"
      THEN IF latest # NoVersion THEN latest
           ELSE IF package.versions = {} THEN NoVersion ELSE Oldest(package.versions)
      ELSE IF ~ IsRange(spec.op) \/ satisfying = {} THEN NoVersion
      ELSE IF latest \in satisfying THEN latest
      ELSE IF maintained # {} THEN Newest(maintained) ELSE Newest(satisfying)

(* resolve_package_version_from_metadata; preferred are the versions that  *)
(* a lockfile of another package manager had.  Failed is the panic of      *)
(* latest() without the tag.                                               *)
ResolveFromMetadata(package, spec, preferred) ==
  LET known == {v \in preferred \cap package.versions : Satisfies(v, spec)}
  IN  IF spec.op = "=" THEN IF spec.v \in package.versions THEN spec.v ELSE NoVersion
      ELSE IF spec.op = "latest"
      THEN IF LatestIfAvailable(package) = NoVersion THEN Failed ELSE LatestIfAvailable(package)
      ELSE IF IsRange(spec.op) /\ known # {} THEN Newest(known)
      ELSE PinnedVersion(package, spec)

(* fetch_package_with_metadata_cache.  cached is what the mirror holds and *)
(* fetched what the registry answers, Failed if there is no such thing.    *)
FetchPackage(cached, fetched, preferOffline, offline) ==
  IF (preferOffline \/ offline) /\ cached # Failed THEN cached
  ELSE IF offline THEN Failed
  ELSE IF fetched # Failed THEN fetched ELSE cached

(* ... and what the mirror holds afterwards. *)
Mirrored(cached, fetched, preferOffline, offline) ==
  IF offline \/ (preferOffline /\ cached # Failed) \/ fetched = Failed
  THEN cached ELSE fetched

(* Mutant of ResolveVersion: stale metadata are the last word. *)
ResolveVersionStale(spec, preferred, cached, fetched, preferOffline, offline) ==
  LET package == FetchPackage(cached, fetched, preferOffline, offline)
  IN  IF package = Failed THEN NoVersion
      ELSE ResolveFromMetadata(package, spec, preferred)

(* resolve_package_version: with --prefer-offline the registry is asked    *)
(* after all when the cached metadata have no version that will do.        *)
ResolveVersion(spec, preferred, cached, fetched, preferOffline, offline) ==
  LET package == FetchPackage(cached, fetched, preferOffline, offline)
      first == IF package = Failed THEN NoVersion
               ELSE ResolveFromMetadata(package, spec, preferred)
  IN  IF first = NoVersion /\ package # Failed /\ preferOffline /\ ~ offline
         /\ cached # Failed /\ fetched # Failed
      THEN ResolveFromMetadata(fetched, spec, preferred)
      ELSE first
-----------------------------------------------------------------------------
(* Workspace packages, a function from names to [dir, version].  A         *)
(* workspace: specifier may name another package or a path in spec.to.     *)

(* range_is_satisfied *)
RangeIsSatisfied(version, spec) ==
  \/ spec.op \in {"none", "*", "bare ^", "bare ~"}
  \/ IsRange(spec.op) /\ Satisfies(version, spec)

(* parse_workspace_target *)
WorkspaceTarget(name, spec) ==
  IF spec.to # NoName /\ spec.op # "path" THEN spec.to ELSE name

(* require_workspace_dependency: NoName when it is an error. *)
RequireWorkspace(workspace, name, spec) ==
  LET target == WorkspaceTarget(name, spec)
  IN  IF /\ target \in DOMAIN workspace
         /\ RangeIsSatisfied(workspace[target].version, spec)
      THEN target ELSE NoName

(* resolve_workspace_dependency_by_relative_path *)
WorkspaceByPath(workspace, spec) ==
  LET there == {n \in DOMAIN workspace : workspace[n].dir = spec.to}
  IN  IF spec.op = "path" /\ there # {} THEN CHOOSE n \in there : TRUE ELSE NoName

(* resolve_workspace_dependency_by_plain_spec, for an npm: alias of its    *)
(* target.                                                                 *)
WorkspaceByPlainSpec(workspace, name, spec) ==
  LET target == IF spec.proto = "npm" THEN spec.to ELSE name
  IN  IF /\ spec.proto \in {"registry", "npm"}
         /\ target \in DOMAIN workspace
         /\ RangeIsSatisfied(workspace[target].version, spec)
      THEN target ELSE NoName

(* expected_workspace_dependency_for_install, for a direct dependency:     *)
(* the package that the lockfile should link to.                           *)
ExpectedWorkspace(workspace, linkWorkspace, name, spec) ==
  IF spec.proto = "workspace" THEN RequireWorkspace(workspace, name, spec)
  ELSE IF linkWorkspace THEN WorkspaceByPlainSpec(workspace, name, spec)
  ELSE NoName

(* resolve_workspace_dependency_for_install: what the install links to; an *)
(* error is Failed.                                                        *)
WorkspaceForInstall(workspace, linkWorkspace, name, spec) ==
  IF spec.proto # "workspace"
  THEN ExpectedWorkspace(workspace, linkWorkspace, name, spec)
  ELSE IF WorkspaceByPath(workspace, spec) # NoName
       THEN WorkspaceByPath(workspace, spec)
       ELSE IF RequireWorkspace(workspace, name, spec) # NoName
            THEN RequireWorkspace(workspace, name, spec)
            ELSE Failed

(* What an install makes of a direct dependency: <<"link", dir>>,          *)
(* <<"file", dir>>, <<"version", v>>, <<"alias", v>>, or Failed.  An       *)
(* override replaces the specifier; injected workspace packages are copied. *)
ResolveDirect(name, declared, overrides, workspace, linkWorkspace, injected, package) ==
  LET spec == IF name \in DOMAIN overrides THEN overrides[name] ELSE declared
      target == WorkspaceForInstall(workspace, linkWorkspace, name, spec)
      v == ResolveFromMetadata(package, spec, {})
  IN  IF spec.proto \in {"link", "file"} THEN <<spec.proto, spec.to>>
      ELSE IF target = Failed THEN Failed
      ELSE IF target # NoName
      THEN <<IF spec.proto = "workspace" /\ injected THEN "file" ELSE "link",
             workspace[target].dir>>
      ELSE IF v \in {NoVersion, Failed} THEN Failed
      ELSE <<IF spec.proto = "npm" THEN "alias" ELSE "version", v>>
-----------------------------------------------------------------------------
(* pacquet add: the specifier it saves for a request.  save is the         *)
(* save-workspace-protocol, "rolling", "true" or "false".                  *)

(* workspace_spec_with_prefix *)
WithPrefix(version, op) ==
  LET prefix == IF op \in {"~", "bare ~"} THEN "~"
                ELSE IF op \in {"^", "bare ^", "*", "latest", "=", "none"} THEN "^" ELSE "="
  IN  Specifier("workspace", prefix, version, NoName)

(* Mutant of AddedWorkspaceSpec: the range that was asked for is saved. *)
AddedWorkspaceSpecAsked(save, version, request) ==
  IF save # "rolling" /\ request # NoSpec THEN [request EXCEPT !.proto = "workspace"]
  ELSE Specifier("workspace", "bare ^", NoVersion, NoName)

(* render_added_workspace_spec, of a request without workspace: *)
AddedWorkspaceSpec(save, version, request) ==
  IF save # "rolling"
  THEN WithPrefix(version, IF request = NoSpec THEN "^" ELSE request.op)
  ELSE Specifier("workspace", IF request.op \in {"~", "bare ~"} THEN "bare ~" ELSE "bare ^",
                 NoVersion, NoName)

(* PackageVersion::serialize *)
Serialized(version, saveExact) == Plain(IF saveExact THEN "=" ELSE "^", version)

(* What the registry is asked for a request, and answers. *)
FromRegistry(package, request, saveExact) ==
  LET latest == LatestIfAvailable(package)
  IN  IF request.op = "none"
      THEN IF latest = NoVersion THEN Failed ELSE Serialized(latest, saveExact)
      ELSE IF request.op = "latest" THEN IF latest = NoVersion THEN Failed ELSE request
      ELSE IF request.op = "=" THEN IF request.v \in package.versions THEN request ELSE Failed
      ELSE IF PinnedVersion(package, request) = NoVersion THEN Failed ELSE request

(* resolve_npm_alias_target_spec: here latest becomes a version. *)
AliasSpec(package, request, saveExact) ==
  LET asked == [request EXCEPT !.op = IF @ = "latest" THEN "none" ELSE @]
      spec == FromRegistry(package, asked, saveExact)
  IN  IF spec = Failed THEN Failed
      ELSE Specifier("npm", spec.op, spec.v, request.to)

(* find_existing_workspace_direct_dependency_spec: in which order the      *)
(* importers are asked is not determined, so the candidates are a set.     *)
ExistingSpecs(recorded, name) == {r.spec : r \in {s \in recorded : s.name = name /\ ~ s.link}}

(* resolve_local_path_spec: a path that exists, and so every name that is  *)
(* also a directory of the project.                                        *)
LocalPathSpec(request, name, dirs) ==
  IF request.proto \in {"link", "file"} /\ request.to \in dirs THEN request
  ELSE IF request = NoSpec /\ name \in dirs THEN Link(name) ELSE NoSpec

(* resolve_package_spec.  config has save, linkWorkspace, saveExact and    *)
(* workspaceOnly; dirs are the directories that exist in the project, each *)
(* of which shadows a package of its name.                                 *)
AddedSpec(name, request, config, workspace, dirs, existing, package) ==
  LET mine == name \in DOMAIN workspace
      version == workspace[name].version
  IN  IF request.proto = "npm" THEN AliasSpec(package, request, config.saveExact)
      ELSE IF request.proto = "git" THEN request
      ELSE IF LocalPathSpec(request, name, dirs) # NoSpec THEN LocalPathSpec(request, name, dirs)
      ELSE IF request.proto \in {"link", "file"} THEN Failed
      ELSE IF request.proto = "workspace"
      THEN IF ~ mine THEN Failed
           ELSE IF config.save = "rolling" THEN request ELSE WithPrefix(version, request.op)
      ELSE IF config.workspaceOnly
      THEN IF mine THEN AddedWorkspaceSpec(config.save, version, request) ELSE Failed
      ELSE IF request = NoSpec /\ mine /\ config.save # "false"
      THEN AddedWorkspaceSpec(config.save, version, request)
      ELSE IF request = NoSpec /\ mine /\ config.linkWorkspace
      THEN Serialized(version, config.saveExact)
      ELSE IF request = NoSpec /\ existing # NoSpec THEN existing
      ELSE FromRegistry(package, request, config.saveExact)
-----------------------------------------------------------------------------
(* pacquet update: the specifier that replaces the current one, or the     *)
(* same one when there is nothing to replace.                              *)

(* render_updated_workspace_spec *)
UpdatedWorkspaceSpec(spec, save) ==
  LET op == IF spec.op \in {"*", "bare ^", "bare ~"} THEN spec.op
            ELSE IF spec.op \in {"^", "x"} THEN "bare ^"
            ELSE IF spec.op \in {"~", "m.x"} THEN "bare ~" ELSE "*"
  IN  IF save = "rolling" THEN Specifier("workspace", op, NoVersion, NoName) ELSE spec

(* should_skip_specifier *)
SkippedByUpdate(spec) == spec.proto \in {"workspace", "file", "link", "npm", "git"}

(* Mutant of UpdatedRange: the range of a partial version is kept. *)
UpdatedRangeExact(spec, version, latest, saveExact) ==
  IF spec.op \in {"^", "~"} /\ ~ latest THEN Plain("=", version)
  ELSE IF latest THEN Serialized(version, saveExact) ELSE spec

(* render_updated_spec; is_exact_version_spec takes 1 and 1.x for exact. *)
UpdatedRange(spec, version, latest, saveExact) ==
  IF spec.op \in {"^", "~"} THEN Plain(spec.op, version)
  ELSE IF latest THEN Serialized(version, saveExact)
  ELSE IF spec.op \in {"latest", "=", "x", "m.x"} THEN Plain("=", version) ELSE spec

(* resolve_updated_spec *)
UpdatedSpec(name, spec, explicit, latest, config, workspace, package) ==
  LET pinned == PinnedVersion(package, spec)
      newest == LatestIfAvailable(package)
      selected == IF latest \/ pinned = NoVersion \/ spec.proto = "catalog"
                  THEN newest ELSE pinned
  IN  IF explicit # NoSpec THEN explicit
      ELSE IF spec.proto = "workspace" /\ name \in DOMAIN workspace
      THEN UpdatedWorkspaceSpec(spec, config.save)
      ELSE IF SkippedByUpdate(spec) THEN spec
      ELSE IF selected = NoVersion THEN Failed
      ELSE UpdatedRange(spec, selected, latest, config.saveExact)
=============================================================================
