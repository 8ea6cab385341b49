----------------------------- MODULE Decisions ------------------------------
(***************************************************************************)
(* Decisions that a command takes from its inputs alone: which version a   *)
(* specifier stands for, what add and update write, whether the lockfile   *)
(* is up to date and what it is once it was written and read, which        *)
(* settings hold, which variant of a package an importer gets.  A          *)
(* behaviour is one question and its answer.  Queries adds the questions   *)
(* whose answers take recursion.                                           *)
(***************************************************************************)
EXTENDS LockfileCheck, Sequences

CONSTANTS Questions,  \* a sequence of sets of queries
          Later       \* versions that may be published afterwards

VARIABLES query,  \* what is asked
          answer  \* what the code makes of it

vars == <<query, answer>>

Unanswered == [value |-> "unanswered"]

Init == /\ \E i \in DOMAIN Questions : query \in Questions[i]
        /\ answer = Unanswered

(* An install resolves a range. *)
Resolved(q) ==
  [value |-> ResolveVersion(q.spec, q.preferred, q.cached, q.fetched, q.preferOffline, q.offline),
   mirror |-> Mirrored(q.cached, q.fetched, q.preferOffline, q.offline)]

(* add saves a specifier, which the install that follows resolves. *)
Added(q) ==
  LET spec == AddedSpec(q.name, q.request, q.config, q.workspace, q.dirs, q.existing, q.package)
  IN  [value |-> spec,
       installed |-> IF spec = Failed THEN Failed
                     ELSE ResolveDirect(q.name, spec, NoDeps, q.workspace, q.config.linkWorkspace,
                                        FALSE, q.package)]

(* update replaces a specifier, twice. *)
Once(q, spec) ==
  UpdatedSpec(q.name, spec, q.explicit, q.latest, q.config, q.workspace, q.package)
Updated(q) ==
  LET spec == Once(q, q.spec)
  IN  [value |-> spec, again |-> IF spec = Failed THEN Failed ELSE Once(q, spec)]

(* What the readPackage hook makes of package.json, and what an editor. *)
Hooked(q) == IF q.hook = None THEN q.manifest ELSE q.hook
Edited(q) == IF q.edit = None THEN q.manifest ELSE q.edit

(* An install of one importer resolves and saves; then package.json is     *)
(* edited, or not, and the next install looks at the lockfile.             *)
Direct(q) == UniqueDirect(Hooked(q), Groups, NoDeps, q.config.catalogs)
ResolvedAll(q) == ResolveAll(Direct(q), q.config, q.workspace, q.injected, q.packages)
Entry(q) == BuildSnapshot(q.manifest, Groups, ResolvedAll(q), q.config.excludeLinks)
Saved(q) == SavedLockfile(q.existing, "a", Entry(q), {"a", "b"}, q.config)
Installed(q) ==
  IF ResolvedAll(q) = Failed THEN [value |-> Failed]
  ELSE [value |-> Saved(q),
        reused |-> Reusable(Saved(q), "a", Edited(q), q.config, q.workspace),
        frozen |-> FrozenAccepts(Saved(q), "a", Edited(q), q.config)]

Files == INSTANCE LockfileFile WITH EndInField <- {"check-engines", "dns-resolution"},
                                    WithComma <- {"4.x, 5.x"}

(* A lockfile, of pnpm or of an older version, is saved, and loaded by the *)
(* next command, which saves it again; a hook gets and returns it.         *)
Loaded(q) ==
  LET start == IF q.from = 6 THEN Files!ParseV6(q.lockfile) ELSE q.lockfile
      loaded == Files!Reloaded(start)
  IN  [value |-> loaded, start |-> start, hooked |-> Files!ThroughHook(start),
       again |-> IF loaded = Failed THEN Failed ELSE Files!Reloaded(loaded)]

Npmrcs == INSTANCE Settings

(* A command loads its settings; config set or delete changes them, and    *)
(* the next command loads them again.  Each looks at the keys in an order  *)
(* of its own.                                                             *)
Configured(q) ==
  UNION {LET files == Npmrcs!Changed(q, before)
         IN  {[value |-> before, files |-> files, after |-> after] :
                after \in Npmrcs!Loads(files.home, files.current, q.env)} :
           before \in Npmrcs!Loads(q.home, q.current, q.env)}

Variants == INSTANCE PeerVariants

Asks(on) == query.on = on /\ answer = Unanswered

(* The entry of an importer gets a variant of a dependency, out of a hash  *)
(* map.                                                                    *)
DedupePeers ==
  /\ query.on = "variants"
  /\ \/ answer = Unanswered /\ answer' = Variants!Begin(query.variants, query.at)
     \/ answer # Unanswered /\ answer' \in Variants!LooksAt(query.variants, answer)
  /\ UNCHANGED query

Resolve == Asks("resolve") /\ answer' = Resolved(query) /\ UNCHANGED query
Add == Asks("add") /\ answer' = Added(query) /\ UNCHANGED query
Update == Asks("update") /\ answer' = Updated(query) /\ UNCHANGED query
Install == Asks("lockfile") /\ answer' = Installed(query) /\ UNCHANGED query
Reload == Asks("file") /\ answer' = Loaded(query) /\ UNCHANGED query
Configure == Asks("config") /\ answer' \in Configured(query) /\ UNCHANGED query

Decide == Resolve \/ Add \/ Update \/ Install \/ Reload \/ Configure \/ DedupePeers

(* Whatever answers another question. *)
Elsewhere ==
  /\ query.on \notin {"resolve", "add", "update", "lockfile", "file", "config", "variants"}
  /\ UNCHANGED query

DecisionSpec == Init /\ [][Decide \/ Elsewhere]_vars
-----------------------------------------------------------------------------
(* What can be asked.  Versions are triples of numbers, and a package has  *)
(* finitely many of them.                                                  *)
Versions == Nat \X Nat \X Nat

Published(package) == package.versions \subseteq Versions /\ IsFiniteSet(package.versions)

Specified(spec) ==
  /\ spec.proto \in {"none", "registry", "npm", "git", "link", "file", "workspace", "catalog"}
  /\ spec.proto \in {"none", "git", "link", "file", "catalog"} => spec.op = "none"
  /\ spec.op \in {"^", "~", "=", ">=", "x", "m.x"} => spec.v \in Versions
  /\ spec.to \in STRING
  /\ spec.proto = "none" => spec = NoSpec

Members(workspace) ==
  \A n \in DOMAIN workspace : workspace[n].dir \in STRING /\ workspace[n].version \in Versions

ResolveAsked(q) ==
  Specified(q.spec) /\ \A p \in {q.cached, q.fetched} : p # Failed => Published(p)

AddAsked(q) ==
  /\ q.name \in STRING \ {NoName} /\ q.dirs \subseteq STRING
  /\ Specified(q.request) /\ q.request.proto # "catalog"
  /\ Members(q.workspace) /\ Published(q.package)

UpdateAsked(q) == Specified(q.spec) /\ Published(q.package)

IsManifest(m) ==
  /\ Groups \cup {"peer", "meta", "publishDir"} \subseteq DOMAIN m
  /\ \A g \in Groups \cup {"peer"} : m[g] = [n \in DOMAIN m[g] |-> m[g][n]]

InstallAsked(q) ==
  /\ IsManifest(q.manifest) /\ (q.edit # None => IsManifest(q.edit))
  /\ q.config.inject \in BOOLEAN /\ q.config.autoInstallPeers \in BOOLEAN
  /\ q.config.excludeLinks \in BOOLEAN /\ q.config.peersSuffix \in Nat
  /\ \A g \in Groups : \A n \in DOMAIN q.manifest[g] : Published(q.packages[n])

(* The settings of a lockfile, of which any may be missing. *)
RecordedSettings ==
  [autoInstallPeers : BOOLEAN \cup {None}, excludeLinks : BOOLEAN \cup {None},
   peersSuffix : Nat \cup {None}, inject : BOOLEAN \cup {None},
   dedupePeers : BOOLEAN \cup {None}]

VariantsAsked(q) ==
  /\ DOMAIN q.variants \subseteq Nat /\ q.at \in DOMAIN q.variants
  /\ \A j \in DOMAIN q.variants :
       IsFiniteSet(DOMAIN q.variants[j].deps) /\ IsFiniteSet(q.variants[j].peers)

(* Variants of a package share what the file holds once. *)
AreImporters(importers) ==
  /\ importers = [i \in DOMAIN importers |-> importers[i]]
  /\ \A i \in DOMAIN importers :
       LET importer == importers[i] IN
       /\ importer = [f \in Groups \cup {"specifiers"} |-> importer[f]]
       /\ \A g \in Groups : importer[g] = [n \in DOMAIN importer[g] |-> importer[g][n]]
       /\ ~ Files!Conflicting(importer) => importer.specifiers = Files!Specifiers(importer)

ArePackages(packages) ==
  /\ packages = [k \in DOMAIN packages |-> packages[k]]
  /\ \A k \in DOMAIN packages :
       LET package == packages[k] IN
       /\ k = Files!Key(k.registry, k.name, k.v, k.peers, k.local)
       /\ k.local \in BOOLEAN /\ (k.local => k.registry = None)
       /\ package = [info |-> package.info, deps |-> package.deps]
       /\ package.info # Failed
       /\ package.deps = [n \in DOMAIN package.deps |-> package.deps[n]]
       /\ \A j \in DOMAIN packages :
            Files!PackageId(j) = Files!PackageId(k) => packages[j].info = package.info

IsLockfile(L) == AreImporters(L.importers) /\ ArePackages(L.packages)

FileAsked(q) ==
  LET L == q.lockfile
  IN  /\ {"settings", "rest", "importers", "packages"} \subseteq DOMAIN L
      /\ L.settings = None \/ L.settings \in RecordedSettings
      /\ q.default \in RecordedSettings
      /\ \A field \in DOMAIN Files!Omitted : q.default[field] = Files!Omitted[field]
      /\ IsLockfile(L)
      /\ Failed \notin [version : {9}, single : BOOLEAN, neverBuilt : {None},
                        settings : RecordedSettings \cup {None}, importers : {L.importers},
                        rest : {L.rest, Files!ParseV6(L).rest}, packages : {L.packages}]

(* A file is a sequence of lines; no line has what makes it a header that  *)
(* stands for none.                                                        *)
IsFile(file) ==
  file # None =>
    /\ Len(file) \in Nat /\ file = [i \in 1 .. Len(file) |-> file[i]]
    /\ \A i \in DOMAIN file :
         LET key == file[i].key IN
         /\ file[i] = [key |-> key, says |-> file[i].says]
         /\ key = Npmrcs!Key(key.for, key.name, key.form)
         /\ None # <<"Bearer", file[i].says>>

(* What config set makes of a file has its lines, and the one that is set. *)
SetLine(q) == [key |-> Npmrcs!Normalized(q.do.key), says |-> q.do.value]
MayBecome(q, file) == Seq({IF i = 0 THEN SetLine(q) ELSE file[i] : i \in 0 .. Len(file)})

ConfigAsked(q) ==
  /\ IsFile(q.home) /\ IsFile(q.current)
  /\ None # <<"", "token">>
  /\ \A url \in q.urls :
       url # <<>> /\ Len(url) \in Nat /\ url = [n \in 1 .. Len(url) |-> url[n]]
  /\ q.do # None =>
       LET k == Npmrcs!Normalized(q.do.key)
       IN  /\ k = Npmrcs!Key(k.for, k.name, k.form)
           /\ None \notin MayBecome(q, Npmrcs!Lines(q.home))
           /\ None \notin MayBecome(q, Npmrcs!Lines(q.current))

Asked(q) ==
  /\ q.on = "resolve" => ResolveAsked(q)
  /\ q.on = "add" => AddAsked(q)
  /\ q.on = "update" => UpdateAsked(q)
  /\ q.on = "lockfile" => InstallAsked(q)
  /\ q.on = "file" => FileAsked(q)
  /\ q.on = "config" => ConfigAsked(q)
  /\ q.on = "variants" => VariantsAsked(q)

ASSUME QuestionsAssumption == \A i \in DOMAIN Questions : \A q \in Questions[i] : Asked(q)

ASSUME LaterAssumption == Later \subseteq Versions

(* A field that is not there, and an error, are nothing else. *)
ASSUME NoneAssumption == None \notin BOOLEAN \cup Nat \cup RecordedSettings

ASSUME FailedAssumption ==
  Failed \notin STRING \cup {None, NoName, NoVersion} \cup Versions
            \cup ({"link", "file"} \X STRING) \cup ({"version", "alias"} \X Versions)

ASSUME DefaultsAssumption == \A name \in Npmrcs!Typed : Failed # Npmrcs!Default(name)
-----------------------------------------------------------------------------
Answered(on) == query.on = on /\ answer # Unanswered

(* A version that an install takes satisfies its range, comes from the     *)
(* mirror or the registry, and is no older than another one that satisfies *)
(* it in the same metadata, unless that one is deprecated or this one is   *)
(* latest or preferred; and the install only fails when nothing that it    *)
(* may look at has a version.  Offline the mirror is left alone.           *)
ResolvesBest ==
  Answered("resolve") =>
    LET q == query
        v == answer.value
        sources == {p \in {q.cached, IF q.offline THEN Failed ELSE q.fetched} : p # Failed}
        Fits(p) == {w \in p.versions : Satisfies(w, q.spec)}
    IN  /\ v \notin {NoVersion, Failed} =>
             \E p \in sources :
               /\ v \in p.versions
               /\ IsRange(q.spec.op) => v \in Fits(p)
               /\ \/ v = p.latest \/ v \in q.preferred \/ q.spec.op = "*"
                  \/ \A w \in Fits(p) : Older(v, w) => w \in p.deprecated
               /\ v \in p.deprecated =>
                    v = p.latest \/ v \in q.preferred \/ Fits(p) \subseteq p.deprecated
                    \/ q.spec.op = "*"
        /\ v = NoVersion =>
             \A p \in sources : Fits(p) = {} \/ (p = q.cached /\ ~ q.offline /\ ~ q.preferOffline)
        /\ q.offline => answer.mirror = q.cached

(* What add saves, the install that it runs can resolve: to the workspace  *)
(* package if add took it for one, to what the registry has otherwise.     *)
(* (With save-workspace-protocol=rolling add keeps the range that was      *)
(* asked for, and a specifier of another importer is taken unseen.)        *)
AddedResolves ==
  (Answered("add") /\ answer.value # Failed) =>
    LET spec == answer.value IN
    /\ answer.installed = Failed =>
         \/ query.config.save = "rolling" /\ query.request.proto = "workspace"
         \/ spec = query.existing
         \/ spec.proto = "npm"
         \/ spec.proto = "git"
    /\ spec.proto = "workspace" /\ answer.installed # Failed =>
         answer.installed[1] = "link"
    /\ spec.proto = "registry" /\ answer.installed # Failed =>
         \/ query.name \in DOMAIN query.workspace
         \/ answer.installed[2] \in query.package.versions

(* Without --latest an update never moves a dependency to another version  *)
(* than an install would, leaves a range as open for later versions as it  *)
(* was, and has nothing left to do afterwards.  (A partial version such as *)
(* 1.x is taken for an exact one and loses its range.)                     *)
UpdateKeepsRange ==
  (Answered("update") /\ answer.value # Failed /\ query.explicit = NoSpec) =>
    LET q == query
        old == PinnedVersion(q.package, q.spec)
        new == answer.value
    IN  /\ answer.again = new
        /\ q.spec.proto # "registry" /\ ~ q.latest => new.proto = q.spec.proto
        /\ q.spec.proto = "registry" /\ ~ q.latest /\ old # NoVersion =>
             /\ PinnedVersion(q.package, new) = old
             /\ q.spec.op \notin {"x", "m.x"} =>
                  \A w \in Later :
                    Older(old, w) => (Satisfies(w, new) <=> Satisfies(w, q.spec))

(* The specifier that add or update writes into package.json stands for    *)
(* what was asked for, and an install makes that of it.                    *)
WrittenSpecsResolve == AddedResolves /\ UpdateKeepsRange

(* The group and specifier that count for each dependency of a manifest: a *)
(* peer that the entry lists is a dependency.                              *)
Effective(manifest, entry, config) ==
  LET m == WithPeers(Extracted(manifest, config.catalogs), entry, config)
      deps == UNION {{<<g, n, m[g][n]>> : n \in NamesOf(m, g)} : g \in Groups}
  IN  {d \in deps : config.excludeLinks => d[3].proto # "link"}

(* Manifests whose entry comes out whole: every name in one group, no      *)
(* catalog: specifier, no hook at work, no override that leaves the        *)
(* declared range, and no workspace package that is linked for a range and *)
(* then left out as a link.                                                *)
Ordinary(q) ==
  LET m == q.manifest IN
  /\ Hooked(q) = m
  /\ \A g, h \in Groups : g # h => DOMAIN m[g] \cap DOMAIN m[h] = {}
  /\ \A g \in Groups : \A n \in DOMAIN m[g] :
       /\ m[g][n].proto # "catalog"
       /\ n \in DOMAIN q.config.overrides => q.config.overrides[n] = m[g][n]
  /\ q.existing # None =>
       /\ q.existing.ignored = q.config.ignored
       /\ CatalogsUpToDate(q.config.catalogs, q.existing.catalogs)
  /\ q.existing = None => q.config.ignored = None
  /\ ~ (q.config.linkWorkspace /\ q.config.excludeLinks)

(* The lockfile that an install saves is up to date for the next one, with *)
(* and without --frozen-lockfile, if nothing was edited.  (Workspace       *)
(* packages that are copied are never reused: the check expects links.)    *)
SavedAccepted ==
  (Answered("lockfile") /\ answer.value # Failed /\ query.edit = None
     /\ Ordinary(query)) =>
    /\ answer.frozen
    /\ ~ (query.injected \/ query.config.inject) => answer.reused

(* A lockfile is only taken for up to date by a manifest that asks for the *)
(* same dependencies, with the same specifiers in the same groups.         *)
AcceptedAgrees ==
  (Answered("lockfile") /\ answer.value # Failed /\ answer.frozen /\ Ordinary(query)) =>
    LET entry == answer.value.importers["a"]
    IN  Effective(Edited(query), entry, query.config)
          = Effective(query.manifest, entry, query.config)

(* An install sees whether the lockfile is what it would save: it neither  *)
(* refuses its own work for ever nor installs something else.              *)
AcceptedExactly == SavedAccepted /\ AcceptedAgrees

(* The settings mean something when no file has one that cannot be read    *)
(* and none with a type is set twice, by both files or one.  (If so, all   *)
(* that the home directory's file sets with a type is forgotten.)          *)
Settled(home, current) ==
  LET lines == Npmrcs!Lines(home) \o Npmrcs!Lines(current)
  IN  \A name \in Npmrcs!Typed : \A i, j \in DOMAIN lines :
        (Npmrcs!Sets(lines[i], name) /\ Npmrcs!Sets(lines[j], name)) =>
          i = j /\ Npmrcs!Parsed(name, lines[i].says) # Failed

(* A setting is what its only line says or its default, config get shows   *)
(* what the command goes by, and each importer of a workspace goes by the  *)
(* same; --shamefully-hoist hoists all of them, unless nothing is linked.  *)
SettingsAgree(home, current, config) ==
  LET lines == Npmrcs!Lines(home) \o Npmrcs!Lines(current)
      typed == config.typed
  IN  /\ \A i \in DOMAIN lines : \A name \in {"hoist", "symlink", "registry", "proxy"} :
           Npmrcs!Sets(lines[i], name) =>
             /\ typed[name] = Npmrcs!Parsed(name, lines[i].says)
             /\ Npmrcs!Get(config, lines[i].key) = lines[i].says
      /\ \A name \in {"hoist", "symlink", "registry", "proxy"} :
           (\A i \in DOMAIN lines : ~ Npmrcs!Sets(lines[i], name)) =>
             typed[name] = Npmrcs!Default(name)
      /\ typed["https-proxy"] = None => typed["proxy"] = None
      /\ Npmrcs!ForProject(typed, FALSE) = typed
      /\ "*" \in Npmrcs!ForProject(typed, TRUE)["public-hoist-pattern"] <=> typed["symlink"]

Yields(line, header) ==
  \/ line.key.name = "_authToken" /\ header = <<"Bearer", line.says>>
  \/ line.key.name = "_auth" /\ header = <<"Basic", line.says>>
  \/ line.key.name = "username" /\ Len(header) = 3 /\ header[2] = line.says
  \/ line.key = Npmrcs!For(line.key.for, "tokenHelper") /\ header = <<"", "token">>

(* Of the lines with one key the last one prevails. *)
Prevails(lines, i) == \A j \in DOMAIN lines : lines[j].key = lines[i].key => j <= i

(* A request is sent with the credentials that a file has for its URL, for *)
(* what it begins with, or for all if the URL belongs to the registry, and *)
(* with none that are for something else.  Of lines with one key the last  *)
(* counts, so of two files' that of the current directory; of keys that    *)
(* write one URL differently any one may, the home directory's too.  A     *)
(* token helper for a URL is run when the file of the current directory    *)
(* has it under the usual form of the URL.                                 *)
RequestsAuthorized(home, current, config, urls) ==
  LET mine == Npmrcs!Lines(current)
      lines == Npmrcs!Lines(home) \o mine
      At(url) == {<<>>} \cup {SubSeq(url, 1, n) : n \in DOMAIN url}
      Tokens(at) == {i \in DOMAIN lines :
                       /\ Prevails(lines, i)
                       /\ Npmrcs!Usual(lines[i].key) = Npmrcs!For(at, "_authToken")}
      Helped(at) == \E i \in DOMAIN mine : mine[i].key = Npmrcs!For(at, "tokenHelper")
  IN  \A url \in urls :
        LET header == Npmrcs!HeaderFor(config.headers, url, None) IN
        /\ header # None =>
             \E i \in DOMAIN lines :
               /\ Prevails(lines, i)
               /\ lines[i].key.for \in At(url) /\ Yields(lines[i], header)
               /\ lines[i].key.for = <<>> => config.typed["registry"].at \in At(url)
        /\ Tokens(url) # {} =>
             \/ Helped(url) /\ header = <<"", "token">>
             \/ ~ Helped(url) /\ \E i \in Tokens(url) : header = <<"Bearer", lines[i].says>>
        /\ header = None => \A n \in DOMAIN url : Tokens(SubSeq(url, 1, n)) = {}

(* config set makes get show what was set, delete what the other file has, *)
(* unless it is the home directory's file and the project's has the last   *)
(* word; and no other setting changes, where the files mean something.     *)
SetTakes(q, before, files, after) ==
  LET key == Npmrcs!Normalized(q.do.key)
      covered == q.do.location # "project" /\ key \in DOMAIN Npmrcs!Raw(Npmrcs!Lines(q.current))
      Untyped(raw) == {<<j, raw[j]>> : j \in DOMAIN raw \ {key, Npmrcs!Setting("registry")}}
      alike == {"hoist", "symlink", "registry", "proxy", "noproxy"} \ {key.name}
  IN  /\ q.do.value # None /\ ~ covered => Npmrcs!Get(after, q.do.key) = q.do.value
      /\ covered => Npmrcs!Get(after, q.do.key) = Npmrcs!Get(before, q.do.key)
      /\ Untyped(before.raw) = Untyped(after.raw)
      /\ Settled(q.home, q.current) /\ Settled(files.home, files.current) =>
           \A name \in alike : before.typed[name] = after.typed[name]

SettingsApply ==
  (Answered("config") /\ answer.value # Failed) =>
    LET q == query IN
    /\ Settled(q.home, q.current) => SettingsAgree(q.home, q.current, answer.value)
    /\ RequestsAuthorized(q.home, q.current, answer.value, q.urls)
    /\ q.do # None /\ answer.after # Failed => SetTakes(q, answer.value, answer.files, answer.after)

(* A lockfile that is saved comes back as it was for every later command,  *)
(* and through the hook; what has come back once does not change any more. *)
(* (Not those with a name in two groups with different specifiers or an    *)
(* engine with a comma, which are not read; nor those where a dependency's *)
(* name ends in engines or resolution, or an alias has nested scoped       *)
(* peers, which come back as something else.)                              *)
LoadedAsSaved ==
  Answered("file") =>
    /\ Files!Plain(answer.start) =>
         \A back \in {answer.value, answer.hooked} :
           back # Failed /\ Files!Same(answer.start, back, query.default)
    /\ answer.value # Failed => answer.again = answer.value

(* In whatever order the variants of a package are looked at, an importer  *)
(* gets one that has all that the one it was resolved to has, resolved to  *)
(* the same, and that no other one has all of and more.  (Which one that   *)
(* is depends on the order when two extend it differently.)                *)
VariantsCover ==
  (Answered("variants") /\ answer.left = {}) =>
    Variants!Covers(query.variants, query.at, answer.best)
=============================================================================
