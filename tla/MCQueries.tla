------------------------------ MODULE MCQueries -----------------------------
(* Small inputs for every question of Queries. *)
EXTENDS Queries, TLC

v100 == <<1, 0, 0>>
v101 == <<1, 0, 1>>
v110 == <<1, 1, 0>>
v200 == <<2, 0, 0>>
MCVersions == {v100, v101, v110, v200}
MCLater == {<<1, 9, 9>>, <<1, 0, 9>>, <<2, 9, 9>>, <<3, 0, 0>>}

Package(versions, latest, deprecated) ==
  [versions |-> versions, latest |-> latest, deprecated |-> deprecated]
AllPackages ==
  UNION {{Package(vs, l, d) : l \in vs \cup {NoVersion}, d \in SUBSET vs} :
           vs \in SUBSET MCVersions \ {{}}}
SomePackages ==
  {p \in AllPackages : /\ p.versions \in {{v100}, {v100, v110}, {v101, v110, v200}}
                       /\ p.deprecated \in {{}, {v110}}}

Ranges == {Plain("*", NoVersion), Plain("latest", NoVersion)}
            \cup {Plain(op, v) : op \in {"^", "~", "=", ">=", "x", "m.x"}, v \in MCVersions}

MCResolveQueries ==
  <<[on : {"resolve"}, spec : Ranges, preferred : {{}}, cached : {Failed},
     fetched : AllPackages, preferOffline : {FALSE}, offline : {FALSE}],
    [on : {"resolve"}, spec : Ranges, preferred : {{}, {v100, v200}},
     cached : SomePackages \cup {Failed}, fetched : SomePackages \cup {Failed},
     preferOffline : BOOLEAN, offline : BOOLEAN]>>

NoWorkspace == [n \in {} |-> {}]
Workspace(version) == "x" :> [dir |-> "packages/x", version |-> version]

Requests ==
  {NoSpec, Plain("latest", NoVersion), Plain("*", NoVersion), Link("lib"), File("lib"),
   Specifier("git", "none", NoVersion, "repo")}
  \cup {Plain(op, v) : op \in {"^", "~", "=", "x"}, v \in {v100, v200}}
  \cup {Specifier("npm", op, v100, "y") : op \in {"^", "=", "latest", "none"}}
  \cup {Specifier("workspace", op, v200, NoName) :
          op \in {"*", "bare ^", "bare ~", "^", "~", "=", "x"}}
  \cup {Specifier("workspace", "path", NoVersion, "packages/x"),
        Specifier("workspace", "^", v100, "y")}

MCAddQueries ==
  <<[on : {"add"}, name : {"x"}, request : Requests,
     config : [save : {"rolling", "true", "false"}, linkWorkspace : BOOLEAN,
               saveExact : BOOLEAN, workspaceOnly : BOOLEAN],
     workspace : {NoWorkspace, Workspace(v100)}, dirs : {{}, {"lib"}, {"x"}},
     existing : {NoSpec, Plain("^", v100), File("lib")},
     package : {Package({v100, v200}, v200, {}), Package({v200}, NoVersion, {})}]>>

MCUpdateQueries ==
  <<[on : {"update"}, name : {"x"}, spec : Ranges, explicit : {NoSpec}, latest : BOOLEAN,
     config : [save : {"rolling"}, saveExact : BOOLEAN], workspace : {NoWorkspace},
     package : AllPackages],
    [on : {"update"}, name : {"x"},
     spec : Requests \cup {Specifier("catalog", "none", NoVersion, "default")},
     explicit : {NoSpec, Plain("^", v200)}, latest : BOOLEAN,
     config : [save : {"rolling", "true"}, saveExact : {FALSE}],
     workspace : {NoWorkspace, Workspace(v100)},
     package : {Package({v100, v110}, v110, {})}]>>

Manifest(prod, dev, optional, peer) ==
  [prod |-> prod, dev |-> dev, optional |-> optional, peer |-> peer,
   meta |-> None, publishDir |-> None]

Catalog == Specifier("catalog", "none", NoVersion, "default")
Specs == {Plain("^", v100), Plain("=", v200), Link("lib"), Catalog,
          Specifier("workspace", "bare ^", NoVersion, NoName)}

(* x in up to two groups; y beside it, or as a peer. *)
OfX == {NoDeps} \cup {"x" :> s : s \in Specs}
OfY == {NoDeps, "y" :> Plain("^", v100)}
MCManifests ==
  {Manifest(p @@ y, d, NoDeps, NoDeps) : p \in OfX, d \in OfX, y \in OfY}
  \cup {Manifest(p, y, o, NoDeps) : p \in OfX, o \in OfX, y \in OfY}
  \cup {Manifest(p, NoDeps, NoDeps, y) : p \in OfX, y \in OfY}

MCConfig(auto, exclude, link, inject, overrides, catalogs, ignored) ==
  [autoInstallPeers |-> auto, excludeLinks |-> exclude, linkWorkspace |-> link,
   inject |-> inject, overrides |-> overrides, catalogs |-> catalogs, ignored |-> ignored,
   peersSuffix |-> 1000, extensions |-> None, pnpmfile |-> None, patched |-> None]

Catalogs == <<"default", "x">> :> Plain("^", v100)
Default == MCConfig(TRUE, FALSE, FALSE, FALSE, NoDeps, Catalogs, None)
Configs ==
  {MCConfig(TRUE, exclude, link, FALSE, o, c, None) :
     exclude \in BOOLEAN, link \in BOOLEAN,
     o \in {NoDeps, "x" :> Plain("=", v200)}, c \in {NoDeps, Catalogs}}
  \cup {MCConfig(FALSE, FALSE, FALSE, TRUE, NoDeps, Catalogs, <<"x">>)}

LockfileQueries(edits, hooks, configs) ==
  [on : {"lockfile"}, manifest : MCManifests, edit : edits, hook : hooks,
   config : configs, existing : {None}, injected : {FALSE},
   workspace : {Workspace(v100)},
   packages : {[n \in {"x", "y"} |-> Package({v100, v110, v200}, v200, {})]}]

(* The same manifest again; a hook that changes it; every edit. *)
MCLockfileQueries ==
  <<LockfileQueries({None}, {None}, Configs),
    LockfileQueries({None}, {Manifest("x" :> Plain("=", v200), NoDeps, NoDeps, NoDeps)},
                    {Default}),
    LockfileQueries(MCManifests, {None}, {Default, [Default EXCEPT !.excludeLinks = TRUE]})>>

(* Two projects and three packages, one of which two references name with  *)
(* different peers, in every graph of dependencies.                        *)
P == Reports!Package("p", 1, "")
Q == Reports!Package("q", 1, "p@1")
R == Reports!Package("r", 1, "")
OtherQ == Reports!Package("q", 1, "")
Alias(ref) == IF Reports!IsLink(ref) THEN "member" ELSE IF ref = R THEN "alias" ELSE ref.name
To(refs) == [a \in {Alias(ref) : ref \in refs} |-> CHOOSE ref \in refs : Alias(ref) = a]
Snapshot(refs, optional) == [deps |-> To(refs), optional |-> To(optional)]
Lockfiles ==
  {[importers |-> "root" :> root @@ "member" :> [prod |-> To(member)],
    packages |-> P :> Snapshot(p, o) @@ Q :> Snapshot(q, {}) @@ R :> Snapshot(r, {})] :
     root \in {[prod |-> To(prod), dev |-> To(dev)] :
                 prod \in {{P}, {OtherQ}, {P, OtherQ}}, dev \in {{}, {R}, {Reports!Importer("member")}}},
     member \in {{}, {Q}, {P, R, Reports!Importer("root")}},
     p \in SUBSET {Q, R}, o \in {{}, {Q}, {R}}, q \in SUBSET {P, R}, r \in SUBSET {P, Q}}
MCReportQueries ==
  <<[on : {"report"}, lockfile : Lockfiles, include : {{"prod", "dev"}, {"prod", "optional"}},
     manifest : {[prod |-> To({P}), optional |-> To({R})]}, depth : {0, 9},
     asked : {{"q"}, {"alias", "p"}}]>>

(* Three projects that lead to each other and to a package, linked, or     *)
(* copied as injected ones are, and deployed to several targets.           *)
Projects == {".", "a", "b"}
Root == <<"w">>
DirOf == "." :> Root @@ "a" :> <<"w", "a">> @@ "b" :> <<"w", "lib", "b">>
NameOf == "." :> "root" @@ "a" :> "x" @@ "b" :> "y"
LinkFrom(i, j) == Deploys!Reference("link", Deploys!RelativePath(DirOf[i], DirOf[j]))
FileTo(j) == Deploys!Reference("file", Deploys!RelativePath(Root, DirOf[j]))
DepsFrom(i, js, injected) ==
  [n \in {IF j = "p" THEN "p" ELSE NameOf[j] : j \in js} |->
     IF n = "p" THEN Deploys!Registry
     ELSE LET j == CHOOSE k \in Projects : NameOf[k] = n
          IN  IF j \in injected THEN FileTo(j) ELSE LinkFrom(i, j)]
ImporterOf(i, prod, optional, dev, injected) ==
  [dir |-> DirOf[i], name |-> NameOf[i], prod |-> DepsFrom(i, prod, injected),
   optional |-> DepsFrom(i, optional, injected), dev |-> DepsFrom(i, dev, injected)]
PackagesOf(prod, injected) ==
  [k \in {Deploys!Key(NameOf[j], FileTo(j)) : j \in injected} |->
     LET j == CHOOSE i \in injected : NameOf[i] = k.name
     IN  [dir |-> FileTo(j).path, deps |-> DepsFrom(".", prod[j], injected),
          optional |-> NoDeps]]
  @@ (Deploys!Key("p", Deploys!Registry) :> [dir |-> <<>>, deps |-> NoDeps, optional |-> NoDeps])

World(prod, optional, injected, filters, target) ==
  [on |-> "deploy", workspace |-> TRUE, root |-> Root, at |-> ".", filters |-> filters,
   importers |->
     [i \in Projects |-> ImporterOf(i, prod[i], IF i = "a" THEN optional ELSE {},
                                    IF i = "a" THEN {"p"} \ prod[i] ELSE {}, injected)],
   packages |-> PackagesOf(prod, injected), patched |-> "p" :> <<"patches", "p.patch">>,
   listed |-> Projects, lockfile |-> TRUE, protocol |-> FALSE, occupied |-> FALSE,
   force |-> FALSE, target |-> target]

Targets == {<<"out">>, <<"w", "out">>, <<"w", "a", "..", "out">>, <<"w", "lib", "..", "out">>,
            <<"w", "a", "dist">>}
DeployWorlds ==
  {World("." :> {"a"} @@ "a" :> a @@ "b" :> b, optional \ a, injected, {"x"}, target) :
     a \in SUBSET {".", "b", "p"}, b \in SUBSET {".", "a", "p"}, optional \in {{}, {"b"}},
     injected \in SUBSET {"a", "b"}, target \in Targets}
PlainWorld == World("." :> {} @@ "a" :> {"b"} @@ "b" :> {"p"}, {}, {}, {"x"}, <<"out">>)
AnyWorlds ==
  {[PlainWorld EXCEPT !.filters = filters, !.at = at, !.workspace = workspace,
                      !.listed = listed, !.lockfile = lockfile, !.protocol = protocol,
                      !.occupied = occupied, !.force = force, !.target = target] :
     filters \in {{}, {""}, {"."}, {"x", "a"}, {"x", "y"}, {"root"}, {"b"}, {"q"}},
     at \in {".", "a"}, workspace \in BOOLEAN, listed \in {Projects, {"a"}},
     lockfile \in BOOLEAN, protocol \in BOOLEAN, occupied \in BOOLEAN,
     force \in BOOLEAN, target \in {<<"out">>, Root, <<"w", "a", "dist">>}}
RefusedWorlds == {w \in AnyWorlds : w.target = Root => w.occupied}

(* Lockfiles with two importers, two variants of a package and a local one. *)
DepOf(spec) == [spec |-> spec, to |-> "1.0.0"]
GroupsOfX ==
  {<<NoDeps, NoDeps, NoDeps>>, <<"x" :> DepOf("^1"), NoDeps, "x" :> DepOf("^1")>>,
   <<"x" :> DepOf("^1"), "x" :> DepOf("~1"), NoDeps>>, <<NoDeps, NoDeps, "y" :> DepOf("file:y")>>,
   <<NoDeps, "check-engines" :> DepOf("*"), NoDeps>>}
FileImporter(gs) ==
  LET bare == [prod |-> gs[1], optional |-> gs[2], dev |-> gs[3]]
      all == gs[1] @@ gs[2] @@ gs[3]
  IN  bare @@ [specifiers |-> [n \in DOMAIN all |-> all[n].spec]]
FileKeys(registry) ==
  {Files!Key(registry, "x", "1.0.0", "none", FALSE), Files!Key(registry, "x", "1.0.0", "flat", FALSE),
   Files!Key(None, "y", "file:y", "flat", TRUE)}
FileDeps ==
  {NoDeps} \cup {"x" :> Files!Dep(kind, "x", "1.0.0", peers) :
                  kind \in {"version", "alias", "path"},
                  peers \in {"none", "flat", "scoped nested"}}
FileSettings ==
  {None} \cup [autoInstallPeers : {TRUE, None}, excludeLinks : {TRUE, None},
               peersSuffix : {1000, 10, None}, inject : {TRUE, FALSE, None},
               dedupePeers : {FALSE, None}]
FileRests == [overrides : {None, "o"}, catalogs : {None, "c"}, patched : {"p"}]
FileOf(importers, settings, rest, keys, info, deps) ==
  [version |-> 9, single |-> FALSE, settings |-> settings, neverBuilt |-> None, rest |-> rest,
   importers |-> importers,
   packages |-> [k \in keys |-> [info |-> IF k.local THEN "local" ELSE info, deps |-> deps]]]
MCFileQueries ==
  <<[on : {"file"}, from : {9}, default : [autoInstallPeers : BOOLEAN, excludeLinks : {FALSE},
       peersSuffix : {1000}, inject : {FALSE}, dedupePeers : {FALSE}],
     lockfile : {FileOf(importers, None, [overrides |-> None, catalogs |-> "c", patched |-> None],
                        keys, info, deps) :
                   importers \in {"." :> FileImporter(gs) : gs \in GroupsOfX}
                     \cup {"." :> FileImporter(gs) @@ "a" :> FileImporter(hs) :
                             gs \in GroupsOfX, hs \in GroupsOfX},
                   keys \in SUBSET FileKeys(None) \cup SUBSET FileKeys("registry"),
                   info \in {"info", "4.x, 5.x"}, deps \in FileDeps}],
    [on : {"file"}, from : {6, 9}, default : [autoInstallPeers : BOOLEAN, excludeLinks : {FALSE},
       peersSuffix : {1000}, inject : {FALSE}, dedupePeers : {FALSE}],
     lockfile : {FileOf("." :> FileImporter(<<NoDeps, NoDeps, NoDeps>>), settings, rest,
                        FileKeys(None), "info", NoDeps) :
                   settings \in FileSettings, rest \in FileRests}]>>

Line(for, name, form, value) ==
  [key |-> [for |-> for, name |-> name, form |-> form], says |-> value]
TypedLines ==
  {Line(<<>>, "hoist", "usual", "false"), Line(<<>>, "hoist", "usual", "no"),
   Line(<<>>, "symlink", "usual", "false"), Line(<<>>, "shamefully-hoist", "usual", "true"),
   Line(<<>>, "public-hoist-pattern", "usual", ""), Line(<<>>, "https-proxy", "snake", "p1"),
   Line(<<>>, "proxy", "usual", "p2"),
   Line(<<>>, "registry", "usual", [at |-> <<"r">>, slash |-> FALSE])}
AuthLines ==
  {Line(<<>>, "_authToken", "usual", "t1"), Line(<<"r", "a">>, "_authToken", "bare", "t2"),
   Line(<<"r">>, "_authToken", "usual", "t3"), Line(<<"r">>, "_authToken", "bare", "t6"),
   Line(<<"r">>, "_authToken", "https", "t7"), Line(<<"r">>, "_authToken", "usual", "t8"),
   Line(<<"r">>, "_auth", "usual", "t4"),
   Line(<<"r">>, "tokenHelper", "usual", "runs"), Line(<<"r">>, "tokenHelper", "bare", "runs"),
   Line(<<>>, "tokenHelper", "usual", "fails"),
   Line(<<"r">>, "username", "usual", "u"),
   Line(<<"r">>, "_password", "usual", [text |-> "pw", encoded |-> TRUE]),
   Line(<<>>, "registry", "usual", [at |-> <<"r">>, slash |-> TRUE])}
ConfigFiles(lines) ==
  {None} \cup {Npmrcs!SetToSeq(s) : s \in {s \in SUBSET lines : Cardinality(s) \in {1, 2}}}
            \cup {<<l, l>> : l \in {l \in lines : l.key.name = "hoist"}}
Do(location, key, value) == [location |-> location, key |-> key, value |-> value]
Commands ==
  {None} \cup {Do(at, l.key, l.says) : at \in {"project", "global"},
                 l \in {l \in TypedLines : l.key.name \in {"hoist", "https-proxy"}}}
         \cup {Do(at, [for |-> <<>>, name |-> "hoist", form |-> f], None) :
                 at \in {"project", "global"}, f \in {"usual", "camel"}}
MCConfigQueries ==
  LET NoEnv == [https_proxy |-> None, http_proxy |-> None, proxy |-> None, no_proxy |-> None]
  IN  <<[on : {"config"}, home : ConfigFiles(TypedLines), current : ConfigFiles(TypedLines),
         env : {NoEnv}, do : Commands, urls : {{}}],
        [on : {"config"}, home : ConfigFiles(TypedLines), current : {None},
         env : {[NoEnv EXCEPT !.https_proxy = "p3", !.proxy = "p4"]}, do : {None}, urls : {{}}],
        [on : {"config"}, home : ConfigFiles(AuthLines), current : ConfigFiles(AuthLines),
         env : {NoEnv},
         do : {None, Do("project", [for |-> <<"r">>, name |-> "_authToken", form |-> "usual"], "t5")},
         urls : {{<<"r">>, <<"r", "a">>, <<"r", "b">>, <<"npmjs">>, <<"x">>}}]>>

Spec1(proto, to) == [proto |-> proto, to |-> to]
PackageOf(name, deps, peers) == [name |-> name, deps |-> deps, peers |-> peers]
OnX == {NoDeps, "x" :> Spec1("file", "x"), "x" :> Spec1("workspace", "x")}
OnY == {"y" :> Spec1("file", "y"), "y" :> Spec1("workspace", "y")}
LocalVersions == "x" :> [dir |-> "x", version |-> "1"] @@ "y" :> [dir |-> "y", version |-> "1"]
LocalConfig(link, inject, dedupe, autoPeers, disableRelink) ==
  [link |-> link, inject |-> inject, dedupe |-> dedupe, autoPeers |-> autoPeers,
   disableRelink |-> disableRelink, lockfileOnly |-> FALSE]
LocalWorld(app, x, y, config) ==
  [on |-> "local", at |-> "app", config |-> config,
   dirs |-> "app" :> PackageOf("app", app, NoDeps) @@ "x" :> x @@ "y" :> y,
   overrides |-> NoDeps, workspace |-> LocalVersions, injected |-> {"x", "y"}, present |-> {},
   missing |-> {<<"r", "9">>}, entries |-> NoDeps, registry |-> NoDeps, catalogs |-> NoDeps]

(* Cycles, diamonds and peers. *)
LocalWorlds ==
  {LocalWorld(app, PackageOf(xname, xdeps, xpeers), PackageOf("y", ydeps, ypeers),
              LocalConfig("deep", FALSE, FALSE, auto, FALSE)) :
     app \in {"x" :> Spec1("file", "x"),
              "x" :> Spec1("workspace", "x") @@ "y" :> Spec1("file", "y"),
              "x" :> Spec1("registry", "1") @@ "p" :> Spec1("registry", "2")},
     xname \in {"x", None},
     xdeps \in {d @@ r : d \in OnY, r \in {NoDeps, "r" :> Spec1("registry", "1"),
                                          "r" :> Spec1("registry", "9")}},
     ydeps \in {d @@ r : d \in OnX, r \in {NoDeps, "r" :> Spec1("registry", "1")}},
     xpeers \in {NoDeps, "p" :> Spec1("registry", "1")},
     ypeers \in {NoDeps, "p" :> Spec1("file", "x")},
     auto \in BOOLEAN}

(* Copies that are deduplicated, kept or overridden. *)
DedupedWorlds ==
  {[LocalWorld("x" :> Spec1("workspace", "x") @@ "y" :> Spec1("workspace", "y"),
               PackageOf("x", xdeps, NoDeps), PackageOf("y", ydeps, NoDeps),
               LocalConfig(link, inject, TRUE, FALSE, relink))
      EXCEPT !.entries = "x" :> ex @@ "y" :> ey, !.present = present, !.overrides = overrides] :
     xdeps \in {NoDeps} \cup OnY, ydeps \in {NoDeps, "r" :> Spec1("registry", "1")},
     link \in {"false", "direct"}, inject \in BOOLEAN, relink \in BOOLEAN,
     ex \in {NoDeps, "y" :> Locals!Link("y", "own")},
     ey \in {NoDeps, "r" :> Locals!Version("1"), "r" :> Locals!Version("2")},
     present \in {{}, {"x"}},
     overrides \in {NoDeps, "y" :> Spec1("link", "y"), "r" :> Spec1("registry", "2")}}

(* Registry packages that directories and the importer share. *)
SharedWorlds ==
  {[LocalWorld("x" :> Spec1("file", "x") @@ "a" :> Spec1("registry", "1"),
               PackageOf("x", "a" :> Spec1("registry", "1") @@ deps, NoDeps),
               PackageOf("y", "r" :> Spec1("registry", "1"), NoDeps),
               LocalConfig("deep", FALSE, FALSE, FALSE, FALSE))
      EXCEPT !.registry = <<"a", "1">> :> ("r" :> Spec1("registry", version) @@ back)
                            @@ <<"r", "1">> :> ("a" :> Spec1("registry", "1")),
             !.overrides = overrides, !.config.lockfileOnly = only,
             !.catalogs = catalogs] :
     deps \in {NoDeps} \cup OnY, version \in {"1", "9"},
     back \in {NoDeps, "y" :> Spec1("registry", "1")}, only \in BOOLEAN,
     overrides \in {NoDeps, "r" :> Spec1("catalog", "c")}, catalogs \in {NoDeps, "c" :> "1"}}

Variant == [deps : {NoDeps, "d" :> "1", "d" :> "2", "e" :> "1", "d" :> "1" @@ "e" :> "1"},
            peers : SUBSET {"p", "q"}]
VariantWorlds ==
  [on : {"variants"}, variants : [1..3 -> Variant], at : {1, 2}]

(* The project r and its member m: what a script says, and the ones around *)
(* it.                                                                     *)
W(text) == Programs!Word(<<text>>)
Name(text) == <<text>>
Pre(name) == <<"pre", name>>
X == W("x")
Y == W("y")
SetA == Programs!Word(<<"A", "=", "1">>)
Run == <<W("pnpm"), W("run")>>
ScriptLines ==
  {<<X, W("a")>>, <<SetA, X, Programs!And, Y, SetA>>, <<X, Programs!And, SetA, Programs!And, Y>>,
   Run \o <<W("test"), W("b")>>, Run \o <<W("test"), W("--")>>,
   <<X, Programs!And>> \o Run \o <<W("test"), Programs!And, Y>>,
   <<SetA>> \o Run \o <<W("test")>>, <<W("pnpm"), W("-C"), W("m"), W("run"), W("build")>>,
   <<W("pnpm"), W("test"), W("b")>>, Run \o <<Programs!Word(Pre("build"))>>,
   Run \o <<W("test"), Programs!And, Y>>, Run \o <<W("--if-present"), W("test")>>}
ScriptWorlds ==
  {[scripts |-> "r" :> (Name("build") :> build @@ Name("test") :> test
                          @@ Name("stop") :> <<X>> @@ Name("restart") :> test @@ around)
                @@ "m" :> (Name("build") :> member),
    parent |-> "r" :> None @@ "m" :> "r", root |-> "r", serverJs |-> {"r"},
    dirs |-> "r" :> (Name("m") :> "m") @@ "m" :> (Name("..") :> "r"),
    bins |-> "r" :> {Name("x"), Name("y")} @@ "m" :> {Name("x")},
    fails |-> fails, prePost |-> prePost, emulator |-> emulator] :
     build \in ScriptLines, test \in {<<X>>, <<Y, W("c")>>, Run \o <<W("build")>>},
     member \in {<<X, Programs!And, Y>>, <<W("pnpm"), W("-C"), W(".."), W("run"), W("test")>>},
     around \in {<<>>, Pre("build") :> <<Y>>,
                 Pre("build") :> <<X>> @@ <<"post", "build">> :> Run \o <<W("test")>>},
     fails \in {{}, {Name("x")}, {Name("y")}}, prePost \in BOOLEAN, emulator \in BOOLEAN}
CommandLines ==
  {<<Name("run"), Name("build")>>, <<Name("build"), Name("--"), Name("d")>>,
   <<Name("-C"), Name("m"), Name("run"), Name("build"), Name("d")>>, <<Name("t"), Name("d")>>,
   <<Name("restart"), Name("--if-present"), Name("d")>>, <<Name("start")>>,
   <<Name("run"), Name("--if-present"), Name("none")>>,
   <<Name("exec"), Name("pnpm"), Name("run"), Name("build")>>}
MCScriptQueries ==
  <<[on : {"scripts"}, world : ScriptWorlds, at : {"r"}, args : CommandLines, depth : {4}],
    [on : {"scripts"}, at : {"m"}, depth : {4},
     world : {w \in ScriptWorlds : w.fails = {} /\ w.prePost /\ w.emulator},
     args : {<<Name("-w"), Name("build")>>, <<Name("-C"), Name(".."), Name("exec"), Name("x")>>,
             <<Name("build")>>, <<Name("--stream"), Name("run"), Name("build")>>,
             <<Name("run"), Name("-r"), Name("build")>>, <<Name("none")>>}]>>

MCQuestions ==
  MCResolveQueries \o MCAddQueries \o MCUpdateQueries \o MCLockfileQueries \o MCReportQueries
    \o <<DeployWorlds, RefusedWorlds>> \o MCFileQueries \o MCConfigQueries \o <<LocalWorlds, DedupedWorlds, SharedWorlds, VariantWorlds>>
    \o MCScriptQueries
=============================================================================
