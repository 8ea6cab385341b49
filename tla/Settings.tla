------------------------------ MODULE Settings ------------------------------
(***************************************************************************)
(* The settings of a command: what the .npmrc of the home directory, the   *)
(* .npmrc of the current one and the environment make together, what       *)
(* `config get` shows of it and `config set` changes in it, and what a     *)
(* request to a registry is sent with.                                     *)
(*                                                                         *)
(* A file is a sequence of [key, says]; a key is  a name, the way in which *)
(* it is written, and what it is for: a URL or a scope as a sequence, <<>> *)
(* for all.  The settings a command reads have a type, one of each kind    *)
(* stands for them; the others are only kept as they are written.  A key   *)
(* in its usual form is a name in kebab case, or //url/:name; a URL may    *)
(* also be written without the slash ("bare") or in full ("https").        *)
(***************************************************************************)
EXTENDS Integers, FiniteSetsExt, SequencesExt, Overrides

CONSTANTS Failed, None

Key(for, name, form) == [for |-> for, name |-> name, form |-> form]
Setting(name) == Key(<<>>, name, "usual")
For(for, name) == Key(for, name, "usual")

Flags == {"hoist", "shamefully-hoist", "symlink"}
Patterns == {"hoist-pattern", "public-hoist-pattern"}
Texts == {"proxy", "https-proxy", "http-proxy", "no-proxy", "noproxy"}
Typed == Flags \cup Patterns \cup Texts \cup {"registry"}

(* The names of which the form with underscores is an alias. *)
Aliased == {"https-proxy", "http-proxy", "no-proxy"}

Url(at, slash) == [at |-> at, slash |-> slash]
Npmjs == Url(<<"npmjs">>, TRUE)
Default(name) ==
  CASE name \in {"hoist", "symlink"} -> TRUE
    [] name = "shamefully-hoist" -> FALSE
    [] name = "hoist-pattern" -> {"*"}
    [] name = "public-hoist-pattern" -> {}
    [] name = "registry" -> Npmjs
    [] OTHER -> None

(* The custom deserializers. *)
Parsed(name, value) ==
  CASE name \in Flags -> IF value \in {"true", "false"} THEN value = "true" ELSE Failed
    [] name \in Patterns -> {value}
    [] name = "registry" -> Url(value.at, TRUE)
    [] OTHER -> value

Sets(line, name) ==
  /\ name \in Typed /\ line.key.for = <<>> /\ line.key.name = name
  /\ line.key.form = "usual" \/ (line.key.form = "snake" /\ name \in Aliased)

Setters(lines, name) == {i \in DOMAIN lines : Sets(lines[i], name)}

(* serde_ini::from_str: a setting that occurs twice is an error. *)
Value(lines, name) ==
  IF Setters(lines, name) = {} THEN Default(name)
  ELSE Parsed(name, lines[CHOOSE i \in Setters(lines, name) : TRUE].says)
Parses(lines) ==
  \A name \in Typed : Value(lines, name) # Failed /\ Cardinality(Setters(lines, name)) <= 1
Parse(lines) == [name \in Typed |-> Value(lines, name)]

(* parse_raw_npmrc: the last one counts. *)
Raw(lines) ==
  [key \in {lines[i].key : i \in DOMAIN lines} |->
     lines[Max({i \in DOMAIN lines : lines[i].key = key})].says]

Lines(file) == IF file = None THEN <<>> ELSE file

(* Npmrc::current: the settings with a type, and those as they are written *)
Read(home, current) ==
  LET contents == IF home # None /\ current # None THEN <<home \o current, current, home>>
                  ELSE IF current # None THEN <<current>>
                  ELSE IF home # None THEN <<home>> ELSE <<>>
      good == {i \in DOMAIN contents : Parses(contents[i])}
  IN  Parse(IF good = {} THEN <<>> ELSE contents[Min(good)])

Written(home, current, registry) ==
  LET raw == Raw(Lines(home) \o Lines(current))
  IN  IF Setting("registry") \in DOMAIN raw THEN raw
      ELSE Over(raw, [key \in {Setting("registry")} |-> registry])

(* apply_derived_settings *)
Derived(c) ==
  LET public == IF c["shamefully-hoist"] THEN {"*"}
                ELSE c["public-hoist-pattern"] \ {""}
  IN  [c EXCEPT !["hoist-pattern"] = IF c["hoist"] /\ c["symlink"] THEN @ ELSE {},
                !["public-hoist-pattern"] = IF c["symlink"] THEN public ELSE {}]

(* config_for_project, for each importer and command line. *)
ForProject(c, shamefully) ==
  Derived(IF shamefully THEN [c EXCEPT !["shamefully-hoist"] = TRUE, !["hoist"] = TRUE] ELSE c)

First(values) ==
  LET given == {i \in DOMAIN values : values[i] # None}
  IN  IF given = {} THEN None ELSE values[Min(given)]

(* recompute_request_settings *)
Proxies(c, env) ==
  LET https == First(<<c["https-proxy"], c["proxy"], env.https_proxy>>)
  IN  [c EXCEPT !["https-proxy"] = https,
                !["http-proxy"] = First(<<@, https, env.http_proxy, env.proxy>>),
                !["no-proxy"] = First(<<@, c["noproxy"], env.no_proxy>>)]
-----------------------------------------------------------------------------
(* normalize_auth_key_uri *)
Usual(key) == IF key.for = <<>> THEN key ELSE [key EXCEPT !.form = "usual"]

(* Mutant of Fields: only keys in their usual form are found. *)
FieldsAsWritten(raw) == {raw}

(* auth_by_uri: keys that write a URL differently are one here, and any of *)
(* them has the last word, in the order of a hash map.                     *)
Fields(raw) ==
  LET usual == {Usual(k) : k \in DOMAIN raw}
  IN  {[key \in usual |-> raw[CHOOSE k \in last : Usual(k) = key]] :
         last \in {W \in SUBSET DOMAIN raw : {Usual(k) : k \in W} = usual}}

(* auth_headers_from_settings: the header for one URL, <<>> for all.  A    *)
(* token helper is run; it is looked up under the usual form of the URL.   *)
HeaderAt(fields, user, at) ==
  LET Has(name) == For(at, name) \in DOMAIN fields
      password == fields[For(at, "_password")]
  IN  IF For(at, "tokenHelper") \in DOMAIN user
      THEN IF user[For(at, "tokenHelper")] = "runs" THEN <<"", "token">> ELSE Failed
      ELSE IF Has("_authToken") THEN <<"Bearer", fields[For(at, "_authToken")]>>
      ELSE IF Has("_auth") THEN <<"Basic", fields[For(at, "_auth")]>>
      ELSE IF Has("username") /\ Has("_password") /\ (at = <<>> \/ password.encoded)
      THEN <<"Basic", fields[For(at, "username")],
             IF at = <<>> THEN password ELSE password.text>>
      ELSE None

(* All headers by URL; what is for all is for the default registry. *)
Headers(fields, user, registry) ==
  LET urls == {k.for : k \in {k \in DOMAIN fields : k.for # <<>> /\ k.name # "registry"}}
      own == [u \in {u \in urls : HeaderAt(fields, user, u) # None} |->
                HeaderAt(fields, user, u)]
      global == HeaderAt(fields, user, <<>>)
      all == IF registry.at \in DOMAIN own \/ global = None THEN own
             ELSE Over(own, [at \in {registry.at} |-> global])
  IN  IF \E u \in DOMAIN all : all[u] = Failed THEN Failed ELSE all

(* auth_header_for_url: of the longest prefix, down to the host. *)
HeaderFor(headers, url, credentials) ==
  LET lengths == {n \in 1 .. Len(url) : SubSeq(url, 1, n) \in DOMAIN headers}
  IN  IF credentials # None THEN <<"Basic", credentials>>
      ELSE IF lengths = {} THEN None ELSE headers[SubSeq(url, 1, Max(lengths))]

(* registry_for_package_name *)
RegistryFor(config, scope) ==
  LET key == For(scope, "registry")
  IN  IF scope # <<>> /\ key \in DOMAIN config.raw THEN Url(config.raw[key].at, TRUE)
      ELSE config.typed["registry"]

(* ssl_configs_from_settings, of both files: the certificate for a URL,    *)
(* however its keys write it; what a file is named for is looked for where *)
(* the setting is written, and none when there is no such file.            *)
Certificate(file, at) ==
  LET raw == Raw(Lines(file))
      Of(name) == {raw[k] : k \in {k \in DOMAIN raw : Usual(k) = For(at, name)}}
  IN  Of("ca") \cup {IF name = "missing" THEN None ELSE name : name \in Of("cafile")}

(* Several settings of one URL are read in the order of a hash map: the    *)
(* certificate is any of these.                                            *)
Certificates(home, current, at) ==
  LET mine == Certificate(current, at)
      his == IF Certificate(home, at) = {} THEN {None} ELSE Certificate(home, at)
  IN  IF mine = {} THEN his ELSE (mine \ {None}) \cup (IF None \in mine THEN his ELSE {})

(* Everything that a command starts with, or Failed, for any order. *)
Loads(home, current, env) ==
  LET typed == Derived(Read(home, current))
      raw == Written(home, current, typed["registry"])
      proxied == Proxies(typed, env)
      Load(headers) == IF headers = Failed THEN Failed
                       ELSE [typed |-> proxied, raw |-> raw, headers |-> headers]
  IN  {Load(Headers(fields, Raw(Lines(current)), typed["registry"])) : fields \in Fields(raw)}
-----------------------------------------------------------------------------
(* normalize_config_key: camel case becomes kebab case. *)
Normalized(key) ==
  IF key.for = <<>> /\ key.form = "camel" THEN [key EXCEPT !.form = "usual"] ELSE key

(* config get *)
Get(config, key) ==
  IF Normalized(key) \in DOMAIN config.raw THEN config.raw[Normalized(key)] ELSE ""

(* set_config_value: the file is written anew, without comments, or is     *)
(* removed with its last setting; value is None for config delete.         *)
SetValue(file, key, value) ==
  LET raw == Raw(Lines(file))
      k == Normalized(key)
      rest == {[key |-> j, says |-> raw[j]] : j \in DOMAIN raw \ {k}}
      all == rest \cup (IF value = None THEN {} ELSE {[key |-> k, says |-> value]})
  IN  IF all = {} THEN None ELSE SetToSeq(all)

(* The two files after config set or delete: without --location the one of *)
(* the home directory.  Nothing is done when the settings did not load.    *)
Changed(q, loaded) ==
  IF q.do = None \/ loaded = Failed
  THEN [home |-> q.home, current |-> q.current]
  ELSE IF q.do.location = "project"
       THEN [home |-> q.home, current |-> SetValue(q.current, q.do.key, q.do.value)]
       ELSE [home |-> SetValue(q.home, q.do.key, q.do.value), current |-> q.current]
=============================================================================
