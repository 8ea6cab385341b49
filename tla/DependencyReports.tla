-------------------------- MODULE DependencyReports -------------------------
(***************************************************************************)
(* What list and why say of a lockfile.  list follows the dependencies of  *)
(* one project downwards; why --json and --parseable prune that tree to    *)
(* what was asked for; why turns the dependencies around and walks from a  *)
(* package up to the projects, expanding every dependent once.             *)
(*                                                                         *)
(* A lockfile is [importers, packages]: the groups of each project, and    *)
(* the dependencies and optional dependencies of each package.  What is    *)
(* called x@1 here stands for a name with its version and peers.           *)
(***************************************************************************)
EXTENDS Integers, Sequences, SequencesExt, FiniteSets, FiniteSetsExt, Functions

CONSTANT Missing  \* no package of the lockfile

Package(name, version, peers) ==
  [kind |-> "package", name |-> name, version |-> version, peers |-> peers]
Importer(id) == [kind |-> "importer", id |-> id]
Root == Importer("root")

Groups == {"prod", "dev", "optional"}

IsLink(ref) == ref.kind = "importer"

(* find_package_snapshot, PackageLookups::resolve: the package a reference *)
(* names, or else one that differs in its peers.                           *)
Find(lockfile, ref) ==
  LET alike == {k \in DOMAIN lockfile.packages : k.name = ref.name /\ k.version = ref.version}
  IN  CASE ref \in alike -> ref
        [] ref \notin alike /\ alike # {} -> CHOOSE k \in alike : TRUE
        [] OTHER -> Missing
-----------------------------------------------------------------------------
(* list.  A tree is a function from the aliases of the dependencies to     *)
(* [ref, nested], where nested is again a tree.                            *)
NoTree == [a \in {} |-> {}]
Leaf(ref) == [ref |-> ref, nested |-> NoTree]

SnapshotDependencies(lockfile, package, include) ==
  LET snapshot == lockfile.packages[package]
  IN  snapshot.deps @@ IF "optional" \in include THEN snapshot.optional ELSE NoTree

(* resolved_dependency_to_json, snapshot_dependency_to_json: a package on  *)
(* its own trail is listed, but not expanded again.                        *)
RECURSIVE Listed(_, _, _, _, _)
Listed(lockfile, ref, depth, trail, include) ==
  IF depth <= 0 \/ IsLink(ref) \/ ref \in trail THEN Leaf(ref)
  ELSE LET package == Find(lockfile, ref)
           deps == SnapshotDependencies(lockfile, package, include)
       IN  IF package = Missing THEN Leaf(ref)
           ELSE [ref |-> ref,
                 nested |-> [a \in DOMAIN deps |->
                               Listed(lockfile, deps[a], depth - 1, trail \cup {ref}, include)]]

(* build_root_json, group_to_json: a group that the lockfile lacks is      *)
(* listed as package.json has it.                                          *)
List(lockfile, manifest, id, include, depth) ==
  IF depth < 0 THEN NoTree
  ELSE LET entry == lockfile.importers[id]
       IN  [g \in include \cap (DOMAIN entry \cup DOMAIN manifest) |->
              IF g \in DOMAIN entry
              THEN [a \in DOMAIN entry[g] |-> Listed(lockfile, entry[g][a], depth, {}, include)]
              ELSE [a \in DOMAIN manifest[g] |-> Leaf(manifest[g][a])]]

(* flatten_parseable_group: every directory once. *)
RECURSIVE Flattened(_)
Flattened(tree) ==
  {tree[a].ref : a \in DOMAIN tree} \cup UNION {Flattened(tree[a].nested) : a \in DOMAIN tree}

(* Mutant of Matching: below a match everything is kept. *)
RECURSIVE MatchingWhole(_, _)
MatchingWhole(tree, asked) ==
  LET Matches(a) == a \in asked \/ (~ IsLink(tree[a].ref) /\ tree[a].ref.name \in asked)
      nested == [a \in DOMAIN tree |->
                   IF Matches(a) THEN tree[a].nested ELSE MatchingWhole(tree[a].nested, asked)]
  IN  [a \in {b \in DOMAIN tree : Matches(b) \/ nested[b] # NoTree} |->
         [tree[a] EXCEPT !.nested = nested[a]]]

(* filter_group_to_matches: what was asked for, and what leads to it. *)
RECURSIVE Matching(_, _)
Matching(tree, asked) ==
  LET nested == [a \in DOMAIN tree |-> Matching(tree[a].nested, asked)]
      Matches(a) == a \in asked \/ (~ IsLink(tree[a].ref) /\ tree[a].ref.name \in asked)
  IN  [a \in {b \in DOMAIN tree : Matches(b) \/ nested[b] # NoTree} |->
         [tree[a] EXCEPT !.nested = nested[a]]]

(* filtered_root_json: why --json, why --parseable. *)
WhyListed(lockfile, manifest, include, depth, asked) ==
  LET tree == List(lockfile, manifest, "root", include, depth)
      pruned == [g \in DOMAIN tree |-> Matching(tree[g], asked)]
  IN  Restrict(pruned, {g \in DOMAIN tree : pruned[g] # NoTree})
-----------------------------------------------------------------------------
(* why.  An edge leads from a dependent to what it depends on. *)
Edge(parent, child, alias) == [parent |-> parent, child |-> child, alias |-> alias]

Child(lockfile, ref) ==
  IF ~ IsLink(ref) THEN Find(lockfile, ref)
  ELSE IF ref.id \in DOMAIN lockfile.importers THEN ref ELSE Missing

Edges(lockfile, include) ==
  LET OfImporter(id) ==
        LET entry == lockfile.importers[id]
        IN  UNION {{Edge(Importer(id), Child(lockfile, entry[g][a]), a) : a \in DOMAIN entry[g]} :
                     g \in include \cap DOMAIN entry}
      OfPackage(p) ==
        LET snapshot == lockfile.packages[p]
        IN  {Edge(p, Child(lockfile, snapshot.deps[a]), a) : a \in DOMAIN snapshot.deps}
              \cup {Edge(p, Child(lockfile, snapshot.optional[a]), a) :
                      a \in DOMAIN snapshot.optional}
  IN  {e \in UNION {OfImporter(id) : id \in DOMAIN lockfile.importers}
             \cup UNION {OfPackage(p) : p \in DOMAIN lockfile.packages} : e.child # Missing}

(* compute_reachable_nodes: what the project of the command leads to. *)
RECURSIVE ReachableFrom(_, _)
ReachableFrom(nodes, edges) ==
  LET found == nodes \cup {e.child : e \in {d \in edges : d.parent \in nodes}}
  IN  IF found = nodes THEN nodes ELSE ReachableFrom(found, edges)

Dependent(e, mark, dependents) ==
  [node |-> e.parent, alias |-> e.alias, mark |-> mark, dependents |-> dependents]

(* Mutant of Walk: what one dependent has expanded the next one forgets. *)
RECURSIVE WalkForgetful(_, _, _, _)
WalkForgetful(edges, node, visited, expanded) ==
  LET Next(walk, e) ==
        LET more(mark) == [walk EXCEPT !.dependents = Append(@, Dependent(e, mark, <<>>))]
            sub == WalkForgetful(edges, e.parent, visited \cup {e.parent},
                                 expanded \cup {e.parent})
        IN  CASE e.parent \in visited -> more("circular")
              [] e.parent.kind = "importer" -> more("project")
              [] OTHER -> [walk EXCEPT !.dependents =
                             Append(@, Dependent(e, "expanded", sub.dependents))]
  IN  FoldLeft(Next, [dependents |-> <<>>, expanded |-> expanded],
               SetToSeq({e \in edges : e.child = node}))

(* walk_reverse_dependents: the dependents of a node in the order of their *)
(* names, on which only the layout depends.  One that is on the way from   *)
(* the package is circular, one that was expanded elsewhere is not         *)
(* expanded again, and a project is where the walk ends.                   *)
RECURSIVE Walk(_, _, _, _)
Walk(edges, node, visited, expanded) ==
  LET Next(walk, e) ==
        LET more(mark) == [walk EXCEPT !.dependents = Append(@, Dependent(e, mark, <<>>))]
            sub == Walk(edges, e.parent, visited \cup {e.parent},
                        walk.expanded \cup {e.parent})
        IN  CASE e.parent \in visited -> more("circular")
              [] e.parent \notin visited /\ e.parent.kind = "importer" -> more("project")
              [] e.parent \in walk.expanded \ visited -> more("deduped")
              [] OTHER -> [dependents |-> Append(walk.dependents,
                                                 Dependent(e, "expanded", sub.dependents)),
                           expanded |-> sub.expanded]
  IN  FoldLeft(Next, [dependents |-> <<>>, expanded |-> expanded],
               SetToSeq({e \in edges : e.child = node}))

(* render_why: a tree for every package that was asked for, by its name or *)
(* by an alias that a dependent has for it, if the project leads to it.    *)
Why(lockfile, include, asked) ==
  LET all == Edges(lockfile, include)
      reachable == ReachableFrom({Root}, all)
      edges == {e \in all : {e.parent, e.child} \subseteq reachable}
      Aliases(p) == {e.alias : e \in {d \in edges : d.child = p}}
      found == {p \in DOMAIN lockfile.packages \cap reachable :
                  p.name \in asked \/ Aliases(p) \cap asked # {}}
  IN  [p \in found |-> Walk(edges, p, {p}, {}).dependents]
-----------------------------------------------------------------------------
(* Every entry of a tree of why, with what it is a dependent of and the    *)
(* nodes on the way to it.                                                 *)
RECURSIVE Entries(_, _, _)
Entries(dependents, child, way) ==
  UNION {{[at |-> <<way, i>>, entry |-> dependents[i], child |-> child, way |-> way]} 
           \cup Entries(dependents[i].dependents, dependents[i].node,
                        way \o <<dependents[i].node>>) : i \in DOMAIN dependents}

(* The tree for package p shows every way up, no edge twice, and calls     *)
(* circular what is.  Entries says where each entry is, so that two        *)
(* entries for one edge are told apart.                                    *)
WalkSound(lockfile, include, p, dependents) ==
  LET all == Edges(lockfile, include)
      reachable == ReachableFrom({Root}, all)
      edges == {e \in all : {e.parent, e.child} \subseteq reachable}
      up == {Edge(e.child, e.parent, e.alias) : e \in {d \in edges : d.child.kind = "package"}}
      above == ReachableFrom({p}, up)
      entries == Entries(dependents, p, <<p>>)
      shown == {Edge(x.entry.node, x.child, x.entry.alias) : x \in entries}
  IN  /\ shown = {e \in edges : e.child \in above /\ e.child.kind = "package"}
      /\ Cardinality(entries) = Cardinality(shown)
      /\ \A x \in entries :
           x.entry.mark = "circular" <=> \E i \in DOMAIN x.way : x.way[i] = x.entry.node

(* The ways that a tree shows, as sequences of <<alias, reference>>. *)
RECURSIVE Ways(_)
Ways(tree) ==
  UNION {{<< <<a, tree[a].ref>> >>}
           \cup {<< <<a, tree[a].ref>> >> \o w : w \in Ways(tree[a].nested)} : a \in DOMAIN tree}

(* list shows what the groups lead to in so many steps, and nothing else.  *)
ListSound(lockfile, manifest, tree, include, depth) ==
  LET entry == lockfile.importers["root"]
      Values(deps) == {deps[a] : a \in DOMAIN deps}
      direct == UNION {Values(entry[g]) : g \in include \cap DOMAIN entry}
      unknown == UNION {Values(manifest[g]) : g \in (include \cap DOMAIN manifest) \ DOMAIN entry}
      Below(S) == UNION {Values(SnapshotDependencies(lockfile, p, include)) :
                           p \in {Find(lockfile, r) : r \in {s \in S : ~ IsLink(s)}} \ {Missing}}
      within[n \in 0..depth] == IF n = 0 THEN direct ELSE within[n - 1] \cup Below(within[n - 1])
  IN  UNION {Flattened(tree[g]) : g \in DOMAIN tree} = within[depth] \cup unknown

(* why --json keeps the ways that lead on to a match, and no other. *)
PrunedSound(tree, pruned, asked) ==
  \A g \in DOMAIN tree :
    LET ways == Ways(tree[g])
        Found(w) == LET last == w[Len(w)]
                    IN  last[1] \in asked \/ (~ IsLink(last[2]) /\ last[2].name \in asked)
    IN  (IF g \in DOMAIN pruned THEN Ways(pruned[g]) ELSE {})
          = {w \in ways : \E longer \in ways : IsPrefix(w, longer) /\ Found(longer)}
=============================================================================
