--------------------------- MODULE WorkspaceGraph ---------------------------
(***************************************************************************)
(* The workspace graph behind `run` and `exec`: which projects a set of    *)
(* filters selects, and the order in which they are run.  Pure             *)
(* definitions; ScriptRunner uses them.                                    *)
(*                                                                         *)
(* A graph g is a record of two relations, g.all and g.prod: the projects  *)
(* each project names in its dependency fields, without devDependencies in *)
(* g.prod.                                                                 *)
(***************************************************************************)
EXTENDS Naturals, Sequences, SequencesExt, FiniteSets

CONSTANTS Projects,  \* the projects of the workspace
          PathOrder, \* Projects, sorted by the path of package.json
          NameOrder  \* Projects, sorted by name

ASSUME GraphAssumption ==
  /\ PathOrder \in Seq(Projects) /\ ToSet(PathOrder) = Projects
  /\ \A i, j \in DOMAIN PathOrder : PathOrder[i] = PathOrder[j] => i = j
  /\ NameOrder \in Seq(Projects) /\ ToSet(NameOrder) = Projects

(* Those of s that are in S, in the order of s. *)
Those(s, S) ==
  LET T[k \in 0..Len(s)] ==
        IF k = 0 THEN <<>>
        ELSE IF s[k] \in S THEN Append(T[k - 1], s[k]) ELSE T[k - 1]
  IN T[Len(s)]

Reversed(E) == [p \in Projects |-> {s \in Projects : p \in E[s]}]

(* Mutant of Reachable: a queue that is not refilled. *)
OneHop(E, S) == S \cup UNION {E[p] : p \in S}

(* The breadth-first walk of traverse: all that S reaches, S included. *)
Reachable(E, S) ==
  LET R[n \in 0..Cardinality(Projects)] ==
        IF n = 0 THEN S ELSE R[n - 1] \cup UNION {E[p] : p \in R[n - 1]}
  IN R[Cardinality(Projects)]

(* A selector is what is left of a --filter once its pattern, directory or *)
(* git reference has been resolved: the projects it matches (core), those  *)
(* of them with a change outside the tests (nonTest, which is core for a   *)
(* selector without a git reference), its traversal, and its flags.        *)
Traversals == {"none", "dependencies", "dependenciesOnly",
               "dependents", "dependentsOnly"}

Edges(g, s) == IF s.prodOnly THEN g.prod ELSE g.all

SelectFromGraph(g, s) ==
  LET E == Edges(g, s)
  IN CASE s.traversal = "none" -> s.core
       [] s.traversal = "dependencies" -> Reachable(E, s.core)
       [] s.traversal = "dependenciesOnly" -> Reachable(E, s.core) \ s.core
       [] s.traversal = "dependents" ->
            Reachable(Reversed(E), s.nonTest) \cup s.core
       [] s.traversal = "dependentsOnly" ->
            Reachable(Reversed(E), s.nonTest) \ s.nonTest

(* With negative filters only, they are taken from the whole workspace. *)
ResolveFilters(g, filters) ==
  LET positive == {s \in filters : ~s.negative}
      include == IF positive = {} THEN Projects
                 ELSE UNION {SelectFromGraph(g, s) : s \in positive}
  IN include \ UNION {SelectFromGraph(g, s) : s \in filters \ positive}

(* The loop over the dependencies ps of a project; path holds the projects *)
(* being visited (`temporary`), where a cycle is cut, and ordered is what  *)
(* has been visited before (`permanent`).                                  *)
VisitEach(g, selected, visit, path, ordered, ps) ==
  LET O[k \in 0..Len(ps)] ==
        IF k = 0 THEN ordered
        ELSE IF ps[k] \notin selected \/ ps[k] \in path \cup ToSet(O[k - 1])
             THEN O[k - 1]
             ELSE Append(visit[path \cup {ps[k]}][O[k - 1]][Those(NameOrder, g.all[ps[k]])],
                         ps[k])
  IN O[Len(ps)]

(* Depth first, no deeper than there are projects. *)
Visit(g, selected) ==
  LET V[n \in 0..Cardinality(Projects)] ==
        [path \in SUBSET Projects |->
          [ordered \in Seq(Projects) |->
            [ps \in Seq(Projects) |->
               IF n = 0 THEN ordered
               ELSE VisitEach(g, selected, V[n - 1], path, ordered, ps)]]]
  IN V[Cardinality(Projects)]

ByPath(selected) == Those(PathOrder, selected)

(* Mutant of TopologicallyOrdered: the edges are followed backwards. *)
OrderedByDependents(g, selected) ==
  Visit([g EXCEPT !.all = Reversed(g.all)], selected)[{}][<<>>][ByPath(selected)]

TopologicallyOrdered(g, selected) ==
  Visit(g, selected)[{}][<<>>][ByPath(selected)]

(* --sort is the default unless --parallel is given; then --reverse, then  *)
(* --resume-from, whose project must be in the order.                      *)
Sorted(o) == o.sort = "sort" \/ (o.sort = "default" /\ ~o.parallel)

Ordered(g, selected, o) ==
  LET order == IF Sorted(o) THEN TopologicallyOrdered(g, selected)
               ELSE ByPath(selected)
  IN IF o.reverse THEN Reverse(order) ELSE order

From(order, p) == SubSeq(order, SelectInSeq(order, LAMBDA q : q = p), Len(order))
-----------------------------------------------------------------------------
(* Whether a path of E within S leads from p to q: whatever holds p and is *)
(* closed under E holds q.                                                 *)
Path(E, S, p, q) ==
  p \in S /\ \A T \in SUBSET S :
               p \in T /\ (\A x \in T : E[x] \cap S \subseteq T) => q \in T
=============================================================================
