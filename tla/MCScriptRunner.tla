--------------------------- MODULE MCScriptRunner ---------------------------
(* Three projects, one of them the root, over every graph in which no      *)
(* project uses itself and the root does not use b; up to three threads.    *)
EXTENDS ScriptRunner

CONSTANTS a, b, r

MCProjects == {a, b, r}
MCPathOrder == <<r, b, a>>
MCNameOrder == <<a, b, r>>

MCGraphs ==
  {[all |-> E, prod |-> [p \in MCProjects |-> E[p] \ {b}]] :
     E \in {f \in [MCProjects -> SUBSET MCProjects] :
              (\A p \in MCProjects : p \notin f[p]) /\ b \notin f[r]}}

MCScriptSets == {MCProjects, {a, b}, {r}, {}}

Selector(core, traversal, prodOnly, negative) ==
  [core |-> core, nonTest |-> core, traversal |-> traversal,
   prodOnly |-> prodOnly, negative |-> negative, endsHere |-> FALSE]

Plain == [tool |-> "run", recursive |-> TRUE, workspaceRoot |-> TRUE, here |-> a,
          filters |-> {}, sort |-> "default", parallel |-> FALSE,
          reverse |-> FALSE, limit |-> 2, resume |-> NoProject, noBail |-> FALSE,
          failIfNoMatch |-> TRUE, ifPresent |-> FALSE]

(* One option or filter changed at a time, and some together. *)
MCCommands ==
  {Plain, [Plain EXCEPT !.limit = 0], [Plain EXCEPT !.reverse = TRUE],
   [Plain EXCEPT !.resume = a], [Plain EXCEPT !.noBail = TRUE],
   [Plain EXCEPT !.noBail = TRUE, !.limit = 1],
   [Plain EXCEPT !.parallel = TRUE, !.limit = 0],
   [Plain EXCEPT !.workspaceRoot = FALSE, !.parallel = TRUE, !.limit = 0],
   [Plain EXCEPT !.tool = "exec", !.sort = "sort"]}
  \cup
  {[Plain EXCEPT !.recursive = FALSE, !.workspaceRoot = w, !.limit = 0,
                 !.filters = {Selector({a}, t, prod, FALSE)}] :
     w \in BOOLEAN, t \in Traversals, prod \in BOOLEAN}
  \cup
  {[Plain EXCEPT !.limit = 0,
                 !.filters = {Selector(MCProjects, "none", FALSE, FALSE),
                              Selector({a}, "dependencies", FALSE, TRUE)}],
   [Plain EXCEPT !.limit = 0, !.resume = b,
                 !.filters = {Selector({a}, "dependents", FALSE, TRUE)}],
   [Plain EXCEPT !.limit = 0,
                 !.filters = {[Selector({a, b}, "dependents", FALSE, FALSE)
                                 EXCEPT !.nonTest = {b}]}],
   [Plain EXCEPT !.tool = "exec", !.limit = 0,
                 !.filters = {Selector({a}, "none", FALSE, FALSE)}],
   [Plain EXCEPT !.tool = "exec", !.limit = 0,
                 !.filters = {[Selector({a}, "none", FALSE, FALSE)
                                 EXCEPT !.endsHere = TRUE]}]}
=============================================================================
