------------------------- MODULE MCProjectCommands --------------------------
(* The root and one member, two packages, one of which gets a new version. *)
EXTENDS ProjectCommands, TLC

CONSTANTS r, a, x, y

MCRank == [i \in {r, a} |-> IF i = r THEN 0 ELSE 1]
MCNewest == [n \in {x, y} |-> IF n = x THEN 2 ELSE 1]
MCLegacy == [n \in {x, y} |-> 1]
MCManifests == {x :> 1, x :> 1 @@ y :> 1}

Line(tool, at, filter, names, recursive) ==
  [tool |-> tool, at |-> at, filter |-> filter, names |-> names, recursive |-> recursive]
MCCommands ==
  {Line("install", r, {}, {}, FALSE), Line("install", a, {}, {}, FALSE),
   Line("prune", r, {}, {}, FALSE), Line("dedupe", r, {}, {}, FALSE),
   Line("import", r, {}, {}, FALSE),
   Line("add", a, {}, {y}, FALSE), Line("add", r, {a}, {x}, FALSE),
   Line("remove", r, {}, {x, y}, FALSE), Line("remove", r, {}, {y}, TRUE),
   Line("update", r, {}, {x}, TRUE), Line("update", a, {}, {}, FALSE),
   Line("link", r, {}, {x}, FALSE), Line("link", a, {}, {x}, FALSE),
   Line("unlink", a, {}, {}, FALSE), Line("unlink", r, {}, {x}, TRUE)}
=============================================================================
