--------------------------- MODULE MCVirtualStore ---------------------------
(* A root and two other importers; p depends on q, of which two lockfiles  *)
(* choose different versions, and on o, which fits no platform.            *)
EXTENDS VirtualStore

CONSTANTS r, a, b, p, q1, q2, d, o

MCPackages == {p, q1, q2, d, o}
MCName == [x \in MCPackages |-> IF x \in {q1, q2} THEN "q" ELSE x]
MCImporterOrder == <<r, a, b>>

Locked(q, ofB) ==
  [prod |-> (r :> {p, q}) @@ (a :> {q1}) @@ (b :> ofB),
   dev |-> (r :> {d}) @@ (a :> {}) @@ (b :> {}),
   linked |-> (r :> {b}) @@ (a :> {}) @@ (b :> {}),
   deps |-> (p :> {q, o}) @@ (q :> {}) @@ (q1 :> {}) @@ (d :> {}) @@ (o :> {}),
   optional |-> {o}]

MCLockfiles == {Locked(q1, {q1}), Locked(q2, {})}

Frozen(targets, groups) ==
  [targets |-> targets, groups |-> groups, frozen |-> TRUE, force |-> FALSE]

MCCommands ==
  {Frozen({r, a, b}, "all"), Frozen({a, b}, "all"), Frozen({a, b}, "prod"),
   Frozen({r}, "prod"),
   [Frozen({r, a}, "all") EXCEPT !.frozen = FALSE],
   [Frozen({r, a}, "all") EXCEPT !.force = TRUE]}

ASSUME MCRootApart == RootApart
=============================================================================
