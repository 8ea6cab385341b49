---------------------------- MODULE MCNodeModules ---------------------------
(* a@1 needs c@1, a@2 needs c@2, and b needs c@2 with a peer.  The command  *)
(* x comes with a and with c, but c@2 declares a file that it lacks; only   *)
(* that of c is run by node.                                                *)
EXTENDS NodeModules, Sequences, TLC

Pkg(n, v, p) == [name |-> n, version |-> v, peers |-> p]
A1 == Pkg("a", 1, 0)
A2 == Pkg("a", 2, 0)
B1 == Pkg("b", 1, 0)
C1 == Pkg("c", 1, 0)
C2 == Pkg("c", 2, 0)
C2P == Pkg("c", 2, 1)

MCPackages == {A1, A2, B1, C1, C2, C2P}
MCRank == ("a" :> 1) @@ ("b" :> 2) @@ ("c" :> 3)
MCDeps == [p \in MCPackages |->
  CASE p = A1 -> {C1} [] p = A2 -> {C2} [] p = B1 -> {C2P} [] OTHER -> {}]
MCBins == [p \in MCPackages |->
  {[command |-> IF p.name = "b" THEN "y" ELSE "x", inside |-> p # C2, node |-> p.name = "c"]}]

MCManifests == {"a" :> A1, ("a" :> A2) @@ ("c" :> C1), ("a" :> A2) @@ ("b" :> B1)}

Every == <<[negated |-> FALSE, names |-> {"a", "b", "c"}]>>
Not(n) == <<[negated |-> TRUE, names |-> {n}]>>
Isolated == [linker |-> "isolated", symlink |-> TRUE, hoist |-> TRUE, shamefully |-> FALSE,
             dedupe |-> TRUE, private |-> Every, public |-> <<>>, executables |-> None]

MCSettings ==
  {Isolated, [Isolated EXCEPT !.executables = TRUE],
   [Isolated EXCEPT !.public = Not("c") \o Every \o Not("b"), !.dedupe = FALSE],
   [Isolated EXCEPT !.shamefully = TRUE, !.hoist = FALSE, !.private = <<>>, !.public = Every],
   [Isolated EXCEPT !.linker = "hoisted", !.hoist = FALSE, !.private = <<>>],
   [Isolated EXCEPT !.linker = "hoisted", !.hoist = FALSE, !.private = <<>>, !.symlink = FALSE],
   [Isolated EXCEPT !.linker = "pnp"]}
=============================================================================
