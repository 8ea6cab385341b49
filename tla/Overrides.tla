------------------------------ MODULE Overrides ------------------------------
(***************************************************************************)
(* f where it is defined, and g elsewhere: @@ of the module TLC, with a    *)
(* definition that the proofs can go by.                                   *)
(***************************************************************************)
Over(f, g) == [x \in DOMAIN f \cup DOMAIN g |-> IF x \in DOMAIN f THEN f[x] ELSE g[x]]
=============================================================================
