------------------------------ MODULE MCStore ------------------------------
(* Two packages that share a file h.  One process installs both of them,   *)
(* another one of them again.  h is executable.                            *)
EXTENDS Store

CONSTANTS p, q, mp, mq, h, w1, w2, w3

MCPackages == {p, q}
MCManifest == [r \in MCPackages |-> IF r = p THEN <<mp, "none">> ELSE <<mq, "none">>]
MCFiles == [r \in MCPackages |->
              {MCManifest[r], <<h, "all">>}]
MCInstalls == {w1, w2, w3}
MCPkgOf == [w \in MCInstalls |-> IF w = w1 THEN p ELSE q]
MCProcessOf == [w \in MCInstalls |-> IF w = w3 THEN 2 ELSE 1]
=============================================================================
