--------------------------- MODULE MCTarballFetch ---------------------------
(* Two calls for one tarball, one for another. *)
EXTENDS TarballFetch

CONSTANTS t1, t2, t3, u1, u2

MCTasks == {t1, t2, t3}
MCUrls == {u1, u2}
MCUrlOf == [t \in MCTasks |-> IF t = t3 THEN u2 ELSE u1]
=============================================================================
