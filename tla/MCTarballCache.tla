--------------------------- MODULE MCTarballCache ---------------------------
(* Three calls for one tarball and two for another. *)
EXTENDS TarballCache

CONSTANTS t1, t2, t3, t4, t5, u1, u2

MCTasks == {t1, t2, t3, t4, t5}
MCUrls == {u1, u2}
MCUrlOf == [t \in MCTasks |-> IF t \in {t1, t2, t3} THEN u1 ELSE u2]
=============================================================================
