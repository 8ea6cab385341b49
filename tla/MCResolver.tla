----------------------------- MODULE MCResolver -----------------------------
(* Three importers over a graph where a and b depend on each other, and    *)
(* every package but e has required and optional users; f does not fit the *)
(* platform.  Earlier lockfiles: none; an up-to-date one; one of the first *)
(* importer alone; one of older manifests, from which the first has since  *)
(* dropped e, which is needed by nobody now.                               *)
EXTENDS Resolver

CONSTANTS a, b, c, d, e, f

MCPackages == {a, b, c, d, e, f}
MCRegular == [n \in Nodes |-> CASE n = 1 -> {a}
                                [] n = 2 -> {b}
                                [] n = 3 -> {c}
                                [] n = a -> {b}
                                [] n = b -> {a}
                                [] n = c -> {f}
                                [] n = f -> {d}
                                [] OTHER -> {}]
MCOptional == [n \in Nodes |-> CASE n = 1 -> {b}
                                 [] n = 2 -> {f}
                                 [] n = b -> {c}
                                 [] n = e -> {c}
                                 [] OTHER -> {}]
MCUnsupported == {f}
MCOldEntries == {<<{}, {}, {}>>, <<{a, b}, {b, f}, {c}>>, <<{a, b}, {}, {}>>,
                 <<{a, e}, {b}, {c}>>}
=============================================================================
