---------------------------- MODULE PeerVariants ----------------------------
(***************************************************************************)
(* dedupe-peer-dependents: a lockfile may have one version of a package    *)
(* several times, resolved with different peers.  What an importer depends *)
(* on is replaced by a variant that has the same and more.  The variants   *)
(* come from a hash map, in any order; here a variant is its place in the  *)
(* order of their keys, with its dependencies and transitive peers.        *)
(***************************************************************************)
EXTENDS FiniteSets, SequencesExt

Score(v) == Cardinality(DOMAIN v.deps) + Cardinality(v.peers)

(* Mutant of Extends: more is enough. *)
HasMore(candidate, current) == Score(candidate) >= Score(current)

(* is_compatible_and_has_more_deps *)
Extends(candidate, current) ==
  /\ Score(candidate) >= Score(current)
  /\ \A n \in DOMAIN current.deps :
       n \in DOMAIN candidate.deps /\ candidate.deps[n] = current.deps[n]
  /\ current.peers \subseteq candidate.peers

Begin(variants, i) == [best |-> i, left |-> DOMAIN variants \ {i}]

Replaces(variants, j, i) ==
  /\ Extends(variants[j], variants[i])
  /\ \/ Score(variants[j]) > Score(variants[i])
     \/ Score(variants[j]) = Score(variants[i]) /\ j < i

(* The loop of resolve_package_snapshot_deduped looks at one more variant. *)
LookAt(variants, s, j) ==
  [best |-> IF Replaces(variants, j, s.best) THEN j ELSE s.best, left |-> s.left \ {j}]

LooksAt(variants, s) == {LookAt(variants, s, j) : j \in s.left}
-----------------------------------------------------------------------------
(* What was asked for is all there, and nothing has the same and more. *)
Covers(variants, i, best) ==
  LET old == variants[i]
      new == variants[best]
  IN  /\ \A n \in DOMAIN old.deps : n \in DOMAIN new.deps /\ new.deps[n] = old.deps[n]
      /\ old.peers \subseteq new.peers
      /\ \A j \in DOMAIN variants \ {best} :
           LET other == variants[j] IN
           (/\ \A n \in DOMAIN new.deps : n \in DOMAIN other.deps /\ other.deps[n] = new.deps[n]
            /\ new.peers \subseteq other.peers)
             => Score(other) = Score(new) /\ best < j
=============================================================================
