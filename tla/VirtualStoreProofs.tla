------------------------- MODULE VirtualStoreProofs -------------------------
(***************************************************************************)
(* Proofs about VirtualStore, for any workspace, any lockfiles and any     *)
(* sequence of commands, kills and failed downloads: what lock.yaml says   *)
(* stays closed under dependencies, orphans are removed without touching   *)
(* what the importers that are not targets have installed, and, in         *)
(* workspaces with RootApart, no command passes over a package that is not *)
(* there.                                                                  *)
(***************************************************************************)
EXTENDS VirtualStore, WellFoundedInduction, TLAPS

(* The lockfile as installed is put together from parts of several         *)
(* lockfiles; a command of several importers plans for the others, too.    *)
Planned == DOMAIN plan = DOMAIN PlanFor(wanted, batch, Groups)

IInv ==
  /\ wanted \in Lockfiles
  /\ current = None \/ WellFormed(current)
  /\ pc # "idle" => command \in Commands /\ left \subseteq command.targets
  /\ pc = "check" /\ Parallel => batch \subseteq command.targets
  /\ pc \in {"create", "work"} /\ Parallel => batch \subseteq command.targets /\ Planned
-----------------------------------------------------------------------------
LEMMA ReachFacts ==
  ASSUME NEW next, NEW S
  PROVE  /\ Reach(next, S) \subseteq DOMAIN next
         /\ S \cap DOMAIN next \subseteq Reach(next, S)
         /\ \A x \in Reach(next, S) : next[x] \cap DOMAIN next \subseteq Reach(next, S)
BY DEF Reach

LEMMA ReachMonotone ==
  ASSUME NEW next, NEW S, NEW T, S \subseteq T
  PROVE  Reach(next, S) \subseteq Reach(next, T)
BY DEF Reach

(* A part of a well-formed lockfile is well-formed. *)
LEMMA PartWellFormed ==
  ASSUME NEW l, WellFormed(l), NEW S, NEW groups \in {"all", "prod"}
  PROVE  WellFormed(CurrentFor(l, S, groups))
<1> DEFINE selected == LinkedClosure(l, S)
           roots == UNION {Direct(l, i, groups) : i \in selected}
           packages == Reach(l.deps, roots)
           part == CurrentFor(l, S, groups)
<1>1. selected \subseteq DOMAIN l.prod
  BY ReachFacts DEF LinkedClosure, WellFormed
<1>2. packages \subseteq DOMAIN l.deps /\ roots \cap DOMAIN l.deps \subseteq packages
      /\ \A p \in packages : l.deps[p] \subseteq packages
  <2> HIDE DEF roots
  <2> QED BY ReachFacts DEF WellFormed
<1>3. \A i \in selected :
        l.prod[i] \cup (IF groups = "all" THEN l.dev[i] ELSE {}) \subseteq packages
  BY <1>1, <1>2 DEF WellFormed, Direct
<1>4. part.prod = [i \in selected |-> l.prod[i]]
      /\ part.dev = [i \in selected |-> IF groups = "all" THEN l.dev[i] ELSE {}]
      /\ part.linked = [i \in selected |-> l.linked[i]]
      /\ part.deps = [p \in packages |-> l.deps[p]]
  BY DEF CurrentFor
<1> HIDE DEF selected, packages, roots, part
<1>5. WellFormed(part)
  BY <1>1, <1>2, <1>3, <1>4 DEF WellFormed
<1> QED BY <1>5 DEF part

(* So is the new lockfile for the targets and the old one for the rest. *)
LEMMA PreservingWellFormed ==
  ASSUME NEW l, WellFormed(l), current = None \/ WellFormed(current), NEW S,
         NEW groups \in {"all", "prod"}
  PROVE  WellFormed(Preserving(l, S, groups))
<1> DEFINE new == CurrentFor(l, S, groups)
           extra == IF current = None THEN {} ELSE DOMAIN current.prod \ S
           old == CurrentFor(current, extra, groups)
           both == [prod |-> Over(old.prod, new.prod),
                    dev |-> Over(old.dev, new.dev),
                    linked |-> Over(old.linked, new.linked),
                    deps |-> Over(new.deps, old.deps),
                    optional |-> new.optional \cup (old.optional \ DOMAIN new.deps)]
<1>1. WellFormed(new)
  BY PartWellFormed
<1>2. CASE extra = {}
  BY <1>1, <1>2 DEF Preserving
<1>3. CASE extra # {}
  <2>1. WellFormed(old)
    BY <1>3, PartWellFormed
  <2>2. Preserving(l, S, groups) = both
    BY <1>3 DEF Preserving
  <2> HIDE DEF new, old, extra
  <2>3. WellFormed(both)
    BY <1>1, <2>1 DEF WellFormed, Over
  <2> QED BY <2>2, <2>3
<1> QED BY <1>2, <1>3
-----------------------------------------------------------------------------
LEMMA InitInv == Init => IInv
BY DEF Init, IInv

LEMMA StepInv == IInv /\ [Next]_vars => IInv'
<1> SUFFICES ASSUME IInv, [Next]_vars PROVE IInv'
  OBVIOUS
<1> USE DEF disk, process, counters
<1>1. CASE Edit
  BY <1>1 DEF Edit, IInv
<1>2. CASE Start
  BY <1>2 DEF Start, IInv
<1>3. CASE Skip
  BY <1>3 DEF Skip, IInv, TakeNext
<1>4. CASE Prepare
  <2>1. /\ pc = "next" /\ pc' = "check" /\ wanted' = wanted /\ command' = command
        /\ current' = None \/ current' = current
        /\ batch' = Take /\ left' = left \ Take
    BY <1>4 DEF Prepare, TakeNext
  <2>2. current' = None \/ WellFormed(current')
    BY <2>1 DEF IInv
  <2>3. Parallel' => batch' \subseteq command'.targets
    BY <2>1 DEF IInv, Take, Parallel
  <2> QED BY <2>1, <2>2, <2>3 DEF IInv
<1>5. CASE Check
  <2>1. /\ pc = "check" /\ UNCHANGED <<wanted, current, command, left, batch>>
        /\ pc' \in {"link", "create"}
        /\ pc' = "create" /\ Parallel => plan' = PlanFor(wanted, batch, Groups)
    BY <1>5 DEF Check
  <2>2. PlanFor(wanted, batch, Groups)' = PlanFor(wanted, batch, Groups)
    BY <2>1 DEF PlanFor, Groups
  <2>3. pc' = "create" /\ Parallel' => batch' \subseteq command'.targets /\ Planned'
    BY <2>1, <2>2 DEF IInv, Planned, Parallel
  <2> QED BY <2>1, <2>3 DEF IInv
<1>6. ASSUME UNCHANGED <<wanted, current, command, left, batch, plan>>,
             pc \in {"create", "work"}, pc' \in {"work", "link"}
      PROVE  IInv'
  <2>1. Planned' = Planned /\ Parallel' = Parallel
    BY <1>6 DEF Planned, PlanFor, Groups, Parallel
  <2> QED BY <1>6, <2>1 DEF IInv
<1>7. CASE PreCreate
  BY <1>6, <1>7 DEF PreCreate
<1>8. CASE \E p \in Packages : Layout(p) \/ ImportClaimed(p) \/ Import(p) \/ ImportFails(p)
  BY <1>6, <1>8 DEF Layout, ImportClaimed, Import, ImportFails
<1>9. CASE Prune
  BY <1>6, <1>9 DEF Prune
<1>10. CASE LinkDirect
  BY <1>10 DEF LinkDirect, IInv
<1>11. CASE WriteModules
  BY <1>11 DEF WriteModules, IInv
<1>12. CASE WriteCurrent
  <2>1. /\ pc = "next" /\ pc' = "root" /\ UNCHANGED <<wanted, command, left>>
        /\ current' = Preserving(wanted, command.targets, Groups)
    BY <1>12 DEF WriteCurrent
  <2>2. Groups \in {"all", "prod"} /\ WellFormed(wanted)
    BY <2>1, VirtualStoreAssumption DEF IInv, Groups
  <2>3. WellFormed(current')
    BY <2>1, <2>2, PreservingWellFormed DEF IInv
  <2> QED BY <2>1, <2>3 DEF IInv
<1>13. CASE RewriteRoot
  BY <1>13 DEF RewriteRoot, Exit, IInv
<1>14. CASE Kill
  BY <1>14 DEF Kill, Exit, IInv
<1>15. CASE UNCHANGED vars
  BY <1>15 DEF vars, IInv, Planned, PlanFor, Groups, Parallel
<1> QED
  BY <1>1, <1>2, <1>3, <1>4, <1>5, <1>7, <1>8, <1>9, <1>10, <1>11, <1>12, <1>13, <1>14, <1>15
  DEF Next, Step

(* At any time lock.yaml is a part of lockfiles that are well-formed, and  *)
(* a command of several importers has planned for all of its targets.      *)
THEOREM Invariance == Spec => []IInv
BY InitInv, StepInv, PTL DEF Spec

(* What lock.yaml lists is closed under dependencies, though it is put     *)
(* together from the new lockfile for the targets and from the old one for *)
(* the other importers (current_lockfile_for_installers_preserving_...).   *)
THEOREM CurrentClosedHolds == Spec => []CurrentClosed
<1>1. IInv => CurrentClosed
  BY DEF IInv, CurrentClosed, WellFormed
<1> QED BY <1>1, Invariance, PTL

(* A plan for several importers holds what the others have installed. *)
LEMMA PlansForOthers ==
  ASSUME current # None, WellFormed(current), NEW S, NEW groups \in {"all", "prod"}, NEW l,
         NEW i \in DOMAIN current.prod \ S
  PROVE  Reach(current.deps, Direct(current, i, groups)) \subseteq DOMAIN PlanFor(l, S, groups)
<1> DEFINE extra == DOMAIN current.prod \ S
           selected == LinkedClosure(current, extra)
           roots == UNION {Direct(current, j, groups) : j \in selected}
<1>1. i \in selected
  BY ReachFacts DEF LinkedClosure, WellFormed
<1>2. Direct(current, i, groups) \subseteq roots
  BY <1>1
<1>3. Reach(current.deps, Direct(current, i, groups)) \subseteq Reach(current.deps, roots)
  <2> HIDE DEF roots
  <2> QED BY <1>2, ReachMonotone
<1>4. DOMAIN CurrentFor(current, extra, groups).deps = Reach(current.deps, roots)
  BY DEF CurrentFor
<1>5. DOMAIN CurrentFor(current, extra, groups).deps \subseteq DOMAIN PlanFor(l, S, groups)
  BY DEF PlanFor, Over
<1> QED BY <1>3, <1>4, <1>5

(* The removal of orphans does not touch the package directories, and the  *)
(* links in them, of importers that are not targets of the command         *)
(* (prune_orphaned_virtual_store_packages with the packages of             *)
(* frozen_lockfile_for_selected_importers).                                *)
THEOREM UnselectedKeptHolds == Spec => UnselectedKept
<1> DEFINE Kept ==
      pc = "work" /\ pc' = "link" /\ current # None =>
        \A i \in DOMAIN current.prod \ command.targets :
          \A p \in Reach(current.deps, Direct(current, i, Groups)) :
            dir'[p] = dir[p] /\ vlink'[p] = vlink[p]
<1>1. IInv /\ [Next]_vars => Kept
  <2> SUFFICES ASSUME IInv, [Next]_vars, pc = "work", pc' = "link", current # None,
                      NEW i \in DOMAIN current.prod \ command.targets,
                      NEW p \in Reach(current.deps, Direct(current, i, Groups))
               PROVE  dir'[p] = dir[p] /\ vlink'[p] = vlink[p]
    OBVIOUS
  <2>1. Prune
    BY DEF Next, Step, Edit, Start, Skip, Prepare, Check, PreCreate, Layout, ImportClaimed,
           Import, ImportFails, LinkDirect, WriteModules, WriteCurrent, RewriteRoot, Exit,
           Kill, vars, process
  <2>2. WellFormed(current) /\ command \in Commands
    BY DEF IInv
  <2>3. p \in Packages
    BY <2>2, ReachFacts DEF WellFormed
  <2>4. CASE Parallel
    <3>1. i \in DOMAIN current.prod \ batch
      BY <2>4 DEF IInv
    <3>2. Groups \in {"all", "prod"}
      BY <2>2, VirtualStoreAssumption DEF Groups
    <3>3. p \in DOMAIN plan
      BY <2>2, <2>4, <3>1, <3>2, PlansForOthers DEF IInv, Planned
    <3> QED BY <2>1, <2>3, <3>3 DEF Prune
  <2>5. CASE Len(ImporterOrder) = 1
    <3>1. Importers = {ImporterOrder[1]}
      BY <2>5, VirtualStoreAssumption DEF Importers, ToSet
    <3>2. command.targets = Importers
      BY <2>2, <3>1, VirtualStoreAssumption
    <3> QED BY <2>2, <3>2 DEF WellFormed
  <2>6. CASE ~MayPrune
    BY <2>1, <2>6 DEF Prune
  <2> QED BY <2>4, <2>5, <2>6 DEF MayPrune
<1>2. []IInv /\ [][Next]_vars => [][Kept]_vars
  BY <1>1, PTL
<1> QED BY <1>2, Invariance DEF Spec, UnselectedKept
-----------------------------------------------------------------------------
LEMMA ReachLeast ==
  ASSUME NEW next, NEW S, NEW T, T \subseteq DOMAIN next, S \cap DOMAIN next \subseteq T,
         \A y \in T : next[y] \cap DOMAIN next \subseteq T
  PROVE  Reach(next, S) \subseteq T
BY DEF Reach

(* The packages that fit, for the walk of Filtered. *)
Fitting(l) == {p \in DOMAIN l.deps : Installable(l, p)}

LEMMA FilteredFacts ==
  ASSUME NEW l, NEW S, NEW groups
  PROVE  /\ Filtered(l, S, groups) \subseteq Fitting(l)
         /\ \A i \in S : Direct(l, i, groups) \cap Fitting(l) \subseteq Filtered(l, S, groups)
         /\ \A y \in Filtered(l, S, groups) :
              l.deps[y] \cap Fitting(l) \subseteq Filtered(l, S, groups)
<1> DEFINE fits == [p \in {q \in DOMAIN l.deps : Installable(l, q)} |-> l.deps[p]]
           roots == UNION {FilteredDirect(l, i, groups) : i \in S}
<1>1. DOMAIN fits = Fitting(l) /\ \A y \in Fitting(l) : fits[y] = l.deps[y]
  BY DEF Fitting
<1>2. \A i \in S : Direct(l, i, groups) \cap Fitting(l) \subseteq roots
  BY DEF FilteredDirect, Fitting
<1>3. Filtered(l, S, groups) = Reach(fits, roots)
  BY DEF Filtered
<1> HIDE DEF fits, roots
<1> QED BY <1>1, <1>2, <1>3, ReachFacts

LEMMA FilteredLeast ==
  ASSUME NEW l, NEW S, NEW groups, NEW T, T \subseteq Fitting(l),
         \A i \in S : Direct(l, i, groups) \cap Fitting(l) \subseteq T,
         \A y \in T : l.deps[y] \cap Fitting(l) \subseteq T
  PROVE  Filtered(l, S, groups) \subseteq T
<1> DEFINE fits == [p \in {q \in DOMAIN l.deps : Installable(l, q)} |-> l.deps[p]]
           roots == UNION {FilteredDirect(l, i, groups) : i \in S}
<1>1. DOMAIN fits = Fitting(l) /\ \A y \in Fitting(l) : fits[y] = l.deps[y]
  BY DEF Fitting
<1>2. roots \cap Fitting(l) \subseteq T
  BY DEF FilteredDirect, Fitting
<1>3. Filtered(l, S, groups) = Reach(fits, roots)
  BY DEF Filtered
<1> HIDE DEF fits, roots
<1> QED BY <1>1, <1>2, <1>3, ReachLeast

(* What some importers need is what each of them needs. *)
LEMMA FilteredByImporter ==
  ASSUME NEW l, NEW S, NEW groups
  PROVE  Filtered(l, S, groups) = UNION {Filtered(l, {i}, groups) : i \in S}
<1> DEFINE each == UNION {Filtered(l, {i}, groups) : i \in S}
<1>1. \A i \in S : Filtered(l, {i}, groups) \subseteq Filtered(l, S, groups)
  <2> TAKE i \in S
  <2>1. /\ Filtered(l, S, groups) \subseteq Fitting(l)
        /\ \A j \in {i} : Direct(l, j, groups) \cap Fitting(l) \subseteq Filtered(l, S, groups)
        /\ \A y \in Filtered(l, S, groups) :
             l.deps[y] \cap Fitting(l) \subseteq Filtered(l, S, groups)
    BY FilteredFacts
  <2> QED BY <2>1, FilteredLeast
<1>2. \A i \in S : /\ Filtered(l, {i}, groups) \subseteq Fitting(l)
                   /\ Direct(l, i, groups) \cap Fitting(l) \subseteq Filtered(l, {i}, groups)
                   /\ \A y \in Filtered(l, {i}, groups) :
                        l.deps[y] \cap Fitting(l) \subseteq Filtered(l, {i}, groups)
  BY FilteredFacts
<1>3. /\ each \subseteq Fitting(l)
      /\ \A i \in S : Direct(l, i, groups) \cap Fitting(l) \subseteq each
      /\ \A y \in each : l.deps[y] \cap Fitting(l) \subseteq each
  BY <1>2
<1>4. Filtered(l, S, groups) \subseteq each
  <2> HIDE DEF each
  <2> QED BY <1>3, FilteredLeast
<1> QED BY <1>1, <1>4

LEMMA ProdInAll ==
  ASSUME NEW l, NEW i, NEW groups
  PROVE  Filtered(l, {i}, groups) \subseteq Filtered(l, {i}, "all")
<1>1. Direct(l, i, groups) \subseteq Direct(l, i, "all")
  BY DEF Direct
<1>2. /\ Filtered(l, {i}, "all") \subseteq Fitting(l)
      /\ \A j \in {i} : Direct(l, j, groups) \cap Fitting(l) \subseteq Filtered(l, {i}, "all")
      /\ \A y \in Filtered(l, {i}, "all") :
           l.deps[y] \cap Fitting(l) \subseteq Filtered(l, {i}, "all")
  BY <1>1, FilteredFacts
<1> QED BY <1>2, FilteredLeast

(* importer_dependencies_ready walks a plan, which holds more than the     *)
(* importer needs; it meets all that the importer needs.                   *)
LEMMA PlanReached ==
  ASSUME NEW l, NEW i, NEW groups, NEW deps,
         \A p \in Filtered(l, {i}, groups) : p \in DOMAIN deps /\ deps[p] = l.deps[p]
  PROVE  Filtered(l, {i}, groups) \subseteq Reach(deps, FilteredDirect(l, i, groups))
<1> DEFINE met == Reach(deps, FilteredDirect(l, i, groups))
           T == Filtered(l, {i}, groups) \cap met
<1>1. /\ T \subseteq Fitting(l)
      /\ Direct(l, i, groups) \cap Fitting(l) \subseteq Filtered(l, {i}, groups)
      /\ \A y \in T : l.deps[y] \cap Fitting(l) \subseteq Filtered(l, {i}, groups)
  BY FilteredFacts
<1>2. /\ FilteredDirect(l, i, groups) \cap DOMAIN deps \subseteq met
      /\ \A y \in met : deps[y] \cap DOMAIN deps \subseteq met
  BY ReachFacts
<1>3. Direct(l, i, groups) \cap Fitting(l) \subseteq FilteredDirect(l, i, groups)
  BY DEF FilteredDirect, Fitting
<1>4. \A y \in T : l.deps[y] \cap Fitting(l) \subseteq T
  BY <1>1, <1>2
<1>5. \A j \in {i} : Direct(l, j, groups) \cap Fitting(l) \subseteq T
  BY <1>1, <1>2, <1>3
<1>6. Filtered(l, {i}, groups) \subseteq T
  <2> HIDE DEF T
  <2> QED BY <1>1, <1>4, <1>5, FilteredLeast
<1> QED BY <1>6

(* What a part of a lockfile holds: the importers and all they lead to. *)
PartOf(part, l, S, groups) ==
  /\ DOMAIN part.deps \subseteq DOMAIN l.deps
  /\ \A p \in DOMAIN part.deps :
       part.deps[p] = l.deps[p] /\ l.deps[p] \subseteq DOMAIN part.deps
  /\ part.optional = l.optional \cap DOMAIN part.deps
  /\ DOMAIN part.prod = LinkedClosure(l, S) /\ DOMAIN part.prod \subseteq DOMAIN l.prod
  /\ DOMAIN part.linked = DOMAIN part.prod
  /\ \A i \in DOMAIN part.prod :
       /\ part.prod[i] = l.prod[i] /\ part.linked[i] = l.linked[i]
       /\ Direct(l, i, groups) \subseteq DOMAIN part.deps
       /\ Direct(part, i, "all") = Direct(l, i, groups)
       /\ Direct(part, i, groups) = Direct(l, i, groups)
  /\ S \cap DOMAIN l.prod \subseteq DOMAIN part.prod

LEMMA PartFacts ==
  ASSUME NEW l, WellFormed(l), NEW S, NEW groups
  PROVE  PartOf(CurrentFor(l, S, groups), l, S, groups)
<1> DEFINE selected == LinkedClosure(l, S)
           roots == UNION {Direct(l, i, groups) : i \in selected}
           packages == Reach(l.deps, roots)
           part == CurrentFor(l, S, groups)
<1>1. selected \subseteq DOMAIN l.prod /\ S \cap DOMAIN l.prod \subseteq selected
  BY ReachFacts DEF LinkedClosure, WellFormed
<1>2. packages \subseteq DOMAIN l.deps /\ roots \cap DOMAIN l.deps \subseteq packages
      /\ \A p \in packages : l.deps[p] \subseteq packages
  <2> HIDE DEF roots
  <2> QED BY ReachFacts DEF WellFormed
<1>3. part.prod = [i \in selected |-> l.prod[i]]
      /\ part.dev = [i \in selected |-> IF groups = "all" THEN l.dev[i] ELSE {}]
      /\ part.linked = [i \in selected |-> l.linked[i]]
      /\ part.deps = [p \in packages |-> l.deps[p]]
      /\ part.optional = l.optional \cap packages
  BY DEF CurrentFor
<1>4. \A i \in selected : Direct(l, i, groups) \subseteq packages
  <2> TAKE i \in selected
  <2>1. Direct(l, i, groups) \subseteq DOMAIN l.deps
    BY <1>1 DEF Direct, WellFormed
  <2> QED BY <1>2, <2>1
<1> HIDE DEF roots, packages, part, selected
<1>5. \A i \in selected : /\ Direct(part, i, "all") = Direct(l, i, groups)
                          /\ Direct(part, i, groups) = Direct(l, i, groups)
  BY <1>1, <1>3 DEF Direct
<1>6. selected = LinkedClosure(l, S)
  BY DEF selected
<1>7. PartOf(part, l, S, groups)
  BY <1>1, <1>2, <1>3, <1>4, <1>5, <1>6 DEF PartOf
<1> QED BY <1>7 DEF part

(* What the check that all is ready looks at holds what the importer needs. *)
LEMMA PartReached ==
  ASSUME NEW l, WellFormed(l), NEW i, NEW groups
  PROVE  LET part == CurrentFor(l, {i}, groups)
         IN Filtered(l, {i}, groups) \subseteq Reach(part.deps, Direct(part, i, groups))
<1> DEFINE part == CurrentFor(l, {i}, groups)
           met == Reach(part.deps, Direct(part, i, groups))
<1>1. CASE i \notin DOMAIN l.prod
  <2>1. Direct(l, i, groups) = {}
    BY <1>1 DEF Direct
  <2>2. Filtered(l, {i}, groups) \subseteq {}
    BY <2>1, FilteredLeast
  <2> QED BY <2>2
<1>2. CASE i \in DOMAIN l.prod
  <2>0. PartOf(part, l, {i}, groups)
    BY PartFacts
  <2>1. /\ \A p \in DOMAIN part.deps :
             part.deps[p] = l.deps[p] /\ l.deps[p] \subseteq DOMAIN part.deps
        /\ Direct(l, i, groups) \subseteq DOMAIN part.deps
        /\ Direct(part, i, groups) = Direct(l, i, groups)
    <3> HIDE DEF part
    <3> QED BY <1>2, <2>0 DEF PartOf
  <2>2. /\ met \subseteq DOMAIN part.deps
        /\ Direct(part, i, groups) \cap DOMAIN part.deps \subseteq met
        /\ \A y \in met : part.deps[y] \cap DOMAIN part.deps \subseteq met
    <3> HIDE DEF part
    <3> QED BY ReachFacts
  <2> DEFINE T == met \cap Fitting(l)
  <2>3. /\ T \subseteq Fitting(l)
        /\ \A j \in {i} : Direct(l, j, groups) \cap Fitting(l) \subseteq T
        /\ \A y \in T : l.deps[y] \cap Fitting(l) \subseteq T
    <3> HIDE DEF part
    <3> QED BY <2>1, <2>2
  <2>4. Filtered(l, {i}, groups) \subseteq T
    <3> HIDE DEF T
    <3> QED BY <2>3, FilteredLeast
  <2> QED BY <2>4
<1> QED BY <1>1, <1>2

(* If lock.yaml says that the root has the wanted lockfile installed, what *)
(* the root needs is what lock.yaml says it has.                           *)
LEMMA SaidListed ==
  ASSUME WellFormed(wanted), NEW groups, SaysInstalled(Root, groups)
  PROVE  /\ current # None /\ Root \in DOMAIN current.prod
         /\ Filtered(wanted, {Root}, groups) \subseteq Filtered(current, {Root}, "all")
<1> DEFINE part == CurrentFor(wanted, {Root}, groups)
           has == Filtered(current, {Root}, "all")
           T == has \cap DOMAIN part.deps \cap Fitting(wanted)
<1>1. /\ current # None /\ Root \in DOMAIN current.prod
      /\ Snapshot(current, Root) = Snapshot(part, Root)
      /\ \A p \in DOMAIN part.deps :
           /\ p \in DOMAIN current.deps /\ current.deps[p] = part.deps[p]
           /\ p \in current.optional <=> p \in part.optional
  BY DEF SaysInstalled, MatchesCurrent
<1>2. CASE Root \notin DOMAIN wanted.prod
  <2>1. Direct(wanted, Root, groups) = {}
    BY <1>2 DEF Direct
  <2>2. Filtered(wanted, {Root}, groups) \subseteq {}
    BY <2>1, FilteredLeast
  <2> QED BY <1>1, <2>2
<1>3. CASE Root \in DOMAIN wanted.prod
  <2>1. /\ \A p \in DOMAIN part.deps :
             part.deps[p] = wanted.deps[p] /\ wanted.deps[p] \subseteq DOMAIN part.deps
        /\ part.optional = wanted.optional \cap DOMAIN part.deps
        /\ Root \in DOMAIN part.prod
        /\ Direct(wanted, Root, groups) \subseteq DOMAIN part.deps
        /\ Direct(part, Root, "all") = Direct(wanted, Root, groups)
    <3>1. PartOf(part, wanted, {Root}, groups)
      BY PartFacts
    <3> HIDE DEF part
    <3> QED BY <1>3, <3>1 DEF PartOf
  <2>2. \A p \in DOMAIN part.deps \cap Fitting(wanted) : p \in Fitting(current)
    <3> HIDE DEF part
    <3> QED BY <1>1, <2>1 DEF Fitting, Installable
  <2>3. Direct(current, Root, "all") = Direct(part, Root, "all")
    <3> HIDE DEF part
    <3> QED BY <1>1, <2>1 DEF Snapshot, Direct
  <2>4. /\ Direct(current, Root, "all") \cap Fitting(current) \subseteq has
        /\ \A y \in has : current.deps[y] \cap Fitting(current) \subseteq has
    BY FilteredFacts
  <2>5. /\ T \subseteq Fitting(wanted)
        /\ \A j \in {Root} : Direct(wanted, j, groups) \cap Fitting(wanted) \subseteq T
        /\ \A y \in T : wanted.deps[y] \cap Fitting(wanted) \subseteq T
    <3> HIDE DEF part, has
    <3> QED BY <1>1, <2>1, <2>2, <2>3, <2>4
  <2>6. Filtered(wanted, {Root}, groups) \subseteq T
    <3> HIDE DEF T
    <3> QED BY <2>5, FilteredLeast
  <2> QED BY <1>1, <2>6
<1> QED BY <1>2, <1>3

Unlinked(l) == \A i \in DOMAIN l.linked : Root \notin l.linked[i]

(* The root does not come in through links. *)
LEMMA RootNotReached ==
  ASSUME NEW l, Unlinked(l), NEW S, Root \notin S
  PROVE  Root \notin LinkedClosure(l, S)
<1> DEFINE T == DOMAIN l.linked \ {Root}
<1>1. /\ T \subseteq DOMAIN l.linked /\ S \cap DOMAIN l.linked \subseteq T
      /\ \A y \in T : l.linked[y] \cap DOMAIN l.linked \subseteq T
  BY DEF Unlinked
<1>2. Reach(l.linked, S) \subseteq T
  <2> HIDE DEF T
  <2> QED BY <1>1, ReachLeast
<1> QED BY <1>2 DEF LinkedClosure

(* lock.yaml after a command: the new lockfile for the targets, the old    *)
(* one for the rest.                                                       *)
Extra(S) == IF current = None THEN {} ELSE DOMAIN current.prod \ S

Merged(both, new, old) ==
  /\ DOMAIN both.prod = DOMAIN old.prod \cup DOMAIN new.prod
  /\ DOMAIN both.linked = DOMAIN old.linked \cup DOMAIN new.linked
  /\ \A i \in DOMAIN old.prod : /\ Direct(both, i, "all") = Direct(old, i, "all")
                                /\ both.linked[i] = old.linked[i]
  /\ \A i \in DOMAIN new.prod \ DOMAIN old.prod :
       /\ Direct(both, i, "all") = Direct(new, i, "all")
       /\ both.linked[i] = new.linked[i]
  /\ DOMAIN both.deps = DOMAIN new.deps \cup DOMAIN old.deps
  /\ \A p \in DOMAIN new.deps : both.deps[p] = new.deps[p]
  /\ \A p \in DOMAIN old.deps \ DOMAIN new.deps : both.deps[p] = old.deps[p]
  /\ both.optional = new.optional \cup (old.optional \ DOMAIN new.deps)

LEMMA PreservingFacts ==
  ASSUME NEW l, WellFormed(l), current = None \/ WellFormed(current), NEW S, NEW groups
  PROVE  \/ Preserving(l, S, groups) = CurrentFor(l, S, groups)
         \/ /\ current # None /\ Extra(S) = DOMAIN current.prod \ S
            /\ Merged(Preserving(l, S, groups), CurrentFor(l, S, groups),
                      CurrentFor(current, Extra(S), groups))
<1> DEFINE new == CurrentFor(l, S, groups)
           old == CurrentFor(current, Extra(S), groups)
           both == Preserving(l, S, groups)
<1>1. CASE Extra(S) = {}
  BY <1>1 DEF Preserving, Extra
<1>2. CASE Extra(S) # {}
  <2>1. current # None /\ Extra(S) = DOMAIN current.prod \ S
    BY <1>2 DEF Extra
  <2>2. both = [prod |-> Over(old.prod, new.prod),
                dev |-> Over(old.dev, new.dev),
                linked |-> Over(old.linked, new.linked),
                deps |-> Over(new.deps, old.deps),
                optional |-> new.optional \cup (old.optional \ DOMAIN new.deps)]
    BY <1>2, <2>1 DEF Preserving, Extra
  <2>3. DOMAIN new.dev = DOMAIN new.prod /\ DOMAIN old.dev = DOMAIN old.prod
        /\ DOMAIN new.linked = DOMAIN new.prod /\ DOMAIN old.linked = DOMAIN old.prod
    BY DEF CurrentFor
  <2> HIDE DEF new, old, both
  <2>4. \A i \in DOMAIN old.prod : both.prod[i] = old.prod[i] /\ both.dev[i] = old.dev[i]
                                   /\ both.linked[i] = old.linked[i]
    BY <2>2, <2>3 DEF Over
  <2>5. \A i \in DOMAIN new.prod \ DOMAIN old.prod :
          both.prod[i] = new.prod[i] /\ both.dev[i] = new.dev[i] /\ both.linked[i] = new.linked[i]
    BY <2>2, <2>3 DEF Over
  <2>6. /\ DOMAIN both.prod = DOMAIN old.prod \cup DOMAIN new.prod
        /\ DOMAIN both.linked = DOMAIN old.linked \cup DOMAIN new.linked
    BY <2>2 DEF Over
  <2>7. /\ DOMAIN both.deps = DOMAIN new.deps \cup DOMAIN old.deps
        /\ \A p \in DOMAIN new.deps : both.deps[p] = new.deps[p]
        /\ \A p \in DOMAIN old.deps \ DOMAIN new.deps : both.deps[p] = old.deps[p]
        /\ both.optional = new.optional \cup (old.optional \ DOMAIN new.deps)
    BY <2>2 DEF Over
  <2>8. /\ \A i \in DOMAIN old.prod : Direct(both, i, "all") = Direct(old, i, "all")
        /\ \A i \in DOMAIN new.prod \ DOMAIN old.prod :
             Direct(both, i, "all") = Direct(new, i, "all")
    BY <2>4, <2>5, <2>6 DEF Direct
  <2>9. Merged(both, new, old)
    BY <2>4, <2>5, <2>6, <2>7, <2>8 DEF Merged
  <2> QED BY <2>1, <2>9 DEF new, old, both
<1> QED BY <1>1, <1>2

LEMMA PreservingUnlinked ==
  ASSUME NEW l, WellFormed(l), Unlinked(l), NEW S, NEW groups,
         current = None \/ (WellFormed(current) /\ Unlinked(current))
  PROVE  Unlinked(Preserving(l, S, groups))
<1> DEFINE new == CurrentFor(l, S, groups)
           old == CurrentFor(current, Extra(S), groups)
           both == Preserving(l, S, groups)
<1>0. /\ PartOf(new, l, S, groups)
      /\ current # None => PartOf(old, current, Extra(S), groups)
      /\ both = new \/ (current # None /\ Merged(both, new, old))
  BY PartFacts, PreservingFacts
<1> SUFFICES Unlinked(both)
  OBVIOUS
<1> HIDE DEF new, old, both
<1>1. Unlinked(new)
  BY <1>0 DEF Unlinked, WellFormed, PartOf
<1>2. current # None => Unlinked(old)
  BY <1>0 DEF Unlinked, WellFormed, PartOf
<1>3. DOMAIN new.linked = DOMAIN new.prod /\ (current # None => DOMAIN old.linked = DOMAIN old.prod)
  BY <1>0 DEF PartOf
<1>4. CASE both = new
  BY <1>1, <1>4
<1>5. CASE both # new
  <2>1. /\ current # None
        /\ DOMAIN both.linked = DOMAIN old.linked \cup DOMAIN new.linked
        /\ \A i \in DOMAIN old.prod : both.linked[i] = old.linked[i]
        /\ \A i \in DOMAIN new.prod \ DOMAIN old.prod : both.linked[i] = new.linked[i]
    BY <1>0, <1>5 DEF Merged
  <2> QED BY <1>1, <1>2, <1>3, <2>1 DEF Unlinked
<1> QED BY <1>4, <1>5

(* If the root is a target, lock.yaml says of it what has been installed.  *)
LEMMA TargetRootListed ==
  ASSUME NEW l, WellFormed(l), NEW S, Root \in S, NEW groups,
         current = None \/ (WellFormed(current) /\ Unlinked(current)),
         Root \in DOMAIN Preserving(l, S, groups).prod
  PROVE  Filtered(Preserving(l, S, groups), {Root}, "all") \subseteq Filtered(l, {Root}, groups)
<1> DEFINE new == CurrentFor(l, S, groups)
           old == CurrentFor(current, Extra(S), groups)
           both == Preserving(l, S, groups)
           has == Filtered(l, {Root}, groups)
           T == has \cap DOMAIN new.deps \cap Fitting(both)
<1>1. /\ Root \in DOMAIN both.prod
      /\ PartOf(new, l, S, groups)
      /\ \/ both = new
         \/ /\ Merged(both, new, old) /\ PartOf(old, current, Extra(S), groups)
            /\ Root \notin LinkedClosure(current, Extra(S))
  BY PreservingFacts, PartFacts, RootNotReached DEF Extra
<1>2. /\ \A p \in DOMAIN new.deps : new.deps[p] = l.deps[p] /\ l.deps[p] \subseteq DOMAIN new.deps
      /\ DOMAIN new.deps \subseteq DOMAIN l.deps
      /\ new.optional = l.optional \cap DOMAIN new.deps
      /\ \A i \in DOMAIN new.prod : /\ Direct(l, i, groups) \subseteq DOMAIN new.deps
                                    /\ Direct(new, i, "all") = Direct(l, i, groups)
  <2> HIDE DEF new, old, both
  <2> QED BY <1>1 DEF PartOf
<1>3. Root \in DOMAIN new.prod /\ Direct(both, Root, "all") = Direct(l, Root, groups)
  <2> HIDE DEF new, old, both
  <2> QED BY <1>1, <1>2 DEF PartOf, Merged
<1>4. /\ Direct(l, Root, groups) \cap Fitting(l) \subseteq has
      /\ \A y \in has : l.deps[y] \cap Fitting(l) \subseteq has
  BY FilteredFacts
<1>5. /\ \A p \in DOMAIN new.deps : both.deps[p] = l.deps[p]
      /\ DOMAIN new.deps \cap Fitting(both) \subseteq Fitting(l)
  <2> HIDE DEF new, old, both
  <2> QED BY <1>1, <1>2 DEF Fitting, Installable, Merged
<1>6. /\ T \subseteq Fitting(both)
      /\ \A j \in {Root} : Direct(both, j, "all") \cap Fitting(both) \subseteq T
      /\ \A y \in T : both.deps[y] \cap Fitting(both) \subseteq T
  <2> HIDE DEF new, both, has
  <2> QED BY <1>2, <1>3, <1>4, <1>5
<1>7. Filtered(both, {Root}, "all") \subseteq T
  <2> HIDE DEF T
  <2> QED BY <1>6, FilteredLeast
<1> QED BY <1>7

(* If it is not, lock.yaml says of the root what it said before, but for   *)
(* packages that the new lockfile has brought.                             *)
LEMMA OtherRootListed ==
  ASSUME NEW l, WellFormed(l), Unlinked(l), NEW S, Root \notin S, NEW groups,
         current = None \/ (WellFormed(current) /\ Unlinked(current)),
         Root \in DOMAIN Preserving(l, S, groups).prod,
         NEW p \in Filtered(Preserving(l, S, groups), {Root}, "all")
  PROVE  \/ p \in DOMAIN CurrentFor(l, S, groups).deps /\ Installable(l, p)
         \/ /\ current # None /\ Root \in DOMAIN current.prod
            /\ p \in Filtered(current, {Root}, groups)
<1> DEFINE new == CurrentFor(l, S, groups)
           old == CurrentFor(current, Extra(S), groups)
           both == Preserving(l, S, groups)
           had == Filtered(current, {Root}, groups)
           T == {q \in Fitting(both) : q \in DOMAIN new.deps \/ q \in had}
<1>1. /\ PartOf(new, l, S, groups) /\ Root \notin DOMAIN new.prod
      /\ Root \in DOMAIN both.prod
  BY PartFacts, RootNotReached DEF PartOf
<1>2. /\ current # None /\ Merged(both, new, old) /\ PartOf(old, current, Extra(S), groups)
  BY <1>1, PreservingFacts, PartFacts
<1>3. /\ Root \in DOMAIN old.prod /\ Root \in DOMAIN current.prod
      /\ Direct(both, Root, "all") = Direct(current, Root, groups)
      /\ Direct(current, Root, groups) \subseteq DOMAIN old.deps
  <2> HIDE DEF new, old, both
  <2> QED BY <1>1, <1>2 DEF PartOf, Merged
<1>4. /\ Direct(current, Root, groups) \cap Fitting(current) \subseteq had
      /\ \A y \in had : current.deps[y] \cap Fitting(current) \subseteq had
  BY FilteredFacts
<1> HIDE DEF new, old, both, had
<1>5. \A q \in Fitting(both) : q \in DOMAIN new.deps \/ q \in Fitting(current) \cap DOMAIN old.deps
  BY <1>2 DEF Fitting, Installable, PartOf, Merged
<1>6. \A q \in Fitting(both) \cap DOMAIN new.deps : Installable(l, q)
  BY <1>1, <1>2 DEF Fitting, Installable, PartOf, Merged
<1>7. Direct(both, Root, "all") \cap Fitting(both) \subseteq T
  BY <1>3, <1>4, <1>5
<1>8. ASSUME NEW y \in T PROVE both.deps[y] \cap Fitting(both) \subseteq T
  <2>1. CASE y \in DOMAIN new.deps
    BY <1>1, <1>2, <2>1 DEF PartOf, Merged
  <2>2. CASE y \notin DOMAIN new.deps
    <3>1. y \in had /\ both.deps[y] = current.deps[y]
      BY <1>2, <1>5, <2>2 DEF PartOf, Merged
    <3> QED BY <1>4, <1>5, <3>1
  <2> QED BY <2>1, <2>2
<1>9. Filtered(both, {Root}, "all") \subseteq T
  <2>1. T \subseteq Fitting(both)
    OBVIOUS
  <2> HIDE DEF T
  <2> QED BY <1>7, <1>8, <2>1, FilteredLeast
<1> QED BY <1>2, <1>3, <1>6, <1>9 DEF both, new, had
-----------------------------------------------------------------------------
(* Whole, unless its import did not finish; present, unless a kill or a    *)
(* failure has left it out.                                                *)
Intact(p) == dir[p] = "whole" \/ p \in disturbed
There(p) == dir[p] # "absent" \/ p \in disturbed

Shape ==
  /\ current = None \/ Unlinked(current)
  /\ dir \in [Packages -> Contents]
  /\ claimed \subseteq Packages /\ imports \subseteq Packages
  /\ pc \in {"create", "work"} => /\ DOMAIN plan \subseteq Packages
                                  /\ Filtered(wanted, batch, Groups) \subseteq DOMAIN plan
  /\ pc = "work" => imports \subseteq DOMAIN plan /\ DOMAIN plan \subseteq imports \cup claimed

(* The root comes first and alone, or together with all targets; where     *)
(* orphans may be removed, all targets come at once.                       *)
Turns ==
  /\ pc = "idle" => claimed = {}
  /\ pc = "root" => left = {}
  /\ pc = "next" /\ left # {} /\ (MayPrune \/ Root \in left) =>
       left = command.targets /\ claimed = {}
  /\ pc \notin {"idle", "next"} => Root \notin left /\ (MayPrune => left = {})
  /\ pc \in {"check", "create", "work"} /\ MayPrune =>
       batch = command.targets /\ claimed \subseteq (IF pc = "work" THEN DOMAIN plan ELSE {})

(* A directory without all files is one whose import is still to come, or  *)
(* did not finish.  What the process has claimed is imported.              *)
Imported ==
  /\ \A p \in Packages : p \notin disturbed =>
       /\ dir[p] # "partial"
       /\ dir[p] = "empty" => pc = "work" /\ p \in imports \ claimed
  /\ \A p \in claimed : Intact(p)

(* The importers that the command has done with have what they need. *)
DoneWith == command.targets \ (IF pc \in {"check", "create", "work"} THEN left \cup batch ELSE left)

Served == pc # "idle" => \A i \in DoneWith : \A p \in Needed(i, Groups) : Intact(p)

(* What lock.yaml says the root has is there: between commands and until   *)
(* the root's turn comes, of all groups; during a command about others, of *)
(* the groups it is about.                                                 *)
Listed(groups) == current # None /\ Root \in DOMAIN current.prod =>
                    \A p \in Filtered(current, {Root}, groups) : There(p)

RootListed ==
  /\ pc \in {"idle", "root"} \/ (pc = "next" /\ Root \in left) => Listed("all")
  /\ pc # "idle" /\ Root \notin command.targets => Listed(Groups)

WInv == IInv /\ Shape /\ Turns /\ Imported /\ Served /\ RootListed
-----------------------------------------------------------------------------
LEMMA NeededPackages ==
  ASSUME IInv, NEW i, NEW groups
  PROVE  Needed(i, groups) \subseteq Packages
<1>1. WellFormed(wanted)
  BY VirtualStoreAssumption DEF IInv
<1> QED BY <1>1, FilteredFacts DEF Needed, Fitting, WellFormed

(* The next importer is one of those left, and the root before the others. *)
LEMMA FirstLeft ==
  ASSUME left \subseteq Importers, left # {}
  PROVE  /\ First \in left
         /\ RootFirst /\ Root \in left => First = Root
<1> DEFINE turn == {k \in DOMAIN ImporterOrder : ImporterOrder[k] \in left}
           IsFirst(k) == /\ ImporterOrder[k] \in left
                         /\ \A j \in 1..(k - 1) : ImporterOrder[j] \notin left
<1>1. DOMAIN ImporterOrder = 1..Len(ImporterOrder) /\ Len(ImporterOrder) \in Nat
  BY VirtualStoreAssumption
<1>2. turn \subseteq Nat /\ turn # {}
  BY <1>1 DEF Importers, ToSet
<1>3. \E k \in turn : \A j \in turn : ~(<<j, k>> \in OpToRel(<, Nat))
  <2> HIDE DEF turn
  <2> QED BY <1>2, NatLessThanWellFounded, WFMin
<1>4. PICK k \in turn : \A j \in turn : ~(j < k)
  BY <1>2, <1>3 DEF OpToRel
<1>5. \A j \in 1..(k - 1) : j \in DOMAIN ImporterOrder /\ j < k
  BY <1>1
<1>6. \E m \in DOMAIN ImporterOrder : IsFirst(m)
  BY <1>4, <1>5
<1>7. IsFirst(CHOOSE m \in DOMAIN ImporterOrder : IsFirst(m))
      /\ (CHOOSE m \in DOMAIN ImporterOrder : IsFirst(m)) \in DOMAIN ImporterOrder
  <2> HIDE DEF IsFirst
  <2> QED BY <1>6
<1>8. First \in left
  BY <1>7 DEF First
<1>9. ASSUME RootFirst, Root \in left PROVE First = Root
  <2> DEFINE m == CHOOSE n \in DOMAIN ImporterOrder : IsFirst(n)
  <2>1. IsFirst(m) /\ m \in 1..Len(ImporterOrder)
    BY <1>1, <1>7
  <2>2. First = ImporterOrder[m]
    BY DEF First
  <2> HIDE DEF m
  <2>3. ~(1 \in 1..(m - 1))
    BY <1>9, <2>1 DEF RootFirst
  <2>4. m = 1
    BY <1>1, <2>1, <2>3
  <2> QED BY <1>9, <2>2, <2>4 DEF RootFirst
<1> QED BY <1>8, <1>9

(* Who is taken next: all, or the first. *)
LEMMA Taken ==
  ASSUME IInv, pc = "next", left # {}
  PROVE  /\ Take \subseteq left /\ left \subseteq Importers
         /\ First \in left
         /\ ~Parallel => Take = {First}
         /\ RootFirst => Root \notin left \ Take
         /\ MayPrune => Take = left
<1>1. left \subseteq Importers /\ command \in Commands /\ left \subseteq command.targets
  BY VirtualStoreAssumption DEF IInv
<1>2. First \in left /\ (RootFirst /\ Root \in left => First = Root)
  BY <1>1, FirstLeft
<1>3. ASSUME Len(ImporterOrder) = 1 PROVE left = {First}
  <2>1. Importers = {ImporterOrder[1]}
    BY <1>3, VirtualStoreAssumption DEF Importers, ToSet
  <2> QED BY <1>1, <1>2, <2>1
<1> QED BY <1>1, <1>2, <1>3 DEF Take, MayPrune

(* What the check of an importer's install looks at is there. *)
LEMMA ReusableThere ==
  ASSUME IInv, NEW i, NEW groups, Reusable(i, groups), i = Root => Listed("all")
  PROVE  \A p \in Needed(i, groups) : There(p)
<1>1. WellFormed(wanted)
  BY VirtualStoreAssumption DEF IInv
<1>2. CASE ByTimestamp(i, groups)
  <2>1. i = Root /\ SaysInstalled(Root, groups)
    BY <1>2 DEF ByTimestamp
  <2>2. /\ current # None /\ Root \in DOMAIN current.prod
        /\ Filtered(wanted, {Root}, groups) \subseteq Filtered(current, {Root}, "all")
    BY <1>1, <2>1, SaidListed
  <2> QED BY <2>1, <2>2 DEF Listed, Needed
<1>3. CASE ~ByTimestamp(i, groups)
  <2> DEFINE part == CurrentFor(wanted, {i}, groups)
  <2>1. Ready(Direct(part, i, groups), part.deps)
    BY <1>3 DEF Reusable
  <2>2. Filtered(wanted, {i}, groups) \subseteq Reach(part.deps, Direct(part, i, groups))
    BY <1>1, PartReached
  <2> HIDE DEF part
  <2> QED BY <2>1, <2>2 DEF Ready, Needed, There
<1> QED BY <1>2, <1>3

(* So is what a plan that is ready holds. *)
LEMMA ReadyThere ==
  ASSUME NEW i \in batch, NEW deps,
         deps = IF Parallel THEN PlanFor(wanted, batch, Groups)
                ELSE FilteredPackages(wanted, batch, Groups),
         Ready(FilteredDirect(wanted, i, Groups), deps)
  PROVE  \A p \in Needed(i, Groups) : dir[p] # "absent"
<1>1. Filtered(wanted, {i}, Groups) \subseteq Filtered(wanted, batch, Groups)
  <2>1. Filtered(wanted, batch, Groups) = UNION {Filtered(wanted, {j}, Groups) : j \in batch}
    BY FilteredByImporter
  <2> QED BY <2>1
<1>2. \A p \in Filtered(wanted, batch, Groups) : p \in DOMAIN deps /\ deps[p] = wanted.deps[p]
  BY DEF PlanFor, FilteredPackages, Over
<1>3. Filtered(wanted, {i}, Groups) \subseteq Reach(deps, FilteredDirect(wanted, i, Groups))
  BY <1>1, <1>2, PlanReached
<1> QED BY <1>3 DEF Ready, Needed
-----------------------------------------------------------------------------
LEMMA InitWInv == Init => WInv
<1> SUFFICES ASSUME Init PROVE WInv
  OBVIOUS
<1>1. IInv
  BY InitInv
<1>2. Shape
  BY DEF Init, Shape, Contents
<1>3. Turns /\ Imported /\ Served
  BY DEF Init, Turns, Imported, Served
<1>4. RootListed
  BY DEF Init, RootListed, Listed
<1> QED BY <1>1, <1>2, <1>3, <1>4 DEF WInv

(* The packages of a plan. *)
LEMMA PlanFacts ==
  ASSUME IInv, NEW S, NEW groups
  PROVE  /\ Filtered(wanted, S, groups) \subseteq DOMAIN PlanFor(wanted, S, groups)
         /\ DOMAIN PlanFor(wanted, S, groups) \subseteq Packages
         /\ Filtered(wanted, S, groups) = DOMAIN FilteredPackages(wanted, S, groups)
         /\ Filtered(wanted, S, groups) \subseteq Packages
<1>1. WellFormed(wanted)
  BY VirtualStoreAssumption DEF IInv
<1>2. Filtered(wanted, S, groups) \subseteq Packages
  BY <1>1, FilteredFacts DEF Fitting, WellFormed
<1>3. Filtered(wanted, S, groups) = DOMAIN FilteredPackages(wanted, S, groups)
  BY DEF FilteredPackages
<1>4. current # None => DOMAIN CurrentFor(current, Extra(S), groups).deps \subseteq Packages
  BY PartFacts DEF PartOf, IInv, WellFormed
<1>5. \/ PlanFor(wanted, S, groups) = FilteredPackages(wanted, S, groups)
      \/ /\ current # None
         /\ PlanFor(wanted, S, groups) = Over(FilteredPackages(wanted, S, groups),
                                              CurrentFor(current, Extra(S), groups).deps)
  BY DEF PlanFor, Extra
<1> QED BY <1>2, <1>3, <1>4, <1>5 DEF Over

LEMMA StepShape == RootApart /\ IInv /\ Shape /\ [Next]_vars => Shape'
<1> SUFFICES ASSUME RootApart, IInv, Shape, [Next]_vars PROVE Shape'
  OBVIOUS
<1> USE DEF disk, process, counters
<1>1. ASSUME UNCHANGED <<current, dir, claimed, imports>>, pc' \notin {"create", "work"}
      PROVE  Shape'
  BY <1>1 DEF Shape, Unlinked
<1>2. CASE Edit \/ Start \/ Skip \/ LinkDirect \/ WriteModules
  BY <1>1, <1>2 DEF Edit, Start, Skip, LinkDirect, WriteModules, IInv
<1>3. CASE Prepare
  <2>1. /\ current' = None \/ current' = current
        /\ dir' = [p \in Packages |-> "absent"] \/ dir' = dir
        /\ claimed' = claimed /\ imports' = imports /\ pc' = "check"
    BY <1>3 DEF Prepare
  <2> QED BY <2>1 DEF Shape, Unlinked, Contents
<1>4. CASE Check
  <2>1. /\ UNCHANGED <<wanted, current, dir, command, batch, imports, claimed>>
        /\ pc' \in {"link", "create"}
        /\ pc' = "create" => plan' = IF Parallel THEN PlanFor(wanted, batch, Groups)
                                     ELSE FilteredPackages(wanted, batch, Groups)
    BY <1>4 DEF Check
  <2>2. Filtered(wanted, batch, Groups)' = Filtered(wanted, batch, Groups)
    BY <2>1 DEF Groups
  <2>3. pc' = "create" => /\ DOMAIN plan' \subseteq Packages
                          /\ Filtered(wanted, batch, Groups) \subseteq DOMAIN plan'
    BY <2>1, PlanFacts
  <2> QED BY <2>1, <2>2, <2>3 DEF Shape, Unlinked
<1>5. ASSUME UNCHANGED <<wanted, current, command, batch, plan>>, pc \in {"create", "work"},
             pc' \in {"work", "link"}, dir' \in [Packages -> Contents],
             claimed' \subseteq Packages, imports' \subseteq DOMAIN plan,
             pc' = "work" => DOMAIN plan \subseteq imports' \cup claimed'
      PROVE  Shape'
  <2>1. Filtered(wanted, batch, Groups)' = Filtered(wanted, batch, Groups)
    BY <1>5 DEF Groups
  <2> QED BY <1>5, <2>1 DEF Shape, Unlinked
<1>6. CASE PreCreate
  <2>1. dir' \in [Packages -> Contents]
    BY <1>6 DEF PreCreate, Shape, Contents
  <2> QED BY <1>5, <1>6, <2>1 DEF PreCreate, Shape
<1>7. ASSUME NEW p \in Packages, Layout(p) \/ ImportClaimed(p) PROVE Shape'
  BY <1>5, <1>7 DEF Layout, ImportClaimed, Shape
<1>8. ASSUME NEW p \in Packages, Import(p) \/ ImportFails(p) PROVE Shape'
  <2>1. /\ pc = "work" /\ pc' = "work" /\ UNCHANGED <<wanted, current, command, batch, plan>>
        /\ imports' = imports \ {p} /\ claimed' = claimed \cup {p}
    BY <1>8 DEF Import, ImportFails
  <2>2. dir' \in [Packages -> Contents]
    BY <1>8 DEF Import, ImportFails, Shape, Contents
  <2> QED BY <1>5, <2>1, <2>2 DEF Shape
<1>9. CASE Prune
  <2>1. dir' \in [Packages -> Contents]
    BY <1>9 DEF Prune, Shape, Contents
  <2> QED BY <1>5, <1>9, <2>1 DEF Prune, Shape
<1>10. CASE WriteCurrent
  <2>1. /\ current' = Preserving(wanted, command.targets, Groups) /\ pc' = "root"
        /\ UNCHANGED <<dir, claimed, imports>>
    BY <1>10 DEF WriteCurrent
  <2>2. WellFormed(wanted) /\ Unlinked(wanted)
    BY VirtualStoreAssumption DEF IInv, RootApart, RootUnlinked, Unlinked
  <2>3. Unlinked(current')
    BY <2>1, <2>2, PreservingUnlinked DEF IInv, Shape
  <2> QED BY <2>1, <2>3 DEF Shape, Unlinked
<1>11. CASE RewriteRoot
  BY <1>11 DEF RewriteRoot, Exit, Shape, Unlinked
<1>12. CASE Kill
  <2>1. /\ current' = current /\ pc' = "idle" /\ claimed' = {} /\ imports' = {}
        /\ \E broken \in SUBSET imports : \E left_behind \in [broken -> {"absent", "partial"}] :
             dir' = Over(left_behind, dir)
    BY <1>12, SMTT(30) DEF Kill, Exit
  <2>2. dir' \in [Packages -> Contents]
    BY <2>1 DEF Over, Shape, Contents
  <2> QED BY <2>1, <2>2 DEF Shape, Unlinked
<1>13. CASE UNCHANGED vars
  BY <1>13 DEF vars, Shape, Unlinked, Groups
<1> QED
  BY <1>2, <1>3, <1>4, <1>6, <1>7, <1>8, <1>9, <1>10, <1>11, <1>12, <1>13 DEF Next, Step

LEMMA StepTurns == RootApart /\ IInv /\ Shape /\ Turns /\ [Next]_vars => Turns'
<1> SUFFICES ASSUME RootApart, IInv, Shape, Turns, [Next]_vars PROVE Turns'
  OBVIOUS
<1> USE DEF disk, process, counters
<1>1. ASSUME command' = command PROVE MayPrune' = MayPrune
  BY <1>1 DEF MayPrune, Parallel
<1>2. CASE Edit \/ Start
  BY <1>2 DEF Edit, Start, Turns, IInv
<1>3. CASE Skip \/ Prepare
  <2>1. /\ pc = "next" /\ left # {} /\ UNCHANGED <<command, claimed>>
        /\ batch' = Take /\ left' = left \ Take
        /\ pc' = "check" \/ (Skip /\ ~Parallel /\ pc' \in {"next", "modules"})
    BY <1>3 DEF Skip, Prepare, TakeNext
  <2>2. Root \notin left' /\ (MayPrune => left' = {} /\ batch' = left)
    BY <2>1, Taken DEF RootApart
  <2> QED BY <1>1, <2>1, <2>2 DEF Turns
<1>4. CASE Check
  BY <1>1, <1>4 DEF Check, Turns
<1>5. CASE PreCreate
  BY <1>1, <1>5 DEF PreCreate, Turns
<1>6. ASSUME NEW p \in Packages, Layout(p) \/ ImportClaimed(p) \/ Import(p) \/ ImportFails(p)
      PROVE  Turns'
  <2>1. /\ pc = "work" /\ pc' = "work" /\ UNCHANGED <<command, left, batch, plan>>
        /\ claimed' = claimed \/ (p \in imports /\ claimed' = claimed \cup {p})
    BY <1>6 DEF Layout, ImportClaimed, Import, ImportFails
  <2>2. imports \subseteq DOMAIN plan
    BY <2>1 DEF Shape
  <2> QED BY <1>1, <2>1, <2>2 DEF Turns
<1>7. CASE Prune \/ LinkDirect \/ WriteModules \/ WriteCurrent
  BY <1>1, <1>7 DEF Prune, LinkDirect, WriteModules, WriteCurrent, Turns
<1>8. CASE RewriteRoot \/ Kill
  BY <1>8 DEF RewriteRoot, Kill, Exit, Turns
<1>9. CASE UNCHANGED vars
  BY <1>1, <1>9 DEF vars, Turns
<1> QED BY <1>2, <1>3, <1>4, <1>5, <1>6, <1>7, <1>8, <1>9 DEF Next, Step

LEMMA StepImported == IInv /\ Shape /\ Turns /\ Imported /\ [Next]_vars => Imported'
<1> SUFFICES ASSUME IInv, Shape, Turns, Imported, [Next]_vars PROVE Imported'
  OBVIOUS
<1> USE DEF disk, process, counters
<1>1. ASSUME UNCHANGED <<dir, disturbed, claimed>>, pc # "work" PROVE Imported'
  BY <1>1 DEF Imported, Intact
<1>2. CASE Edit \/ Start \/ Skip \/ Check \/ LinkDirect \/ WriteModules \/ WriteCurrent
  BY <1>1, <1>2 DEF Edit, Start, Skip, Check, LinkDirect, WriteModules, WriteCurrent
<1>3. CASE Prepare
  <2>1. /\ pc = "next" /\ left # {} /\ UNCHANGED <<disturbed, claimed>>
        /\ \/ dir' = dir
           \/ Root \in Recreated(Take) /\ dir' = [p \in Packages |-> "absent"]
    BY <1>3 DEF Prepare
  <2>2. CASE dir' = dir
    BY <1>1, <2>1, <2>2
  <2>3. CASE Root \in Recreated(Take) /\ dir' = [p \in Packages |-> "absent"]
    <3>1. Root \in left
      BY <2>1, <2>3, Taken DEF Recreated
    <3>2. claimed' = {}
      BY <2>1, <3>1 DEF Turns
    <3> QED BY <2>3, <3>2 DEF Imported
  <2> QED BY <2>1, <2>2, <2>3
<1>4. CASE PreCreate
  <2>1. /\ pc = "create" /\ pc' = "work" /\ UNCHANGED <<disturbed, claimed>>
        /\ dir' = [p \in Packages |->
                     IF p \in DOMAIN plan /\ dir[p] = "absent" THEN "empty" ELSE dir[p]]
        /\ imports' = DOMAIN plan
    BY <1>4 DEF PreCreate
  <2>2. \A p \in claimed : Intact(p)'
    BY <2>1 DEF Imported, Shape, Intact
  <2>3. ASSUME NEW p \in Packages, p \notin disturbed
        PROVE  /\ dir'[p] # "partial"
               /\ dir'[p] = "empty" => p \in imports' \ claimed
    <3>1. dir[p] \notin {"partial", "empty"}
      BY <2>1, <2>3 DEF Imported
    <3>2. p \in claimed => dir[p] = "whole"
      BY <2>3 DEF Imported, Intact
    <3> QED BY <2>1, <3>1, <3>2
  <2> QED BY <2>1, <2>2, <2>3 DEF Imported
<1>5. ASSUME NEW p \in Packages, Layout(p) PROVE Imported'
  BY <1>5 DEF Layout, Imported, Intact
<1>6. ASSUME NEW p \in Packages, ImportClaimed(p) PROVE Imported'
  BY <1>6 DEF ImportClaimed, Imported, Intact
<1>7. ASSUME NEW p \in Packages, Import(p) PROVE Imported'
  <2>1. /\ pc = "work" /\ pc' = "work" /\ p \in imports \ claimed
        /\ imports' = imports \ {p} /\ claimed' = claimed \cup {p}
        /\ \/ dir[p] \in {"partial", "whole"} /\ dir' = dir /\ disturbed' = disturbed
           \/ dir' = [dir EXCEPT ![p] = "whole"] /\ disturbed' = disturbed \ {p}
    BY <1>7 DEF Import, Warm
  <2>2. Intact(p)'
    BY <2>1 DEF Imported, Intact, Shape
  <2> QED BY <2>1, <2>2 DEF Imported, Intact, Shape
<1>8. ASSUME NEW p \in Packages, ImportFails(p) PROVE Imported'
  <2>1. /\ pc = "work" /\ pc' = "work" /\ disturbed' = disturbed \cup {p}
        /\ imports' = imports \ {p} /\ claimed' = claimed \cup {p}
        /\ \A q \in Packages \ {p} : dir'[q] = dir[q]
    BY <1>8 DEF ImportFails, Shape
  <2> QED BY <2>1 DEF Imported, Intact, Shape
<1>9. CASE Prune
  <2>1. /\ pc = "work" /\ imports = {} /\ UNCHANGED <<disturbed, claimed>>
        /\ \/ dir' = dir
           \/ MayPrune /\ dir' = [p \in Packages |-> IF p \in DOMAIN plan THEN dir[p] ELSE "absent"]
    BY <1>9 DEF Prune
  <2>2. \A p \in claimed : Intact(p)'
    BY <2>1 DEF Imported, Intact, Shape, Turns
  <2>3. \A p \in Packages : p \notin disturbed => dir'[p] \notin {"partial", "empty"}
    BY <2>1 DEF Imported
  <2> QED BY <2>1, <2>2, <2>3 DEF Imported
<1>10. CASE RewriteRoot
  BY <1>10 DEF RewriteRoot, Exit, Imported
<1>11. CASE Kill
  <2>1. claimed' = {} /\ {p \in Packages : dir'[p] \in {"empty", "partial"}} \subseteq disturbed'
    BY <1>11 DEF Kill, Exit
  <2> QED BY <2>1 DEF Imported
<1>12. CASE UNCHANGED vars
  BY <1>12 DEF vars, Imported, Intact
<1> QED
  BY <1>2, <1>3, <1>4, <1>5, <1>6, <1>7, <1>8, <1>9, <1>10, <1>11, <1>12 DEF Next, Step

(* Outside "work", what is there has all its files, or is disturbed. *)
LEMMA ThereIsIntact ==
  ASSUME Shape, Imported, pc # "work", NEW p \in Packages, There(p)
  PROVE  Intact(p)
BY DEF Shape, Imported, There, Intact, Contents

LEMMA StepServed ==
  IInv /\ Shape /\ Turns /\ Imported /\ Served /\ RootListed /\ [Next]_vars => Served'
<1> SUFFICES ASSUME IInv, Shape, Turns, Imported, Served, RootListed, [Next]_vars PROVE Served'
  OBVIOUS
<1> USE DEF disk, process, counters
<1>1. ASSUME wanted' = wanted, command' = command, pc # "idle",
             \A i \in DoneWith' \ DoneWith : \A p \in Needed(i, Groups) : Intact(p)',
             \A i \in DoneWith' : \A p \in Needed(i, Groups) : Intact(p) => Intact(p)'
      PROVE  Served'
  <2>1. \A i : Needed(i, Groups)' = Needed(i, Groups)
    BY <1>1 DEF Needed, Groups
  <2>2. \A i \in DoneWith' : \A p \in Needed(i, Groups) : Intact(p)'
    BY <1>1 DEF Served
  <2> QED BY <2>1, <2>2 DEF Served
<1>2. ASSUME pc' = "idle" PROVE Served'
  BY <1>2 DEF Served
<1>3. CASE Edit \/ RewriteRoot \/ Kill
  BY <1>2, <1>3 DEF Edit, RewriteRoot, Kill, Exit
<1>4. CASE Start
  <2>1. DoneWith' = {}
    BY <1>4 DEF Start, DoneWith
  <2> QED BY <2>1 DEF Served
<1>5. CASE Skip
  <2>1. /\ pc = "next" /\ left # {} /\ Reusable(First, Groups) /\ ~Parallel
        /\ left' = left \ Take /\ pc' \in {"modules", "next"}
        /\ UNCHANGED <<wanted, command, dir, disturbed>>
    BY <1>5 DEF Skip, TakeNext
  <2>2. First \in left /\ Take = {First}
    BY <2>1, Taken
  <2>3. \A p \in Needed(First, Groups) : There(p)
    BY <2>1, <2>2, ReusableThere DEF RootListed
  <2>4. \A p \in Needed(First, Groups) : Intact(p)
    BY <2>1, <2>3, NeededPackages, ThereIsIntact
  <2>5. DoneWith' \subseteq DoneWith \cup {First}
    BY <2>1, <2>2 DEF DoneWith
  <2>6. \A p : Intact(p)' <=> Intact(p)
    BY <2>1 DEF Intact
  <2> QED BY <1>1, <2>1, <2>4, <2>5, <2>6
<1>6. CASE Prepare
  <2>1. /\ pc = "next" /\ left # {} /\ pc' = "check"
        /\ left' = left \ Take /\ batch' = Take
        /\ UNCHANGED <<wanted, command, disturbed>>
        /\ dir' = dir \/ Root \in Recreated(Take)
    BY <1>6 DEF Prepare, TakeNext
  <2>2. Take \subseteq left
    BY <2>1, Taken
  <2>3. DoneWith' = DoneWith /\ DoneWith = command.targets \ left
    BY <2>1, <2>2 DEF DoneWith
  <2>4. CASE dir' = dir
    <3>1. \A p : Intact(p)' <=> Intact(p)
      BY <2>1, <2>4 DEF Intact
    <3> QED BY <1>1, <2>1, <2>3, <3>1
  <2>5. CASE Root \in Recreated(Take)
    <3>1. Root \in left
      BY <2>2, <2>5 DEF Recreated
    <3>2. DoneWith = {}
      BY <2>1, <2>3, <3>1 DEF Turns
    <3> QED BY <1>1, <2>1, <2>3, <3>2
  <2> QED BY <2>1, <2>4, <2>5
<1>7. CASE Check
  <2> DEFINE deps == IF Parallel THEN PlanFor(wanted, batch, Groups)
                     ELSE FilteredPackages(wanted, batch, Groups)
  <2>1. /\ pc = "check" /\ UNCHANGED <<wanted, command, left, batch, dir, disturbed>>
        /\ \/ pc' = "create"
           \/ /\ pc' = "link"
              /\ \A i \in batch : Ready(FilteredDirect(wanted, i, Groups), deps)
    BY <1>7 DEF Check
  <2>2. \A p : Intact(p)' <=> Intact(p)
    BY <2>1 DEF Intact
  <2>3. CASE pc' = "create"
    <3>1. DoneWith' = DoneWith
      BY <2>1, <2>3 DEF DoneWith
    <3> QED BY <1>1, <2>1, <2>2, <3>1
  <2>4. CASE \A i \in batch : Ready(FilteredDirect(wanted, i, Groups), deps)
    <3>1. \A i \in batch : \A p \in Needed(i, Groups) : dir[p] # "absent"
      BY <2>4, ReadyThere
    <3>2. \A i \in batch : \A p \in Needed(i, Groups) : Intact(p)
      BY <2>1, <3>1, NeededPackages, ThereIsIntact DEF There
    <3>3. DoneWith' \subseteq DoneWith \cup batch
      BY <2>1 DEF DoneWith
    <3> HIDE DEF deps
    <3> QED BY <1>1, <2>1, <2>2, <3>2, <3>3
  <2> QED BY <2>1, <2>3, <2>4
<1>8. ASSUME UNCHANGED <<wanted, command, left, batch>>, pc \in {"create", "work"}, pc' = "work",
             \A p \in Packages : Intact(p) => Intact(p)'
      PROVE  Served'
  <2>1. DoneWith' = DoneWith
    BY <1>8 DEF DoneWith
  <2> QED BY <1>1, <1>8, <2>1, NeededPackages
<1>9. CASE PreCreate
  <2>1. \A p \in Packages : Intact(p) => Intact(p)'
    BY <1>9 DEF PreCreate, Intact
  <2> QED BY <1>8, <1>9, <2>1 DEF PreCreate
<1>10. ASSUME NEW q \in Packages, Layout(q) \/ ImportClaimed(q) \/ Import(q) \/ ImportFails(q)
       PROVE  Served'
  <2>1. pc = "work" /\ UNCHANGED <<wanted, command, left, batch, pc>>
    BY <1>10 DEF Layout, ImportClaimed, Import, ImportFails
  <2>2. ASSUME NEW p \in Packages, Intact(p) PROVE Intact(p)'
    BY <1>10, <2>2 DEF Layout, ImportClaimed, Import, ImportFails, Intact, Shape
  <2> QED BY <1>8, <2>1, <2>2
<1>11. CASE Prune
  <2>1. /\ pc = "work" /\ pc' = "link" /\ imports = {}
        /\ UNCHANGED <<wanted, command, left, batch, disturbed>>
        /\ \/ dir' = dir
           \/ /\ MayPrune
              /\ dir' = [p \in Packages |-> IF p \in DOMAIN plan THEN dir[p] ELSE "absent"]
    BY <1>11 DEF Prune
  <2>2. \A p \in DOMAIN plan : Intact(p) /\ Intact(p)'
    BY <2>1 DEF Shape, Imported, Intact
  <2>3. \A i \in batch : \A p \in Needed(i, Groups) : p \in DOMAIN plan
    <3>1. Filtered(wanted, batch, Groups) = UNION {Filtered(wanted, {j}, Groups) : j \in batch}
      BY FilteredByImporter
    <3> QED BY <2>1, <3>1 DEF Shape, Needed
  <2>4. DoneWith' \subseteq DoneWith \cup batch /\ (MayPrune => DoneWith = {})
    BY <2>1 DEF DoneWith, Turns
  <2>5. CASE dir' = dir
    <3>1. \A p : Intact(p)' <=> Intact(p)
      BY <2>1, <2>5 DEF Intact
    <3> QED BY <1>1, <2>1, <2>2, <2>3, <2>4, <3>1
  <2>6. CASE MayPrune
    BY <1>1, <2>1, <2>2, <2>3, <2>4, <2>6
  <2> QED BY <2>1, <2>5, <2>6
<1>12. CASE LinkDirect \/ WriteModules \/ WriteCurrent
  <2>1. /\ pc \notin {"idle", "check", "create", "work"} /\ pc' \notin {"check", "create", "work"}
        /\ UNCHANGED <<wanted, command, left, dir, disturbed>>
    BY <1>12 DEF LinkDirect, WriteModules, WriteCurrent
  <2>2. DoneWith' = DoneWith /\ \A p : Intact(p)' <=> Intact(p)
    BY <2>1 DEF DoneWith, Intact
  <2> QED BY <1>1, <2>1, <2>2
<1>13. CASE UNCHANGED vars
  BY <1>13 DEF vars, Served, DoneWith, Needed, Groups, Intact
<1> QED
  BY <1>3, <1>4, <1>5, <1>6, <1>7, <1>9, <1>10, <1>11, <1>12, <1>13 DEF Next, Step

LEMMA FilteredReached ==
  ASSUME NEW l, NEW i, NEW groups
  PROVE  Filtered(l, {i}, groups) \subseteq Reach(l.deps, Direct(l, i, groups))
<1> DEFINE met == Reach(l.deps, Direct(l, i, groups))
<1>1. /\ met \subseteq DOMAIN l.deps /\ Direct(l, i, groups) \cap DOMAIN l.deps \subseteq met
      /\ \A y \in met : l.deps[y] \cap DOMAIN l.deps \subseteq met
  BY ReachFacts
<1> DEFINE T == met \cap Fitting(l)
<1>2. /\ T \subseteq Fitting(l)
      /\ \A j \in {i} : Direct(l, j, groups) \cap Fitting(l) \subseteq T
      /\ \A y \in T : l.deps[y] \cap Fitting(l) \subseteq T
  <2> HIDE DEF met
  <2> QED BY <1>1 DEF Fitting
<1>3. Filtered(l, {i}, groups) \subseteq T
  <2> HIDE DEF T
  <2> QED BY <1>2, FilteredLeast
<1> QED BY <1>3

(* lock.yaml after a command. *)
LEMMA WrittenListed ==
  ASSUME RootApart, IInv, Shape, Served, RootListed, pc = "next", left = {},
         NEW new, new = Preserving(wanted, command.targets, Groups),
         Root \in DOMAIN new.prod, NEW p \in Filtered(new, {Root}, "all")
  PROVE  There(p)
<1>1. /\ WellFormed(wanted) /\ Unlinked(wanted) /\ command \in Commands
      /\ current = None \/ (WellFormed(current) /\ Unlinked(current))
  BY VirtualStoreAssumption DEF IInv, Shape, RootApart, RootUnlinked, Unlinked
<1>2. \A i \in command.targets : \A q \in Needed(i, Groups) : Intact(q)
  BY DEF Served, DoneWith
<1>3. \A q : Intact(q) => There(q)
  BY DEF Intact, There
<1>4. CASE Root \in command.targets
  <2>1. p \in Filtered(wanted, {Root}, Groups)
    BY <1>1, <1>4, TargetRootListed
  <2> QED BY <1>2, <1>3, <1>4, <2>1 DEF Needed
<1>5. CASE Root \notin command.targets
  <2>1. \/ /\ p \in DOMAIN CurrentFor(wanted, command.targets, Groups).deps
           /\ Installable(wanted, p)
        \/ /\ current # None /\ Root \in DOMAIN current.prod
           /\ p \in Filtered(current, {Root}, Groups)
    BY <1>1, <1>5, OtherRootListed
  <2>2. CASE /\ p \in DOMAIN CurrentFor(wanted, command.targets, Groups).deps
             /\ Installable(wanted, p)
    <3>1. p \in Filtered(wanted, command.targets, Groups)
      BY <1>1, <1>5, <2>2 DEF RootApart, InstallsListed, IInv, Groups
    <3>2. Filtered(wanted, command.targets, Groups)
            = UNION {Filtered(wanted, {i}, Groups) : i \in command.targets}
      BY FilteredByImporter
    <3> QED BY <1>2, <1>3, <3>1, <3>2 DEF Needed
  <2>3. CASE /\ current # None /\ Root \in DOMAIN current.prod
             /\ p \in Filtered(current, {Root}, Groups)
    BY <1>5, <2>3 DEF RootListed, Listed
  <2> QED BY <2>1, <2>2, <2>3
<1> QED BY <1>4, <1>5

LEMMA StepRootListed ==
  RootApart /\ IInv /\ Shape /\ Turns /\ Served /\ RootListed /\ [Next]_vars => RootListed'
<1> SUFFICES ASSUME RootApart, IInv, Shape, Turns, Served, RootListed, [Next]_vars
             PROVE  RootListed'
  OBVIOUS
<1> USE DEF disk, process, counters
<1>1. ASSUME current' = current, \A p \in Packages : There(p) => There(p)', NEW g, Listed(g)
      PROVE  Listed(g)'
  <2>1. current # None => Filtered(current, {Root}, g) \subseteq Packages
    BY FilteredFacts DEF IInv, WellFormed, Fitting
  <2> QED BY <1>1, <2>1 DEF Listed
<1>2. ASSUME UNCHANGED <<dir, disturbed>> PROVE \A p : There(p) => There(p)'
  BY <1>2 DEF There
<1>3. \A g : Listed("all") => Listed(g)
  BY ProdInAll DEF Listed
<1>4. ASSUME current' = current, \A p \in Packages : There(p) => There(p)',
             pc # "idle", command' = command, pc' # "idle",
             pc' = "root" => pc = "root",
             ~(pc' = "next" /\ Root \in left' /\ ~(pc = "next" /\ Root \in left))
      PROVE  RootListed'
  <2>1. \A g : Listed(g) => Listed(g)'
    BY <1>1, <1>4
  <2>2. Groups' = Groups
    BY <1>4 DEF Groups
  <2>3. Root \notin command.targets => Listed(Groups)'
    BY <1>4, <2>1, <2>2 DEF RootListed
  <2> QED BY <1>4, <2>1, <2>3 DEF RootListed
<1>5. CASE Edit
  <2>1. current' = current /\ pc' = "idle" /\ pc = "idle" /\ UNCHANGED <<dir, disturbed>>
    BY <1>5 DEF Edit
  <2> QED BY <1>1, <1>2, <2>1 DEF RootListed
<1>6. CASE Start
  <2>1. current' = current /\ pc' = "next" /\ pc = "idle" /\ UNCHANGED <<dir, disturbed>>
    BY <1>6 DEF Start
  <2>2. \A g : Listed(g)'
    BY <1>1, <1>2, <1>3, <2>1 DEF RootListed
  <2>3. Listed("all")' /\ Listed(Groups)'
    BY <2>2
  <2> QED BY <2>1, <2>3 DEF RootListed
<1>7. CASE Skip
  <2>1. /\ pc = "next" /\ left # {} /\ left' = left \ Take /\ pc' \in {"next", "modules"}
        /\ UNCHANGED <<current, dir, disturbed, command>>
    BY <1>7 DEF Skip, TakeNext
  <2>2. Root \notin left'
    BY <2>1, Taken DEF RootApart
  <2> QED BY <1>2, <1>4, <2>1, <2>2
<1>8. CASE Prepare
  <2>1. /\ pc = "next" /\ pc' = "check" /\ UNCHANGED <<disturbed, command>>
        /\ current' = None \/ (current' = current /\ dir' = dir)
    BY <1>8 DEF Prepare
  <2>2. CASE current' = None
    <3>1. \A g : Listed(g)'
      BY <2>2 DEF Listed
    <3> QED BY <2>1, <3>1 DEF RootListed
  <2>3. CASE current' = current /\ dir' = dir
    BY <1>2, <1>4, <2>1, <2>3
  <2> QED BY <2>1, <2>2, <2>3
<1>9. CASE Check \/ LinkDirect \/ WriteModules
  <2>1. /\ pc \notin {"idle", "next", "root"}
        /\ UNCHANGED <<current, dir, disturbed, command, left>>
        /\ pc' \in {"link", "create", "modules", "next"}
    BY <1>9 DEF Check, LinkDirect, WriteModules
  <2>2. Root \notin left
    BY <2>1 DEF Turns
  <2> QED BY <1>2, <1>4, <2>1, <2>2
<1>10. CASE PreCreate
  <2>1. \A p \in Packages : There(p) => There(p)'
    BY <1>10 DEF PreCreate, There
  <2> QED BY <1>4, <1>10, <2>1 DEF PreCreate
<1>11. ASSUME NEW q \in Packages, Layout(q) \/ ImportClaimed(q) \/ Import(q) \/ ImportFails(q)
       PROVE  RootListed'
  <2>1. pc = "work" /\ pc' = "work" /\ UNCHANGED <<current, command>>
    BY <1>11 DEF Layout, ImportClaimed, Import, ImportFails
  <2>2. ASSUME NEW p \in Packages, There(p) PROVE There(p)'
    BY <1>11, <2>2 DEF Layout, ImportClaimed, Import, ImportFails, There, Shape
  <2> QED BY <1>4, <2>1, <2>2
<1>12. CASE Prune
  <2>1. /\ pc = "work" /\ pc' = "link" /\ UNCHANGED <<current, command, disturbed>>
        /\ \/ dir' = dir
           \/ /\ MayPrune
              /\ dir' = [p \in Packages |-> IF p \in DOMAIN plan THEN dir[p] ELSE "absent"]
    BY <1>12 DEF Prune
  <2>2. CASE dir' = dir
    BY <1>2, <1>4, <2>1, <2>2
  <2>3. ASSUME MayPrune, Root \notin command.targets, current # None, Root \in DOMAIN current.prod,
               dir' = [p \in Packages |-> IF p \in DOMAIN plan THEN dir[p] ELSE "absent"],
               NEW p \in Filtered(current, {Root}, Groups)
        PROVE  There(p)'
    <3>1. command \in Commands /\ WellFormed(current) /\ batch = command.targets
      BY <2>1, <2>3 DEF IInv, Turns
    <3>2. Parallel
      <4>1. ASSUME Len(ImporterOrder) = 1 PROVE FALSE
        <5>1. Importers = {ImporterOrder[1]}
          BY <4>1, VirtualStoreAssumption DEF Importers, ToSet
        <5> QED BY <2>3, <3>1, <5>1, VirtualStoreAssumption
      <4> QED BY <2>3, <4>1 DEF MayPrune
    <3>3. Groups \in {"all", "prod"}
      BY <3>1, VirtualStoreAssumption DEF Groups
    <3>4. Reach(current.deps, Direct(current, Root, Groups)) \subseteq DOMAIN plan
      BY <2>1, <2>3, <3>1, <3>2, <3>3, PlansForOthers DEF IInv, Planned
    <3>5. p \in DOMAIN plan
      BY <3>4, FilteredReached
    <3>6. p \in Packages
      BY <2>1, <3>5 DEF Shape
    <3>7. There(p)
      BY <2>1, <2>3 DEF RootListed, Listed
    <3> QED BY <2>1, <2>3, <3>5, <3>6, <3>7 DEF There
  <2>4. ASSUME MayPrune,
               dir' = [p \in Packages |-> IF p \in DOMAIN plan THEN dir[p] ELSE "absent"]
        PROVE  RootListed'
    <3>1. Root \notin command.targets => Listed(Groups)'
      BY <2>1, <2>3, <2>4 DEF Listed, Groups
    <3> QED BY <2>1, <3>1 DEF RootListed
  <2> QED BY <2>1, <2>2, <2>4
<1>13. CASE WriteCurrent
  <2>1. /\ pc = "next" /\ left = {} /\ pc' = "root" /\ UNCHANGED <<dir, disturbed>>
        /\ current' = Preserving(wanted, command.targets, Groups)
    BY <1>13 DEF WriteCurrent
  <2>2. ASSUME Root \in DOMAIN current'.prod, NEW p \in Filtered(current', {Root}, "all")
        PROVE  There(p)'
    <3>1. There(p)
      BY <2>1, <2>2, WrittenListed
    <3> QED BY <1>2, <2>1, <3>1
  <2>3. \A g : Listed(g)'
    BY <2>2, ProdInAll DEF Listed
  <2>4. Listed("all")' /\ Listed(Groups)'
    BY <2>3
  <2> QED BY <2>4 DEF RootListed
<1>14. CASE RewriteRoot
  <2>1. pc = "root" /\ pc' = "idle" /\ UNCHANGED <<current, dir, disturbed>>
    BY <1>14 DEF RewriteRoot, Exit
  <2>2. Listed("all")'
    BY <1>1, <1>2, <2>1 DEF RootListed
  <2> QED BY <2>1, <2>2 DEF RootListed
<1>15. CASE Kill
  <2>1. /\ pc' = "idle" /\ current' = current /\ Unrecorded \subseteq disturbed'
        /\ {p \in imports : dir'[p] = "absent"} \subseteq disturbed'
        /\ \E broken \in SUBSET imports : \E left_behind \in [broken -> {"absent", "partial"}] :
             dir' = Over(left_behind, dir)
    BY <1>15, SMTT(30) DEF Kill, Exit
  <2>2. ASSUME current # None, NEW p \in DOMAIN current.deps PROVE There(p)'
    <3>1. p \in Packages
      BY <2>2 DEF IInv, WellFormed
    <3>2. CASE p \in imports
      BY <2>1, <3>2 DEF There
    <3>3. CASE p \notin imports
      <4>1. dir'[p] = dir[p]
        BY <2>1, <3>1, <3>3 DEF Over, Shape
      <4> QED BY <2>1, <2>2, <4>1 DEF There, Unrecorded
    <3> QED BY <3>2, <3>3
  <2>3. Listed("all")'
    BY <2>1, <2>2, FilteredFacts DEF Listed, Fitting
  <2> QED BY <2>1, <2>3 DEF RootListed
<1>16. CASE UNCHANGED vars
  <2>1. UNCHANGED <<current, dir, disturbed, pc, left, command>>
    BY <1>16 DEF vars
  <2>2. \A g : Listed(g) => Listed(g)'
    BY <1>1, <1>2, <2>1
  <2> QED BY <2>1, <2>2 DEF RootListed, Groups
<1> QED
  BY <1>5, <1>6, <1>7, <1>8, <1>9, <1>10, <1>11, <1>12, <1>13, <1>14, <1>15, <1>16 DEF Next, Step
-----------------------------------------------------------------------------
(* Where a package directory without all files may be, which importers     *)
(* have what they need at each point of a command, and what lock.yaml's    *)
(* word on the root is worth.                                              *)
THEOREM WholeInvariance ==
  ASSUME RootApart
  PROVE  Spec => []WInv
<1>1. WInv /\ [Next]_vars => WInv'
  BY StepInv, StepShape, StepTurns, StepImported, StepServed, StepRootListed DEF WInv
<1> QED BY <1>1, InitWInv, PTL DEF Spec

(* A command that has ended leaves every package its targets need with all *)
(* its files, unless a kill or a failed download kept the import from      *)
(* finishing: neither the shortcuts of later commands nor the packages     *)
(* that importers of one command share, a --force or the removal of        *)
(* orphans get in the way.                                                 *)
THEOREM WholeUnlessDisturbedHolds ==
  ASSUME RootApart
  PROVE  Spec => []WholeUnlessDisturbed
<1>1. WInv => WholeUnlessDisturbed
  <2> SUFFICES ASSUME WInv, pc = "root" PROVE WholeUnlessDisturbed
    BY DEF WholeUnlessDisturbed
  <2>1. DoneWith = command.targets
    BY DEF WInv, IInv, Turns, DoneWith
  <2> QED BY <2>1 DEF WInv, Served, Intact, WholeUnlessDisturbed
<1> QED BY <1>1, WholeInvariance, PTL

(* The check of persisted_install_state_is_reusable is not satisfied while *)
(* a package is missing, by the times of the two files either, unless an   *)
(* import did not finish or a command was killed between the removal of a  *)
(* package and the writing of lock.yaml.                                   *)
THEOREM ReusableIsPresentHolds ==
  ASSUME RootApart
  PROVE  Spec => []ReusableIsPresent
<1>1. WInv => ReusableIsPresent
  <2> SUFFICES ASSUME WInv PROVE ReusableIsPresent
    OBVIOUS
  <2>1. CurrentClosed
    BY DEF WInv, IInv, CurrentClosed, WellFormed
  <2>2. ASSUME pc = "idle", NEW i \in Importers, NEW g \in {"all", "prod"}, Reusable(i, g)
        PROVE  \A p \in Needed(i, g) : There(p)
    BY <2>2, ReusableThere DEF WInv, RootListed
  <2> QED BY <2>1, <2>2 DEF ReusableIsPresent, There
<1> QED BY <1>1, WholeInvariance, PTL
==============================================================================
