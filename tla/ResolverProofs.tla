--------------------------- MODULE ResolverProofs ----------------------------
(***************************************************************************)
(* Proofs about Resolver, for any graph of dependencies, cyclic ones       *)
(* included, any number of importers and any earlier lockfile: the two     *)
(* safety properties of MCResolver, where the lockfile is reloaded between *)
(* importers (~LockfileOnly).                                              *)
(***************************************************************************)
EXTENDS Resolver, TLAPS

Full == [p \in Packages |-> Deps(p)]

(* The variables, and what is known of them between any two steps. *)
LockfileType(l) ==
  /\ l.importers \in [Importers -> SUBSET Packages]
  /\ DOMAIN l.packages \subseteq Packages
  /\ \A p \in DOMAIN l.packages : l.packages[p] \in Snapshot

TypeOK ==
  /\ importer \in 1..(NumImporters + 1)
  /\ status \in {"between", "resolving", "failed"}
  /\ call \in [Edges -> {"none", "resolving", "expanding", "ok", "err"}]
  /\ claimed \subseteq Packages
  /\ DOMAIN snapshots \subseteq Packages
  /\ \A p \in DOMAIN snapshots : snapshots[p] \in Snapshot
  /\ imported \subseteq Packages
  /\ LockfileType(lockfile)
  /\ current = lockfile

(* A package has all its dependencies, unless it does not fit the platform. *)
WholeDeps(packages) ==
  \A p \in DOMAIN packages : /\ packages[p].deps \subseteq Deps(p)
                             /\ p \notin Unsupported => packages[p].deps = Deps(p)

Closed(l) == /\ RootsOf(l.importers) \subseteq DOMAIN l.packages
             /\ \A p \in DOMAIN l.packages : l.packages[p].deps \subseteq DOMAIN l.packages

LockfileInv ==
  /\ Closed(lockfile)
  /\ WholeDeps(lockfile.packages)
  /\ DOMAIN lockfile.packages \subseteq Reach(RootsOf(lockfile.importers), Full)
  /\ ExtendsIncrementally

SnapshotsInv ==
  /\ WholeDeps(snapshots)
  /\ \A p \in DOMAIN snapshots : ~snapshots[p].optional => p \in imported

(* S holds the dependencies of the importers before the i-th. *)
HoldsRoots(S, i) == \A j \in Importers : j < i => Deps(j) \subseteq S

Pending(e) == call[e] \in {"resolving", "expanding", "err"}

(* Between two runs nothing is pending, and claimed are packages of the    *)
(* lockfile that the importers so far lead to, by way of claimed ones.     *)
BetweenInv ==
  /\ \A e \in Edges : ~Pending(e)
  /\ claimed \subseteq DOMAIN lockfile.packages
  /\ \A S \in SUBSET Packages :
       /\ HoldsRoots(S, importer)
       /\ \A q \in S \cap claimed : lockfile.packages[q].deps \subseteq S
       => claimed \subseteq S

(* During a run that began when `before` was claimed: what it has claimed  *)
(* and has no snapshot of yet.                                             *)
Open(before) == claimed \ (before \cup DOMAIN snapshots)

ClaimsInv(before) ==
  /\ importer \in Importers
  /\ before \subseteq claimed
  /\ before \subseteq DOMAIN lockfile.packages
  /\ DOMAIN snapshots \subseteq claimed \ before
  /\ \A p \in DOMAIN snapshots : snapshots[p].deps \subseteq claimed
  /\ \A e \in Edges : call[e] = "ok" => e[2] \in claimed

CallsInv(before) ==
  /\ \A e \in Edges : Pending(e) => e[1] = importer \/ e[1] \in Open(before)
  /\ \A e \in Edges : call[e] = "expanding" =>
       e[2] \in Open(before) /\ e[2] \in imported
  /\ \A e, f \in Edges :
       call[e] = "expanding" /\ call[f] = "expanding" /\ e[2] = f[2] => e = f

(* Open packages do not hold each other up: of any of them, one was asked  *)
(* for by a call from outside, which is under way or has failed.           *)
OpenInv(before) ==
  \A S \in SUBSET Open(before) : S # {} =>
    \E e \in Edges : /\ e[2] \in S /\ e[1] \notin S
                     /\ call[e] \in {"expanding", "err"}

(* What is claimed can be reached, by way of what is recorded or to be.    *)
ReachInv(before) ==
  \A S \in SUBSET Packages :
    /\ HoldsRoots(S, importer + 1)
    /\ \A q \in S \cap before : lockfile.packages[q].deps \subseteq S
    /\ \A q \in S \cap DOMAIN snapshots : snapshots[q].deps \subseteq S
    /\ \A q \in S \cap Open(before) : Deps(q) \subseteq S
    => claimed \subseteq S

RunInv(before) == ClaimsInv(before) /\ CallsInv(before) /\ OpenInv(before) /\ ReachInv(before)

IInv == /\ TypeOK
        /\ LockfileInv
        /\ SnapshotsInv
        /\ status = "between" => BetweenInv
        /\ status # "between" => \E before \in SUBSET Packages : RunInv(before)
-----------------------------------------------------------------------------
LEMMA Typed ==
  /\ Importers \subseteq Nodes /\ Packages \subseteq Nodes
  /\ \A n \in Nodes : Deps(n) \subseteq Packages
  /\ \A e \in Edges : e[1] \in Nodes /\ e[2] \in Packages /\ e[2] \in Deps(e[1])
  /\ \A n \in Nodes : \A p \in Deps(n) : <<n, p>> \in Children(n)
  /\ \A n \in Nodes : \A f \in Children(n) : f \in Edges /\ f[1] = n
BY ResolverAssumption DEF Nodes, Deps, Edges, Children

(* What Reach holds: its roots, what they lead to, and nothing else. *)
LEMMA ReachRoots ==
  ASSUME NEW roots, NEW next, roots \subseteq Packages
  PROVE  roots \subseteq Reach(roots, next)
BY DEF Reach

LEMMA ReachClosed ==
  ASSUME NEW roots, NEW next, NEW q \in Reach(roots, next), q \in DOMAIN next,
         next[q] \subseteq Packages
  PROVE  next[q] \subseteq Reach(roots, next)
BY DEF Reach

LEMMA ReachLeast ==
  ASSUME NEW roots, NEW next, NEW S \in SUBSET Packages, roots \subseteq S,
         \A q \in S \cap DOMAIN next : next[q] \subseteq S
  PROVE  Reach(roots, next) \subseteq S
BY DEF Reach

LEMMA ReachTyped ==
  ASSUME NEW roots, NEW next
  PROVE  Reach(roots, next) \subseteq Packages
BY DEF Reach

LEMMA RootsTyped ==
  ASSUME NEW entries \in [Importers -> SUBSET Packages]
  PROVE  /\ RootsOf(entries) \subseteq Packages
         /\ \A i \in Importers : entries[i] \subseteq RootsOf(entries)
BY DEF RootsOf
-----------------------------------------------------------------------------
LEMMA InitInv == Init => IInv
<1> SUFFICES ASSUME Init PROVE IInv
  OBVIOUS
<1>. PICK entries \in OldEntries : lockfile = LockfileOf(entries)
  BY DEF Init
<1> DEFINE all == Reach(RootsOf(entries), Full)
<1>1. entries \in [Importers -> SUBSET Packages]
  BY ResolverAssumption
<1>2. /\ lockfile.importers = entries
      /\ DOMAIN lockfile.packages = all
      /\ \A p \in all : lockfile.packages[p].deps = Deps(p)
      /\ \A p \in all : lockfile.packages[p] \in [deps : {Deps(p)}, optional : BOOLEAN]
  BY DEF LockfileOf, Full
<1>3. all \subseteq Packages
  BY ReachTyped
<1>4. \A p \in all : Deps(p) \subseteq Packages
  BY <1>3, Typed
<1>5. LockfileType(lockfile)
  BY <1>1, <1>2, <1>3, <1>4 DEF LockfileType, Snapshot
<1>6. TypeOK
  BY <1>5, ResolverAssumption DEF TypeOK, Init, NoSnapshots
<1>7. Closed(lockfile)
  <2>1. RootsOf(entries) \subseteq all
    BY <1>1, RootsTyped, ReachRoots
  <2>2. ASSUME NEW p \in all PROVE Deps(p) \subseteq all
    <3>1. p \in DOMAIN Full /\ Full[p] = Deps(p)
      BY <1>3 DEF Full
    <3> QED BY <3>1, <1>4, ReachClosed
  <2> QED BY <2>1, <2>2, <1>2 DEF Closed
<1>8. LockfileInv
  BY <1>2, <1>7, ResolverAssumption
  DEF LockfileInv, WholeDeps, ExtendsIncrementally, Init, Importers
<1>9. SnapshotsInv /\ BetweenInv
  BY DEF Init, NoSnapshots, SnapshotsInv, WholeDeps, BetweenInv, Pending
<1> QED BY <1>6, <1>8, <1>9 DEF IInv, Init
-----------------------------------------------------------------------------
(* What an importer's run starts from. *)
LEMMA StartRunStep == IInv /\ StartRun => IInv'
<1> SUFFICES ASSUME IInv, StartRun PROVE IInv'
  OBVIOUS
<1>1. TypeOK /\ LockfileInv /\ BetweenInv /\ status = "between" /\ importer \in Importers
  BY DEF IInv, StartRun
<1>2. /\ status' = "resolving" /\ snapshots' = NoSnapshots /\ imported' = {}
      /\ importer' = importer /\ claimed' = claimed /\ current' = current /\ lockfile' = lockfile
  BY DEF StartRun
<1>3. call' \in [Edges -> {"resolving", "none"}]
      /\ \A e \in Edges : call'[e] = "resolving" <=> e[1] = importer
  BY DEF StartRun
<1>4. TypeOK'
  BY <1>1, <1>2, <1>3 DEF TypeOK, NoSnapshots, LockfileType
<1>5. LockfileInv' /\ SnapshotsInv'
  BY <1>1, <1>2 DEF LockfileInv, Closed, WholeDeps, ExtendsIncrementally, SnapshotsInv, NoSnapshots
<1>6. Open(claimed)' = {}
  BY <1>2 DEF Open
<1>7. ClaimsInv(claimed)'
  BY <1>1, <1>2, <1>3 DEF ClaimsInv, BetweenInv, NoSnapshots
<1>8. CallsInv(claimed)' /\ OpenInv(claimed)'
  BY <1>2, <1>3, <1>6 DEF CallsInv, OpenInv, Pending
<1>9. ReachInv(claimed)'
  <2>1. \A S : HoldsRoots(S, importer + 1) => HoldsRoots(S, importer)
    BY <1>1 DEF HoldsRoots, Importers
  <2> QED BY <2>1, <1>1, <1>2 DEF ReachInv, BetweenInv, HoldsRoots
<1>10. claimed \in SUBSET Packages /\ claimed' = claimed
  BY <1>1, <1>2 DEF TypeOK
<1>11. \E before \in SUBSET Packages : RunInv(before)'
  BY <1>7, <1>8, <1>9, <1>10 DEF RunInv
<1> QED BY <1>2, <1>4, <1>5, <1>11 DEF IInv

LEMMA RunFrozenStep == ~LockfileOnly /\ IInv /\ RunFrozen => IInv'
<1> SUFFICES ASSUME ~LockfileOnly, IInv, RunFrozen PROVE IInv'
  OBVIOUS
<1> DEFINE kept == {p \in DOMAIN current.packages :
                      ~(p \in Unsupported /\ current.packages[p].optional)}
           next == [p \in kept |-> current.packages[p].deps]
           direct == current.importers[importer] \ (Optional[importer] \cap Unsupported)
<1>1. /\ TypeOK /\ LockfileInv /\ SnapshotsInv /\ BetweenInv
      /\ status = "between" /\ importer \in Importers
  BY DEF IInv, RunFrozen
<1>2. /\ status' = status /\ call' = call /\ snapshots' = snapshots /\ imported' = imported
      /\ lockfile' = lockfile /\ current' = lockfile' /\ importer' = importer + 1
  BY DEF RunFrozen
<1>3. current = lockfile /\ lockfile.importers[importer] = Deps(importer)
  BY <1>1 DEF RunFrozen, TypeOK
<1>4. Installable(importer) = Reach(direct, next) \cap kept
  BY DEF Installable
<1>5. kept \subseteq DOMAIN lockfile.packages /\ DOMAIN lockfile.packages \subseteq Packages
  BY <1>1, <1>3 DEF TypeOK, LockfileType
<1>6. claimed' = claimed \/ claimed' = claimed \cup Installable(importer)
  BY DEF RunFrozen
<1>7. claimed' \subseteq DOMAIN lockfile.packages
  BY <1>1, <1>4, <1>5, <1>6 DEF BetweenInv
<1>8. TypeOK'
  BY <1>1, <1>2, <1>5, <1>7, ResolverAssumption DEF TypeOK, LockfileType, Importers
<1>9. LockfileInv' /\ SnapshotsInv'
  BY <1>1, <1>2, <1>3
  DEF LockfileInv, Closed, WholeDeps, ExtendsIncrementally, SnapshotsInv, Importers
<1>10. ASSUME NEW S \in SUBSET Packages, HoldsRoots(S, importer + 1),
              \A q \in S \cap claimed' : lockfile.packages[q].deps \subseteq S
       PROVE  claimed' \subseteq S
  <2>1. HoldsRoots(S, importer) /\ Deps(importer) \subseteq S
    BY <1>1, <1>10 DEF HoldsRoots, Importers
  <2>2. claimed \subseteq S
    BY <1>1, <1>6, <1>10, <2>1 DEF BetweenInv
  <2>3. CASE claimed' = claimed \cup Installable(importer)
    <3> DEFINE T == {y \in Reach(direct, next) : y \in kept => y \in S}
    <3> HIDE DEF kept, direct, next
    <3>1. direct \subseteq T
      <4>1. direct \subseteq Deps(importer)
        BY <1>3 DEF direct
      <4>2. Deps(importer) \subseteq Packages
        BY <1>1, Typed
      <4>3. direct \subseteq Reach(direct, next)
        BY <4>1, <4>2, ReachRoots
      <4> QED BY <4>1, <4>3, <2>1
    <3>2. ASSUME NEW q \in T \cap DOMAIN next PROVE next[q] \subseteq T
      <4>1. q \in kept /\ next[q] = lockfile.packages[q].deps
        BY <1>3 DEF next
      <4>2. q \in S /\ q \in claimed'
        BY <4>1, <1>4, <2>3
      <4>3. next[q] \subseteq S
        BY <4>1, <4>2, <1>10
      <4>4. next[q] \subseteq Reach(direct, next)
        BY <4>3, ReachClosed
      <4> QED BY <4>3, <4>4
    <3>3. T \in SUBSET Packages
      BY ReachTyped
    <3>4. Reach(direct, next) \subseteq T
      <4> HIDE DEF T
      <4> QED BY <3>1, <3>2, <3>3, ReachLeast
    <3> QED BY <3>4, <1>4, <2>2, <2>3
  <2> QED BY <2>2, <2>3, <1>6
<1>11. BetweenInv'
  BY <1>1, <1>2, <1>7, <1>10 DEF BetweenInv, Pending, HoldsRoots
<1> QED BY <1>1, <1>2, <1>8, <1>9, <1>11 DEF IInv
-----------------------------------------------------------------------------
(* The calls of a run: a pending one is a call of the run under way, for a *)
(* dependency of the importer or of an open package.                       *)
LEMMA PendingCall ==
  ASSUME IInv, NEW e \in Edges, Pending(e)
  PROVE  /\ status # "between"
         /\ e[1] \in Nodes /\ e[2] \in Packages /\ e[2] \in Deps(e[1])
         /\ \E before \in SUBSET Packages : RunInv(before)
BY Typed DEF IInv, BetweenInv, TypeOK

(* Inserting a snapshot. *)
LEMMA Inserted ==
  ASSUME NEW p \in Packages, NEW deps \in SUBSET Packages, NEW optional \in BOOLEAN,
         DOMAIN snapshots \subseteq Packages,
         \A q \in DOMAIN snapshots : snapshots[q] \in Snapshot,
         Insert(p, deps, optional)
  PROVE  /\ DOMAIN snapshots' = DOMAIN snapshots \cup {p}
         /\ \A q \in DOMAIN snapshots' : snapshots'[q] \in Snapshot
         /\ snapshots'[p] = [deps |-> deps, optional |-> optional]
         /\ \A q \in DOMAIN snapshots : q # p => snapshots'[q] = snapshots[q]
BY DEF Insert, Snapshot

(* Whoever asks for p is an importer that has reached the run, or open. *)
LEMMA AskedIsReached ==
  ASSUME NEW before \in SUBSET Packages, RunInv(before), NEW e \in Edges, Pending(e),
         NEW S \in SUBSET Packages, HoldsRoots(S, importer + 1), claimed \subseteq S,
         \A q \in S \cap Open(before) : Deps(q) \subseteq S,
         importer \in Importers
  PROVE  e[2] \in S
<1>1. e[2] \in Deps(e[1])
  BY Typed
<1>2. CASE e[1] = importer
  BY <1>1, <1>2 DEF HoldsRoots, Importers
<1>3. CASE e[1] \in Open(before)
  BY <1>1, <1>3 DEF Open
<1> QED BY <1>2, <1>3 DEF RunInv, CallsInv

LEMMA ImportedStep ==
  ASSUME ~LockfileOnly, TypeOK, NEW e \in Edges, Import(e)
  PROVE  /\ imported' \subseteq Packages /\ imported \subseteq imported'
         /\ ~Skipped(e) => e[2] \in imported'
BY Typed DEF Import, TypeOK

(* A package that is claimed and snapshotted at once. *)
LEMMA ClaimLeafStep ==
  ASSUME ~LockfileOnly, IInv, NEW e \in Edges, Claim(e), Skipped(e) \/ Children(e[2]) = {}
  PROVE  IInv'
<1>1. Pending(e)
  BY DEF Claim, Pending
<1>2. /\ status # "between" /\ e[1] \in Nodes /\ e[2] \in Packages /\ e[2] \in Deps(e[1])
      /\ \E before \in SUBSET Packages : RunInv(before)
  BY <1>1, PendingCall
<1>. PICK before \in SUBSET Packages : RunInv(before)
  BY <1>2
<1> DEFINE p == e[2]
<1>3. TypeOK /\ LockfileInv /\ SnapshotsInv
      /\ ClaimsInv(before) /\ CallsInv(before) /\ OpenInv(before) /\ ReachInv(before)
  BY DEF IInv, RunInv
<1>4. /\ importer' = importer /\ status' = status /\ current' = current /\ lockfile' = lockfile
      /\ claimed' = claimed \cup {p} /\ p \notin claimed /\ call[e] = "resolving"
  BY DEF Claim
<1>5. call' = [call EXCEPT ![e] = "ok"]
  BY DEF Claim
<1>6. p \notin DOMAIN snapshots /\ p \notin before
  BY <1>3, <1>4 DEF ClaimsInv
<1>7. Insert(p, {}, p \in Optional[e[1]])
  BY DEF Claim
<1>8. /\ DOMAIN snapshots' = DOMAIN snapshots \cup {p}
      /\ \A q \in DOMAIN snapshots' : snapshots'[q] \in Snapshot
      /\ snapshots'[p] = [deps |-> {}, optional |-> p \in Optional[e[1]]]
      /\ \A q \in DOMAIN snapshots : snapshots'[q] = snapshots[q]
  <2>1. (p \in Optional[e[1]]) \in BOOLEAN
    OBVIOUS
  <2>2. DOMAIN snapshots \subseteq Packages /\ \A q \in DOMAIN snapshots : snapshots[q] \in Snapshot
    BY <1>3 DEF TypeOK
  <2>3. \A optional \in BOOLEAN : Insert(p, {}, optional) =>
          /\ DOMAIN snapshots' = DOMAIN snapshots \cup {p}
          /\ \A q \in DOMAIN snapshots' : snapshots'[q] \in Snapshot
          /\ snapshots'[p] = [deps |-> {}, optional |-> optional]
          /\ \A q \in DOMAIN snapshots : q # p => snapshots'[q] = snapshots[q]
    BY <1>2, <2>2, Inserted
  <2> QED BY <1>6, <1>7, <2>1, <2>3
<1>9. /\ imported' \subseteq Packages /\ imported \subseteq imported'
      /\ ~Skipped(e) => p \in imported'
  BY <1>3, ImportedStep DEF Claim
<1>10. TypeOK'
  BY <1>2, <1>3, <1>4, <1>5, <1>8, <1>9 DEF TypeOK, LockfileType
<1>11. LockfileInv'
  BY <1>3, <1>4 DEF LockfileInv, Closed, WholeDeps, ExtendsIncrementally
<1>12. SnapshotsInv'
  <2>1. p \notin Unsupported => Deps(p) = {}
    BY <1>2, Typed DEF Skipped
  <2>2. ~snapshots'[p].optional => p \in imported'
    <3>1. CASE p \in Optional[e[1]]
      <4>1. snapshots'[p] = [deps |-> {}, optional |-> TRUE]
        BY <1>8, <3>1
      <4> QED BY <4>1
    <3>2. CASE p \notin Optional[e[1]]
      BY <1>9, <3>2 DEF Skipped
    <3> QED BY <3>1, <3>2
  <2>3. WholeDeps(snapshots)'
    BY <1>3, <1>8, <2>1 DEF SnapshotsInv, WholeDeps
  <2>4. \A q \in DOMAIN snapshots' : ~snapshots'[q].optional => q \in imported'
    BY <1>3, <1>8, <1>9, <2>2 DEF SnapshotsInv
  <2> QED BY <2>3, <2>4 DEF SnapshotsInv
<1>13. Open(before)' = Open(before)
  BY <1>4, <1>6, <1>8 DEF Open
<1>14. ClaimsInv(before)'
  BY <1>3, <1>4, <1>5, <1>6, <1>8 DEF ClaimsInv, TypeOK
<1>15. CallsInv(before)'
  BY <1>3, <1>4, <1>5, <1>9, <1>13 DEF CallsInv, Pending, TypeOK
<1>16. OpenInv(before)'
  BY <1>3, <1>4, <1>5, <1>13 DEF OpenInv, TypeOK
<1>17. ReachInv(before)'
  <2> SUFFICES ASSUME NEW S \in SUBSET Packages, HoldsRoots(S, importer + 1),
                      \A q \in S \cap before : lockfile.packages[q].deps \subseteq S,
                      \A q \in S \cap DOMAIN snapshots' : snapshots'[q].deps \subseteq S,
                      \A q \in S \cap Open(before) : Deps(q) \subseteq S
               PROVE  claimed' \subseteq S
    BY <1>4, <1>13 DEF ReachInv, HoldsRoots
  <2>1. claimed \subseteq S
    BY <1>3, <1>8 DEF ReachInv
  <2>2. p \in S
    BY <1>1, <1>3, <2>1, AskedIsReached DEF ClaimsInv
  <2> QED BY <2>1, <2>2, <1>4
<1>18. \E b \in SUBSET Packages : RunInv(b)'
  BY <1>14, <1>15, <1>16, <1>17 DEF RunInv
<1> QED BY <1>2, <1>4, <1>10, <1>11, <1>12, <1>18 DEF IInv

(* A package that is claimed and whose dependencies are asked for. *)
LEMMA ClaimStep ==
  ASSUME ~LockfileOnly, IInv, NEW e \in Edges, Claim(e), ~Skipped(e), Children(e[2]) # {}
  PROVE  IInv'
<1>1. Pending(e)
  BY DEF Claim, Pending
<1>2. /\ status # "between" /\ e[1] \in Nodes /\ e[2] \in Packages /\ e[2] \in Deps(e[1])
      /\ \E before \in SUBSET Packages : RunInv(before)
  BY <1>1, PendingCall
<1>. PICK before \in SUBSET Packages : RunInv(before)
  BY <1>2
<1> DEFINE p == e[2]
<1>3. TypeOK /\ LockfileInv /\ SnapshotsInv
      /\ ClaimsInv(before) /\ CallsInv(before) /\ OpenInv(before) /\ ReachInv(before)
  BY DEF IInv, RunInv
<1>4. /\ importer' = importer /\ status' = status /\ current' = current /\ lockfile' = lockfile
      /\ claimed' = claimed \cup {p} /\ p \notin claimed /\ call[e] = "resolving"
      /\ snapshots' = snapshots
  BY DEF Claim
<1>5. call' = [f \in Edges |-> IF f = e THEN "expanding"
                               ELSE IF f \in Children(p) THEN "resolving" ELSE call[f]]
  BY DEF Claim
<1>6. p \notin DOMAIN snapshots /\ p \notin before /\ p \notin Open(before)
  BY <1>3, <1>4 DEF ClaimsInv, Open
<1>7. /\ imported' \subseteq Packages /\ imported \subseteq imported' /\ p \in imported'
  BY <1>3, ImportedStep DEF Claim
<1>8. \A f \in Children(p) : f[1] = p
  BY DEF Children
<1>9. \A f \in Edges : Pending(f) => f[1] # p /\ f \notin Children(p)
  BY <1>2, <1>3, <1>6, <1>8, ResolverAssumption DEF CallsInv, ClaimsInv
<1>10. TypeOK'
  BY <1>2, <1>3, <1>4, <1>5, <1>7 DEF TypeOK, LockfileType
<1>11. LockfileInv' /\ SnapshotsInv'
  BY <1>3, <1>4, <1>7
  DEF LockfileInv, Closed, WholeDeps, ExtendsIncrementally, SnapshotsInv
<1>12. Open(before)' = Open(before) \cup {p}
  BY <1>4, <1>6 DEF Open
<1>13. ClaimsInv(before)'
  BY <1>3, <1>4, <1>5 DEF ClaimsInv
<1>14. CallsInv(before)'
  <2>1. \A f \in Edges : call'[f] = "expanding" /\ f # e =>
          call[f] = "expanding" /\ f[2] \in Open(before)
    <3>1. \A f \in Edges : call'[f] = "expanding" /\ f # e => call[f] = "expanding"
      BY <1>5
    <3> QED BY <1>3, <3>1 DEF CallsInv
  <2>2. \A f \in Edges : Pending(f)' => Pending(f) \/ f[1] = p
    BY <1>1, <1>5, <1>8 DEF Pending
  <2>3. \A f \in Edges : Pending(f)' => f[1] = importer' \/ f[1] \in Open(before)'
    BY <1>3, <1>4, <1>12, <2>2 DEF CallsInv
  <2>4. \A f \in Edges : call'[f] = "expanding" => f[2] \in Open(before)' /\ f[2] \in imported'
    BY <1>3, <1>7, <1>12, <2>1 DEF CallsInv
  <2>5. ASSUME NEW f \in Edges, NEW g \in Edges, call'[f] = "expanding",
               call'[g] = "expanding", f[2] = g[2]
        PROVE  f = g
    <3>1. CASE f = e \/ g = e
      BY <1>6, <2>1, <2>5, <3>1
    <3>2. CASE f # e /\ g # e
      BY <1>3, <2>1, <2>5, <3>2 DEF CallsInv
    <3> QED BY <3>1, <3>2
  <2> QED BY <2>3, <2>4, <2>5 DEF CallsInv
<1>15. OpenInv(before)'
  <2>1. \A f \in Edges : call[f] \in {"expanding", "err"} => f[1] # p /\ call'[f] = call[f]
    BY <1>4, <1>5, <1>9 DEF Pending
  <2> SUFFICES ASSUME NEW S \in SUBSET (Open(before) \cup {p}), S # {}
               PROVE  \E f \in Edges : /\ f[2] \in S /\ f[1] \notin S
                                       /\ call'[f] \in {"expanding", "err"}
    BY <1>12 DEF OpenInv
  <2>2. CASE p \notin S
    BY <1>3, <2>1, <2>2 DEF OpenInv
  <2>3. CASE p \in S /\ e[1] \notin S
    BY <1>5, <2>3
  <2>4. CASE p \in S /\ e[1] \in S
    <3>1. e[1] \in S \ {p} /\ S \ {p} \subseteq Open(before)
      BY <1>1, <1>9, <2>4
    <3>. PICK f \in Edges : /\ f[2] \in S \ {p} /\ f[1] \notin S \ {p}
                            /\ call[f] \in {"expanding", "err"}
      BY <1>3, <3>1 DEF OpenInv
    <3> QED BY <2>1
  <2> QED BY <2>2, <2>3, <2>4
<1>16. ReachInv(before)'
  <2> SUFFICES ASSUME NEW S \in SUBSET Packages, HoldsRoots(S, importer + 1),
                      \A q \in S \cap before : lockfile.packages[q].deps \subseteq S,
                      \A q \in S \cap DOMAIN snapshots : snapshots[q].deps \subseteq S,
                      \A q \in S \cap (Open(before) \cup {p}) : Deps(q) \subseteq S
               PROVE  claimed' \subseteq S
    BY <1>4, <1>12 DEF ReachInv, HoldsRoots
  <2>1. claimed \subseteq S
    BY <1>3 DEF ReachInv
  <2>2. p \in S
    BY <1>1, <1>3, <2>1, AskedIsReached DEF ClaimsInv
  <2> QED BY <2>1, <2>2, <1>4
<1>17. \E b \in SUBSET Packages : RunInv(b)'
  BY <1>13, <1>14, <1>15, <1>16 DEF RunInv
<1> QED BY <1>2, <1>4, <1>10, <1>11, <1>17 DEF IInv

(* A package that others have claimed. *)
LEMMA ReuseStep ==
  ASSUME ~LockfileOnly, IInv, NEW e \in Edges, Reuse(e)
  PROVE  IInv'
<1>1. Pending(e)
  BY DEF Reuse, Pending
<1>2. /\ status # "between" /\ e[1] \in Nodes /\ e[2] \in Packages /\ e[2] \in Deps(e[1])
      /\ \E before \in SUBSET Packages : RunInv(before)
  BY <1>1, PendingCall
<1>. PICK before \in SUBSET Packages : RunInv(before)
  BY <1>2
<1> DEFINE p == e[2]
<1>3. TypeOK /\ LockfileInv /\ SnapshotsInv
      /\ ClaimsInv(before) /\ CallsInv(before) /\ OpenInv(before) /\ ReachInv(before)
  BY DEF IInv, RunInv
<1>4. /\ importer' = importer /\ status' = status /\ current' = current /\ lockfile' = lockfile
      /\ claimed' = claimed /\ p \in claimed /\ call[e] = "resolving"
      /\ call' = [call EXCEPT ![e] = "ok"]
  BY DEF Reuse
<1>5. /\ imported' \subseteq Packages /\ imported \subseteq imported'
      /\ ~Skipped(e) => p \in imported'
  BY <1>3, ImportedStep DEF Reuse
<1>6. /\ DOMAIN snapshots' = DOMAIN snapshots
      /\ \A q \in DOMAIN snapshots : snapshots'[q].deps = snapshots[q].deps
      /\ \A q \in DOMAIN snapshots : snapshots'[q] \in Snapshot
      /\ \A q \in DOMAIN snapshots :
           snapshots'[q] = snapshots[q] \/ (q = p /\ p \in Regular[e[1]])
  <2>1. CASE snapshots' = snapshots
    <3>1. \A q \in DOMAIN snapshots : snapshots[q] \in Snapshot
      BY <1>3 DEF TypeOK
    <3> QED BY <2>1, <3>1
  <2>2. CASE p \in Regular[e[1]] /\ snapshots' = [snapshots EXCEPT ![p].optional = FALSE]
    BY <1>3, <2>2 DEF TypeOK, Snapshot
  <2> QED BY <2>1, <2>2 DEF Reuse
<1>7. TypeOK'
  BY <1>3, <1>4, <1>5, <1>6 DEF TypeOK, LockfileType
<1>8. LockfileInv'
  BY <1>3, <1>4 DEF LockfileInv, Closed, WholeDeps, ExtendsIncrementally
<1>9. SnapshotsInv'
  <2>1. p \in Regular[e[1]] => p \in imported'
    BY <1>2, <1>5, ResolverAssumption DEF Skipped
  <2>2. WholeDeps(snapshots)'
    BY <1>3, <1>6 DEF SnapshotsInv, WholeDeps
  <2>3. \A q \in DOMAIN snapshots' : ~snapshots'[q].optional => q \in imported'
    BY <1>3, <1>5, <1>6, <2>1 DEF SnapshotsInv
  <2> QED BY <2>2, <2>3 DEF SnapshotsInv
<1>10. Open(before)' = Open(before)
  BY <1>4, <1>6 DEF Open
<1>11. ClaimsInv(before)'
  BY <1>3, <1>4, <1>6 DEF ClaimsInv, TypeOK
<1>12. CallsInv(before)'
  BY <1>3, <1>4, <1>5, <1>10 DEF CallsInv, Pending, TypeOK
<1>13. OpenInv(before)'
  BY <1>3, <1>4, <1>10 DEF OpenInv, TypeOK
<1>14. ReachInv(before)'
  BY <1>3, <1>4, <1>6, <1>10 DEF ReachInv, HoldsRoots
<1>15. \E b \in SUBSET Packages : RunInv(b)'
  BY <1>11, <1>12, <1>13, <1>14 DEF RunInv
<1> QED BY <1>2, <1>4, <1>7, <1>8, <1>9, <1>15 DEF IInv

(* A call that ends, or passes an error on, without a snapshot. *)
LEMMA FailStep ==
  ASSUME IInv, NEW e \in Edges, Pending(e), call' = [call EXCEPT ![e] = "err"],
         UNCHANGED <<importer, status, claimed, snapshots, imported, current, lockfile>>
  PROVE  IInv'
<1>1. status # "between" /\ \E before \in SUBSET Packages : RunInv(before)
  BY PendingCall
<1>. PICK before \in SUBSET Packages : RunInv(before)
  BY <1>1
<1>2. TypeOK /\ LockfileInv /\ SnapshotsInv
      /\ ClaimsInv(before) /\ CallsInv(before) /\ OpenInv(before) /\ ReachInv(before)
  BY DEF IInv, RunInv
<1>3. TypeOK'
  BY <1>2 DEF TypeOK, LockfileType
<1>4. LockfileInv' /\ SnapshotsInv'
  BY <1>2 DEF LockfileInv, Closed, WholeDeps, ExtendsIncrementally, SnapshotsInv
<1>5. Open(before)' = Open(before)
  BY DEF Open
<1>6. ClaimsInv(before)'
  BY <1>2 DEF ClaimsInv, TypeOK
<1>7. CallsInv(before)'
  BY <1>2, <1>5 DEF CallsInv, Pending, TypeOK
<1>8. OpenInv(before)'
  BY <1>2, <1>5 DEF OpenInv, TypeOK
<1>9. ReachInv(before)'
  BY <1>2, <1>5 DEF ReachInv, HoldsRoots
<1>10. \E b \in SUBSET Packages : RunInv(b)'
  BY <1>6, <1>7, <1>8, <1>9 DEF RunInv
<1> QED BY <1>1, <1>3, <1>4, <1>10 DEF IInv

(* A package whose dependencies have all resolved is snapshotted. *)
LEMMA ExpandedStep ==
  ASSUME IInv, NEW e \in Edges, Expanded(e), \A f \in Children(e[2]) : call[f] # "err"
  PROVE  IInv'
<1>1. Pending(e)
  BY DEF Expanded, Pending
<1>2. /\ status # "between" /\ e[1] \in Nodes /\ e[2] \in Packages /\ e[2] \in Deps(e[1])
      /\ \E before \in SUBSET Packages : RunInv(before)
  BY <1>1, PendingCall
<1>. PICK before \in SUBSET Packages : RunInv(before)
  BY <1>2
<1> DEFINE p == e[2]
<1>3. TypeOK /\ LockfileInv /\ SnapshotsInv
      /\ ClaimsInv(before) /\ CallsInv(before) /\ OpenInv(before) /\ ReachInv(before)
  BY DEF IInv, RunInv
<1>4. /\ importer' = importer /\ status' = status /\ current' = current /\ lockfile' = lockfile
      /\ claimed' = claimed /\ imported' = imported
      /\ call[e] = "expanding" /\ call' = [call EXCEPT ![e] = "ok"]
      /\ Insert(p, Deps(p), p \in Optional[e[1]])
  BY DEF Expanded
<1>5. p \in Open(before) /\ p \in imported /\ p \notin DOMAIN snapshots
  BY <1>3, <1>4 DEF CallsInv, Open
<1>6. \A f \in Children(p) : f \in Edges /\ f[1] = p /\ call[f] = "ok"
  BY DEF Expanded, Ended, Children
<1>7. /\ DOMAIN snapshots' = DOMAIN snapshots \cup {p}
      /\ \A q \in DOMAIN snapshots' : snapshots'[q] \in Snapshot
      /\ snapshots'[p] = [deps |-> Deps(p), optional |-> p \in Optional[e[1]]]
      /\ \A q \in DOMAIN snapshots : snapshots'[q] = snapshots[q]
  <2>1. (p \in Optional[e[1]]) \in BOOLEAN /\ Deps(p) \in SUBSET Packages
    BY <1>2, Typed
  <2>2. DOMAIN snapshots \subseteq Packages /\ \A q \in DOMAIN snapshots : snapshots[q] \in Snapshot
    BY <1>3 DEF TypeOK
  <2>3. \A optional \in BOOLEAN : Insert(p, Deps(p), optional) =>
          /\ DOMAIN snapshots' = DOMAIN snapshots \cup {p}
          /\ \A q \in DOMAIN snapshots' : snapshots'[q] \in Snapshot
          /\ snapshots'[p] = [deps |-> Deps(p), optional |-> optional]
          /\ \A q \in DOMAIN snapshots : q # p => snapshots'[q] = snapshots[q]
    BY <1>2, <2>1, <2>2, Inserted
  <2> QED BY <1>4, <1>5, <2>1, <2>3
<1>8. TypeOK'
  BY <1>2, <1>3, <1>4, <1>7 DEF TypeOK, LockfileType
<1>9. LockfileInv'
  BY <1>3, <1>4 DEF LockfileInv, Closed, WholeDeps, ExtendsIncrementally
<1>10. SnapshotsInv'
  <2>1. WholeDeps(snapshots)'
    BY <1>3, <1>7 DEF SnapshotsInv, WholeDeps
  <2>2. \A q \in DOMAIN snapshots' : ~snapshots'[q].optional => q \in imported'
    BY <1>3, <1>4, <1>5, <1>7 DEF SnapshotsInv
  <2> QED BY <2>1, <2>2 DEF SnapshotsInv
<1>11. Open(before)' = Open(before) \ {p}
  BY <1>4, <1>7 DEF Open
<1>12. ClaimsInv(before)'
  <2>1. Deps(p) \subseteq claimed
    <3> SUFFICES ASSUME NEW q \in Deps(p) PROVE q \in claimed
      OBVIOUS
    <3>1. <<p, q>> \in Children(p)
      BY <1>2, Typed
    <3> QED BY <1>3, <1>6, <3>1 DEF ClaimsInv
  <2>2. \A f \in Edges : call'[f] = "ok" => f[2] \in claimed
    BY <1>3, <1>4, <1>5 DEF ClaimsInv, TypeOK, Open
  <2> QED BY <1>3, <1>4, <1>5, <1>7, <2>1, <2>2 DEF ClaimsInv, Open
<1>13. CallsInv(before)'
  <2>1. \A f \in Edges : Pending(f)' => Pending(f) /\ f # e
    BY <1>3, <1>4 DEF Pending, TypeOK
  <2>2. \A f \in Edges : call'[f] = "expanding" => call[f] = "expanding" /\ f # e
    BY <1>3, <1>4 DEF TypeOK
  <2>3. \A f \in Edges : Pending(f) => f[1] # p
    BY <1>6 DEF Pending, Children
  <2>4. \A f \in Edges : call'[f] = "expanding" => f[2] # p
    BY <1>3, <1>4, <2>2 DEF CallsInv
  <2>5. \A f \in Edges : Pending(f)' => f[1] = importer' \/ f[1] \in Open(before)'
    BY <1>3, <1>4, <1>11, <2>1, <2>3 DEF CallsInv
  <2>6. \A f \in Edges : call'[f] = "expanding" => f[2] \in Open(before)' /\ f[2] \in imported'
    BY <1>3, <1>4, <1>11, <2>2, <2>4 DEF CallsInv
  <2> QED BY <1>3, <2>2, <2>5, <2>6 DEF CallsInv
<1>14. OpenInv(before)'
  BY <1>3, <1>4, <1>11 DEF OpenInv, TypeOK
<1>15. ReachInv(before)'
  <2> SUFFICES ASSUME NEW S \in SUBSET Packages, HoldsRoots(S, importer + 1),
                      \A q \in S \cap before : lockfile.packages[q].deps \subseteq S,
                      \A q \in S \cap DOMAIN snapshots' : snapshots'[q].deps \subseteq S,
                      \A q \in S \cap (Open(before) \ {p}) : Deps(q) \subseteq S
               PROVE  claimed \subseteq S
    BY <1>4, <1>11 DEF ReachInv, HoldsRoots
  <2>1. \A q \in S \cap DOMAIN snapshots : snapshots[q].deps \subseteq S
    BY <1>7
  <2>2. \A q \in S \cap Open(before) : Deps(q) \subseteq S
    BY <1>7
  <2> QED BY <1>3, <2>1, <2>2 DEF ReachInv
<1>16. \E b \in SUBSET Packages : RunInv(b)'
  BY <1>12, <1>13, <1>14, <1>15 DEF RunInv
<1> QED BY <1>2, <1>4, <1>8, <1>9, <1>10, <1>16 DEF IInv

(* The end of a run: nothing is open any more, so the merged lockfile is   *)
(* closed, and what is claimed is still in it when it has been pruned.     *)
LEMMA SaveStep == ~LockfileOnly /\ IInv /\ Save => IInv'
<1> SUFFICES ASSUME ~LockfileOnly, IInv, Save PROVE IInv'
  OBVIOUS
<1>. PICK before \in SUBSET Packages : RunInv(before)
  BY DEF IInv, Save
<1> DEFINE M == MergedPackages
           E == MergedEntries
           R == Reach(RootsOf(E), DepsOf(M))
<1>1. TypeOK /\ LockfileInv /\ SnapshotsInv
      /\ ClaimsInv(before) /\ CallsInv(before) /\ OpenInv(before) /\ ReachInv(before)
  BY DEF IInv, RunInv
<1>2. /\ importer' = importer + 1 /\ status' = "between" /\ call' = call /\ claimed' = claimed
      /\ snapshots' = snapshots /\ imported' = imported
      /\ lockfile' = [importers |-> E, packages |-> Pruned(E, M)] /\ current' = lockfile'
  BY DEF Save
<1>3. importer \in Importers /\ current = lockfile
  BY <1>1 DEF ClaimsInv, TypeOK
<1>4. \A e \in Edges : e[1] = importer => call[e] = "ok"
  BY DEF Save, Children
<1>5. Open(before) = {}
  <2> SUFFICES ASSUME Open(before) # {} PROVE FALSE
    OBVIOUS
  <2>. PICK e \in Edges : e[1] \notin Open(before) /\ call[e] \in {"expanding", "err"}
    BY <1>1 DEF OpenInv
  <2> QED BY <1>1, <1>4 DEF CallsInv, Pending
<1>6. \A e \in Edges : ~Pending(e)
  BY <1>1, <1>4, <1>5 DEF CallsInv, Pending
<1>7. claimed = before \cup DOMAIN snapshots /\ before \cap DOMAIN snapshots = {}
  BY <1>1, <1>5 DEF ClaimsInv, Open
<1>8. /\ lockfile.importers \in [Importers -> SUBSET Packages]
      /\ DOMAIN lockfile.packages \subseteq Packages /\ DOMAIN snapshots \subseteq Packages
      /\ \A p \in DOMAIN lockfile.packages : lockfile.packages[p] \in Snapshot
      /\ \A p \in DOMAIN snapshots : snapshots[p] \in Snapshot
  BY <1>1 DEF TypeOK, LockfileType
<1>9. /\ DOMAIN M = DOMAIN lockfile.packages \cup DOMAIN snapshots
      /\ \A p \in DOMAIN snapshots : M[p] = snapshots[p]
      /\ \A p \in DOMAIN M : p \notin DOMAIN snapshots => M[p] = lockfile.packages[p]
  BY <1>3 DEF MergedPackages
<1>10. Deps(importer) \subseteq Packages
  BY <1>3, Typed
<1>11. /\ E \in [Importers -> SUBSET Packages] /\ E[importer] = Deps(importer)
       /\ \A i \in Importers : i # importer => E[i] = lockfile.importers[i]
  BY <1>3, <1>8, <1>10 DEF MergedEntries
<1> HIDE DEF M, E
<1>12. /\ DepsOf(M) = [p \in DOMAIN M |-> M[p].deps]
       /\ \A p \in DOMAIN M : M[p] \in Snapshot
       /\ \A p \in DOMAIN M : M[p].deps \subseteq DOMAIN M
  <2>1. \A p \in DOMAIN snapshots : snapshots[p].deps \subseteq DOMAIN M
    BY <1>1, <1>7, <1>9 DEF ClaimsInv
  <2>2. \A p \in DOMAIN lockfile.packages : lockfile.packages[p].deps \subseteq DOMAIN M
    BY <1>1, <1>9 DEF LockfileInv, Closed
  <2> QED BY <1>8, <1>9, <2>1, <2>2 DEF DepsOf
<1>13. RootsOf(E) \subseteq DOMAIN M /\ DOMAIN M \subseteq Packages
  <2>1. Deps(importer) \subseteq DOMAIN M
    <3> SUFFICES ASSUME NEW p \in Deps(importer) PROVE p \in DOMAIN M
      OBVIOUS
    <3>1. <<importer, p>> \in Edges
      BY <1>3, Typed
    <3>2. p \in claimed
      BY <1>1, <1>4, <3>1 DEF ClaimsInv
    <3> QED BY <1>1, <1>7, <1>9, <3>2 DEF ClaimsInv
  <2>2. \A i \in Importers : lockfile.importers[i] \subseteq DOMAIN M
    BY <1>1, <1>8, <1>9, RootsTyped DEF LockfileInv, Closed
  <2>3. \A i \in Importers : E[i] \subseteq DOMAIN M
    BY <1>11, <2>1, <2>2
  <2>4. DOMAIN E = Importers
    BY <1>11
  <2> HIDE DEF E
  <2> QED BY <1>8, <1>9, <2>3, <2>4 DEF RootsOf
<1>14. /\ RootsOf(E) \subseteq R /\ R \subseteq DOMAIN M
       /\ \A p \in R : M[p].deps \subseteq R
  <2>1. RootsOf(E) \subseteq R
    BY <1>13, ReachRoots
  <2>2. R \subseteq DOMAIN M
    BY <1>12, <1>13, ReachLeast
  <2>3. ASSUME NEW p \in R PROVE M[p].deps \subseteq R
    <3>1. p \in DOMAIN DepsOf(M) /\ DepsOf(M)[p] = M[p].deps /\ M[p].deps \subseteq Packages
      BY <1>12, <1>13, <2>2
    <3> QED BY <3>1, ReachClosed
  <2> QED BY <2>1, <2>2, <2>3
<1>15. /\ lockfile'.importers = E /\ DOMAIN lockfile'.packages = R
       /\ \A p \in R : lockfile'.packages[p] = M[p]
  BY <1>2, <1>14 DEF Pruned, Restrict
<1> HIDE DEF R
<1>16. TypeOK'
  <2>1. LockfileType(lockfile)'
    BY <1>11, <1>12, <1>13, <1>14, <1>15 DEF LockfileType
  <2> QED BY <1>1, <1>2, <1>3, <2>1, ResolverAssumption DEF TypeOK, Importers
<1>17. LockfileInv'
  <2>1. Closed(lockfile)'
    BY <1>14, <1>15 DEF Closed
  <2>2. WholeDeps(M)
    BY <1>1, <1>9 DEF WholeDeps, LockfileInv, SnapshotsInv
  <2>3. WholeDeps(lockfile.packages)'
    BY <1>14, <1>15, <2>2 DEF WholeDeps
  <2>4. R \subseteq Reach(RootsOf(E), Full)
    <3> DEFINE T == Reach(RootsOf(E), Full)
    <3>1. T \subseteq Packages /\ RootsOf(E) \subseteq T
      BY <1>13, ReachTyped, ReachRoots
    <3>2. ASSUME NEW q \in T \cap DOMAIN DepsOf(M) PROVE DepsOf(M)[q] \subseteq T
      <4>1. q \in DOMAIN Full /\ Full[q] = Deps(q) /\ Deps(q) \subseteq Packages
        BY <3>1, Typed DEF Full
      <4>2. Deps(q) \subseteq T
        BY <4>1, ReachClosed
      <4>3. DepsOf(M)[q] \subseteq Deps(q)
        BY <1>12, <2>2 DEF WholeDeps
      <4> QED BY <4>2, <4>3
    <3> HIDE DEF T
    <3>3. R \subseteq T
      BY <3>1, <3>2, ReachLeast DEF R
    <3> QED BY <3>3 DEF T
  <2>5. ExtendsIncrementally'
    BY <1>1, <1>2, <1>3, <1>11, <1>15 DEF LockfileInv, ExtendsIncrementally, Importers
  <2> QED BY <1>15, <2>1, <2>3, <2>4, <2>5 DEF LockfileInv
<1>18. SnapshotsInv'
  BY <1>1, <1>2 DEF SnapshotsInv, WholeDeps
<1>19. \A p \in claimed \cap R : \/ p \in DOMAIN snapshots /\ M[p].deps = snapshots[p].deps
                                 \/ p \in before /\ M[p].deps = lockfile.packages[p].deps
  BY <1>7, <1>9, <1>14
<1>20. claimed \subseteq R
  <2>1. HoldsRoots(R, importer + 1)
    <3>1. \A j \in Importers : j < importer + 1 => E[j] = Deps(j)
      BY <1>1, <1>3, <1>11 DEF LockfileInv, ExtendsIncrementally, Importers
    <3> QED BY <1>11, <1>14, <3>1, RootsTyped DEF HoldsRoots
  <2>2. R \in SUBSET Packages
    BY <1>13, <1>14
  <2>3. \A q \in R \cap before : lockfile.packages[q].deps \subseteq R
    BY <1>1, <1>7, <1>9, <1>14
  <2>4. \A q \in R \cap DOMAIN snapshots : snapshots[q].deps \subseteq R
    BY <1>9, <1>14
  <2> QED BY <1>1, <1>5, <2>1, <2>2, <2>3, <2>4 DEF ReachInv
<1>21. BetweenInv'
  <2> SUFFICES ASSUME NEW S \in SUBSET Packages, HoldsRoots(S, importer + 1),
                      \A q \in S \cap claimed : lockfile'.packages[q].deps \subseteq S
               PROVE  claimed \subseteq S
    BY <1>2, <1>6, <1>15, <1>20 DEF BetweenInv, Pending, HoldsRoots
  <2>1. \A q \in S \cap before : lockfile.packages[q].deps \subseteq S
    BY <1>7, <1>15, <1>19, <1>20
  <2>2. \A q \in S \cap DOMAIN snapshots : snapshots[q].deps \subseteq S
    BY <1>7, <1>15, <1>19, <1>20
  <2> QED BY <1>1, <1>5, <2>1, <2>2 DEF ReachInv
<1> QED BY <1>2, <1>16, <1>17, <1>18, <1>21 DEF IInv

LEMMA AbortStep == IInv /\ Abort => IInv'
<1> SUFFICES ASSUME IInv, Abort PROVE IInv'
  OBVIOUS
<1>1. status = "resolving" /\ status' = "failed"
      /\ UNCHANGED <<importer, call, claimed, snapshots, imported, current, lockfile>>
  BY DEF Abort
<1>. PICK before \in SUBSET Packages : RunInv(before)
  BY <1>1 DEF IInv
<1>2. RunInv(before)'
  BY <1>1 DEF RunInv, ClaimsInv, CallsInv, OpenInv, ReachInv, Open, Pending, HoldsRoots
<1>3. TypeOK' /\ LockfileInv' /\ SnapshotsInv'
  BY <1>1 DEF IInv, TypeOK, LockfileInv, LockfileType, Closed, WholeDeps,
     ExtendsIncrementally, SnapshotsInv
<1> QED BY <1>1, <1>2, <1>3 DEF IInv

LEMMA StutterStep == IInv /\ UNCHANGED vars => IInv'
<1> SUFFICES ASSUME IInv, UNCHANGED vars PROVE IInv'
  OBVIOUS
<1> USE DEF vars
<1>1. TypeOK' /\ LockfileInv' /\ SnapshotsInv'
  BY DEF IInv, TypeOK, LockfileInv, LockfileType, Closed, WholeDeps, ExtendsIncrementally,
         SnapshotsInv
<1>2. CASE status = "between"
  <2>1. BetweenInv'
    BY <1>2 DEF IInv, BetweenInv, Pending, HoldsRoots
  <2> QED BY <1>1, <1>2, <2>1 DEF IInv
<1>3. CASE status # "between"
  <2>. PICK before \in SUBSET Packages : RunInv(before)
    BY <1>3 DEF IInv
  <2>1. RunInv(before)'
    BY DEF RunInv, ClaimsInv, CallsInv, OpenInv, ReachInv, Open, Pending, HoldsRoots
  <2> QED BY <1>1, <1>3, <2>1 DEF IInv
<1> QED BY <1>2, <1>3
-----------------------------------------------------------------------------
(* Whatever the graph and the earlier lockfile, every step of the resolver *)
(* keeps the lockfile closed, and in each run every package that is        *)
(* claimed without a snapshot waits for a call that is under way.          *)
THEOREM Invariance == ASSUME ~LockfileOnly PROVE Spec => []IInv
<1>1. IInv /\ [Next]_vars => IInv'
  <2> SUFFICES ASSUME IInv, [Next]_vars PROVE IInv'
    OBVIOUS
  <2>1. CASE StartRun
    BY <2>1, StartRunStep
  <2>2. CASE RunFrozen
    BY <2>2, RunFrozenStep
  <2>3. CASE Save
    BY <2>3, SaveStep
  <2>4. CASE Abort
    BY <2>4, AbortStep
  <2>5. ASSUME NEW e \in Edges, Claim(e) PROVE IInv'
    BY <2>5, ClaimLeafStep, ClaimStep
  <2>6. ASSUME NEW e \in Edges, Reuse(e) PROVE IInv'
    BY <2>6, ReuseStep
  <2>7. ASSUME NEW e \in Edges, Expanded(e) PROVE IInv'
    <3>1. CASE \E f \in Children(e[2]) : call[f] = "err"
      BY <2>7, <3>1, FailStep DEF Expanded, Pending
    <3>2. CASE \A f \in Children(e[2]) : call[f] # "err"
      BY <2>7, <3>2, ExpandedStep
    <3> QED BY <3>1, <3>2
  <2>8. ASSUME NEW e \in Edges, Fail(e) PROVE IInv'
    BY <2>8, FailStep DEF Fail, Pending
  <2>9. CASE UNCHANGED vars
    BY <2>9, StutterStep
  <2> QED BY <2>1, <2>2, <2>3, <2>4, <2>5, <2>6, <2>7, <2>8, <2>9 DEF Next, Progress
<1> QED BY <1>1, InitInv, PTL DEF Spec

(* Each importer's run extends the lockfile: the entry of an importer that *)
(* was installed matches its manifest from then on.                        *)
THEOREM ExtendsIncrementallyHolds == ASSUME ~LockfileOnly PROVE Spec => []ExtendsIncrementally
<1>1. IInv => ExtendsIncrementally
  BY DEF IInv, LockfileInv
<1> QED BY <1>1, Invariance, PTL

(* The lockfile that the last importer leaves holds exactly the packages   *)
(* that the manifests lead to, and it is closed at all times.              *)
THEOREM LockfileExactHolds == ASSUME ~LockfileOnly PROVE Spec => []LockfileExact
<1>1. IInv => LockfileExact
  <2> SUFFICES ASSUME IInv PROVE LockfileExact
    OBVIOUS
  <2> DEFINE full == [p \in Packages |-> Deps(p)]
             least == [p \in Packages \ Unsupported |-> Deps(p)]
             roots == UNION {Deps(i) : i \in Importers}
             kept == DOMAIN lockfile.packages
  <2>1. TypeOK /\ LockfileInv /\ SnapshotsInv
    BY DEF IInv
  <2>2. Closed(lockfile) /\ kept \subseteq Packages
        /\ lockfile.importers \in [Importers -> SUBSET Packages]
    BY <2>1 DEF LockfileInv, TypeOK, LockfileType
  <2>3. \A p \in kept : p \notin Unsupported => lockfile.packages[p].deps = Deps(p)
    BY <2>1 DEF LockfileInv, WholeDeps
  <2>4. ASSUME Finished
        PROVE  Reach(roots, least) \subseteq kept /\ kept \subseteq Reach(roots, full)
    <3>1. \A i \in Importers : lockfile.importers[i] = Deps(i)
      BY <2>1, <2>4, ResolverAssumption
      DEF LockfileInv, ExtendsIncrementally, Finished, Importers, TypeOK
    <3>2. RootsOf(lockfile.importers) = roots
      BY <2>2, <3>1 DEF RootsOf
    <3>3. roots \subseteq kept
      BY <2>2, <3>2 DEF Closed
    <3>4. \A q \in kept \cap DOMAIN least : least[q] \subseteq kept
      BY <2>2, <2>3 DEF Closed
    <3>5. Reach(roots, least) \subseteq kept
      <4> HIDE DEF least, roots
      <4> QED BY <2>2, <3>3, <3>4, ReachLeast
    <3>6. kept \subseteq Reach(roots, full)
      BY <2>1, <3>2 DEF LockfileInv, Full
    <3> QED BY <3>5, <3>6
  <2>5. ~LockfileOnly /\ status = "between" =>
          \A p \in DOMAIN snapshots : ~snapshots[p].optional => p \in imported
    BY <2>1 DEF SnapshotsInv
  <2> QED BY <2>2, <2>3, <2>4, <2>5 DEF LockfileExact, Closed
<1> QED BY <1>1, Invariance, PTL
==============================================================================
