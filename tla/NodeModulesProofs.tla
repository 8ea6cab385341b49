------------------------- MODULE NodeModulesProofs --------------------------
(***************************************************************************)
(* Proofs about NodeModules, for any packages, manifests and settings and  *)
(* any number of installs, failures and kills: what an install hoists is   *)
(* found, nothing else is, and direct dependencies come first.             *)
(***************************************************************************)
EXTENDS NodeModules, WellFoundedInduction, TLAPS

Running == {"resolve", "relink", "hoist", "bins", "record"}

TypeOK ==
  /\ direct \in Manifests /\ settings \in Settings
  /\ store \subseteq Packages
  /\ \/ proc = Idle
     \/ proc \in [pc : Running, fresh : BOOLEAN, force : BOOLEAN] /\ last = None
  /\ symlinked \in BOOLEAN

(* What may be in node_modules without being a direct dependency.          *)
Allowed(s, n) == s.linker = "hoisted" \/ Matches(n, s.public)

(* Every name is known, or one that the recorded settings allow: those are *)
(* the settings of the install that runs, whose own direct dependencies    *)
(* become known when it has linked them all.                               *)
Fresh(n) == proc.pc = "relink" /\ MaterializesRoot(settings) /\ n \in DOMAIN direct
NamesInv ==
  /\ proc = Idle => \A n \in DOMAIN root : n \in known \/ (record # None /\ Allowed(record, n))
  /\ proc # Idle => Compatible
  /\ proc # Idle => \A n \in DOMAIN root : n \in known \/ Allowed(settings, n) \/ Fresh(n)
  /\ Completed => record = RecordOf(settings)

HoistedThere ==
  \A p \in store :
    /\ WantedPrivately(settings, p.name) => Exists(private, p.name, store)
    /\ WantedPublicly(settings, p.name) => Exists(root, p.name, store)

DirectThere ==
  \A n \in DOMAIN direct : Exists(root, n, store) /\ root[n].pkg = direct[n]

(* What the last conjunct of DirectFirst rests on: no entry of .bin is a   *)
(* link before an install that makes links.                                *)
NoLinks(bin) == \A b \in DOMAIN bin : bin[b].link = None
BinsInv ==
  /\ proc # Idle /\ Symlinks(settings) => symlinked
  /\ ~symlinked => over = {} /\ NoLinks(privateBin) /\ NoLinks(rootBin)

CommandsRun ==
  \A b \in UNION Range(All(DirectEntries)) :
    /\ rootBin[b].runs = DirectFile(b)
    /\ rootBin[b].link \in {None, DirectFile(b)} \cup over

(* What each phase of an install has achieved, until the next one starts.  *)
PhasesInv ==
  /\ proc.pc = "relink" /\ proc.fresh =>
       /\ Needed(direct) \subseteq store
       /\ MaterializesRoot(settings) => DirectThere
  /\ proc.pc \in {"hoist", "bins", "record"} /\ proc.fresh /\ MaterializesRoot(settings)
       => DirectThere
  /\ last = "fresh" /\ MaterializesRoot(settings) => DirectThere
  /\ proc.pc \in {"bins", "record"} \/ Completed => HoistedThere
  /\ proc.pc = "record" \/ Completed => CommandsRun

IInv == TypeOK /\ NamesInv /\ BinsInv /\ PhasesInv
-----------------------------------------------------------------------------
LEMMA FartherIsLess ==
  ASSUME NEW x \in Nat, NEW y \in Nat, NEW z \in Nat, ~(x - y < x - z)
  PROVE  y <= z
OBVIOUS

(* A set of links to packages has one of the highest version. *)
LEMMA Highest ==
  ASSUME NEW T, T # {}, \A e \in T : e.pkg \in Packages
  PROVE  \E e \in T : \A f \in T : f.pkg.version <= e.pkg.version
<1>. PICK q \in Packages : \A p \in Packages : p.version <= q.version
  BY NodeModulesAssumption
<1> DEFINE D == {q.version - e.pkg.version : e \in T}
<1>1. D \subseteq Nat /\ D # {}
  BY NodeModulesAssumption
<1>2. \E x \in D : \A y \in D : ~(<<y, x>> \in OpToRel(<, Nat))
  <2> HIDE DEF D
  <2> QED BY <1>1, NatLessThanWellFounded, WFMin
<1>. PICK e \in T : \A y \in D : ~(<<y, q.version - e.pkg.version>> \in OpToRel(<, Nat))
  BY <1>2
<1>3. \A y \in D : ~(y < q.version - e.pkg.version)
  BY <1>1 DEF OpToRel
<1>4. ASSUME NEW f \in T PROVE f.pkg.version <= e.pkg.version
  <2>1. q.version \in Nat /\ e.pkg.version \in Nat /\ f.pkg.version \in Nat
    BY NodeModulesAssumption
  <2>2. ~(q.version - f.pkg.version < q.version - e.pkg.version)
    BY <1>3
  <2> QED BY <2>1, <2>2, FartherIsLess
<1> QED BY <1>4

LEMMA ClosureHolds ==
  ASSUME NEW ps \in SUBSET Packages
  PROVE  ps \subseteq Closure(ps) /\ Closure(ps) \subseteq Packages
<1>1. \A p \in Packages : p \in Reachable[p] /\ Reachable[p] \subseteq Packages
  BY DEF Reachable
<1> QED BY <1>1 DEF Closure

LEMMA NeededHolds ==
  ASSUME NEW d \in Manifests
  PROVE  /\ \A n \in DOMAIN d : d[n] \in Needed(d)
         /\ Needed(d) \subseteq Packages
         /\ Needed([n \in DOMAIN d |-> d[n]]) = Needed(d)
<1>1. Range(d) \subseteq Packages /\ \A n \in DOMAIN d : d[n] \in Range(d)
  BY NodeModulesAssumption DEF Range
<1>2. Range([n \in DOMAIN d |-> d[n]]) = Range(d)
  BY DEF Range
<1> QED BY <1>1, <1>2, ClosureHolds DEF Needed

(* Selections chooses a package for every name that is wanted. *)
LEMMA SelectionsCover ==
  ASSUME NEW st \in SUBSET Packages, NEW wanted \in SUBSET st,
         NEW chosen \in Selections(st, wanted)
  PROVE  /\ \A p \in wanted : p.name \in DOMAIN chosen
         /\ \A n \in DOMAIN chosen :
              /\ Alive(chosen[n], st)
              /\ \E p \in wanted : p.name = n
<1> DEFINE found == {e \in Discovered(st) : e.pkg \in wanted}
           best == {e \in found : \A f \in found : f.pkg.name = e.pkg.name
                                                   => f.pkg.version <= e.pkg.version}
           names == {e.pkg.name : e \in best}
<1>1. chosen \in [names -> best]
  BY DEF Selections
<1>2. \A e \in Discovered(st) : /\ e.pkg \in st /\ e.via \in st
                                /\ \E q \in Packages, p \in Packages : e = Link(q, p)
  BY NodeModulesAssumption DEF Discovered, Link
<1>3. ASSUME NEW p \in wanted PROVE p.name \in names
  <2> DEFINE T == {e \in found : e.pkg.name = p.name}
  <2>1. Link(p, p) \in T
    <3>1. Link(p, p) \in {Link(q, p) : q \in (Deps[p] \cup {p}) \cap st}
      OBVIOUS
    <3>2. Link(p, p) \in Discovered(st)
      BY <3>1 DEF Discovered
    <3>3. Link(p, p).pkg = p
      BY DEF Link
    <3> QED BY <3>2, <3>3
  <2>2. \A e \in T : e.pkg \in Packages
    BY <1>2
  <2>. PICK e \in T : \A f \in T : f.pkg.version <= e.pkg.version
    <3> HIDE DEF T
    <3> QED BY <2>1, <2>2, Highest
  <2>3. e \in best
    OBVIOUS
  <2> QED BY <2>3
<1>4. ASSUME NEW n \in names
      PROVE  Alive(chosen[n], st) /\ \E p \in wanted : p.name = n
  <2>1. chosen[n] \in Discovered(st)
    BY <1>1
  <2>2. Alive(chosen[n], st)
    BY <1>2, <2>1 DEF Alive
  <2>3. \E e \in found : e.pkg.name = n
    OBVIOUS
  <2> QED BY <2>2, <2>3
<1> HIDE DEF names, best
<1> QED BY <1>1, <1>3, <1>4

LEMMA LinkMissingFacts ==
  ASSUME NEW s, NEW dir, NEW news, NEW st
  PROVE  LET new == LinkMissing(s, dir, news, st)
         IN  /\ DOMAIN new \subseteq DOMAIN dir \cup DOMAIN news
             /\ \A n : Exists(dir, n, st) => Exists(new, n, st) /\ new[n] = dir[n]
             /\ \A n \in DOMAIN news : Alive(news[n], st) => Exists(new, n, st)
             /\ \A n \in DOMAIN news : Exists(dir, n, st) \/ new[n].pkg = news[n].pkg
<1> DEFINE missing == Missing(dir, news, st)
           new == LinkMissing(s, dir, news, st)
<1>1. missing = {n \in DOMAIN news : ~Exists(dir, n, st)}
  BY DEF Missing
<1>2. /\ DOMAIN new = DOMAIN dir \cup missing
      /\ \A n \in missing : new[n] = IF ~s.symlink THEN Copy(news[n].pkg) ELSE news[n]
      /\ \A n \in DOMAIN dir : n \notin missing => new[n] = dir[n]
  BY <1>1 DEF LinkMissing, LinkAll, Over, Entry
<1>3. \A n \in missing : (Alive(news[n], st) => Alive(new[n], st)) /\ new[n].pkg = news[n].pkg
  BY <1>2 DEF Copy, Alive
<1> HIDE DEF missing, new
<1>4. \A n : Exists(dir, n, st) => Exists(new, n, st) /\ new[n] = dir[n]
  BY <1>1, <1>2 DEF Exists
<1>5. \A n \in DOMAIN news : Alive(news[n], st) => Exists(new, n, st)
  BY <1>1, <1>2, <1>3, <1>4 DEF Exists
<1> QED BY <1>1, <1>2, <1>3, <1>4, <1>5 DEF new
-----------------------------------------------------------------------------
(* Of any packages, one has the last name.                                 *)
LEMMA LastIsLast ==
  ASSUME NEW S \in SUBSET Names, S # {}
  PROVE  LastOf(S) \in S /\ \A m \in S : Rank[m] <= Rank[LastOf(S)]
<1>. PICK z \in Names : \A m \in Names : Rank[m] <= Rank[z]
  BY NodeModulesAssumption
<1>0. \A m \in Names : Rank[m] \in Nat
  BY NodeModulesAssumption
<1> DEFINE D == {Rank[z] - Rank[n] : n \in S}
<1>1. D \subseteq Nat /\ D # {}
  BY <1>0
<1>2. \E x \in D : \A y \in D : ~(<<y, x>> \in OpToRel(<, Nat))
  <2> HIDE DEF D
  <2> QED BY <1>1, NatLessThanWellFounded, WFMin
<1>. PICK n \in S : \A y \in D : ~(<<y, Rank[z] - Rank[n]>> \in OpToRel(<, Nat))
  BY <1>2
<1>3. \A y \in D : ~(y < Rank[z] - Rank[n])
  BY <1>1 DEF OpToRel
<1>4. ASSUME NEW m \in S PROVE Rank[m] <= Rank[n]
  <2>1. Rank[z] \in Nat /\ Rank[m] \in Nat /\ Rank[n] \in Nat
    BY <1>0
  <2>2. ~(Rank[z] - Rank[m] < Rank[z] - Rank[n])
    BY <1>3
  <2> QED BY <2>1, <2>2, FartherIsLess
<1> QED BY <1>4 DEF LastOf

(* Where nothing is linked, no link comes up and nothing is written over.  *)
LEMMA NoLinksStay ==
  ASSUME NEW s, NEW chosen, NEW done, NEW bin, ~Symlinks(s), NoLinks(bin)
  PROVE  NoLinks(Wrapped(s, chosen, done, bin)) /\ WrittenOver(s, chosen, done, bin) = {}
<1>1. \A b : Linkers(s, chosen, done, b) = {}
  BY DEF Linkers, LinkedTo
<1>2. \A b : LinkAfter(s, chosen, bin, {}, b) = None
  BY DEF LinkAfter, NoLinks
<1>3. NoLinks(Wrapped(s, chosen, done, bin))
  <2> DEFINE new == [b \in UNION Range(done) |->
                       [link |-> LinkAfter(s, chosen, bin, Linkers(s, chosen, done, b), b),
                        runs |-> File(s, chosen[LastOf(Writers(done, b))], b)]]
  <2>1. Wrapped(s, chosen, done, bin) = Over(new, bin)
    BY DEF Wrapped
  <2>2. \A b \in DOMAIN new : new[b].link = None
    BY <1>1, <1>2
  <2> HIDE DEF new
  <2> QED BY <2>1, <2>2 DEF NoLinks, Over
<1>4. \A b, n : Into(s, chosen, done, bin, n, b) = None
  BY <1>1, <1>2 DEF Into, Before
<1>5. WrittenOver(s, chosen, done, bin) = {}
  BY <1>4 DEF WrittenOver
<1> QED BY <1>3, <1>5

(* A command comes to run the file of the last package that writes it; its *)
(* entry is that package's, or a link to what the package wrote over.      *)
LEMMA LastWriterWins ==
  ASSUME NEW s, NEW chosen, DOMAIN chosen \subseteq Names, NEW done, DOMAIN done = DOMAIN chosen,
         NEW bin, NEW b \in UNION Range(done)
  PROVE  LET file == File(s, chosen[LastOf(Writers(done, b))], b)
             entry == Wrapped(s, chosen, done, bin)[b]
         IN entry.runs = file /\ entry.link \in {None, file} \cup WrittenOver(s, chosen, done, bin)
<1> DEFINE W == Writers(done, b)
           K == Linkers(s, chosen, done, b)
           l == LastOf(W)
           after == LinkAfter(s, chosen, bin, K, b)
           file == File(s, chosen[l], b)
<1>1. Wrapped(s, chosen, done, bin)[b] = [link |-> after, runs |-> file]
  BY DEF Wrapped, Over
<1>2. W # {} /\ W \subseteq Names /\ K \subseteq W
  BY DEF Writers, Linkers, Range
<1>3. l \in W /\ \A m \in W : Rank[m] <= Rank[l]
  BY <1>2, LastIsLast
<1>4. \A m \in Names : Rank[m] \in Nat
  BY NodeModulesAssumption
<1>5. CASE l \in K
  <2>1. LastOf(K) \in K /\ \A m \in K : Rank[m] <= Rank[LastOf(K)]
    BY <1>2, <1>5, LastIsLast
  <2>2. Rank[LastOf(K)] = Rank[l]
    BY <1>2, <1>3, <1>4, <1>5, <2>1
  <2>3. LastOf(K) = l
    BY <1>2, <1>3, <2>1, <2>2, NodeModulesAssumption
  <2>4. after = file
    BY <1>5, <2>3 DEF LinkAfter
  <2> QED BY <1>1, <2>4
<1>6. CASE l \notin K
  <2>1. \A m \in K : Rank[m] < Rank[l]
    <3> SUFFICES ASSUME NEW m \in K PROVE Rank[m] < Rank[l]
      OBVIOUS
    <3>1. Rank[m] # Rank[l]
      BY <1>2, <1>3, <1>6, NodeModulesAssumption
    <3> QED BY <1>2, <1>3, <1>4, <3>1
  <2>2. Before(K, l) = K
    BY <2>1 DEF Before
  <2>3. Into(s, chosen, done, bin, l, b) = after
    BY <2>2 DEF Into
  <2>4. l \in DOMAIN done /\ b \in WrapperCommands(s, chosen, done, l)
    BY <1>3, <1>6 DEF Writers, WrapperCommands
  <2>5. after # None => after \in WrittenOver(s, chosen, done, bin)
    <3> HIDE DEF after, l
    <3> QED BY <2>3, <2>4 DEF WrittenOver
  <2> QED BY <1>1, <2>5
<1> QED BY <1>5, <1>6
-----------------------------------------------------------------------------
LEMMA InitInv == Init => IInv
<1> SUFFICES ASSUME Init PROVE IInv
  OBVIOUS
<1>1. TypeOK
  BY DEF Init, TypeOK
<1>2. ~Completed
  BY SettingsAssumption DEF Init, Completed
<1>3. proc.pc = "idle" /\ DOMAIN root = {} /\ last # "fresh"
  BY SettingsAssumption DEF Init, Idle, Nothing
<1>4. NamesInv /\ PhasesInv
  BY <1>2, <1>3 DEF Init, NamesInv, PhasesInv
<1>5. BinsInv
  BY DEF Init, BinsInv, NoLinks, Nothing
<1> QED BY <1>1, <1>4, <1>5 DEF IInv

(* While an install runs, none has completed. *)
LEMMA Phases ==
  ASSUME IInv
  PROVE  /\ proc = Idle <=> proc.pc = "idle"
         /\ proc # Idle => /\ proc \in [pc : Running, fresh : BOOLEAN, force : BOOLEAN]
                           /\ ~Completed /\ last # "fresh"
         /\ Completed => proc = Idle
BY SettingsAssumption DEF IInv, TypeOK, Idle, Running, Completed

(* An install that ends early leaves only names that are known. *)
LEMMA FailStep ==
  ASSUME IInv, TypeOK', BinsInv', Fail, UNCHANGED record
  PROVE  IInv'
<1>1. proc' = Idle /\ last' = "failed" /\ DOMAIN root' \subseteq known'
  BY DEF Fail
<1>2. proc'.pc = "idle" /\ ~Completed' /\ last' # "fresh"
  BY <1>1 DEF Idle, Completed
<1>3. NamesInv'
  BY <1>1, <1>2 DEF NamesInv
<1>4. PhasesInv'
  BY <1>1, <1>2 DEF PhasesInv
<1> QED BY <1>3, <1>4 DEF IInv

LEMMA BinsKept ==
  ASSUME BinsInv, proc = Idle => proc' = Idle,
         UNCHANGED <<settings, privateBin, rootBin, over, symlinked>>
  PROVE  BinsInv'
BY DEF BinsInv

LEMMA AdvanceFacts ==
  ASSUME IInv, proc # Idle, NEW pc \in Running, Advance(pc)
  PROVE  /\ proc' \in [pc : Running, fresh : BOOLEAN, force : BOOLEAN]
         /\ proc'.pc = pc /\ proc'.fresh = proc.fresh /\ proc' # Idle
         /\ last' = last /\ last = None
BY Phases DEF Advance, IInv, TypeOK, Idle, Running

LEMMA StartStep ==
  ASSUME IInv, NEW fresh \in BOOLEAN, NEW force \in BOOLEAN, Start(fresh, force)
  PROVE  IInv'
<1>1. /\ proc = Idle /\ last' = None /\ direct' = direct /\ settings' = settings
      /\ proc' = [pc |-> IF fresh THEN "resolve" ELSE "relink", fresh |-> fresh, force |-> force]
  BY DEF Start
<1>2. TypeOK'
  BY <1>1 DEF Start, IInv, TypeOK, Running, tree
<1>3. ~Completed' /\ last' # "fresh" /\ proc' # Idle
  BY <1>1, SettingsAssumption DEF Completed, Idle
<1>4. Compatible'
  BY <1>1 DEF Start, Compatible, RecordOf
<1>5. \A n \in DOMAIN root' : n \in known' \/ Allowed(settings, n)
  <2>1. CASE Compatible
    <3>1. \A n \in DOMAIN root : n \in known \/ (record # None /\ Allowed(record, n))
      BY <1>1 DEF IInv, NamesInv
    <3>2. record # None => \A n : Allowed(record, n) <=> Allowed(settings, n)
      BY <2>1 DEF Compatible, RecordOf, Allowed
    <3> QED BY <2>1, <3>1, <3>2 DEF Start, tree
  <2>2. CASE ~Compatible
    BY <2>2 DEF Start, Nothing
  <2> QED BY <2>1, <2>2
<1>6. NamesInv'
  BY <1>1, <1>3, <1>4, <1>5 DEF NamesInv, Allowed
<1>7. PhasesInv'
  BY <1>1, <1>3 DEF PhasesInv
<1>8. BinsInv'
  <2>1. over' = over /\ (symlinked' <=> symlinked \/ Symlinks(settings))
    BY DEF Start
  <2>2. \/ privateBin' = privateBin /\ rootBin' = rootBin
        \/ NoLinks(privateBin') /\ NoLinks(rootBin')
    BY DEF Start, tree, NoLinks, Nothing
  <2> QED BY <1>1, <2>1, <2>2 DEF IInv, BinsInv, NoLinks
<1> QED BY <1>2, <1>6, <1>7, <1>8 DEF IInv

LEMMA ResolveStep == IInv /\ Resolve => IInv'
<1> SUFFICES ASSUME IInv, Resolve PROVE IInv'
  OBVIOUS
<1>. PICK got \in SUBSET DOMAIN direct :
       LET st == store \cup Needed([n \in got |-> direct[n]])
           done == {n \in got : MaterializesRoot(settings) => ~Blocked(settings, root, n, st)}
       IN /\ store' = st
          /\ root' = IF ~MaterializesRoot(settings) THEN root
                     ELSE LinkAll(settings, root, Restrict(DirectLinks, done), st)
          /\ IF done = DOMAIN direct THEN Advance("relink") /\ UNCHANGED known ELSE Fail
  BY DEF Resolve
<1> DEFINE st == store \cup Needed([n \in got |-> direct[n]])
           done == {n \in got : MaterializesRoot(settings) => ~Blocked(settings, root, n, st)}
<1>1. /\ proc.pc = "resolve" /\ direct' = direct /\ settings' = settings /\ record' = record
      /\ store' = st /\ symlinked' = symlinked
  BY DEF Resolve
<1>2. TypeOK /\ NamesInv /\ BinsInv /\ proc # Idle
  BY <1>1 DEF IInv, Idle
<1>6. BinsInv'
  BY <1>2, BinsKept DEF Resolve
<1>3. direct \in Manifests /\ st \subseteq Packages
  <2>1. Range([n \in got |-> direct[n]]) \subseteq Packages
    BY <1>2, NodeModulesAssumption DEF TypeOK, Range
  <2>2. Needed([n \in got |-> direct[n]]) \subseteq Packages
    BY <2>1, ClosureHolds DEF Needed
  <2> QED BY <1>2, <2>2 DEF TypeOK
<1>4. CASE done # DOMAIN direct
  <2>1. Fail
    BY <1>4
  <2>2. TypeOK'
    BY <1>1, <1>2, <1>3, <2>1 DEF TypeOK, Fail
  <2> QED BY <1>1, <1>6, <2>1, <2>2, FailStep
<1>5. CASE done = DOMAIN direct
  <2>1. /\ known' = known
        /\ root' = IF ~MaterializesRoot(settings) THEN root
                   ELSE LinkAll(settings, root, Restrict(DirectLinks, done), st)
        /\ Advance("relink")
    BY <1>5
  <2>2. /\ proc' \in [pc : Running, fresh : BOOLEAN, force : BOOLEAN]
        /\ proc'.pc = "relink" /\ proc' # Idle /\ last' = None
    BY <1>2, <2>1, AdvanceFacts DEF Running
  <2>3. TypeOK'
    BY <1>1, <1>2, <1>3, <2>2 DEF TypeOK
  <2>4. got = DOMAIN direct
    BY <1>5
  <2>5. Needed(direct) \subseteq store' /\ \A n \in DOMAIN direct : direct[n] \in store'
    BY <1>1, <1>3, <2>4, NeededHolds
  <2>6. ASSUME MaterializesRoot(settings)
        PROVE  /\ DOMAIN root' = DOMAIN root \cup DOMAIN direct
               /\ \A n \in DOMAIN direct : Exists(root', n, store') /\ root'[n].pkg = direct[n]
    <3>1. Restrict(DirectLinks, done) = [n \in DOMAIN direct |-> Link(direct[n], direct[n])]
      BY <1>5 DEF Restrict, DirectLinks
    <3>2. /\ DOMAIN root' = DOMAIN root \cup DOMAIN direct
          /\ \A n \in DOMAIN direct :
               root'[n] = Entry(settings, root, Link(direct[n], direct[n]), n, store')
      BY <1>1, <2>1, <2>6, <3>1 DEF LinkAll, Over
    <3>3. ASSUME NEW n \in DOMAIN direct
          PROVE  Alive(root'[n], store') /\ root'[n].pkg = direct[n]
      <4>1. /\ Link(direct[n], direct[n]).pkg = direct[n]
            /\ Alive(Link(direct[n], direct[n]), store')
            /\ Copy(direct[n]).pkg = direct[n] /\ Alive(Copy(direct[n]), store')
        BY <2>5 DEF Link, Copy, Alive
      <4>2. \/ root'[n] = Copy(direct[n])
            \/ root'[n] = root[n] /\ Alive(root[n], store') /\ root[n].pkg = direct[n]
            \/ root'[n] = Link(direct[n], direct[n])
        BY <3>2, <4>1 DEF Entry, Exists
      <4> QED BY <4>1, <4>2
    <3> QED BY <3>2, <3>3 DEF Exists
  <2>7. NamesInv'
    <3>1. Compatible' /\ ~Completed'
      BY <1>1, <1>2, <2>2, SettingsAssumption DEF NamesInv, Compatible, RecordOf, Completed
    <3>2. \A n \in DOMAIN root : n \in known \/ Allowed(settings, n)
      BY <1>1, <1>2 DEF NamesInv, Fresh
    <3>3. \A n \in DOMAIN root' : n \in known \/ Allowed(settings, n) \/ Fresh(n)'
      BY <1>1, <2>1, <2>2, <2>6, <3>2 DEF Fresh, MaterializesRoot
    <3> QED BY <1>1, <2>1, <2>2, <3>1, <3>3 DEF NamesInv, Allowed
  <2>8. PhasesInv'
    <3>1. ~Completed' /\ last' # "fresh"
      BY <2>2, SettingsAssumption DEF Completed
    <3>2. MaterializesRoot(settings)' => DirectThere'
      BY <1>1, <2>6 DEF DirectThere, MaterializesRoot
    <3> QED BY <1>1, <2>2, <2>5, <3>1, <3>2 DEF PhasesInv
  <2> QED BY <1>6, <2>3, <2>7, <2>8 DEF IInv
<1> QED BY <1>4, <1>5

LEMMA RelinkStep == IInv /\ Relink => IInv'
<1> SUFFICES ASSUME IInv, Relink PROVE IInv'
  OBVIOUS
<1> DEFINE need == Needed(direct)
<1>1. /\ proc.pc = "relink" /\ direct' = direct /\ settings' = settings /\ record' = record
      /\ symlinked' = symlinked
  BY DEF Relink
<1>2. TypeOK /\ NamesInv /\ BinsInv /\ PhasesInv /\ proc # Idle
  BY <1>1 DEF IInv, Idle
<1>6. BinsInv'
  BY <1>2, BinsKept DEF Relink
<1>3. /\ store' \subseteq Packages
      /\ proc.fresh => need \subseteq store'
      /\ \/ ~MaterializesRoot(settings) /\ Advance("hoist") /\ UNCHANGED <<root, known>>
         \/ Fail
         \/ /\ root' = LinkMissing(settings, root, DirectLinks, store')
            /\ known' = known \cup DOMAIN direct
            /\ Advance("hoist")
  <2>. PICK failed \in SUBSET (IF proc.fresh THEN {} ELSE need \ store), expired \in BOOLEAN :
         LET ready == need \subseteq store /\ ~proc.force
             got == store \cup (need \ failed)
             st == IF expired \/ record = None THEN got \cap need ELSE got
         IN /\ IF ready
               THEN UNCHANGED <<store, private>>
               ELSE store' = st /\ private' = HoistLockfile(settings, private, need, got)
            /\ LET blocked == {n \in DOMAIN direct : Blocked(settings, root, n, store')}
               IN IF ~MaterializesRoot(settings)
                  THEN Advance("hoist") /\ UNCHANGED <<root, known>>
                  ELSE IF blocked # {}
                  THEN /\ \E some \in SUBSET (DOMAIN direct \ blocked) :
                          root' = LinkMissing(settings, root, Restrict(DirectLinks, some), store')
                       /\ Fail
                  ELSE /\ root' = LinkMissing(settings, root, DirectLinks, store')
                       /\ known' = known \cup DOMAIN direct
                       /\ Advance("hoist")
    BY DEF Relink
  <2>1. need \subseteq Packages /\ store \subseteq Packages /\ (proc.fresh => need \subseteq store)
    BY <1>1, <1>2, NeededHolds DEF TypeOK, PhasesInv
  <2>2. store' \subseteq Packages /\ (proc.fresh => need \subseteq store')
    BY <2>1
  <2> QED BY <2>2
<1>4. CASE Fail
  <2>1. TypeOK'
    BY <1>1, <1>2, <1>3, <1>4 DEF TypeOK, Fail
  <2> QED BY <1>1, <1>4, <1>6, <2>1, FailStep
<1>5. CASE Advance("hoist")
  <2>1. /\ proc' \in [pc : Running, fresh : BOOLEAN, force : BOOLEAN] /\ proc'.fresh = proc.fresh
        /\ proc'.pc = "hoist" /\ proc' # Idle /\ last' = None
    BY <1>2, <1>5, AdvanceFacts DEF Running
  <2>2. ~Completed' /\ last' # "fresh"
    BY <2>1, SettingsAssumption DEF Completed
  <2>3. TypeOK'
    BY <1>1, <1>2, <1>3, <2>1 DEF TypeOK
  <2>4. proc' = [proc EXCEPT !.pc = "hoist"]
    BY <1>5 DEF Advance
  <2>5. ~Fail
    BY <2>1 DEF Fail
  <2>6. /\ DOMAIN DirectLinks = DOMAIN direct
        /\ \A n \in DOMAIN direct : DirectLinks[n] = Link(direct[n], direct[n])
    BY DEF DirectLinks
  <2>7. NamesInv'
    <3>1. Compatible'
      BY <1>1, <1>2 DEF NamesInv, Compatible, RecordOf
    <3>2. \A n \in DOMAIN root' : n \in known' \/ Allowed(settings, n)
      <4>1. CASE ~MaterializesRoot(settings) /\ UNCHANGED <<root, known>>
        BY <1>2, <4>1 DEF NamesInv, Fresh
      <4>2. CASE /\ root' = LinkMissing(settings, root, DirectLinks, store')
                 /\ known' = known \cup DOMAIN direct
        <5>1. DOMAIN root' \subseteq DOMAIN root \cup DOMAIN direct
          BY <2>6, <4>2, LinkMissingFacts
        <5> QED BY <1>2, <4>2, <5>1 DEF NamesInv, Fresh
      <4> QED BY <1>3, <2>5, <4>1, <4>2
    <3> QED BY <1>1, <2>1, <2>2, <3>1, <3>2 DEF NamesInv, Allowed
  <2>8. proc.fresh /\ MaterializesRoot(settings) => DirectThere'
    <3> SUFFICES ASSUME proc.fresh, MaterializesRoot(settings), NEW n \in DOMAIN direct
                 PROVE  Exists(root', n, store') /\ root'[n].pkg = direct[n]
      BY <1>1 DEF DirectThere
    <3>1. root' = LinkMissing(settings, root, DirectLinks, store')
      BY <1>3, <2>5
    <3>2. direct[n] \in store'
      BY <1>2, <1>3, NeededHolds DEF TypeOK
    <3>3. Alive(DirectLinks[n], store') /\ DirectLinks[n].pkg = direct[n]
      BY <2>6, <3>2 DEF Alive, Link
    <3>4. root[n].pkg = direct[n]
      BY <1>1, <1>2 DEF PhasesInv, DirectThere
    <3> QED BY <2>6, <3>1, <3>3, <3>4, LinkMissingFacts
  <2>9. PhasesInv'
    BY <1>1, <2>1, <2>2, <2>8 DEF PhasesInv, MaterializesRoot
  <2> QED BY <1>6, <2>3, <2>7, <2>9 DEF IInv
<1> QED BY <1>3, <1>4, <1>5

LEMMA HoistStep == IInv /\ Hoist => IInv'
<1> SUFFICES ASSUME IInv, Hoist PROVE IInv'
  OBVIOUS
<1> DEFINE privately == {p \in store : WantedPrivately(settings, p.name)}
           publicly == {p \in store : WantedPublicly(settings, p.name)}
<1> DEFINE Hoisted(chosen, public, mine) ==
       LET clear == Unblocked(settings, private, chosen, store) = DOMAIN chosen
           bound == clear /\ mine = All(chosen)
           ahead == IF bound THEN Unblocked(settings, root, public, store) ELSE {}
           ends == bound /\ ahead = DOMAIN public
       IN /\ private' = LinkUnblocked(settings, private, chosen, store)
          /\ privateBin' = IF clear THEN Wrapped(settings, chosen, mine, privateBin)
                           ELSE privateBin
          /\ root' = LinkMissing(settings, root, Restrict(public, ahead), store)
          /\ \E theirs \in Reached(public, Stuck(rootBin, root', store)) :
               LET listed == ends /\ settings.linker = "hoisted"
               IN /\ rootBin' = IF listed THEN Wrapped(settings, public, theirs, rootBin)
                                ELSE rootBin
                  /\ over' = over
                       \cup (IF clear THEN WrittenOver(settings, chosen, mine, privateBin) ELSE {})
                       \cup (IF listed THEN WrittenOver(settings, public, theirs, rootBin)
                             ELSE {})
          /\ IF ends THEN Advance("bins") /\ UNCHANGED known ELSE Fail
<1>. PICK chosen \in Selections(store, privately) :
       \E public \in Selections(store, publicly) :
         \E mine \in Reached(chosen, Stuck(privateBin, root, store)) : Hoisted(chosen, public, mine)
  BY DEF Hoist
<1>. PICK public \in Selections(store, publicly) :
       \E mine \in Reached(chosen, Stuck(privateBin, root, store)) : Hoisted(chosen, public, mine)
  OBVIOUS
<1>. PICK mine : Hoisted(chosen, public, mine)
  OBVIOUS
<1> DEFINE clear == Unblocked(settings, private, chosen, store) = DOMAIN chosen
           bound == clear /\ mine = All(chosen)
           ahead == IF bound THEN Unblocked(settings, root, public, store) ELSE {}
           ends == bound /\ ahead = DOMAIN public
<1>1. /\ proc.pc = "hoist" /\ direct' = direct /\ settings' = settings /\ record' = record
      /\ store' = store /\ symlinked' = symlinked
  BY DEF Hoist
<1>2. TypeOK /\ NamesInv /\ BinsInv /\ PhasesInv /\ proc # Idle
  BY <1>1 DEF IInv, Idle
<1>5. BinsInv'
  <2>. PICK theirs, listed :
          /\ privateBin' = IF clear THEN Wrapped(settings, chosen, mine, privateBin)
                           ELSE privateBin
          /\ rootBin' = IF listed THEN Wrapped(settings, public, theirs, rootBin) ELSE rootBin
          /\ over' = over
               \cup (IF clear THEN WrittenOver(settings, chosen, mine, privateBin) ELSE {})
               \cup (IF listed THEN WrittenOver(settings, public, theirs, rootBin) ELSE {})
    OBVIOUS
  <2> SUFFICES ASSUME ~symlinked PROVE over' = {} /\ NoLinks(privateBin') /\ NoLinks(rootBin')
    BY <1>1, <1>2 DEF BinsInv, Symlinks, NoLinks
  <2>2. ~Symlinks(settings) /\ over = {} /\ NoLinks(privateBin) /\ NoLinks(rootBin)
    BY <1>2 DEF BinsInv
  <2>3. /\ NoLinks(Wrapped(settings, chosen, mine, privateBin))
        /\ NoLinks(Wrapped(settings, public, theirs, rootBin))
        /\ WrittenOver(settings, chosen, mine, privateBin) = {}
        /\ WrittenOver(settings, public, theirs, rootBin) = {}
    BY <2>2, NoLinksStay
  <2> HIDE DEF clear
  <2> QED BY <2>2, <2>3
<1>3. CASE ~ends
  <2>1. Fail
    BY <1>3
  <2>2. TypeOK'
    BY <1>1, <1>2, <2>1 DEF TypeOK, Fail
  <2> QED BY <1>1, <1>5, <2>1, <2>2, FailStep
<1>4. CASE ends
  <2>1. known' = known /\ Advance("bins")
    BY <1>4
  <2>2. /\ proc' \in [pc : Running, fresh : BOOLEAN, force : BOOLEAN] /\ proc'.fresh = proc.fresh
        /\ proc'.pc = "bins" /\ proc' # Idle /\ last' = None
    BY <1>2, <2>1, AdvanceFacts DEF Running
  <2>3. ~Completed' /\ last' # "fresh"
    BY <2>2, SettingsAssumption DEF Completed
  <2>4. TypeOK'
    BY <1>1, <1>2, <2>2 DEF TypeOK
  <2>5. store \subseteq Packages /\ settings \in Settings
    BY <1>2 DEF TypeOK
  <2>6. /\ \A p \in privately : p.name \in DOMAIN chosen
        /\ \A n \in DOMAIN chosen : Alive(chosen[n], store)
    BY <2>5, SelectionsCover
  <2>7. /\ \A p \in publicly : p.name \in DOMAIN public
        /\ \A n \in DOMAIN public : Alive(public[n], store) /\ \E p \in publicly : p.name = n
    BY <2>5, SelectionsCover
  <2>8. /\ private' = LinkMissing(settings, private, Restrict(chosen, DOMAIN chosen), store)
        /\ root' = LinkMissing(settings, root, Restrict(public, DOMAIN public), store)
    BY <1>4 DEF LinkUnblocked
  <2>9. /\ DOMAIN Restrict(chosen, DOMAIN chosen) = DOMAIN chosen
        /\ \A n \in DOMAIN chosen : Restrict(chosen, DOMAIN chosen)[n] = chosen[n]
        /\ DOMAIN Restrict(public, DOMAIN public) = DOMAIN public
        /\ \A n \in DOMAIN public : Restrict(public, DOMAIN public)[n] = public[n]
    BY DEF Restrict
  <2>10. \A n \in DOMAIN chosen : Exists(private', n, store)
    BY <2>6, <2>8, <2>9, LinkMissingFacts
  <2>11. /\ \A n \in DOMAIN public : Exists(root', n, store)
         /\ DOMAIN root' \subseteq DOMAIN root \cup DOMAIN public
         /\ \A n : Exists(root, n, store) => Exists(root', n, store) /\ root'[n] = root[n]
    BY <2>7, <2>8, <2>9, LinkMissingFacts
  <2>12. HoistedThere'
    <3> SUFFICES ASSUME NEW p \in store
                 PROVE  /\ WantedPrivately(settings, p.name) => Exists(private', p.name, store)
                        /\ WantedPublicly(settings, p.name) => Exists(root', p.name, store)
      BY <1>1 DEF HoistedThere
    <3> QED BY <2>6, <2>7, <2>10, <2>11
  <2>13. \A n \in DOMAIN public : Allowed(settings, n)
    <3> SUFFICES ASSUME NEW p \in publicly PROVE Allowed(settings, p.name)
      BY <2>7
    <3>1. p.name \in Names /\ WantedPublicly(settings, p.name)
      BY <2>5 DEF Names
    <3> QED BY <2>5, <3>1, SettingsAssumption DEF WantedPublicly, Allowed
  <2>14. NamesInv'
    <3>1. Compatible'
      BY <1>1, <1>2 DEF NamesInv, Compatible, RecordOf
    <3>2. \A n \in DOMAIN root' : n \in known' \/ Allowed(settings, n)
      BY <1>1, <1>2, <2>1, <2>11, <2>13 DEF NamesInv, Fresh
    <3> QED BY <1>1, <2>2, <2>3, <3>1, <3>2 DEF NamesInv, Allowed
  <2>15. PhasesInv'
    <3>1. proc.fresh /\ MaterializesRoot(settings) => DirectThere'
      BY <1>1, <1>2, <2>11 DEF PhasesInv, DirectThere
    <3> QED BY <1>1, <2>2, <2>3, <2>12, <3>1 DEF PhasesInv, MaterializesRoot
  <2> QED BY <1>5, <2>4, <2>14, <2>15 DEF IInv
<1> QED BY <1>3, <1>4

LEMMA LinkBinsStep == IInv /\ LinkBins => IInv'
<1> SUFFICES ASSUME IInv, LinkBins PROVE IInv'
  OBVIOUS
<1> DEFINE chosen == DirectEntries
<1>1. PICK done :
        /\ rootBin' = Wrapped(settings, chosen, done, rootBin)
        /\ over' = over \cup WrittenOver(settings, chosen, done, rootBin)
        /\ IF done = All(chosen) THEN Advance("record") /\ UNCHANGED known ELSE Fail
  BY DEF LinkBins
<1>2. /\ proc.pc = "bins"
      /\ UNCHANGED <<direct, settings, store, private, root, privateBin, record, symlinked>>
  BY DEF LinkBins
<1>3. TypeOK /\ NamesInv /\ BinsInv /\ PhasesInv /\ proc # Idle
  BY <1>2 DEF IInv, Idle
<1>4. BinsInv'
  <2> SUFFICES ASSUME ~symlinked PROVE over' = {} /\ NoLinks(privateBin') /\ NoLinks(rootBin')
    BY <1>2, <1>3 DEF BinsInv
  <2>1. ~Symlinks(settings) /\ over = {} /\ NoLinks(privateBin) /\ NoLinks(rootBin)
    BY <1>3 DEF BinsInv
  <2> HIDE DEF chosen
  <2>2. /\ NoLinks(Wrapped(settings, chosen, done, rootBin))
        /\ WrittenOver(settings, chosen, done, rootBin) = {}
    BY <2>1, NoLinksStay
  <2> QED BY <1>1, <1>2, <2>1, <2>2
<1>5. CASE done # All(chosen)
  <2>1. Fail
    BY <1>1, <1>5
  <2>2. TypeOK'
    BY <1>2, <1>3, <2>1 DEF TypeOK, Fail
  <2> QED BY <1>2, <1>4, <2>1, <2>2, FailStep
<1>6. CASE done = All(chosen)
  <2>1. /\ proc' \in [pc : Running, fresh : BOOLEAN, force : BOOLEAN] /\ proc'.fresh = proc.fresh
        /\ proc'.pc = "record" /\ proc' # Idle /\ last' = None /\ known' = known
    BY <1>1, <1>3, <1>6, AdvanceFacts DEF Running
  <2>2. ~Completed' /\ last' # "fresh"
    BY <2>1, SettingsAssumption DEF Completed
  <2>3. TypeOK'
    BY <1>2, <1>3, <2>1 DEF TypeOK
  <2>4. NamesInv'
    <3>1. Compatible' /\ \A n \in DOMAIN root : n \in known \/ Allowed(settings, n)
      BY <1>2, <1>3 DEF NamesInv, Compatible, RecordOf, Fresh
    <3> QED BY <1>2, <2>1, <2>2, <3>1 DEF NamesInv, Allowed
  <2>5. DirectEntries' = chosen
    BY <1>2 DEF DirectEntries
  <2>6. DOMAIN chosen \subseteq Names /\ DOMAIN done = DOMAIN chosen
    <3>1. DOMAIN direct \subseteq Names
      BY <1>3, NodeModulesAssumption DEF TypeOK, Names
    <3> QED BY <1>6, <3>1 DEF DirectEntries, All
  <2>7. CommandsRun'
    <3> SUFFICES ASSUME NEW b \in UNION Range(done)
                 PROVE  LET file == File(settings, chosen[LastOf(Writers(done, b))], b)
                        IN rootBin'[b].runs = file /\ rootBin'[b].link \in {None, file} \cup over'
      BY <1>2, <1>6, <2>5 DEF CommandsRun, DirectFile
    <3>1. DOMAIN chosen \subseteq Names /\ DOMAIN done = DOMAIN chosen
      BY <2>6
    <3> HIDE DEF chosen
    <3>2. LET file == File(settings, chosen[LastOf(Writers(done, b))], b)
              entry == Wrapped(settings, chosen, done, rootBin)[b]
          IN /\ entry.runs = file
             /\ entry.link \in {None, file} \cup WrittenOver(settings, chosen, done, rootBin)
      BY <3>1, LastWriterWins
    <3> QED BY <1>1, <3>2
  <2>8. HoistedThere' /\ (proc.fresh /\ MaterializesRoot(settings) => DirectThere')
    <3>1. HoistedThere /\ (proc.fresh /\ MaterializesRoot(settings) => DirectThere)
      BY <1>2, <1>3 DEF PhasesInv
    <3>2. HoistedThere' <=> HoistedThere
      BY <1>2 DEF HoistedThere
    <3>3. DirectThere' <=> DirectThere
      BY <1>2 DEF DirectThere
    <3> QED BY <3>1, <3>2, <3>3
  <2>9. PhasesInv'
    BY <1>2, <2>1, <2>2, <2>7, <2>8 DEF PhasesInv
  <2> QED BY <1>4, <2>3, <2>4, <2>9 DEF IInv
<1> QED BY <1>5, <1>6

LEMMA WriteRecordStep == IInv /\ WriteRecord => IInv'
<1> SUFFICES ASSUME IInv, WriteRecord PROVE IInv'
  OBVIOUS
<1>1. /\ proc.pc = "record" /\ record' = RecordOf(settings) /\ proc' = Idle
      /\ last' = IF proc.fresh THEN "fresh" ELSE "frozen"
      /\ UNCHANGED <<direct, settings, store, private, root, privateBin, rootBin, known, over,
                    symlinked>>
  BY DEF WriteRecord, tree
<1>2. TypeOK /\ NamesInv /\ BinsInv /\ PhasesInv /\ proc # Idle
  BY <1>1 DEF IInv, Idle
<1>3. TypeOK'
  BY <1>1, <1>2 DEF TypeOK
<1>4. proc'.pc = "idle"
  BY <1>1 DEF Idle
<1>5. NamesInv'
  <2>1. \A n \in DOMAIN root : n \in known \/ Allowed(settings, n)
    BY <1>1, <1>2 DEF NamesInv, Fresh
  <2>2. record' # None /\ \A n : Allowed(record', n) <=> Allowed(settings, n)
    BY <1>1, <1>2, SettingsAssumption DEF TypeOK, RecordOf, Allowed
  <2> QED BY <1>1, <2>1, <2>2 DEF NamesInv
<1>6. CommandsRun' <=> CommandsRun
  BY <1>1 DEF CommandsRun, DirectFile, DirectEntries
<1>7. /\ HoistedThere' <=> HoistedThere
      /\ DirectThere' <=> DirectThere
  BY <1>1 DEF HoistedThere, DirectThere
<1>8. last' = "fresh" => proc.fresh
  BY <1>1
<1>9. PhasesInv'
  BY <1>1, <1>2, <1>4, <1>6, <1>7, <1>8 DEF PhasesInv
<1>10. BinsInv'
  BY <1>1, <1>2, BinsKept
<1> QED BY <1>3, <1>5, <1>9, <1>10 DEF IInv

LEMMA KillStep == IInv /\ Kill => IInv'
<1> SUFFICES ASSUME IInv, Kill PROVE IInv'
  OBVIOUS
<1>1. TypeOK'
  BY DEF Kill, Fail, IInv, TypeOK, tree
<1>2. BinsInv'
  BY BinsKept DEF Kill, IInv, tree
<1> QED BY <1>1, <1>2, FailStep DEF Kill

LEMMA ChangeStep == IInv /\ Change => IInv'
<1> SUFFICES ASSUME IInv, Change PROVE IInv'
  OBVIOUS
<1>1. /\ proc = Idle /\ proc' = proc /\ last' = None /\ record' = record /\ known' = known
      /\ root' = root /\ store' = store /\ symlinked' = symlinked
      /\ direct' \in Manifests /\ settings' \in Settings
  BY DEF Change, IInv, TypeOK, tree
<1>2. ~Completed' /\ last' # "fresh" /\ proc'.pc = "idle"
  BY <1>1, SettingsAssumption DEF Completed, Idle
<1>3. TypeOK'
  BY <1>1 DEF IInv, TypeOK
<1>4. NamesInv'
  BY <1>1, <1>2 DEF IInv, NamesInv
<1>5. PhasesInv'
  BY <1>2 DEF PhasesInv
<1>6. BinsInv'
  BY <1>1 DEF Change, IInv, BinsInv, tree
<1> QED BY <1>3, <1>4, <1>5, <1>6 DEF IInv

LEMMA StutterStep == IInv /\ UNCHANGED vars => IInv'
<1> SUFFICES ASSUME IInv, UNCHANGED vars PROVE IInv'
  OBVIOUS
<1>1. UNCHANGED <<direct, settings, store, private, root, privateBin, rootBin, record, proc, last,
                  known, over, symlinked>>
  BY DEF vars, tree
<1>2. TypeOK'
  BY <1>1 DEF IInv, TypeOK
<1>3. NamesInv'
  BY <1>1 DEF IInv, NamesInv, Completed, Compatible, Fresh
<1>4. CommandsRun' <=> CommandsRun
  BY <1>1 DEF CommandsRun, DirectFile, DirectEntries
<1>5. PhasesInv'
  BY <1>1, <1>4 DEF IInv, PhasesInv, HoistedThere, DirectThere, Completed
<1>6. BinsInv'
  BY <1>1, BinsKept DEF IInv
<1> QED BY <1>2, <1>3, <1>5, <1>6 DEF IInv
-----------------------------------------------------------------------------
(* Between installs every name in node_modules is a direct dependency, was *)
(* left by an install that did not end, or is allowed by the settings that *)
(* .modules.yaml records; and each phase of an install keeps what the ones *)
(* before it have achieved.                                                *)
THEOREM Invariance == Spec => []IInv
<1>1. IInv /\ [Next]_vars => IInv'
  BY StartStep, ResolveStep, RelinkStep, HoistStep, LinkBinsStep, WriteRecordStep, KillStep,
     ChangeStep, StutterStep DEF Next
<1> QED BY InitInv, <1>1, PTL DEF Spec

(* What the settings hoist is found after every install, and nothing that  *)
(* they exclude is beside the direct dependencies, whatever the settings   *)
(* of earlier installs were and wherever one of them was killed.           *)
THEOREM HoistedExactlyHolds == Spec => []HoistedExactly
<1>1. IInv => HoistedExactly
  <2> SUFFICES ASSUME IInv, Completed PROVE HoistedExactly
    BY DEF HoistedExactly
  <2>1. HoistedThere /\ record = RecordOf(settings) /\ settings \in Settings
    BY DEF IInv, PhasesInv, NamesInv, TypeOK
  <2>2. \A n \in DOMAIN root : n \in known \/ (record # None /\ Allowed(record, n))
    BY Phases DEF IInv, NamesInv
  <2>3. \A n : Allowed(record, n) <=> Allowed(settings, n)
    BY <2>1 DEF RecordOf, Allowed
  <2>4. \A n \in DOMAIN root : n \in known \/ Allowed(settings, n)
    BY <2>2, <2>3
  <2> QED BY <2>1, <2>4 DEF HoistedExactly, HoistedThere, Allowed
<1> QED BY <1>1, Invariance, PTL

(* After a fresh install each name of package.json leads to the version it *)
(* asks for.  After every install the entry of a direct dependency's       *)
(* command was last written for that dependency, whatever was hoisted, and *)
(* is a link only to its file or to one that a wrapper has gone over.      *)
(* While prefer-symlinked-executables stays off, no entry is a link and no *)
(* package's file is written over, so that the command runs.               *)
THEOREM DirectFirstHolds == Spec => []DirectFirst
<1>1. IInv => DirectFirst
  BY DEF IInv, BinsInv, NoLinks, CommandsRun, PhasesInv, DirectThere, DirectFirst
<1> QED BY <1>1, Invariance, PTL
==============================================================================
