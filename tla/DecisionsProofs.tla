--------------------------- MODULE DecisionsProofs ---------------------------
(***************************************************************************)
(* Proofs about Decisions, for every question that can be asked: each      *)
(* answer has its property, because the operators that the answer is made  *)
(* of have it; and the variant of a package that an importer gets, in      *)
(* whatever order the variants are looked at.                              *)
(***************************************************************************)
EXTENDS Decisions, FiniteSetTheorems, WellFoundedInduction, TLAPS

-----------------------------------------------------------------------------
(* The variables: a question stays what it is, and its answer is what the  *)
(* operator for its kind gives, once there is one.                         *)
AnswerIs(on, value) == query.on = on /\ answer # Unanswered => answer = value

AnswersInv ==
  /\ Asked(query)
  /\ AnswerIs("resolve", Resolved(query))
  /\ AnswerIs("add", Added(query))
  /\ AnswerIs("update", Updated(query))
  /\ AnswerIs("lockfile", Installed(query))
  /\ AnswerIs("file", Loaded(query))
  /\ Answered("config") => answer \in Configured(query)

LEMMA AnswersHold == DecisionSpec => []AnswersInv
<1>1. Init => AnswersInv
  BY QuestionsAssumption DEF Init, AnswersInv, AnswerIs, Answered
<1>2. AnswersInv /\ [Decide \/ Elsewhere]_vars => AnswersInv'
  <2> SUFFICES ASSUME AnswersInv, [Decide \/ Elsewhere]_vars
               PROVE  AnswersInv'
    OBVIOUS
  <2>1. query' = query
    BY DEF Decide, Elsewhere, vars, Resolve, Add, Update, Install, Reload, Configure, DedupePeers
  <2>2. CASE UNCHANGED answer
    BY <2>1, <2>2 DEF AnswersInv, AnswerIs, Answered
  <2>3. CASE Resolve  BY <2>1, <2>3 DEF Resolve, Asks, AnswersInv, AnswerIs, Answered
  <2>4. CASE Add  BY <2>1, <2>4 DEF Add, Asks, AnswersInv, AnswerIs, Answered
  <2>5. CASE Update  BY <2>1, <2>5 DEF Update, Asks, AnswersInv, AnswerIs, Answered
  <2>6. CASE Install  BY <2>1, <2>6 DEF Install, Asks, AnswersInv, AnswerIs, Answered
  <2>7. CASE Reload  BY <2>1, <2>7 DEF Reload, Asks, AnswersInv, AnswerIs, Answered
  <2>8. CASE Configure  BY <2>1, <2>8 DEF Configure, Asks, AnswersInv, AnswerIs, Answered
  <2>9. CASE DedupePeers  BY <2>1, <2>9 DEF DedupePeers, AnswersInv, AnswerIs, Answered
  <2>10. CASE Elsewhere  BY <2>1, <2>10 DEF Elsewhere, AnswersInv, AnswerIs, Answered
  <2> QED
    BY <2>2, <2>3, <2>4, <2>5, <2>6, <2>7, <2>8, <2>9, <2>10 DEF Decide, vars
<1> QED BY <1>1, <1>2, PTL DEF DecisionSpec
-----------------------------------------------------------------------------
(* Variants.  One has all that another has, resolved to the same; then it  *)
(* scores no less.                                                         *)
Has(new, old) ==
  /\ \A n \in DOMAIN old.deps : n \in DOMAIN new.deps /\ new.deps[n] = old.deps[n]
  /\ old.peers \subseteq new.peers

Finite(v) == IsFiniteSet(DOMAIN v.deps) /\ IsFiniteSet(v.peers)

(* The instance counts as the other modules do. *)
LEMMA Counts == \A S : Variants!Cardinality(S) = Cardinality(S)
BY DEF Variants!Cardinality, Cardinality

LEMMA HasScore ==
  ASSUME NEW new, NEW old, Finite(new), Finite(old), Has(new, old)
  PROVE  Variants!Score(new) >= Variants!Score(old)
<1>1. DOMAIN old.deps \in SUBSET DOMAIN new.deps /\ old.peers \in SUBSET new.peers
  BY DEF Has
<1>2. /\ Cardinality(DOMAIN old.deps) <= Cardinality(DOMAIN new.deps)
      /\ Cardinality(old.peers) <= Cardinality(new.peers)
  BY <1>1, FS_Subset DEF Finite
<1>3. /\ Cardinality(DOMAIN old.deps) \in Nat /\ Cardinality(DOMAIN new.deps) \in Nat
      /\ Cardinality(old.peers) \in Nat /\ Cardinality(new.peers) \in Nat
  BY FS_CardinalityType DEF Finite
<1> QED BY <1>2, <1>3, Counts DEF Variants!Score

LEMMA ScoreType ==
  ASSUME NEW v, Finite(v)
  PROVE  Variants!Score(v) \in Nat
<1>1. Cardinality(DOMAIN v.deps) \in Nat /\ Cardinality(v.peers) \in Nat
  BY FS_CardinalityType DEF Finite
<1> QED BY <1>1, Counts DEF Variants!Score

LEMMA HasTransitive ==
  ASSUME NEW a, NEW b, NEW c, Has(a, b), Has(b, c)
  PROVE  Has(a, c)
BY DEF Has

(* What has been looked at and has all of the best one and no less, is not *)
(* better.                                                                 *)
BestSoFar(variants, at, s) ==
  /\ s.best \in DOMAIN variants /\ s.left \subseteq DOMAIN variants \ {s.best}
  /\ Has(variants[s.best], variants[at])
  /\ \A j \in DOMAIN variants \ (s.left \cup {s.best}) :
       Has(variants[j], variants[s.best]) =>
         /\ Variants!Score(variants[j]) = Variants!Score(variants[s.best])
         /\ s.best < j

LEMMA LookAtBest ==
  ASSUME NEW variants, NEW at \in DOMAIN variants, DOMAIN variants \subseteq Nat,
         \A j \in DOMAIN variants : Finite(variants[j]),
         NEW s, BestSoFar(variants, at, s), NEW j \in s.left
  PROVE  BestSoFar(variants, at, Variants!LookAt(variants, s, j))
<1> DEFINE i == s.best
           V(k) == variants[k]
           S(k) == Variants!Score(variants[k])
           t == Variants!LookAt(variants, s, j)
<1>1. /\ i \in DOMAIN variants /\ j \in DOMAIN variants /\ i # j
      /\ i \in Nat /\ j \in Nat
  BY DEF BestSoFar
<1>2. \A k \in DOMAIN variants : k \in Nat /\ S(k) \in Nat
  BY ScoreType
<1>3. \A k, l \in DOMAIN variants : Has(V(k), V(l)) => S(k) >= S(l)
  BY HasScore
<1>4. Has(V(i), V(at))
  BY DEF BestSoFar
<1>5. \A k \in DOMAIN variants \ (s.left \cup {i}) : Has(V(k), V(i)) => S(k) = S(i) /\ i < k
  BY DEF BestSoFar
<1>6. Variants!Extends(V(j), V(i)) <=> S(j) >= S(i) /\ Has(V(j), V(i))
  BY DEF Variants!Extends, Has
<1>7. CASE Variants!Replaces(variants, j, i)
  <2>1. t.best = j /\ t.left = s.left \ {j}
    BY <1>7 DEF Variants!LookAt
  <2>2. Has(V(j), V(i)) /\ (S(j) > S(i) \/ (S(j) = S(i) /\ j < i))
    BY <1>6, <1>7 DEF Variants!Replaces
  <2>3. Has(V(j), V(at))
    BY <2>2, <1>4, HasTransitive
  <2>4. ASSUME NEW k \in DOMAIN variants, k \notin s.left, k # j, Has(V(k), V(j))
        PROVE  S(k) = S(j) /\ j < k
    <3>1. Has(V(k), V(i)) /\ S(k) >= S(j)
      BY <2>2, <2>4, <1>3, <1>1, HasTransitive
    <3>2. CASE k = i
      BY <3>1, <3>2, <2>2, <1>2, <1>1
    <3>3. CASE k # i
      <4>1. S(k) = S(i) /\ i < k
        BY <3>1, <3>3, <2>4, <1>5
      <4> QED BY <4>1, <3>1, <2>2, <1>2, <1>1
    <3> QED BY <3>2, <3>3
  <2>5. s.left \ {j} \subseteq DOMAIN variants \ {j}
    BY DEF BestSoFar
  <2> SUFFICES BestSoFar(variants, at, t)
    OBVIOUS
  <2> HIDE DEF t
  <2> QED BY <2>1, <2>3, <2>4, <2>5, <1>1 DEF BestSoFar
<1>8. CASE ~Variants!Replaces(variants, j, i)
  <2>1. t.best = i /\ t.left = s.left \ {j}
    BY <1>8 DEF Variants!LookAt
  <2>2. Has(V(j), V(i)) => S(j) = S(i) /\ i < j
    <3>1. ASSUME Has(V(j), V(i)) PROVE S(j) = S(i) /\ i < j
      <4>1. S(j) >= S(i)
        BY <3>1, <1>3, <1>1
      <4>2. ~(S(j) > S(i)) /\ ~(S(j) = S(i) /\ j < i)
        BY <4>1, <3>1, <1>6, <1>8 DEF Variants!Replaces
      <4> QED BY <4>1, <4>2, <1>1, <1>2
    <3> QED BY <3>1
  <2>3. s.left \ {j} \subseteq DOMAIN variants \ {i}
    BY DEF BestSoFar
  <2> SUFFICES BestSoFar(variants, at, t)
    OBVIOUS
  <2> HIDE DEF t
  <2> QED BY <2>1, <2>2, <2>3, <1>1, <1>4, <1>5 DEF BestSoFar
<1> QED BY <1>7, <1>8

VariantsInv ==
  query.on = "variants" /\ answer # Unanswered =>
    BestSoFar(query.variants, query.at, answer)

(* In whatever order the hash map gives the variants, of however many, the *)
(* one that the importer ends up with has all that it asked for and is not *)
(* outdone by another (resolve_package_snapshot_deduped).                  *)
THEOREM VariantsCovered == DecisionSpec => []VariantsCover
<1> DEFINE Inv == Asked(query) /\ VariantsInv
<1>1. Init => Inv
  BY QuestionsAssumption DEF Init, VariantsInv
<1>2. Inv /\ [Decide \/ Elsewhere]_vars => Inv'
  <2> SUFFICES ASSUME Inv, [Decide \/ Elsewhere]_vars
               PROVE  Inv'
    OBVIOUS
  <2>1. query' = query
    BY DEF Decide, Elsewhere, vars, Resolve, Add, Update, Install, Reload, Configure, DedupePeers
  <2> DEFINE vs == query.variants
             at == query.at
  <2>2. CASE query.on = "variants" /\ DedupePeers
    <3>1. /\ DOMAIN vs \subseteq Nat /\ at \in DOMAIN vs
          /\ \A j \in DOMAIN vs : Finite(vs[j])
      BY <2>2 DEF Asked, VariantsAsked, Finite
    <3>2. CASE answer = Unanswered /\ answer' = Variants!Begin(vs, at)
      BY <3>1, <3>2, <2>1 DEF VariantsInv, BestSoFar, Variants!Begin, Has
    <3>3. CASE answer # Unanswered /\ answer' \in Variants!LooksAt(vs, answer)
      <4>1. PICK j \in answer.left : answer' = Variants!LookAt(vs, answer, j)
        BY <3>3 DEF Variants!LooksAt
      <4>2. BestSoFar(vs, at, answer)
        BY <2>2, <3>3 DEF VariantsInv
      <4>3. BestSoFar(vs, at, answer')
        BY <4>1, <4>2, <3>1, LookAtBest
      <4> QED BY <4>3, <2>1 DEF VariantsInv
    <3> QED BY <2>2, <3>2, <3>3 DEF DedupePeers
  <2>3. CASE UNCHANGED answer \/ query.on # "variants"
    BY <2>1, <2>3 DEF VariantsInv
  <2>4. UNCHANGED answer \/ query.on # "variants" \/ (query.on = "variants" /\ DedupePeers)
    BY DEF Decide, Elsewhere, vars, Asks, Resolve, Add, Update, Install, Reload, Configure
  <2> QED BY <2>2, <2>3, <2>4
<1>3. Inv => VariantsCover
  <2> SUFFICES ASSUME Inv, Answered("variants"), answer.left = {}
               PROVE  Variants!Covers(query.variants, query.at, answer.best)
    BY DEF VariantsCover
  <2>1. BestSoFar(query.variants, query.at, answer)
    BY DEF VariantsInv, Answered
  <2> QED BY <2>1 DEF BestSoFar, Has, Variants!Covers
<1> QED BY <1>1, <1>2, <1>3, PTL DEF DecisionSpec
-----------------------------------------------------------------------------
(* Versions are in a strict linear order, so that finitely many of them    *)
(* have a newest and an oldest one.                                        *)
LEMMA VersionParts ==
  ASSUME NEW v \in Versions
  PROVE  /\ v[1] \in Nat /\ v[2] \in Nat /\ v[3] \in Nat
         /\ v = <<v[1], v[2], v[3]>>
BY DEF Versions

LEMMA OlderOrder ==
  ASSUME NEW u \in Versions, NEW v \in Versions, NEW w \in Versions
  PROVE  /\ ~ Older(u, u)
         /\ Older(u, v) => ~ Older(v, u)
         /\ Older(u, v) /\ Older(v, w) => Older(u, w)
         /\ Older(u, v) \/ Older(v, u) \/ u = v
<1>1. /\ u[1] \in Nat /\ u[2] \in Nat /\ u[3] \in Nat
      /\ v[1] \in Nat /\ v[2] \in Nat /\ v[3] \in Nat
      /\ w[1] \in Nat /\ w[2] \in Nat /\ w[3] \in Nat
  BY VersionParts
<1>2. u[1] = v[1] /\ u[2] = v[2] /\ u[3] = v[3] => u = v
  BY VersionParts
<1> QED BY <1>1, <1>2 DEF Older

LEMMA Least ==
  ASSUME NEW D \in SUBSET Nat, D # {}
  PROVE  \E x \in D : \A y \in D : x <= y
<1>1. \E x \in D : \A y \in D : ~(<<y, x>> \in OpToRel(<, Nat))
  BY NatLessThanWellFounded, WFMin
<1>2. PICK x \in D : \A y \in D : ~(y < x)
  BY <1>1 DEF OpToRel
<1> QED BY <1>2

LEMMA NewestIs ==
  ASSUME NEW S \in SUBSET Versions, IsFiniteSet(S), S # {}
  PROVE  Newest(S) \in S /\ \A w \in S : ~ Older(Newest(S), w)
<1> DEFINE Newer(v) == {w \in S : Older(v, w)}
           C == {Cardinality(Newer(v)) : v \in S}
<1>1. \A v \in S : Newer(v) \in SUBSET S /\ IsFiniteSet(Newer(v)) /\ Cardinality(Newer(v)) \in Nat
  BY FS_Subset, FS_CardinalityType
<1>2. PICK c \in C : \A d \in C : c <= d
  <2>1. C \in SUBSET Nat /\ C # {}
    BY <1>1
  <2> QED BY <2>1, Least
<1>3. PICK v \in S : c = Cardinality(Newer(v))
  OBVIOUS
<1>4. ASSUME NEW w \in S, Older(v, w)
      PROVE  FALSE
  <2>1. Newer(w) \in SUBSET Newer(v) /\ w \in Newer(v) /\ w \notin Newer(w)
    BY <1>4, OlderOrder
  <2>2. Cardinality(Newer(w)) <= Cardinality(Newer(v))
        /\ Cardinality(Newer(v)) # Cardinality(Newer(w))
    BY <2>1, <1>1, FS_Subset
  <2>3. Cardinality(Newer(v)) <= Cardinality(Newer(w))
    BY <1>2, <1>3
  <2> QED BY <2>2, <2>3, <1>1
<1>5. \E x \in S : \A w \in S : ~ Older(x, w)
  BY <1>4
<1> QED BY <1>5 DEF Newest

LEMMA OldestIs ==
  ASSUME NEW S \in SUBSET Versions, IsFiniteSet(S), S # {}
  PROVE  Oldest(S) \in S
<1> DEFINE Below(v) == {w \in S : Older(w, v)}
           C == {Cardinality(Below(v)) : v \in S}
<1>1. \A v \in S : Below(v) \in SUBSET S /\ IsFiniteSet(Below(v)) /\ Cardinality(Below(v)) \in Nat
  BY FS_Subset, FS_CardinalityType
<1>2. PICK c \in C : \A d \in C : c <= d
  <2>1. C \in SUBSET Nat /\ C # {}
    BY <1>1
  <2> QED BY <2>1, Least
<1>3. PICK v \in S : c = Cardinality(Below(v))
  OBVIOUS
<1>4. ASSUME NEW w \in S, Older(w, v)
      PROVE  FALSE
  <2>1. Below(w) \in SUBSET Below(v) /\ w \in Below(v) /\ w \notin Below(w)
    BY <1>4, OlderOrder
  <2>2. Cardinality(Below(w)) <= Cardinality(Below(v))
        /\ Cardinality(Below(v)) # Cardinality(Below(w))
    BY <2>1, <1>1, FS_Subset
  <2>3. Cardinality(Below(v)) <= Cardinality(Below(w))
    BY <1>2, <1>3
  <2> QED BY <2>2, <2>3, <1>1
<1>5. \E x \in S : \A w \in S : ~ Older(w, x)
  BY <1>4
<1> QED BY <1>5 DEF Oldest
-----------------------------------------------------------------------------
(* What is pinned, and what is resolved from the metadata of a package.    *)
Fitting(package, spec) == {w \in package.versions : Satisfies(w, spec)}

LEMMA FittingFinite ==
  ASSUME NEW package, NEW spec, Published(package)
  PROVE  /\ Fitting(package, spec) \in SUBSET Versions
         /\ IsFiniteSet(Fitting(package, spec))
         /\ \A T \in SUBSET Fitting(package, spec) : T \in SUBSET Versions /\ IsFiniteSet(T)
         /\ NoVersion \notin package.versions /\ Failed \notin package.versions
<1>1. Fitting(package, spec) \in SUBSET package.versions
  BY DEF Fitting
<1>2. NoVersion \notin Versions
  BY DEF NoVersion, Versions
<1> QED BY <1>1, <1>2, FS_Subset, FailedAssumption DEF Published

(* A version is pinned if there is one that satisfies the range; it is the *)
(* newest one that is maintained, unless it is latest.                     *)
LEMMA PinnedIs ==
  ASSUME NEW package, NEW spec, Published(package)
  PROVE  LET v == PinnedVersion(package, spec) IN
         /\ v = NoVersion => Fitting(package, spec) = {}
         /\ v # NoVersion =>
              /\ v \in Fitting(package, spec) /\ IsRange(spec.op)
              /\ v = package.latest \/ spec.op = "*" \/
                   \A w \in Fitting(package, spec) : Older(v, w) => w \in package.deprecated
              /\ v \in package.deprecated =>
                   \/ v = package.latest \/ spec.op = "*"
                   \/ Fitting(package, spec) \subseteq package.deprecated
         /\ spec.op # "*" /\ package.latest \in Fitting(package, spec) => v = package.latest
         /\ spec.op # "*" /\ package.latest \notin Fitting(package, spec)
              /\ Fitting(package, spec) # {} =>
              v = Newest(IF Fitting(package, spec) \ package.deprecated # {}
                         THEN Fitting(package, spec) \ package.deprecated
                         ELSE Fitting(package, spec))
<1> DEFINE F == Fitting(package, spec)
           M == F \ package.deprecated
           latest == LatestIfAvailable(package)
           v == PinnedVersion(package, spec)
<1>1. F = {w \in package.versions : Satisfies(w, spec)}
  BY DEF Fitting
<1>2. NoVersion \notin package.versions /\ F \in SUBSET Versions /\ F \in SUBSET package.versions
  BY <1>1, FittingFinite
<1>3. F # {} => Newest(F) \in F /\ \A w \in F : ~ Older(Newest(F), w)
  BY FittingFinite, NewestIs
<1>4. M # {} => Newest(M) \in M /\ \A w \in M : ~ Older(Newest(M), w)
  BY FittingFinite, NewestIs
<1>5. package.versions # {} => Oldest(package.versions) \in package.versions
  BY OldestIs DEF Published
<1>6. /\ package.latest \in package.versions => latest = package.latest /\ latest # NoVersion
      /\ package.latest \notin package.versions => latest = NoVersion
  BY <1>2 DEF LatestIfAvailable
<1>7. CASE spec.op = "*"
  <2>1. F = package.versions /\ IsRange(spec.op)
    BY <1>7, <1>1 DEF Satisfies, IsRange
  <2>2. v = IF latest # NoVersion THEN latest
            ELSE IF package.versions = {} THEN NoVersion ELSE Oldest(package.versions)
    BY <1>7 DEF PinnedVersion
  <2> HIDE DEF F, v, latest
  <2>3. /\ v = NoVersion => F = {}
        /\ v # NoVersion => v \in F
    BY <2>1, <2>2, <1>2, <1>5, <1>6
  <2> QED BY <2>1, <2>3, <1>7 DEF F, v
<1>8. CASE spec.op # "*"
  <2>1. v = IF ~ IsRange(spec.op) \/ F = {} THEN NoVersion
            ELSE IF latest \in F THEN latest
            ELSE IF M # {} THEN Newest(M) ELSE Newest(F)
    BY <1>1, <1>8 DEF PinnedVersion
  <2>2. F # {} => IsRange(spec.op)
    BY <1>1 DEF Satisfies, IsRange
  <2>3. latest \in F <=> package.latest \in F
    BY <1>2, <1>6
  <2>4. latest \in F => latest = package.latest
    BY <1>2, <1>6
  <2> HIDE DEF F, v, latest
  <2> QED BY <2>1, <2>2, <2>3, <2>4, <1>2, <1>3, <1>4 DEF F, v
<1> QED BY <1>7, <1>8

LEMMA MetadataIs ==
  ASSUME NEW package, NEW spec, NEW preferred, Published(package)
  PROVE  LET v == ResolveFromMetadata(package, spec, preferred) IN
         /\ v = NoVersion => Fitting(package, spec) = {}
         /\ v \notin {NoVersion, Failed} =>
              /\ v \in package.versions
              /\ IsRange(spec.op) => v \in Fitting(package, spec)
              /\ v = package.latest \/ v \in preferred \/ spec.op = "*" \/
                   \A w \in Fitting(package, spec) : Older(v, w) => w \in package.deprecated
              /\ v \in package.deprecated =>
                   v = package.latest \/ v \in preferred \/ spec.op = "*"
                   \/ Fitting(package, spec) \subseteq package.deprecated
<1> DEFINE F == Fitting(package, spec)
           K == {w \in preferred \cap package.versions : Satisfies(w, spec)}
           v == ResolveFromMetadata(package, spec, preferred)
<1>1. F = {w \in package.versions : Satisfies(w, spec)}
  BY DEF Fitting
<1>2. NoVersion \notin package.versions /\ Failed \notin package.versions /\ Failed # NoVersion
  BY FittingFinite, FailedAssumption
<1>3. CASE spec.op = "="
  <2>1. v = IF spec.v \in package.versions THEN spec.v ELSE NoVersion
    BY <1>3 DEF ResolveFromMetadata
  <2>2. F = {w \in package.versions : w = spec.v}
    BY <1>1, <1>3 DEF Satisfies
  <2>3. \A w \in package.versions : ~ Older(w, w)
    BY OlderOrder DEF Published
  <2> HIDE DEF F, v
  <2> QED BY <2>1, <2>2, <2>3, <1>2 DEF F, v
<1>4. CASE spec.op = "latest"
  <2>1. v = IF package.latest \in package.versions THEN package.latest ELSE Failed
    BY <1>4, <1>2 DEF ResolveFromMetadata, LatestIfAvailable
  <2>2. ~ IsRange(spec.op)
    BY <1>4 DEF IsRange
  <2> HIDE DEF F, v
  <2> QED BY <2>1, <2>2, <1>2 DEF F, v
<1>5. CASE spec.op \notin {"=", "latest"}
  <2>1. v = IF IsRange(spec.op) /\ K # {} THEN Newest(K) ELSE PinnedVersion(package, spec)
    BY <1>5 DEF ResolveFromMetadata
  <2>2. K # {} => Newest(K) \in K
    <3>1. K \in SUBSET F
      BY <1>1
    <3> QED BY <3>1, FittingFinite, NewestIs
  <2>3. K \subseteq F /\ K \subseteq preferred /\ F \subseteq package.versions
    BY <1>1
  <2>4. CASE IsRange(spec.op) /\ K # {}
    <3> HIDE DEF F, v, K
    <3> QED BY <2>1, <2>2, <2>3, <2>4, <1>2 DEF F, v
  <2>5. CASE ~(IsRange(spec.op) /\ K # {})
    <3>1. v = PinnedVersion(package, spec)
      BY <2>1, <2>5
    <3> HIDE DEF F, v, K
    <3> QED BY <3>1, <2>3, PinnedIs DEF F, v
  <2> QED BY <2>4, <2>5
<1> QED BY <1>3, <1>4, <1>5

(* What an install resolves a range to. *)
LEMMA ResolvedBest ==
  ASSUME Asked(query), query.on = "resolve", answer = Resolved(query)
  PROVE  ResolvesBest
<1> DEFINE q == query
           v == answer.value
           sources == {p \in {q.cached, IF q.offline THEN Failed ELSE q.fetched} : p # Failed}
           package == FetchPackage(q.cached, q.fetched, q.preferOffline, q.offline)
           first == IF package = Failed THEN NoVersion
                    ELSE ResolveFromMetadata(package, q.spec, q.preferred)
           second == /\ first = NoVersion /\ package # Failed /\ q.preferOffline /\ ~ q.offline
                     /\ q.cached # Failed /\ q.fetched # Failed
<1>1. v = IF second THEN ResolveFromMetadata(q.fetched, q.spec, q.preferred) ELSE first
  BY DEF Resolved, ResolveVersion
<1>2. q.offline => answer.mirror = q.cached
  BY DEF Resolved, Mirrored
<1>3. \A p \in sources : Published(p)
  BY DEF Asked, ResolveAsked
<1>4. package # Failed => package \in sources
  BY DEF FetchPackage
<1>5. second => q.fetched \in sources
  OBVIOUS
<1>6. \A p \in sources : LET w == ResolveFromMetadata(p, q.spec, q.preferred) IN
        /\ w = NoVersion => Fitting(p, q.spec) = {}
        /\ w \notin {NoVersion, Failed} =>
              /\ w \in p.versions
              /\ IsRange(q.spec.op) => w \in Fitting(p, q.spec)
              /\ w = p.latest \/ w \in q.preferred \/ q.spec.op = "*" \/
                   \A x \in Fitting(p, q.spec) : Older(w, x) => x \in p.deprecated
              /\ w \in p.deprecated =>
                   w = p.latest \/ w \in q.preferred \/ q.spec.op = "*"
                   \/ Fitting(p, q.spec) \subseteq p.deprecated
  BY <1>3, MetadataIs
<1>7. v \notin {NoVersion, Failed} =>
        \E p \in sources : v = ResolveFromMetadata(p, q.spec, q.preferred)
  <2> HIDE DEF sources
  <2> QED BY <1>1, <1>4, <1>5
<1>8. \A p \in sources : Fitting(p, q.spec) = {w \in p.versions : Satisfies(w, q.spec)}
  BY DEF Fitting
<1>9. v = NoVersion =>
        \A p \in sources :
          Fitting(p, q.spec) = {} \/ (p = q.cached /\ ~ q.offline /\ ~ q.preferOffline)
  <2> SUFFICES ASSUME v = NoVersion, NEW p \in sources,
                      ~(p = q.cached /\ ~ q.offline /\ ~ q.preferOffline)
               PROVE  Fitting(p, q.spec) = {}
    OBVIOUS
  <2>1. package # Failed
    BY DEF FetchPackage
  <2>2. first = NoVersion => Fitting(package, q.spec) = {}
    <3> HIDE DEF sources
    <3> QED BY <2>1, <1>4, <1>6
  <2>3. CASE second
    <3>1. Fitting(q.fetched, q.spec) = {}
      <4> HIDE DEF sources
      <4> QED BY <2>3, <1>1, <1>5, <1>6
    <3>2. package = q.cached
      BY <2>3 DEF FetchPackage
    <3> HIDE DEF package, v
    <3> QED BY <3>1, <3>2, <2>2, <2>3
  <2>4. CASE ~ second
    <3>1. first = NoVersion
      BY <2>4, <1>1
    <3>2. package = p
      <4> HIDE DEF first
      <4> QED BY <2>4, <3>1, <2>1 DEF FetchPackage
    <3> QED BY <3>1, <3>2, <2>2
  <2> QED BY <2>3, <2>4
<1> SUFFICES ASSUME TRUE
             PROVE  LET Fits(p) == {w \in p.versions : Satisfies(w, q.spec)} IN
             /\ v \notin {NoVersion, Failed} =>
                  \E p \in sources :
                    /\ v \in p.versions
                    /\ IsRange(q.spec.op) => v \in Fits(p)
                    /\ \/ v = p.latest \/ v \in q.preferred \/ q.spec.op = "*"
                       \/ \A w \in Fits(p) : Older(v, w) => w \in p.deprecated
                    /\ v \in p.deprecated =>
                         v = p.latest \/ v \in q.preferred \/ Fits(p) \subseteq p.deprecated
                         \/ q.spec.op = "*"
             /\ v = NoVersion =>
                  \A p \in sources :
                    Fits(p) = {} \/ (p = q.cached /\ ~ q.offline /\ ~ q.preferOffline)
             /\ q.offline => answer.mirror = q.cached
  BY DEF ResolvesBest
<1> HIDE DEF sources, v
<1>10. v \notin {NoVersion, Failed} =>
         \E p \in sources :
           /\ v \in p.versions
           /\ IsRange(q.spec.op) => v \in Fitting(p, q.spec)
           /\ \/ v = p.latest \/ v \in q.preferred \/ q.spec.op = "*"
              \/ \A w \in Fitting(p, q.spec) : Older(v, w) => w \in p.deprecated
           /\ v \in p.deprecated =>
                v = p.latest \/ v \in q.preferred \/ Fitting(p, q.spec) \subseteq p.deprecated
                \/ q.spec.op = "*"
  BY <1>6, <1>7
<1> QED BY <1>2, <1>8, <1>9, <1>10

(* An install takes the version that it should, from metadata that it may  *)
(* look at, whatever the registry and its mirror in the cache directory    *)
(* hold (resolve_package_version, fetch_package_with_metadata_cache).      *)
THEOREM ResolvesTheBest == DecisionSpec => []ResolvesBest
<1>1. AnswersInv => ResolvesBest
  <2>1. ~ Answered("resolve") => ResolvesBest
    BY DEF ResolvesBest
  <2>2. AnswersInv /\ Answered("resolve") =>
          Asked(query) /\ query.on = "resolve" /\ answer = Resolved(query)
    BY DEF AnswersInv, AnswerIs, Answered
  <2> QED BY <2>1, <2>2, ResolvedBest
<1> QED BY <1>1, AnswersHold, PTL
-----------------------------------------------------------------------------
(* What an install makes of a specifier without overrides. *)
InstalledAs(name, spec, workspace, linked, package) ==
  ResolveDirect(name, spec, NoDeps, workspace, linked, FALSE, package)

LEMMA DirectIs ==
  ASSUME NEW name, NEW spec, NEW workspace, NEW linked, NEW package,
         NEW R, R = InstalledAs(name, spec, workspace, linked, package),
         NEW target, target = WorkspaceForInstall(workspace, linked, name, spec),
         NEW v, v = ResolveFromMetadata(package, spec, {})
  PROVE  R = IF spec.proto \in {"link", "file"} THEN <<spec.proto, spec.to>>
             ELSE IF target = Failed THEN Failed
             ELSE IF target # NoName THEN <<"link", workspace[target].dir>>
             ELSE IF v \in {NoVersion, Failed} THEN Failed
             ELSE <<IF spec.proto = "npm" THEN "alias" ELSE "version", v>>
<1>1. name \notin DOMAIN NoDeps
  BY DEF NoDeps
<1> QED BY <1>1 DEF ResolveDirect, InstalledAs

(* None of these is an error. *)
LEMMA NoError ==
  /\ \A dir \in STRING : <<"link", dir>> # Failed /\ <<"file", dir>> # Failed
  /\ \A v \in Versions : <<"version", v>> # Failed /\ <<"alias", v>> # Failed
  /\ \A name \in STRING : name # Failed
BY FailedAssumption

LEMMA LinksResolve ==
  ASSUME NEW name, NEW spec, NEW workspace, NEW linked, NEW package,
         spec.proto \in {"link", "file"}, spec.to \in STRING
  PROVE  InstalledAs(name, spec, workspace, linked, package) # Failed
<1>1. InstalledAs(name, spec, workspace, linked, package) = <<spec.proto, spec.to>>
  BY DirectIs
<1> QED BY <1>1, NoError

LEMMA MembersResolve ==
  ASSUME NEW name \in STRING \ {NoName}, NEW spec, NEW workspace, NEW linked, NEW package,
         Members(workspace), name \in DOMAIN workspace,
         spec.proto = "workspace" \/ (spec.proto = "registry" /\ linked),
         spec.to = NoName, spec.op # "path",
         RangeIsSatisfied(workspace[name].version, spec)
  PROVE  InstalledAs(name, spec, workspace, linked, package) # Failed
<1>1. WorkspaceForInstall(workspace, linked, name, spec) = name
  BY DEF WorkspaceForInstall, ExpectedWorkspace, WorkspaceByPlainSpec, WorkspaceByPath,
         RequireWorkspace, WorkspaceTarget
<1>2. workspace[name].dir \in STRING /\ name # Failed
  BY NoError DEF Members
<1> DEFINE R == InstalledAs(name, spec, workspace, linked, package)
           target == WorkspaceForInstall(workspace, linked, name, spec)
           v == ResolveFromMetadata(package, spec, {})
<1>3. R = IF spec.proto \in {"link", "file"} THEN <<spec.proto, spec.to>>
          ELSE IF target = Failed THEN Failed
          ELSE IF target # NoName THEN <<"link", workspace[target].dir>>
          ELSE IF v \in {NoVersion, Failed} THEN Failed
          ELSE <<IF spec.proto = "npm" THEN "alias" ELSE "version", v>>
  BY DirectIs
<1>4. R = <<"link", workspace[name].dir>>
  <2> HIDE DEF R, v
  <2> QED BY <1>1, <1>2, <1>3
<1> HIDE DEF R
<1>5. R # Failed
  BY <1>2, <1>4, NoError
<1> QED BY <1>5 DEF R

LEMMA VersionsResolve ==
  ASSUME NEW name \in STRING, NEW spec, NEW workspace, NEW linked, NEW package,
         Members(workspace), Published(package), spec.proto = "registry",
         ResolveFromMetadata(package, spec, {}) \notin {NoVersion, Failed}
  PROVE  InstalledAs(name, spec, workspace, linked, package) # Failed
<1> DEFINE target == WorkspaceForInstall(workspace, linked, name, spec)
           v == ResolveFromMetadata(package, spec, {})
<1>1. target = NoName \/ (target = name /\ name \in DOMAIN workspace)
  BY DEF WorkspaceForInstall, ExpectedWorkspace, WorkspaceByPlainSpec
<1>2. target # Failed /\ (target # NoName => workspace[target].dir \in STRING)
  <2>1. NoName # Failed /\ name # Failed
    BY NoError, FailedAssumption
  <2> HIDE DEF target
  <2> QED BY <1>1, <2>1 DEF Members
<1>3. v \in Versions
  BY MetadataIs DEF Published
<1> DEFINE R == InstalledAs(name, spec, workspace, linked, package)
<1>4. R = IF spec.proto \in {"link", "file"} THEN <<spec.proto, spec.to>>
          ELSE IF target = Failed THEN Failed
          ELSE IF target # NoName THEN <<"link", workspace[target].dir>>
          ELSE IF v \in {NoVersion, Failed} THEN Failed
          ELSE <<IF spec.proto = "npm" THEN "alias" ELSE "version", v>>
  BY DirectIs
<1>5. v \notin {NoVersion, Failed}
  OBVIOUS
<1> HIDE DEF target, v, R
<1>6. \/ R = <<"link", workspace[target].dir>> /\ target # NoName
      \/ R = <<"version", v>>
  BY <1>2, <1>4, <1>5
<1>7. R # Failed
  BY <1>2, <1>3, <1>6, NoError
<1> QED BY <1>7 DEF R

(* What the registry is asked for, it has, and an install takes it. *)
LEMMA RegistryResolves ==
  ASSUME NEW package, NEW request, NEW exact, Published(package),
         request.proto = "registry" \/ request = NoSpec,
         FromRegistry(package, request, exact) # Failed
  PROVE  LET spec == FromRegistry(package, request, exact) IN
         /\ spec.proto = "registry"
         /\ ResolveFromMetadata(package, spec, {}) \notin {NoVersion, Failed}
<1> DEFINE latest == LatestIfAvailable(package)
           spec == FromRegistry(package, request, exact)
           v == ResolveFromMetadata(package, spec, {})
<1>1. /\ NoVersion \notin package.versions /\ Failed \notin package.versions /\ Failed # NoVersion
      /\ latest # NoVersion => latest = package.latest /\ latest \in package.versions
  BY FittingFinite, FailedAssumption DEF LatestIfAvailable
<1>2. CASE request.op = "none"
  <2>1. latest # NoVersion /\ spec = Plain(IF exact THEN "=" ELSE "^", latest)
    BY <1>2 DEF FromRegistry, Serialized
  <2>2. CASE exact
    <3>1. spec.op = "=" /\ spec.v = latest /\ spec.proto = "registry"
      BY <2>1, <2>2 DEF Plain, Specifier
    <3> HIDE DEF spec, latest
    <3> QED BY <3>1, <2>1, <1>1 DEF ResolveFromMetadata, spec
  <2>3. CASE ~ exact
    <3>1. spec.op = "^" /\ spec.v = latest /\ spec.proto = "registry"
      BY <2>1, <2>3 DEF Plain, Specifier
    <3>2. latest \in Versions /\ ~ Older(latest, latest)
      BY <2>1, <1>1, OlderOrder DEF Published
    <3>3. latest \in Fitting(package, spec)
      <4> HIDE DEF spec, latest
      <4> QED BY <3>1, <3>2, <2>1, <1>1 DEF Fitting, Satisfies
    <3>4. PinnedVersion(package, spec) = latest
      <4> HIDE DEF spec, latest
      <4> QED BY <3>1, <3>3, <2>1, <1>1, PinnedIs
    <3>5. v = PinnedVersion(package, spec)
      <4> HIDE DEF spec, latest
      <4> QED BY <3>1 DEF ResolveFromMetadata
    <3> HIDE DEF spec, latest, v
    <3> QED BY <3>1, <3>4, <3>5, <2>1, <1>1 DEF spec, v
  <2> QED BY <2>2, <2>3
<1>3. CASE request.op # "none"
  <2>1. request.proto = "registry"
    BY <1>3 DEF NoSpec, Specifier
  <2>2. /\ spec = request
        /\ request.op = "latest" => latest # NoVersion
        /\ request.op = "=" => request.v \in package.versions
        /\ request.op \notin {"latest", "="} => PinnedVersion(package, request) # NoVersion
    BY <1>3 DEF FromRegistry
  <2>3. request.op \notin {"latest", "="} =>
          /\ ResolveFromMetadata(package, request, {}) = PinnedVersion(package, request)
          /\ PinnedVersion(package, request) \in package.versions
    <3>1. ASSUME request.op \notin {"latest", "="}
          PROVE  ResolveFromMetadata(package, request, {}) = PinnedVersion(package, request)
      BY <3>1 DEF ResolveFromMetadata
    <3>2. PinnedVersion(package, request) # NoVersion =>
            PinnedVersion(package, request) \in package.versions
      BY PinnedIs DEF Fitting
    <3> QED BY <3>1, <3>2, <2>2
  <2>4. request.op = "latest" => ResolveFromMetadata(package, request, {}) = latest
    BY <2>2 DEF ResolveFromMetadata
  <2>5. request.op = "=" => ResolveFromMetadata(package, request, {}) = request.v
    BY <2>2 DEF ResolveFromMetadata
  <2> HIDE DEF spec, latest
  <2>6. ResolveFromMetadata(package, request, {}) \notin {NoVersion, Failed}
    BY <2>2, <2>3, <2>4, <2>5, <1>1
  <2> QED BY <2>1, <2>2, <2>6 DEF spec
<1> QED BY <1>2, <1>3

(* What add saves is one of these. *)
AddedKinds(q, spec) ==
  \/ q.config.save = "rolling" /\ q.request.proto = "workspace" /\ spec.proto = "workspace"
  \/ spec = q.existing
  \/ spec.proto \in {"npm", "git"}
  \/ spec.proto \in {"link", "file"} /\ spec.to \in STRING
  \/ /\ spec.proto = "workspace" \/ (spec.proto = "registry" /\ q.config.linkWorkspace)
     /\ q.name \in DOMAIN q.workspace
     /\ spec.to = NoName /\ spec.op # "path"
     /\ RangeIsSatisfied(q.workspace[q.name].version, spec)
  \/ /\ spec.proto = "registry"
     /\ ResolveFromMetadata(q.package, spec, {}) \notin {NoVersion, Failed}

LEMMA PrefixIs ==
  ASSUME NEW version \in Versions, NEW op
  PROVE  LET spec == WithPrefix(version, op) IN
         /\ spec.proto = "workspace" /\ spec.to = NoName /\ spec.op # "path"
         /\ RangeIsSatisfied(version, spec)
<1> DEFINE spec == WithPrefix(version, op)
<1>1. /\ spec.proto = "workspace" /\ spec.to = NoName /\ spec.op \in {"~", "^", "="}
      /\ spec.v = version
  BY DEF WithPrefix, Specifier
<1>2. ~ Older(version, version)
  BY OlderOrder
<1> HIDE DEF spec
<1>3. IsRange(spec.op) /\ Satisfies(version, spec)
  BY <1>1, <1>2 DEF IsRange, Satisfies
<1> QED BY <1>1, <1>3 DEF RangeIsSatisfied, spec

LEMMA AddedWorkspaceIs ==
  ASSUME NEW save, NEW version \in Versions, NEW request
  PROVE  LET spec == AddedWorkspaceSpec(save, version, request) IN
         /\ spec.proto = "workspace" /\ spec.to = NoName /\ spec.op # "path"
         /\ RangeIsSatisfied(version, spec)
<1>1. CASE save # "rolling"
  BY <1>1, PrefixIs DEF AddedWorkspaceSpec
<1>2. CASE save = "rolling"
  BY <1>2 DEF AddedWorkspaceSpec, Specifier, RangeIsSatisfied
<1> QED BY <1>1, <1>2

LEMMA SerializedIs ==
  ASSUME NEW version \in Versions, NEW exact
  PROVE  LET spec == Serialized(version, exact) IN
         /\ spec.proto = "registry" /\ spec.to = NoName /\ spec.op # "path"
         /\ RangeIsSatisfied(version, spec)
<1> DEFINE spec == Serialized(version, exact)
<1>1. /\ spec.proto = "registry" /\ spec.to = NoName /\ spec.op \in {"^", "="}
      /\ spec.v = version
  BY DEF Serialized, Plain, Specifier
<1>2. ~ Older(version, version)
  BY OlderOrder
<1> HIDE DEF spec
<1>3. IsRange(spec.op) /\ Satisfies(version, spec)
  BY <1>1, <1>2 DEF IsRange, Satisfies
<1> QED BY <1>1, <1>3 DEF RangeIsSatisfied, spec

LEMMA AddedIs ==
  ASSUME NEW q, AddAsked(q),
         NEW spec, spec # Failed,
         spec = AddedSpec(q.name, q.request, q.config, q.workspace, q.dirs, q.existing, q.package)
  PROVE  AddedKinds(q, spec)
<1> DEFINE mine == q.name \in DOMAIN q.workspace
           version == q.workspace[q.name].version
           path == LocalPathSpec(q.request, q.name, q.dirs)
<1>1. mine => version \in Versions
  BY DEF AddAsked, Members
<1>2. Published(q.package)
  BY DEF AddAsked
<1>3. CASE q.request.proto = "npm"
  <2>1. spec = AliasSpec(q.package, q.request, q.config.saveExact)
    BY <1>3 DEF AddedSpec
  <2>2. spec.proto = "npm"
    BY <2>1 DEF AliasSpec, Specifier
  <2> QED BY <2>2 DEF AddedKinds
<1>4. CASE q.request.proto = "git"
  BY <1>4 DEF AddedSpec, AddedKinds
<1>5. CASE q.request.proto \notin {"npm", "git"} /\ path # NoSpec
  <2>1. spec = path
    BY <1>5 DEF AddedSpec
  <2>2. spec.proto \in {"link", "file"} /\ spec.to \in STRING
    BY <2>1, <1>5 DEF LocalPathSpec, AddAsked, Specified, Link, Specifier
  <2> QED BY <2>2 DEF AddedKinds
<1>6. CASE q.request.proto = "workspace" /\ path = NoSpec
  <2>1. mine /\ spec = IF q.config.save = "rolling" THEN q.request
                       ELSE WithPrefix(version, q.request.op)
    BY <1>6 DEF AddedSpec
  <2> QED BY <2>1, <1>1, <1>6, PrefixIs DEF AddedKinds
<1>7. CASE q.request.proto \notin {"npm", "git", "workspace"} /\ path = NoSpec
  <2>1. q.request.proto \notin {"link", "file"}
    BY <1>7 DEF AddedSpec
  <2>2. q.request = NoSpec \/ q.request.proto = "registry"
    BY <2>1, <1>7 DEF AddAsked, Specified
  <2>3. \/ mine /\ spec = AddedWorkspaceSpec(q.config.save, version, q.request)
        \/ mine /\ q.config.linkWorkspace /\ spec = Serialized(version, q.config.saveExact)
        \/ spec = q.existing
        \/ spec = FromRegistry(q.package, q.request, q.config.saveExact)
    BY <2>1, <1>7 DEF AddedSpec
  <2>4. CASE mine /\ spec = AddedWorkspaceSpec(q.config.save, version, q.request)
    BY <2>4, <1>1, AddedWorkspaceIs DEF AddedKinds
  <2>5. CASE mine /\ q.config.linkWorkspace /\ spec = Serialized(version, q.config.saveExact)
    BY <2>5, <1>1, SerializedIs DEF AddedKinds
  <2>6. CASE spec = q.existing
    BY <2>6 DEF AddedKinds
  <2>7. CASE spec = FromRegistry(q.package, q.request, q.config.saveExact)
    BY <2>7, <2>2, <1>2, RegistryResolves DEF AddedKinds
  <2> QED BY <2>3, <2>4, <2>5, <2>6, <2>7
<1> QED BY <1>3, <1>4, <1>5, <1>6, <1>7

LEMMA AddedResolved ==
  ASSUME Asked(query), query.on = "add", answer = Added(query)
  PROVE  AddedResolves
<1> DEFINE q == query
           spec == AddedSpec(q.name, q.request, q.config, q.workspace, q.dirs, q.existing,
                            q.package)
           R == InstalledAs(q.name, spec, q.workspace, q.config.linkWorkspace, q.package)
           target == WorkspaceForInstall(q.workspace, q.config.linkWorkspace, q.name, spec)
<1> SUFFICES ASSUME answer.value # Failed
             PROVE  /\ answer.installed = Failed =>
                         \/ q.config.save = "rolling" /\ q.request.proto = "workspace"
                         \/ answer.value = q.existing
                         \/ answer.value.proto = "npm"
                         \/ answer.value.proto = "git"
                    /\ answer.value.proto = "workspace" /\ answer.installed # Failed =>
                         answer.installed[1] = "link"
                    /\ answer.value.proto = "registry" /\ answer.installed # Failed =>
                         \/ q.name \in DOMAIN q.workspace
                         \/ answer.installed[2] \in q.package.versions
  BY DEF AddedResolves
<1>1. AddAsked(q)
  BY DEF Asked
<1>2. answer.value = spec /\ spec # Failed /\ answer.installed = R
  BY DEF Added, InstalledAs
<1>3. AddedKinds(q, spec)
  BY <1>1, <1>2, AddedIs
<1> HIDE DEF spec
<1>4. R = IF spec.proto \in {"link", "file"} THEN <<spec.proto, spec.to>>
          ELSE IF target = Failed THEN Failed
          ELSE IF target # NoName THEN <<"link", q.workspace[target].dir>>
          ELSE IF ResolveFromMetadata(q.package, spec, {}) \in {NoVersion, Failed} THEN Failed
          ELSE <<IF spec.proto = "npm" THEN "alias" ELSE "version",
                 ResolveFromMetadata(q.package, spec, {})>>
  BY DirectIs
<1>5. R = Failed =>
        \/ q.config.save = "rolling" /\ q.request.proto = "workspace"
        \/ spec = q.existing
        \/ spec.proto \in {"npm", "git"}
  <2> SUFFICES ASSUME ~(\/ q.config.save = "rolling" /\ q.request.proto = "workspace"
                        \/ spec = q.existing
                        \/ spec.proto \in {"npm", "git"})
               PROVE  R # Failed
    OBVIOUS
  <2>1. CASE spec.proto \in {"link", "file"} /\ spec.to \in STRING
    BY <2>1, LinksResolve
  <2>2. CASE /\ spec.proto = "workspace" \/ (spec.proto = "registry" /\ q.config.linkWorkspace)
             /\ q.name \in DOMAIN q.workspace
             /\ spec.to = NoName /\ spec.op # "path"
             /\ RangeIsSatisfied(q.workspace[q.name].version, spec)
    BY <2>2, <1>1, MembersResolve DEF AddAsked
  <2>3. CASE /\ spec.proto = "registry"
             /\ ResolveFromMetadata(q.package, spec, {}) \notin {NoVersion, Failed}
    BY <2>3, <1>1, VersionsResolve DEF AddAsked
  <2> QED BY <2>1, <2>2, <2>3, <1>3 DEF AddedKinds
<1>6. spec.proto = "workspace" /\ R # Failed => R[1] = "link"
  <2> SUFFICES ASSUME spec.proto = "workspace", R # Failed
               PROVE  R[1] = "link"
    OBVIOUS
  <2>1. target # NoName
    BY FailedAssumption, <1>4 DEF WorkspaceForInstall, NoName
  <2> HIDE DEF R, target
  <2> QED BY <2>1, <1>4
<1>7. spec.proto = "registry" /\ R # Failed =>
        q.name \in DOMAIN q.workspace \/ R[2] \in q.package.versions
  <2> SUFFICES ASSUME spec.proto = "registry", R # Failed, q.name \notin DOMAIN q.workspace
               PROVE  R[2] \in q.package.versions
    OBVIOUS
  <2>1. target = NoName
    BY DEF WorkspaceForInstall, ExpectedWorkspace, WorkspaceByPlainSpec
  <2>2. R = <<"version", ResolveFromMetadata(q.package, spec, {})>>
        /\ ResolveFromMetadata(q.package, spec, {}) \notin {NoVersion, Failed}
    <3> HIDE DEF R, target
    <3> QED BY <2>1, <1>4
  <2>3. ResolveFromMetadata(q.package, spec, {}) \in q.package.versions
    BY <2>2, <1>1, MetadataIs DEF AddAsked
  <2> HIDE DEF R
  <2> QED BY <2>2, <2>3
<1> HIDE DEF R
<1> QED BY <1>2, <1>5, <1>6, <1>7
-----------------------------------------------------------------------------
(* Updates. *)
Caret(op) == op \in {"^", "~"}

LEMMA SpecifierIs ==
  ASSUME NEW proto, NEW op, NEW v, NEW to
  PROVE  /\ Specifier(proto, op, v, to).proto = proto /\ Specifier(proto, op, v, to).op = op
         /\ Specifier(proto, op, v, to).v = v /\ Specifier(proto, op, v, to).to = to
BY DEF Specifier

LEMMA PlainIs ==
  ASSUME NEW op, NEW v
  PROVE  /\ Plain(op, v).proto = "registry" /\ Plain(op, v).op = op /\ Plain(op, v).v = v
         /\ Plain(op, v).to = NoName
BY DEF Plain, Specifier

(* The version that a range with ^ or ~ stands for is the one that the     *)
(* range from there on stands for; and so is latest when there is none.    *)
LEMMA CaretPins ==
  ASSUME NEW package, NEW spec, NEW p, Published(package), Caret(spec.op),
         spec.v \in Versions,
         \/ p = PinnedVersion(package, spec) /\ p # NoVersion
         \/ p = LatestIfAvailable(package) /\ p # NoVersion
  PROVE  PinnedVersion(package, Plain(spec.op, p)) = p
<1> DEFINE new == Plain(spec.op, p)
           F == Fitting(package, spec)
           G == Fitting(package, new)
<1>1. spec.op \in {"^", "~"} /\ new.op = spec.op /\ new.v = p
  BY PlainIs DEF Caret
<1>2. NoVersion \notin package.versions
  BY FittingFinite
<1>3. p \in package.versions /\ p \in Versions
  <2>1. p \in package.versions
    BY <1>2, PinnedIs DEF LatestIfAvailable, Fitting
  <2> QED BY <2>1 DEF Published
<1>4. p \in G
  <2>1. ~ Older(p, p)
    BY <1>3, OlderOrder
  <2> HIDE DEF new
  <2> QED BY <2>1, <1>1, <1>3 DEF Fitting, Satisfies
<1>5. CASE p = package.latest
  <2> HIDE DEF new
  <2> QED BY <1>1, <1>4, <1>5, PinnedIs DEF new
<1>6. CASE p # package.latest
  <2>1. p = PinnedVersion(package, spec) /\ p \in F
    BY <1>6, <1>2, PinnedIs DEF LatestIfAvailable
  <2>2. package.latest \notin F
    BY <2>1, <1>1, <1>6, PinnedIs
  <2>3. p = Newest(IF F \ package.deprecated # {} THEN F \ package.deprecated ELSE F)
    BY <2>1, <2>2, <1>1, PinnedIs
  <2>4. \A w \in G : w \in F /\ ~ Older(w, p)
    <3> SUFFICES ASSUME NEW w \in G PROVE w \in F /\ ~ Older(w, p)
      OBVIOUS
    <3>1. w \in package.versions /\ w \in Versions
      BY DEF Fitting, Published
    <3>2. ~ Older(p, spec.v)
      BY <2>1, <1>1 DEF Fitting, Satisfies
    <3>3. ~ Older(w, p) /\ w[1] = p[1] /\ (spec.op = "~" => w[2] = p[2])
      <4>1. Satisfies(w, new)
        BY DEF Fitting
      <4> HIDE DEF new
      <4> QED BY <4>1, <1>1 DEF Satisfies
    <3>4. p[1] = spec.v[1] /\ (spec.op = "~" => p[2] = spec.v[2])
      BY <2>1, <1>1 DEF Fitting, Satisfies
    <3>5. ~ Older(w, spec.v)
      BY <3>1, <3>2, <3>3, <1>3, OlderOrder
    <3>6. Satisfies(w, spec)
      BY <3>3, <3>4, <3>5, <1>1 DEF Satisfies
    <3> QED BY <3>1, <3>3, <3>6 DEF Fitting
  <2>5. package.latest \notin G
    BY <2>2, <2>4
  <2>6. PinnedVersion(package, new)
          = Newest(IF G \ package.deprecated # {} THEN G \ package.deprecated ELSE G)
    <3> HIDE DEF new
    <3> QED BY <2>5, <1>1, <1>4, PinnedIs
  <2>7. \A S \in SUBSET F, T \in SUBSET G :
          S # {} /\ T # {} /\ p = Newest(S) /\ p \in T /\ T \subseteq S => Newest(T) = p
    <3> SUFFICES ASSUME NEW S \in SUBSET F, NEW T \in SUBSET G, S # {}, T # {},
                        p = Newest(S), p \in T, T \subseteq S
                 PROVE  Newest(T) = p
      OBVIOUS
    <3>1. /\ \A w \in S : ~ Older(p, w)
          /\ Newest(T) \in T /\ \A w \in T : ~ Older(Newest(T), w)
      BY FittingFinite, NewestIs
    <3>2. ~ Older(p, Newest(T)) /\ ~ Older(Newest(T), p) /\ Newest(T) \in Versions
      BY <3>1, FittingFinite
    <3> QED BY <3>2, <1>3, OlderOrder
  <2>8. G \subseteq F
    BY <2>4
  <2>9. CASE F \ package.deprecated # {}
    <3>1. p \in F \ package.deprecated
      BY <2>3, <2>9, FittingFinite, NewestIs
    <3>2. p = Newest(F \ package.deprecated)
      BY <2>3, <2>9
    <3>3. PinnedVersion(package, new) = Newest(G \ package.deprecated)
      BY <2>6, <3>1, <1>4
    <3> HIDE DEF F, G, new
    <3> QED BY <3>1, <3>2, <3>3, <2>7, <2>8, <1>4 DEF new
  <2>10. CASE F \ package.deprecated = {}
    <3>1. p = Newest(F)
      BY <2>3, <2>10
    <3>2. PinnedVersion(package, new) = Newest(G)
      BY <2>6, <2>8, <2>10
    <3> HIDE DEF F, G, new
    <3> QED BY <3>1, <3>2, <2>1, <2>7, <2>8, <1>4 DEF new
  <2> QED BY <2>9, <2>10
<1> QED BY <1>5, <1>6

LEMMA ExactPins ==
  ASSUME NEW package, NEW p, Published(package), p \in package.versions
  PROVE  PinnedVersion(package, Plain("=", p)) = p
<1> DEFINE new == Plain("=", p)
           G == Fitting(package, new)
<1>1. new.op = "=" /\ new.v = p
  BY PlainIs
<1> HIDE DEF new
<1>2. G = {p}
  BY <1>1 DEF Fitting, Satisfies
<1>3. PinnedVersion(package, new) # NoVersion
  BY <1>2, PinnedIs
<1>4. PinnedVersion(package, new) \in G
  BY <1>3, PinnedIs
<1> QED BY <1>2, <1>4 DEF new

LEMMA UpdatedIs ==
  ASSUME NEW q, NEW spec, q.explicit = NoSpec,
         NEW R, R = Once(q, spec),
         NEW pinned, pinned = PinnedVersion(q.package, spec),
         NEW newest, newest = LatestIfAvailable(q.package)
  PROVE  LET selected == IF q.latest \/ pinned = NoVersion \/ spec.proto = "catalog"
                         THEN newest ELSE pinned
         IN  R = IF spec.proto = "workspace" /\ q.name \in DOMAIN q.workspace
                 THEN UpdatedWorkspaceSpec(spec, q.config.save)
                 ELSE IF SkippedByUpdate(spec) THEN spec
                 ELSE IF selected = NoVersion THEN Failed
                 ELSE UpdatedRange(spec, selected, q.latest, q.config.saveExact)
BY DEF Once, UpdatedSpec

(* An update has nothing left to do afterwards. *)
LEMMA UpdatedOnce ==
  ASSUME NEW q, UpdateAsked(q), q.explicit = NoSpec,
         NEW new, new = Once(q, q.spec), new # Failed
  PROVE  /\ Once(q, new) = new
         /\ q.spec.proto # "registry" /\ ~ q.latest => new.proto = q.spec.proto
         /\ q.spec.proto = "registry" /\ ~ q.latest
              /\ PinnedVersion(q.package, q.spec) # NoVersion =>
              /\ PinnedVersion(q.package, new) = PinnedVersion(q.package, q.spec)
              /\ \/ Caret(q.spec.op) /\ new = Plain(q.spec.op, PinnedVersion(q.package, q.spec))
                 \/ /\ q.spec.op \in {"=", "x", "m.x"}
                    /\ new = Plain("=", PinnedVersion(q.package, q.spec))
                 \/ new = q.spec
<1> DEFINE spec == q.spec
           pinned == PinnedVersion(q.package, spec)
           newest == LatestIfAvailable(q.package)
           selected == IF q.latest \/ pinned = NoVersion \/ spec.proto = "catalog"
                       THEN newest ELSE pinned
<1>1. new = IF spec.proto = "workspace" /\ q.name \in DOMAIN q.workspace
            THEN UpdatedWorkspaceSpec(spec, q.config.save)
            ELSE IF SkippedByUpdate(spec) THEN spec
            ELSE IF selected = NoVersion THEN Failed
            ELSE UpdatedRange(spec, selected, q.latest, q.config.saveExact)
  BY UpdatedIs
<1>2. CASE spec.proto = "workspace" /\ q.name \in DOMAIN q.workspace
  <2>1. new = UpdatedWorkspaceSpec(spec, q.config.save)
    BY <1>1, <1>2
  <2>2. new.proto = "workspace" /\ UpdatedWorkspaceSpec(new, q.config.save) = new
    <3>1. CASE q.config.save = "rolling"
      <4> DEFINE op == IF spec.op \in {"*", "bare ^", "bare ~"} THEN spec.op
                       ELSE IF spec.op \in {"^", "x"} THEN "bare ^"
                       ELSE IF spec.op \in {"~", "m.x"} THEN "bare ~" ELSE "*"
      <4>1. new = Specifier("workspace", op, NoVersion, NoName)
        BY <2>1, <3>1 DEF UpdatedWorkspaceSpec
      <4>2. op \in {"*", "bare ^", "bare ~"}
        OBVIOUS
      <4> HIDE DEF op
      <4>3. new.op = op /\ new.proto = "workspace"
        BY <4>1, SpecifierIs
      <4> QED BY <4>1, <4>2, <4>3, <3>1 DEF UpdatedWorkspaceSpec
    <3>2. CASE q.config.save # "rolling"
      BY <2>1, <3>2, <1>2 DEF UpdatedWorkspaceSpec
    <3> QED BY <3>1, <3>2
  <2>3. Once(q, new) = UpdatedWorkspaceSpec(new, q.config.save)
    BY <2>2, <1>2 DEF Once, UpdatedSpec
  <2> QED BY <2>2, <2>3, <1>2
<1>3. CASE ~(spec.proto = "workspace" /\ q.name \in DOMAIN q.workspace) /\ SkippedByUpdate(spec)
  <2>1. new = spec
    BY <1>1, <1>3
  <2>2. spec.proto # "registry"
    BY <1>3 DEF SkippedByUpdate
  <2> QED BY <2>1, <2>2
<1>4. CASE ~ SkippedByUpdate(spec)
  <2>1. spec.proto \in {"registry", "none", "catalog"}
    BY <1>4 DEF UpdateAsked, Specified, SkippedByUpdate
  <2>2. selected # NoVersion /\ new = UpdatedRange(spec, selected, q.latest, q.config.saveExact)
    BY <1>1, <1>4, <2>1
  <2>3. /\ NoVersion \notin q.package.versions /\ Published(q.package)
        /\ newest # NoVersion => newest \in q.package.versions
        /\ pinned # NoVersion => pinned \in q.package.versions
    BY FittingFinite, PinnedIs DEF UpdateAsked, LatestIfAvailable, Fitting
  <2>4. selected \in q.package.versions
    BY <2>2, <2>3
  <2>5. spec.op \in {"^", "~", "latest", "=", "x", "m.x"} => spec.proto = "registry"
    BY <2>1 DEF UpdateAsked, Specified
  <2>6. ASSUME NEW s, s.proto = "registry", PinnedVersion(q.package, s) = selected \/ q.latest
        PROVE  Once(q, s) = UpdatedRange(s, selected, q.latest, q.config.saveExact)
    <3>1. ~ SkippedByUpdate(s) /\ s.proto # "workspace" /\ s.proto # "catalog"
      BY <2>6 DEF SkippedByUpdate
    <3>2. (IF q.latest \/ PinnedVersion(q.package, s) = NoVersion THEN newest
           ELSE PinnedVersion(q.package, s)) = selected
      <4>1. CASE q.latest
        BY <4>1
      <4>2. CASE ~ q.latest
        BY <4>2, <2>2, <2>6
      <4> QED BY <4>1, <4>2
    <3>3. Once(q, s) = IF selected = NoVersion THEN Failed
                       ELSE UpdatedRange(s, selected, q.latest, q.config.saveExact)
      BY <3>1, <3>2 DEF Once, UpdatedSpec
    <3> HIDE DEF selected
    <3> QED BY <3>3, <2>2
  <2>7. CASE Caret(spec.op)
    <3>1. new = Plain(spec.op, selected)
      BY <2>2, <2>7 DEF UpdatedRange, Caret
    <3>2. spec.v \in Versions
      BY <2>7 DEF UpdateAsked, Specified, Caret
    <3>3. spec.proto = "registry"
      BY <2>5, <2>7 DEF Caret
    <3>4. PinnedVersion(q.package, new) = selected
      BY <3>1, <3>2, <3>3, <2>2, <2>3, <2>7, CaretPins
    <3>5. new.proto = "registry" /\ new.op = spec.op
      BY <3>1, PlainIs
    <3>6. Once(q, new) = UpdatedRange(new, selected, q.latest, q.config.saveExact)
      BY <3>4, <3>5, <2>6
    <3>7. Once(q, new) = new
      <4> HIDE DEF selected
      <4> QED BY <3>1, <3>5, <3>6, <2>7 DEF UpdatedRange, Caret
    <3>8. ~ q.latest /\ pinned # NoVersion => selected = pinned
      BY <3>3
    <3> HIDE DEF selected
    <3> QED BY <3>1, <3>3, <3>4, <3>7, <3>8, <2>7
  <2>8. CASE ~ Caret(spec.op) /\ q.latest
    <3>1. new = Serialized(selected, q.config.saveExact)
      BY <2>2, <2>8 DEF UpdatedRange, Caret
    <3>2. new.proto = "registry" /\ new.op = (IF q.config.saveExact THEN "=" ELSE "^")
      BY <3>1, PlainIs DEF Serialized
    <3>3. Once(q, new) = UpdatedRange(new, selected, q.latest, q.config.saveExact)
      BY <3>2, <2>6, <2>8
    <3>4. Once(q, new) = new
      <4> HIDE DEF selected
      <4> QED BY <3>1, <3>2, <3>3, <2>8 DEF UpdatedRange, Serialized
    <3> QED BY <3>4, <2>8
  <2>9. CASE spec.op \in {"latest", "=", "x", "m.x"} /\ ~ q.latest
    <3>1. new = Plain("=", selected)
      BY <2>2, <2>9 DEF UpdatedRange
    <3>2. new.proto = "registry" /\ new.op = "="
      BY <3>1, PlainIs
    <3>3. PinnedVersion(q.package, new) = selected
      BY <3>1, <2>3, <2>4, ExactPins
    <3>4. Once(q, new) = UpdatedRange(new, selected, q.latest, q.config.saveExact)
      BY <3>2, <3>3, <2>6
    <3>5. Once(q, new) = new
      <4> HIDE DEF selected
      <4> QED BY <3>1, <3>2, <3>4, <2>9 DEF UpdatedRange
    <3>6. spec.proto = "registry"
      BY <2>5, <2>9
    <3>7. pinned # NoVersion => selected = pinned /\ spec.op # "latest"
      BY <3>6, <2>9, PinnedIs, <2>3 DEF IsRange
    <3> HIDE DEF selected
    <3> QED BY <3>1, <3>3, <3>5, <3>6, <3>7, <2>9
  <2>10. CASE spec.op \notin {"^", "~", "latest", "=", "x", "m.x"} /\ ~ q.latest
    <3>1. new = spec
      BY <2>2, <2>10 DEF UpdatedRange
    <3> QED BY <3>1
  <2> QED BY <2>7, <2>8, <2>9, <2>10 DEF Caret
<1> QED BY <1>2, <1>3, <1>4

LEMMA UpdatedKeeps ==
  ASSUME Asked(query), query.on = "update", answer = Updated(query)
  PROVE  UpdateKeepsRange
<1> DEFINE q == query
           old == PinnedVersion(q.package, q.spec)
           new == Once(q, q.spec)
<1> SUFFICES ASSUME answer.value # Failed, q.explicit = NoSpec
             PROVE  /\ answer.again = answer.value
                    /\ q.spec.proto # "registry" /\ ~ q.latest => answer.value.proto = q.spec.proto
                    /\ q.spec.proto = "registry" /\ ~ q.latest /\ old # NoVersion =>
                         /\ PinnedVersion(q.package, answer.value) = old
                         /\ q.spec.op \notin {"x", "m.x"} =>
                              \A w \in Later :
                                Older(old, w) =>
                                  (Satisfies(w, answer.value) <=> Satisfies(w, q.spec))
  BY DEF UpdateKeepsRange
<1>1. UpdateAsked(q)
  BY DEF Asked
<1>2. answer.value = new /\ answer.again = Once(q, new) /\ new # Failed
  BY DEF Updated
<1>3. /\ Once(q, new) = new
      /\ q.spec.proto # "registry" /\ ~ q.latest => new.proto = q.spec.proto
      /\ q.spec.proto = "registry" /\ ~ q.latest /\ old # NoVersion =>
           /\ PinnedVersion(q.package, new) = old
           /\ \/ Caret(q.spec.op) /\ new = Plain(q.spec.op, old)
              \/ q.spec.op \in {"=", "x", "m.x"} /\ new = Plain("=", old)
              \/ new = q.spec
  BY <1>1, <1>2, UpdatedOnce
<1>4. ASSUME q.spec.proto = "registry", ~ q.latest, old # NoVersion,
             q.spec.op \notin {"x", "m.x"}, NEW w \in Later, Older(old, w)
      PROVE  Satisfies(w, new) <=> Satisfies(w, q.spec)
  <2>1. old \in Fitting(q.package, q.spec) /\ old \in Versions /\ Satisfies(old, q.spec)
    BY <1>1, <1>4, PinnedIs DEF UpdateAsked, Fitting, Published
  <2>2. w \in Versions
    BY LaterAssumption
  <2>3. CASE Caret(q.spec.op) /\ new = Plain(q.spec.op, old)
    <3>1. q.spec.v \in Versions
      BY <2>3, <1>1 DEF UpdateAsked, Specified, Caret
    <3>2. new.op = q.spec.op /\ new.v = old
      BY <2>3, PlainIs
    <3>3. ~ Older(w, old) /\ (~ Older(old, q.spec.v) => ~ Older(w, q.spec.v))
      BY <1>4, <2>1, <2>2, <3>1, OlderOrder
    <3> HIDE DEF new, old
    <3> QED BY <2>1, <2>3, <3>2, <3>3 DEF Satisfies, Caret
  <2>4. CASE q.spec.op = "=" /\ new = Plain("=", old)
    <3>1. new.op = "=" /\ new.v = old
      BY <2>4, PlainIs
    <3>2. old = q.spec.v
      BY <2>1, <2>4 DEF Satisfies
    <3> HIDE DEF new, old
    <3> QED BY <2>4, <3>1, <3>2 DEF Satisfies
  <2> HIDE DEF new, old
  <2> QED BY <2>3, <2>4, <1>3, <1>4
<1> HIDE DEF new, old
<1> QED BY <1>2, <1>3, <1>4

(* The specifier that add or update writes resolves to what was asked for, *)
(* for any workspace, metadata and range; and what may be published later  *)
(* does not depend on whether an update was there                          *)
(* (resolve_package_spec, resolve_updated_spec).                           *)
THEOREM WrittenSpecsDoResolve == DecisionSpec => []WrittenSpecsResolve
<1>1. AnswersInv => WrittenSpecsResolve
  <2>1. ~ Answered("add") => AddedResolves
    BY DEF AddedResolves
  <2>2. ~ Answered("update") => UpdateKeepsRange
    BY DEF UpdateKeepsRange
  <2>3. AnswersInv /\ Answered("add") => Asked(query) /\ query.on = "add" /\ answer = Added(query)
    BY DEF AnswersInv, AnswerIs, Answered
  <2>4. AnswersInv /\ Answered("update") =>
          Asked(query) /\ query.on = "update" /\ answer = Updated(query)
    BY DEF AnswersInv, AnswerIs, Answered
  <2> QED BY <2>1, <2>2, <2>3, <2>4, AddedResolved, UpdatedKeeps DEF WrittenSpecsResolve
<1> QED BY <1>1, AnswersHold, PTL
-----------------------------------------------------------------------------
(* The lockfile that an install saves, and what it takes for up to date.   *)

(* What an install makes of a specifier that no override changes.          *)
LEMMA MadeIs ==
  ASSUME NEW name, NEW spec, NEW overrides, NEW workspace, NEW linkWorkspace,
         NEW injected, NEW package, Published(package),
         name \in DOMAIN overrides => overrides[name] = spec,
         NEW R, R = ResolveDirect(name, spec, overrides, workspace, linkWorkspace,
                                  injected, package), R # Failed
  PROVE  /\ spec.proto = "link" => R[1] = "link"
         /\ spec.proto \notin {"link", "workspace"} /\ ~ linkWorkspace => R[1] # "link"
         /\ R[1] = "version" /\ IsRange(spec.op) => Satisfies(R[2], spec)
         /\ LET target == ExpectedWorkspace(workspace, linkWorkspace, name, spec) IN
            target # NoName /\ ~ injected => R = <<"link", workspace[target].dir>>
<1> DEFINE target == WorkspaceForInstall(workspace, linkWorkspace, name, spec)
           expected == ExpectedWorkspace(workspace, linkWorkspace, name, spec)
           v == ResolveFromMetadata(package, spec, {})
<1>1. R = IF spec.proto \in {"link", "file"} THEN <<spec.proto, spec.to>>
          ELSE IF target = Failed THEN Failed
          ELSE IF target # NoName
          THEN <<IF spec.proto = "workspace" /\ injected THEN "file" ELSE "link",
                 workspace[target].dir>>
          ELSE IF v \in {NoVersion, Failed} THEN Failed
          ELSE <<IF spec.proto = "npm" THEN "alias" ELSE "version", v>>
  BY DEF ResolveDirect
<1>2. v \notin {NoVersion, Failed} /\ IsRange(spec.op) => Satisfies(v, spec)
  <2>1. v \notin {NoVersion, Failed} /\ IsRange(spec.op) => v \in Fitting(package, spec)
    BY MetadataIs
  <2> QED BY <2>1 DEF Fitting
<1>3. expected # NoName => target = expected /\ spec.proto \notin {"link", "file"}
  <2>1. CASE spec.proto = "workspace"
    <3>1. expected = RequireWorkspace(workspace, name, spec)
      BY <2>1 DEF ExpectedWorkspace
    <3>2. spec.op = "path" => expected = NoName
      <4>1. spec.op = "path" => \A w : ~ RangeIsSatisfied(w, spec)
        BY DEF RangeIsSatisfied, IsRange
      <4> QED BY <3>1, <4>1 DEF RequireWorkspace
    <3>3. spec.op # "path" => WorkspaceByPath(workspace, spec) = NoName
      BY DEF WorkspaceByPath
    <3>4. target = IF WorkspaceByPath(workspace, spec) # NoName
                   THEN WorkspaceByPath(workspace, spec)
                   ELSE IF expected # NoName THEN expected ELSE Failed
      BY <2>1, <3>1 DEF WorkspaceForInstall
    <3> HIDE DEF target, expected
    <3> QED BY <2>1, <3>2, <3>3, <3>4
  <2>2. CASE spec.proto # "workspace"
    <3>1. target = expected
      BY <2>2 DEF WorkspaceForInstall
    <3>2. expected # NoName => spec.proto \in {"registry", "npm"}
      BY <2>2 DEF ExpectedWorkspace, WorkspaceByPlainSpec
    <3> HIDE DEF target, expected
    <3> QED BY <3>1, <3>2
  <2> QED BY <2>1, <2>2
<1>4. spec.proto # "workspace" /\ ~ linkWorkspace => target = NoName
  BY DEF WorkspaceForInstall, ExpectedWorkspace
<1>5. expected # NoName /\ ~ injected => R = <<"link", workspace[expected].dir>>
  <2> HIDE DEF target, expected, v
  <2> QED BY <1>1, <1>3
<1>6. /\ spec.proto = "link" => R[1] = "link"
      /\ spec.proto \notin {"link", "workspace"} /\ ~ linkWorkspace => R[1] # "link"
      /\ R[1] = "version" /\ IsRange(spec.op) => Satisfies(R[2], spec)
  <2> HIDE DEF target, expected, v
  <2>1. CASE spec.proto \in {"link", "file"}
    <3>1. R = <<spec.proto, spec.to>>
      BY <2>1, <1>1
    <3> QED BY <2>1, <3>1
  <2>2. CASE spec.proto \notin {"link", "file"} /\ target # NoName
    <3>1. R[1] \in {"file", "link"} /\ (~ (spec.proto = "workspace") => R[1] = "link")
      BY <2>2, <1>1
    <3> QED BY <2>2, <3>1, <1>4
  <2>3. CASE spec.proto \notin {"link", "file"} /\ target = NoName
    <3>1. R = <<IF spec.proto = "npm" THEN "alias" ELSE "version", v>>
          /\ v \notin {NoVersion, Failed}
      BY <2>3, <1>1, FailedAssumption
    <3> QED BY <2>3, <3>1, <1>2
  <2> QED BY <2>1, <2>2, <2>3
<1> QED BY <1>5, <1>6

(* The dependencies of a group that the entry of the importer lists. *)
Kept(q, g) == {n \in DOMAIN q.manifest[g] :
                 q.config.excludeLinks => q.manifest[g][n].proto # "link"}

Made(q, g, n) == ResolveDirect(n, q.manifest[g][n], q.config.overrides, q.workspace,
                               q.config.linkWorkspace, q.injected \/ q.config.inject,
                               q.packages[n])

(* An install that is asked for and comes out whole. *)
Whole(q) == InstallAsked(q) /\ Ordinary(q) /\ ResolvedAll(q) # Failed

LEMMA ResolvedIs ==
  ASSUME NEW q, Whole(q), NEW g \in Groups, NEW n \in DOMAIN q.manifest[g]
  PROVE  /\ <<n, q.manifest[g][n]>> \in DOMAIN ResolvedAll(q)
         /\ ResolvedAll(q)[<<n, q.manifest[g][n]>>] = Made(q, g, n)
         /\ Made(q, g, n) # Failed
<1> DEFINE spec == q.manifest[g][n]
           D == Direct(q)
           all == [d \in D |-> ResolveDirect(d[1], d[2], q.config.overrides, q.workspace,
                                             q.config.linkWorkspace,
                                             q.injected \/ q.config.inject, q.packages[d[1]])]
           R == ResolvedAll(q)
<1>1. spec.proto # "catalog" /\ Hooked(q) = q.manifest
  BY DEF Whole, Ordinary
<1>2. <<n, spec>> \in D
  <2>1. PinnedCatalog(NoDeps, q.config.catalogs, n, spec) = spec
    BY <1>1 DEF PinnedCatalog
  <2>2. <<n, spec>> \in {<<k, PinnedCatalog(NoDeps, q.config.catalogs, k, q.manifest[g][k])>> :
                           k \in DOMAIN q.manifest[g]}
    BY <2>1
  <2> QED BY <2>2, <1>1 DEF Direct, UniqueDirect
<1>3. R = IF \E d \in D : all[d] = Failed THEN Failed ELSE all
  BY DEF ResolvedAll, ResolveAll
<1>4. R = all /\ all[<<n, spec>>] # Failed
  <2> HIDE DEF D, all, R
  <2> QED BY <1>2, <1>3 DEF Whole, R
<1>5. all[<<n, spec>>] = Made(q, g, n)
  BY <1>2 DEF Made
<1>6. DOMAIN all = D
  OBVIOUS
<1> HIDE DEF D, all, R
<1> QED BY <1>2, <1>4, <1>5, <1>6 DEF R

(* The entry lists what is kept, each with what was made of it. *)
LEMMA EntryIs ==
  ASSUME NEW q, Whole(q)
  PROVE  /\ \A g \in Groups : Entry(q)[g] = [n \in Kept(q, g) |-> Made(q, g, n)]
         /\ Entry(q).specifiers = [n \in DOMAIN Entry(q).specifiers |-> Entry(q).specifiers[n]]
         /\ DOMAIN Entry(q).specifiers = UNION {Kept(q, g) : g \in Groups}
         /\ \A g \in Groups : \A n \in Kept(q, g) : Entry(q).specifiers[n] = q.manifest[g][n]
         /\ Entry(q).meta = q.manifest.meta /\ Entry(q).publishDir = q.manifest.publishDir
<1> DEFINE m == q.manifest
           R == ResolvedAll(q)
           excl == q.config.excludeLinks
           Listed(g) == {n \in DOMAIN m[g] : /\ g \in Groups
                                             /\ <<n, m[g][n]>> \in DOMAIN R
                                             /\ Included(m[g][n], R[<<n, m[g][n]>>], excl)}
           V(g) == [n \in Listed(g) |-> R[<<n, m[g][n]>>]]
           S(g) == Restrict(m[g], Listed(g))
           E == Entry(q)
<1>1. E = [specifiers |-> Over(S("optional"), Over(S("dev"), S("prod"))),
           prod |-> V("prod"), optional |-> V("optional"), dev |-> V("dev"),
           meta |-> m.meta, publishDir |-> m.publishDir]
  BY DEF Entry, BuildSnapshot
<1>2. ASSUME NEW g \in Groups
      PROVE  Listed(g) = Kept(q, g)
  <2>1. ASSUME NEW n \in DOMAIN m[g]
        PROVE  Included(m[g][n], R[<<n, m[g][n]>>], excl) <=> (excl => m[g][n].proto # "link")
    <3> DEFINE M == Made(q, g, n)
    <3>1. /\ m[g][n].proto = "link" => M[1] = "link"
          /\ m[g][n].proto \notin {"link", "workspace"} /\ ~ q.config.linkWorkspace
               => M[1] # "link"
      <4>1. n \in DOMAIN q.config.overrides => q.config.overrides[n] = m[g][n]
        BY DEF Whole, Ordinary
      <4>2. Published(q.packages[n])
        BY DEF Whole, InstallAsked
      <4>3. M # Failed
        BY ResolvedIs
      <4>4. M = ResolveDirect(n, m[g][n], q.config.overrides, q.workspace,
                              q.config.linkWorkspace, q.injected \/ q.config.inject,
                              q.packages[n])
        BY DEF Made
      <4> HIDE DEF M
      <4> QED BY <4>1, <4>2, <4>3, <4>4, MadeIs
    <3>2. R[<<n, m[g][n]>>] = M
      BY ResolvedIs
    <3>3. excl => ~ q.config.linkWorkspace
      BY DEF Whole, Ordinary
    <3> HIDE DEF M, R
    <3> QED BY <3>1, <3>2, <3>3 DEF Included
  <2>2. \A n \in DOMAIN m[g] : <<n, m[g][n]>> \in DOMAIN R
    BY ResolvedIs
  <2> HIDE DEF R
  <2> QED BY <2>1, <2>2 DEF Kept
<1>3. Groups = {"prod", "optional", "dev"}
  BY DEF Groups
<1>4. ASSUME NEW g \in Groups
      PROVE  V(g) = [n \in Kept(q, g) |-> Made(q, g, n)]
  <2>1. \A n \in Kept(q, g) : R[<<n, m[g][n]>>] = Made(q, g, n)
    BY ResolvedIs DEF Kept
  <2>2. Listed(g) = Kept(q, g)
    BY <1>2
  <2> HIDE DEF Listed, R
  <2> QED BY <2>1, <2>2
<1>5. ASSUME NEW g \in Groups
      PROVE  S(g) = [n \in Kept(q, g) |-> m[g][n]]
  <2>1. Kept(q, g) \subseteq DOMAIN m[g] /\ Listed(g) = Kept(q, g)
    BY <1>2 DEF Kept
  <2>2. S(g) = [n \in Kept(q, g) \cap DOMAIN m[g] |-> m[g][n]]
    BY <2>1 DEF Restrict
  <2> HIDE DEF S, Listed
  <2> QED BY <2>1, <2>2
<1> DEFINE K(g) == [n \in Kept(q, g) |-> m[g][n]]
<1>6. /\ S("optional") = K("optional") /\ S("dev") = K("dev") /\ S("prod") = K("prod")
  BY <1>3, <1>5
<1>7. \A g, h \in Groups : g # h => Kept(q, g) \cap Kept(q, h) = {}
  BY DEF Kept, Whole, Ordinary
<1> HIDE DEF S, V, E, R
<1>8. /\ E.prod = V("prod") /\ E.optional = V("optional") /\ E.dev = V("dev")
      /\ E.specifiers = Over(K("optional"), Over(K("dev"), K("prod")))
      /\ E.meta = m.meta /\ E.publishDir = m.publishDir
  BY <1>1, <1>6
<1>9. \A g \in Groups : E[g] = [n \in Kept(q, g) |-> Made(q, g, n)]
  BY <1>3, <1>4, <1>8
<1>10. /\ E.specifiers = [n \in DOMAIN E.specifiers |-> E.specifiers[n]]
       /\ DOMAIN E.specifiers = Kept(q, "optional") \cup (Kept(q, "dev") \cup Kept(q, "prod"))
  BY <1>8 DEF Over
<1>11. DOMAIN E.specifiers = UNION {Kept(q, g) : g \in Groups}
  BY <1>10, <1>3
<1>12. ASSUME NEW g \in Groups, NEW n \in Kept(q, g)
       PROVE  E.specifiers[n] = m[g][n]
  <2>1. E.specifiers[n] = IF n \in Kept(q, "optional") THEN m["optional"][n]
                          ELSE IF n \in Kept(q, "dev") THEN m["dev"][n] ELSE m["prod"][n]
    <3>1. n \in DOMAIN E.specifiers
      BY <1>11
    <3> QED BY <3>1, <1>8, <1>10 DEF Over
  <2>2. CASE g = "optional" BY <2>1, <2>2
  <2>3. CASE g = "dev" BY <2>1, <2>3, <1>7, <1>3
  <2>4. CASE g = "prod" BY <2>1, <2>4, <1>7, <1>3
  <2> QED BY <2>2, <2>3, <2>4, <1>3
<1> QED BY <1>8, <1>9, <1>10, <1>11, <1>12 DEF E

(* The lockfile has that entry, and the settings of the configuration. *)
LEMMA SavedIs ==
  ASSUME NEW q, Whole(q)
  PROVE  /\ "a" \in DOMAIN Saved(q).importers /\ Saved(q).importers["a"] = Entry(q)
         /\ Saved(q).version >= 9
         /\ PatchesMatch(Saved(q), q.config)
         /\ OutdatedSetting(Saved(q), q.config) = None
<1> DEFINE c == q.config
           s == [autoInstallPeers |-> c.autoInstallPeers, excludeLinks |-> c.excludeLinks,
                 peersSuffix |-> c.peersSuffix, inject |-> c.inject, dedupePeers |-> FALSE]
           L == Saved(q)
           others == Over(IF q.existing = None THEN NoDeps ELSE q.existing.importers,
                          [i \in {"a", "b"} |-> EmptyEntry])
<1>1. /\ L.version = 9 /\ L.importers = Over([i \in {"a"} |-> Entry(q)], others)
      /\ L.settings = s /\ L.overrides = c.overrides /\ L.extensions = c.extensions
      /\ L.catalogs = IF q.existing = None THEN None ELSE q.existing.catalogs
      /\ L.ignored = IF q.existing = None THEN None ELSE q.existing.ignored
      /\ L.pnpmfile = c.pnpmfile /\ L.patched = c.patched
  BY DEF Saved, SavedLockfile, MergedImporters
<1>2. "a" \in DOMAIN L.importers /\ L.importers["a"] = Entry(q)
  <2> HIDE DEF others
  <2>1. DOMAIN [i \in {"a"} |-> Entry(q)] = {"a"} /\ [i \in {"a"} |-> Entry(q)]["a"] = Entry(q)
    OBVIOUS
  <2> QED BY <2>1, <1>1 DEF Over
<1>3. /\ c.autoInstallPeers \in BOOLEAN /\ c.excludeLinks \in BOOLEAN
      /\ c.peersSuffix \in Nat /\ c.inject \in BOOLEAN
  BY DEF Whole, InstallAsked
<1>4. s # None
  <2>1. s \in RecordedSettings
    <3> HIDE DEF c
    <3> QED BY <1>3 DEF RecordedSettings
  <2> HIDE DEF s
  <2> QED BY <2>1, NoneAssumption
<1>5. /\ SettingOr(s, "autoInstallPeers", c.autoInstallPeers) = c.autoInstallPeers
      /\ SettingOr(s, "excludeLinks", c.excludeLinks) = c.excludeLinks
      /\ SettingOr(s, "peersSuffix", 1000) = c.peersSuffix
      /\ SettingOr(s, "inject", FALSE) = c.inject
      /\ SettingOr(s, "dedupePeers", FALSE) = FALSE
  <2>1. \A x \in BOOLEAN \cup Nat : x # None
    BY NoneAssumption
  <2>2. /\ c.autoInstallPeers # None /\ c.excludeLinks # None /\ c.peersSuffix # None
        /\ c.inject # None /\ FALSE # None
    BY <2>1, <1>3
  <2>3. /\ s["autoInstallPeers"] = c.autoInstallPeers /\ s["excludeLinks"] = c.excludeLinks
        /\ s["peersSuffix"] = c.peersSuffix /\ s["inject"] = c.inject
        /\ s["dedupePeers"] = FALSE
    OBVIOUS
  <2> HIDE DEF s, c
  <2> QED BY <2>2, <2>3, <1>4 DEF SettingOr
<1>6. CatalogsUpToDate(c.catalogs, L.catalogs) /\ L.ignored = c.ignored
  <2>1. /\ q.existing # None => /\ q.existing.ignored = c.ignored
                                /\ CatalogsUpToDate(c.catalogs, q.existing.catalogs)
        /\ q.existing = None => c.ignored = None
    BY DEF Whole, Ordinary
  <2>2. CatalogsUpToDate(c.catalogs, None)
    BY DEF CatalogsUpToDate
  <2> QED BY <2>1, <2>2, <1>1
<1>7. OutdatedSetting(L, c) = None
  <2>1. /\ L.settings = s /\ L.overrides = c.overrides /\ L.extensions = c.extensions
        /\ L.pnpmfile = c.pnpmfile
    BY <1>1
  <2> HIDE DEF L, s, c
  <2> QED BY <2>1, <1>5, <1>6 DEF OutdatedSetting
<1> QED BY <1>1, <1>2, <1>7 DEF PatchesMatch

(* Extracting leaves alone what has no catalog, and all but the groups. *)
LEMMA ExtractedIs ==
  ASSUME NEW m, IsManifest(m), NEW catalogs
  PROVE  LET M == Extracted(m, catalogs) IN
         /\ M.meta = m.meta /\ M.publishDir = m.publishDir
         /\ {"prod", "optional", "dev", "peer", "meta", "publishDir"} \subseteq DOMAIN M
         /\ \A g \in Groups : M[g] = ResolveCatalogs(m[g], catalogs)
         /\ M.peer = ResolveCatalogs(m.peer, catalogs)
         /\ \A g \in Groups : (\A n \in DOMAIN m[g] : m[g][n].proto # "catalog") => M[g] = m[g]
<1> DEFINE M == Extracted(m, catalogs)
<1>1. {"prod", "optional", "dev", "peer", "meta", "publishDir"} \subseteq DOMAIN m
  BY DEF IsManifest, Groups
<1>2. /\ M.meta = m.meta /\ M.publishDir = m.publishDir
      /\ {"prod", "optional", "dev", "peer", "meta", "publishDir"} \subseteq DOMAIN M
      /\ M["prod"] = ResolveCatalogs(m.prod, catalogs)
      /\ M["optional"] = ResolveCatalogs(m.optional, catalogs)
      /\ M["dev"] = ResolveCatalogs(m.dev, catalogs)
      /\ M.peer = ResolveCatalogs(m.peer, catalogs)
  BY <1>1 DEF Extracted
<1>3. \A g \in Groups : M[g] = ResolveCatalogs(m[g], catalogs)
  BY <1>2 DEF Groups
<1>4. ASSUME NEW g \in Groups, \A n \in DOMAIN m[g] : m[g][n].proto # "catalog"
      PROVE  ResolveCatalogs(m[g], catalogs) = m[g]
  <2>1. ResolveCatalogs(m[g], catalogs) = [n \in DOMAIN m[g] |-> m[g][n]]
    BY <1>4 DEF ResolveCatalogs
  <2>2. m[g] = [n \in DOMAIN m[g] |-> m[g][n]]
    BY DEF IsManifest
  <2> QED BY <2>1, <2>2
<1> HIDE DEF M
<1>5. \A g \in Groups : (\A n \in DOMAIN m[g] : m[g][n].proto # "catalog") => M[g] = m[g]
  BY <1>3, <1>4
<1> QED BY <1>2, <1>3, <1>5 DEF M

LEMMA KeptIs ==
  ASSUME NEW deps, NEW config, config.excludeLinks \in BOOLEAN,
         deps = [n \in DOMAIN deps |-> deps[n]],
         NEW K, K = {n \in DOMAIN deps : config.excludeLinks => deps[n].proto # "link"}
  PROVE  KeptDeps(deps, config) = [n \in K |-> deps[n]]
<1>1. CASE config.excludeLinks
  <2>1. KeptDeps(deps, config) = Restrict(deps, {n \in DOMAIN deps : deps[n].proto # "link"})
    BY <1>1 DEF KeptDeps, WithoutLinks
  <2>2. {n \in DOMAIN deps : deps[n].proto # "link"} = K
    BY <1>1
  <2> QED BY <2>1, <2>2 DEF Restrict
<1>2. CASE ~ config.excludeLinks
  <2>1. KeptDeps(deps, config) = deps /\ K = DOMAIN deps
    BY <1>2 DEF KeptDeps
  <2> QED BY <2>1
<1> QED BY <1>1, <1>2

(* Peers that count as dependencies are in no group, and listed. *)
LEMMA PeersAre ==
  ASSUME NEW manifest, NEW entry, NEW config, config.autoInstallPeers \in BOOLEAN
  PROVE  LET P == AutoInstalled(manifest, entry, config) IN
         /\ P = [n \in DOMAIN P |-> P[n]]
         /\ DOMAIN P \cap (DOMAIN manifest.prod \cup DOMAIN manifest.dev
                             \cup DOMAIN manifest.optional) = {}
         /\ DOMAIN P \subseteq DOMAIN entry.specifiers
<1> DEFINE P == AutoInstalled(manifest, entry, config)
           N == (DOMAIN manifest.peer \cap DOMAIN entry.specifiers)
                  \ (DOMAIN manifest.prod \cup DOMAIN manifest.dev \cup DOMAIN manifest.optional)
<1> SUFFICES /\ P = [n \in DOMAIN P |-> P[n]]
             /\ DOMAIN P \subseteq N
  OBVIOUS
<1>1. CASE config.autoInstallPeers
  <2>1. P = [n \in N |-> manifest.peer[n]]
    BY <1>1 DEF AutoInstalled, AutoPeers, Restrict
  <2> HIDE DEF P, N
  <2> QED BY <2>1
<1>2. CASE ~ config.autoInstallPeers
  <2>1. P = [n \in {} |-> {}]
    BY <1>2 DEF AutoInstalled, NoDeps
  <2> HIDE DEF P
  <2> QED BY <2>1
<1> QED BY <1>1, <1>2

(* What the check of a manifest looks at. *)
Chosen(M, P) == Over(M.optional, Over(M.prod, Over(M.dev, P)))

KeptManifest(W, config) == [W EXCEPT !.prod = KeptDeps(@, config), !.dev = KeptDeps(@, config),
                                     !.optional = KeptDeps(@, config)]

LEMMA CheckIs ==
  ASSUME NEW entry, NEW raw, NEW config
  PROVE  LET M == Extracted(raw, config.catalogs)
             P == AutoInstalled(M, entry, config)
         IN  SatisfiesManifest(entry, raw, config, TRUE) <=>
               /\ KeptDeps(entry.specifiers, config) = KeptDeps(Chosen(M, P), config)
               /\ entry.publishDir = M.publishDir /\ entry.meta = M.meta
               /\ \A g \in Groups :
                    GroupSatisfied(KeptManifest(WithPeers(M, entry, config), config),
                                   entry, KeptDeps(entry.specifiers, config), g, TRUE)
BY DEF SatisfiesManifest, Chosen, KeptManifest

LEMMA WithPeersIs ==
  ASSUME NEW M, {"prod", "optional", "dev"} \subseteq DOMAIN M, NEW entry, NEW config
  PROVE  LET W == WithPeers(M, entry, config) IN
         /\ {"prod", "optional", "dev"} \subseteq DOMAIN W
         /\ W["prod"] = Over(M.prod, AutoInstalled(M, entry, config))
         /\ W["optional"] = M.optional /\ W["dev"] = M.dev
BY DEF WithPeers

LEMMA KeptManifestIs ==
  ASSUME NEW W, {"prod", "optional", "dev"} \subseteq DOMAIN W, NEW config
  PROVE  \A g \in Groups : KeptManifest(W, config)[g] = KeptDeps(W[g], config)
BY DEF KeptManifest, Groups

ChoiceOf(X, M, P) ==
  /\ DOMAIN X = DOMAIN M.optional \cup (DOMAIN M.prod \cup (DOMAIN M.dev \cup DOMAIN P))
  /\ \A n \in DOMAIN X :
       X[n] = IF n \in DOMAIN M.optional THEN M.optional[n]
              ELSE IF n \in DOMAIN M.prod THEN M.prod[n]
              ELSE IF n \in DOMAIN M.dev THEN M.dev[n] ELSE P[n]

LEMMA ChosenIs ==
  ASSUME NEW M, NEW P
  PROVE  ChoiceOf(Chosen(M, P), M, P)
<1> DEFINE a == M.optional
           b == M.prod
           c == M.dev
           d == P
           Z == Over(c, d)
           Y == Over(b, Z)
           X == Chosen(M, P)
<1> HIDE DEF a, b, c, d, X
<1>1. /\ DOMAIN Z = DOMAIN c \cup DOMAIN d
      /\ \A n \in DOMAIN Z : Z[n] = IF n \in DOMAIN c THEN c[n] ELSE d[n]
  BY DEF Over
<1> HIDE DEF Z
<1>2. /\ DOMAIN Y = DOMAIN b \cup DOMAIN Z
      /\ \A n \in DOMAIN Y : Y[n] = IF n \in DOMAIN b THEN b[n] ELSE Z[n]
  BY DEF Over
<1>3. X = Over(a, Y)
  BY DEF Z, X, Chosen, a, b, c, d
<1> HIDE DEF Y
<1>4. /\ X = [n \in DOMAIN X |-> X[n]]
      /\ DOMAIN X = DOMAIN a \cup DOMAIN Y
      /\ \A n \in DOMAIN X : X[n] = IF n \in DOMAIN a THEN a[n] ELSE Y[n]
  BY <1>3 DEF Over
<1>5. DOMAIN X = DOMAIN a \cup (DOMAIN b \cup (DOMAIN c \cup DOMAIN d))
  BY <1>1, <1>2, <1>4
<1>6. ASSUME NEW n \in DOMAIN X
      PROVE  X[n] = IF n \in DOMAIN a THEN a[n]
                    ELSE IF n \in DOMAIN b THEN b[n]
                    ELSE IF n \in DOMAIN c THEN c[n] ELSE d[n]
  BY <1>1, <1>2, <1>4
<1> QED BY <1>5, <1>6 DEF X, a, b, c, d, ChoiceOf

(* The specifiers of the entry are those that are kept. *)
LEMMA SpecifiersKept ==
  ASSUME NEW q, Whole(q)
  PROVE  KeptDeps(Entry(q).specifiers, q.config) = Entry(q).specifiers
<1> DEFINE S == Entry(q).specifiers
<1>1. S = [n \in DOMAIN S |-> S[n]]
  BY EntryIs
<1>2. \A n \in DOMAIN S : q.config.excludeLinks => S[n].proto # "link"
  <2> SUFFICES ASSUME NEW n \in DOMAIN S
               PROVE  q.config.excludeLinks => S[n].proto # "link"
    OBVIOUS
  <2>1. n \in UNION {Kept(q, g) : g \in Groups}
    BY EntryIs
  <2>2. PICK g \in Groups : n \in Kept(q, g)
    BY <2>1
  <2>3. S[n] = q.manifest[g][n]
    BY <2>2, EntryIs
  <2> QED BY <2>2, <2>3 DEF Kept
<1>3. q.config.excludeLinks \in BOOLEAN
  BY DEF Whole, InstallAsked
<1> DEFINE K == {n \in DOMAIN S : q.config.excludeLinks => S[n].proto # "link"}
<1>4. K = DOMAIN S
  BY <1>2
<1>5. KeptDeps(S, q.config) = [n \in K |-> S[n]]
  <2> HIDE DEF S
  <2> QED BY <1>1, <1>3, KeptIs
<1> HIDE DEF S, K
<1> QED BY <1>1, <1>4, <1>5 DEF S

(* The manifest that the entry was made from has no more dependencies. *)
LEMMA OriginalIs ==
  ASSUME NEW q, Whole(q), NEW M, M = Extracted(q.manifest, q.config.catalogs),
         NEW P, P = AutoInstalled(M, Entry(q), q.config),
         NEW W, W = WithPeers(M, Entry(q), q.config)
  PROVE  /\ {"prod", "optional", "dev"} \subseteq DOMAIN W
         /\ \A g \in Groups : M[g] = q.manifest[g] /\ W[g] = q.manifest[g]
         /\ DOMAIN P = {}
         /\ M.meta = q.manifest.meta /\ M.publishDir = q.manifest.publishDir
<1>1. /\ IsManifest(q.manifest)
      /\ \A g \in Groups : \A n \in DOMAIN q.manifest[g] : q.manifest[g][n].proto # "catalog"
      /\ q.config.autoInstallPeers \in BOOLEAN
  BY DEF Whole, InstallAsked, Ordinary
<1>2. /\ {"prod", "optional", "dev"} \subseteq DOMAIN M
      /\ \A g \in Groups : M[g] = q.manifest[g]
      /\ M.meta = q.manifest.meta /\ M.publishDir = q.manifest.publishDir
  BY <1>1, ExtractedIs
<1>3. /\ M.prod = q.manifest["prod"] /\ M.optional = q.manifest["optional"]
      /\ M.dev = q.manifest["dev"]
  BY <1>2 DEF Groups
<1>4. DOMAIN P = {}
  <2>1. /\ DOMAIN P \cap (DOMAIN M.prod \cup DOMAIN M.dev \cup DOMAIN M.optional) = {}
        /\ DOMAIN P \subseteq DOMAIN Entry(q).specifiers
    BY <1>1, PeersAre
  <2>2. DOMAIN Entry(q).specifiers
          = Kept(q, "prod") \cup Kept(q, "optional") \cup Kept(q, "dev")
    <3>1. DOMAIN Entry(q).specifiers = UNION {Kept(q, g) : g \in Groups}
      BY EntryIs
    <3>2. UNION {Kept(q, g) : g \in Groups}
            = Kept(q, "prod") \cup Kept(q, "optional") \cup Kept(q, "dev")
      BY DEF Groups
    <3> QED BY <3>1, <3>2
  <2>3. \A g : Kept(q, g) \subseteq DOMAIN q.manifest[g]
    BY DEF Kept
  <2> QED BY <2>1, <2>2, <2>3, <1>3
<1>5. /\ {"prod", "optional", "dev"} \subseteq DOMAIN W
      /\ W["prod"] = Over(M.prod, P) /\ W["optional"] = M.optional /\ W["dev"] = M.dev
  BY <1>2, WithPeersIs
<1>6. Over(M.prod, P) = M.prod
  <2>1. M.prod = [n \in DOMAIN M.prod |-> M.prod[n]]
    BY <1>1, <1>3 DEF IsManifest, Groups
  <2>2. DOMAIN M.prod \cup DOMAIN P = DOMAIN M.prod
    BY <1>4
  <2>3. Over(M.prod, P) = [n \in DOMAIN M.prod |-> M.prod[n]]
    BY <2>2 DEF Over
  <2> QED BY <2>1, <2>3
<1>7. \A g \in Groups : W[g] = q.manifest[g]
  BY <1>3, <1>5, <1>6 DEF Groups
<1> QED BY <1>2, <1>4, <1>5, <1>7

LEMMA OriginalSatisfies ==
  ASSUME NEW q, Whole(q)
  PROVE  SatisfiesManifest(Entry(q), q.manifest, q.config, TRUE)
<1> DEFINE E == Entry(q)
           c == q.config
           m == q.manifest
           M == Extracted(m, c.catalogs)
           P == AutoInstalled(M, E, c)
           W == WithPeers(M, E, c)
           X == Chosen(M, P)
           kept == KeptManifest(W, c)
           specifiers == KeptDeps(E.specifiers, c)
<1>1. SatisfiesManifest(E, m, c, TRUE) <=>
        /\ specifiers = KeptDeps(X, c)
        /\ E.publishDir = M.publishDir /\ E.meta = M.meta
        /\ \A g \in Groups : GroupSatisfied(kept, E, specifiers, g, TRUE)
  BY CheckIs
<1>2. specifiers = E.specifiers
  BY SpecifiersKept
<1>3. /\ {"prod", "optional", "dev"} \subseteq DOMAIN W
      /\ \A g \in Groups : M[g] = m[g] /\ W[g] = m[g]
      /\ DOMAIN P = {}
      /\ M.meta = m.meta /\ M.publishDir = m.publishDir
  <2> HIDE DEF P, W
  <2> QED BY OriginalIs DEF P, W
<1>4. c.excludeLinks \in BOOLEAN /\ \A g \in Groups : m[g] = [n \in DOMAIN m[g] |-> m[g][n]]
  BY DEF Whole, InstallAsked, IsManifest
<1>5. \A g, h \in Groups : g # h => DOMAIN m[g] \cap DOMAIN m[h] = {}
  BY DEF Whole, Ordinary
<1>6. /\ \A g \in Groups : E[g] = [n \in Kept(q, g) |-> Made(q, g, n)]
      /\ E.specifiers = [n \in DOMAIN E.specifiers |-> E.specifiers[n]]
      /\ DOMAIN E.specifiers = UNION {Kept(q, g) : g \in Groups}
      /\ \A g \in Groups : \A n \in Kept(q, g) : E.specifiers[n] = m[g][n]
      /\ E.meta = m.meta /\ E.publishDir = m.publishDir
  BY EntryIs
<1>7. /\ X = [n \in DOMAIN X |-> X[n]]
      /\ DOMAIN X = UNION {DOMAIN m[g] : g \in Groups}
      /\ \A g \in Groups : \A n \in DOMAIN m[g] : X[n] = m[g][n]
  <2>1. M.prod = m["prod"] /\ M.optional = m["optional"] /\ M.dev = m["dev"]
    BY <1>3 DEF Groups
  <2> HIDE DEF P, M
  <2>2. X = [n \in DOMAIN X |-> X[n]]
    BY DEF Chosen, Over
  <2>3. ChoiceOf(X, M, P)
    BY ChosenIs
  <2> HIDE DEF X
  <2>4. DOMAIN X = UNION {DOMAIN m[g] : g \in Groups}
    <3>1. DOMAIN X = DOMAIN m["optional"] \cup DOMAIN m["prod"] \cup DOMAIN m["dev"]
      BY <2>1, <2>3, <1>3 DEF ChoiceOf
    <3> QED BY <3>1 DEF Groups
  <2>5. ASSUME NEW g \in Groups, NEW n \in DOMAIN m[g]
        PROVE  X[n] = m[g][n]
    <3>1. n \in DOMAIN X
      BY <2>4
    <3>2. \A h \in Groups \ {g} : n \notin DOMAIN m[h]
      BY <1>5
    <3>3. CASE g = "optional" BY <2>1, <2>3, <3>1, <3>3 DEF ChoiceOf
    <3>4. CASE g = "prod" BY <2>1, <2>3, <3>1, <3>2, <3>4 DEF ChoiceOf, Groups
    <3>5. CASE g = "dev" BY <2>1, <2>3, <3>1, <3>2, <3>5 DEF ChoiceOf, Groups
    <3> QED BY <3>3, <3>4, <3>5 DEF Groups
  <2> QED BY <2>2, <2>4, <2>5
<1> HIDE DEF X, M, P, W, E
<1>8. specifiers = KeptDeps(X, c)
  <2> DEFINE K == {n \in DOMAIN X : c.excludeLinks => X[n].proto # "link"}
  <2>1. KeptDeps(X, c) = [n \in K |-> X[n]]
    BY <1>4, <1>7, KeptIs
  <2>2. K = DOMAIN E.specifiers
    BY <1>6, <1>7 DEF Kept
  <2>3. \A n \in K : X[n] = E.specifiers[n]
    <3> SUFFICES ASSUME NEW n \in K PROVE X[n] = E.specifiers[n]
      OBVIOUS
    <3>1. n \in UNION {Kept(q, g) : g \in Groups}
      BY <2>2, <1>6
    <3>2. PICK g \in Groups : n \in Kept(q, g)
      BY <3>1
    <3>3. n \in DOMAIN m[g]
      BY <3>2 DEF Kept
    <3> HIDE DEF K
    <3> QED BY <3>2, <3>3, <1>6, <1>7
  <2> HIDE DEF K
  <2> QED BY <2>1, <2>2, <2>3, <1>2, <1>6
<1>9. ASSUME NEW g \in Groups
      PROVE  GroupSatisfied(kept, E, specifiers, g, TRUE)
  <2>1. \A h \in Groups : kept[h] = [n \in Kept(q, h) |-> m[h][n]]
    <3> SUFFICES ASSUME NEW h \in Groups PROVE kept[h] = [n \in Kept(q, h) |-> m[h][n]]
      OBVIOUS
    <3>1. kept[h] = KeptDeps(m[h], c)
      BY <1>3, KeptManifestIs
    <3>2. Kept(q, h) = {n \in DOMAIN m[h] : c.excludeLinks => m[h][n].proto # "link"}
      BY DEF Kept
    <3>3. m[h] = [n \in DOMAIN m[h] |-> m[h][n]]
      BY <1>4
    <3>4. KeptDeps(m[h], c) = [n \in Kept(q, h) |-> m[h][n]]
      BY <3>2, <3>3, <1>4, KeptIs
    <3> QED BY <3>1, <3>4
  <2> HIDE DEF kept
  <2>2. \A g1, h \in Groups : g1 # h => Kept(q, g1) \cap Kept(q, h) = {}
    BY <1>5 DEF Kept
  <2>3. kept.optional = kept["optional"] /\ kept.prod = kept["prod"]
    OBVIOUS
  <2>4. NamesOf(kept, g) = Kept(q, g)
    <3>1. \A h \in Groups : DOMAIN kept[h] = Kept(q, h)
      BY <2>1
    <3>2. CASE g = "optional" BY <3>1, <3>2 DEF NamesOf, Groups
    <3>3. CASE g = "prod" BY <3>1, <3>3, <2>2, <2>3 DEF NamesOf, Groups
    <3>4. CASE g = "dev" BY <3>1, <3>4, <2>2, <2>3 DEF NamesOf, Groups
    <3> QED BY <3>2, <3>3, <3>4 DEF Groups
  <2>5. DOMAIN E[g] = Kept(q, g)
    BY <1>6
  <2>6. ASSUME NEW n \in Kept(q, g)
        PROVE  /\ n \in DOMAIN E.specifiers /\ E.specifiers[n] = kept[g][n]
               /\ (/\ E.specifiers[n].proto = "registry" /\ IsRange(E.specifiers[n].op)
                   /\ E[g][n][1] = "version")
                  => Satisfies(E[g][n][2], E.specifiers[n])
    <3>1. E.specifiers[n] = m[g][n] /\ n \in DOMAIN m[g] /\ kept[g][n] = m[g][n]
      <4>1. n \in DOMAIN m[g]
        BY DEF Kept
      <4>2. E.specifiers[n] = m[g][n]
        BY <1>6
      <4>3. kept[g] = [k \in Kept(q, g) |-> m[g][k]]
        BY <2>1
      <4>4. kept[g][n] = m[g][n]
        BY <4>3
      <4> QED BY <4>1, <4>2, <4>4
    <3>2. n \in DOMAIN E.specifiers
      BY <1>6
    <3>3. E[g][n] = Made(q, g, n) /\ Made(q, g, n) # Failed
      BY <1>6, <3>1, ResolvedIs
    <3>4. /\ n \in DOMAIN c.overrides => c.overrides[n] = m[g][n]
          /\ Published(q.packages[n])
      BY <3>1 DEF Whole, Ordinary, InstallAsked
    <3>5. E[g][n][1] = "version" /\ IsRange(m[g][n].op) => Satisfies(E[g][n][2], m[g][n])
      <4> DEFINE R == E[g][n]
                 spec == m[g][n]
      <4>1. R = ResolveDirect(n, spec, c.overrides, q.workspace, c.linkWorkspace,
                              q.injected \/ c.inject, q.packages[n]) /\ R # Failed
        BY <3>3 DEF Made
      <4> HIDE DEF R
      <4>2. R[1] = "version" /\ IsRange(spec.op) => Satisfies(R[2], spec)
        BY <4>1, <3>4, MadeIs
      <4> QED BY <4>2 DEF R
    <3> QED BY <3>1, <3>2, <3>5
  <2> HIDE DEF specifiers
  <2> QED BY <2>4, <2>5, <2>6, <1>2 DEF GroupSatisfied
<1> HIDE DEF kept, specifiers
<1> QED BY <1>1, <1>3, <1>6, <1>8, <1>9 DEF E

(* The links of the entry are those that are expected, if none is copied. *)
LEMMA OriginalLinks ==
  ASSUME NEW q, Whole(q), ~ (q.injected \/ q.config.inject)
  PROVE  LinksMatch(Entry(q), q.manifest, q.config, q.workspace)
<1> SUFFICES ASSUME NEW g \in Groups, NEW n \in DOMAIN q.manifest[g],
                    ExpectedWorkspace(q.workspace, q.config.linkWorkspace, n,
                                      q.manifest[g][n]) # NoName
             PROVE  /\ n \in DOMAIN Entry(q)[g]
                    /\ Entry(q)[g][n] =
                         <<"link", q.workspace[ExpectedWorkspace(q.workspace,
                             q.config.linkWorkspace, n, q.manifest[g][n])].dir>>
  BY DEF LinksMatch
<1> DEFINE spec == q.manifest[g][n]
           c == q.config
           target == ExpectedWorkspace(q.workspace, c.linkWorkspace, n, spec)
           R == Made(q, g, n)
<1>1. R # Failed
  BY ResolvedIs
<1>2. /\ n \in DOMAIN c.overrides => c.overrides[n] = spec
      /\ Published(q.packages[n])
      /\ ~ (c.linkWorkspace /\ c.excludeLinks)
  BY DEF Whole, Ordinary, InstallAsked
<1>3. R = <<"link", q.workspace[target].dir>>
  <2> DEFINE injected == q.injected \/ c.inject
  <2>1. R = ResolveDirect(n, spec, c.overrides, q.workspace, c.linkWorkspace, injected,
                          q.packages[n])
    BY DEF Made
  <2>2. ~ injected /\ target # NoName
    OBVIOUS
  <2> HIDE DEF R, injected
  <2> QED BY <1>1, <1>2, <2>1, <2>2, MadeIs
<1>4. n \in Kept(q, g)
  <2>1. c.excludeLinks => spec.proto # "link"
    <3>1. spec.proto = "workspace" \/ c.linkWorkspace
      BY DEF ExpectedWorkspace
    <3> QED BY <3>1, <1>2
  <2> QED BY <2>1 DEF Kept
<1>5. Entry(q)[g] = [k \in Kept(q, g) |-> Made(q, g, k)]
  BY EntryIs
<1>6. n \in DOMAIN Entry(q)[g] /\ Entry(q)[g][n] = R
  <2> HIDE DEF R
  <2>1. [k \in Kept(q, g) |-> Made(q, g, k)][n] = R
    BY <1>4 DEF R
  <2> QED BY <2>1, <1>4, <1>5
<1> QED BY <1>3, <1>6

(* What is kept of a manifest that the entry satisfies is what was kept of *)
(* the one that it was made from.                                          *)
Listing(q) == UNION {{<<g, n, q.manifest[g][n]>> : n \in Kept(q, g)} : g \in Groups}

LEMMA OriginalEffective ==
  ASSUME NEW q, Whole(q)
  PROVE  Effective(q.manifest, Entry(q), q.config) = Listing(q)
<1> DEFINE c == q.config
           m == q.manifest
           M == Extracted(m, c.catalogs)
           P == AutoInstalled(M, Entry(q), c)
           W == WithPeers(M, Entry(q), c)
           deps == UNION {{<<g, n, W[g][n]>> : n \in NamesOf(W, g)} : g \in Groups}
<1>1. Effective(m, Entry(q), c) = {d \in deps : c.excludeLinks => d[3].proto # "link"}
  BY DEF Effective
<1>2. \A g \in Groups : W[g] = m[g]
  <2> HIDE DEF P, W
  <2> QED BY OriginalIs DEF P, W
<1>3. \A g, h \in Groups : g # h => DOMAIN m[g] \cap DOMAIN m[h] = {}
  BY DEF Whole, Ordinary
<1> HIDE DEF M, P, W
<1>4. \A g \in Groups : NamesOf(W, g) = DOMAIN m[g]
  <2>1. W.prod = m["prod"] /\ W.optional = m["optional"] /\ W.dev = m["dev"]
    BY <1>2 DEF Groups
  <2>2. NamesOf(W, "optional") = DOMAIN m["optional"]
    BY <2>1 DEF NamesOf
  <2>3. NamesOf(W, "prod") = DOMAIN m["prod"]
    BY <2>1, <1>3 DEF NamesOf, Groups
  <2>4. NamesOf(W, "dev") = DOMAIN m["dev"]
    BY <2>1, <1>3 DEF NamesOf, Groups
  <2> QED BY <2>2, <2>3, <2>4 DEF Groups
<1>5. ASSUME NEW d
      PROVE  d \in deps /\ (c.excludeLinks => d[3].proto # "link") <=> d \in Listing(q)
  <2>1. d \in deps <=> \E g \in Groups : \E n \in DOMAIN m[g] : d = <<g, n, m[g][n]>>
    BY <1>2, <1>4
  <2>2. d \in Listing(q) <=> \E g \in Groups : \E n \in Kept(q, g) : d = <<g, n, m[g][n]>>
    BY DEF Listing
  <2>3. \A g, n : <<g, n, m[g][n]>>[3] = m[g][n]
    OBVIOUS
  <2> QED BY <2>1, <2>2, <2>3 DEF Kept
<1> HIDE DEF deps
<1> QED BY <1>1, <1>5

LEMMA AcceptedEffective ==
  ASSUME NEW q, Whole(q), NEW e, IsManifest(e),
         SatisfiesManifest(Entry(q), e, q.config, TRUE)
  PROVE  Effective(e, Entry(q), q.config) = Listing(q)
<1> DEFINE E == Entry(q)
           c == q.config
           m == q.manifest
           M == Extracted(e, c.catalogs)
           P == AutoInstalled(M, E, c)
           W == WithPeers(M, E, c)
           X == Chosen(M, P)
           kept == KeptManifest(W, c)
           specifiers == KeptDeps(E.specifiers, c)
           deps == UNION {{<<g, n, W[g][n]>> : n \in NamesOf(W, g)} : g \in Groups}
<1>1. /\ specifiers = KeptDeps(X, c)
      /\ \A g \in Groups : GroupSatisfied(kept, E, specifiers, g, TRUE)
  <2>1. SatisfiesManifest(E, e, c, TRUE) <=>
          /\ specifiers = KeptDeps(X, c)
          /\ E.publishDir = M.publishDir /\ E.meta = M.meta
          /\ \A g \in Groups : GroupSatisfied(kept, E, specifiers, g, TRUE)
    BY CheckIs
  <2>2. SatisfiesManifest(E, e, c, TRUE)
    OBVIOUS
  <2> HIDE DEF specifiers, X, E, M, kept
  <2> QED BY <2>1, <2>2
<1>2. specifiers = E.specifiers
  BY SpecifiersKept
<1>3. /\ {"prod", "optional", "dev"} \subseteq DOMAIN M
      /\ \A g \in Groups : M[g] = ResolveCatalogs(e[g], c.catalogs)
  BY ExtractedIs
<1>4. c.excludeLinks \in BOOLEAN /\ c.autoInstallPeers \in BOOLEAN
  BY DEF Whole, InstallAsked
<1>5. P = [n \in DOMAIN P |-> P[n]]
      /\ DOMAIN P \cap (DOMAIN M.prod \cup DOMAIN M.dev \cup DOMAIN M.optional) = {}
  BY <1>4, PeersAre
<1>6. /\ {"prod", "optional", "dev"} \subseteq DOMAIN W
      /\ W["prod"] = Over(M.prod, P) /\ W["optional"] = M.optional /\ W["dev"] = M.dev
  BY <1>3, WithPeersIs
<1>7. /\ \A g \in Groups : E[g] = [n \in Kept(q, g) |-> Made(q, g, n)]
      /\ E.specifiers = [n \in DOMAIN E.specifiers |-> E.specifiers[n]]
      /\ DOMAIN E.specifiers = UNION {Kept(q, g) : g \in Groups}
      /\ \A g \in Groups : \A n \in Kept(q, g) : E.specifiers[n] = m[g][n]
  BY EntryIs
<1>8. \A g, h \in Groups : g # h => Kept(q, g) \cap Kept(q, h) = {}
  BY DEF Kept, Whole, Ordinary
<1>9. X = [n \in DOMAIN X |-> X[n]]
  BY DEF Chosen, Over
<1>10. ChoiceOf(X, M, P)
  BY ChosenIs
<1>11. Effective(e, E, c) = {d \in deps : c.excludeLinks => d[3].proto # "link"}
  BY DEF Effective
<1> HIDE DEF X, M, P, W, E
<1>12. /\ DOMAIN W["prod"] = DOMAIN M.prod \cup DOMAIN P
       /\ \A n \in DOMAIN W["prod"] :
            W["prod"][n] = IF n \in DOMAIN M.prod THEN M.prod[n] ELSE P[n]
  BY <1>6 DEF Over
<1>13. \A g \in Groups : W[g] = [n \in DOMAIN W[g] |-> W[g][n]]
  <2>1. W["prod"] = [n \in DOMAIN W["prod"] |-> W["prod"][n]]
    BY <1>6 DEF Over
  <2>2. \A g \in Groups : M[g] = [n \in DOMAIN M[g] |-> M[g][n]]
    BY <1>3 DEF ResolveCatalogs
  <2>3. W["optional"] = M["optional"] /\ W["dev"] = M["dev"]
    BY <1>6
  <2>4. /\ M["optional"] = [n \in DOMAIN M["optional"] |-> M["optional"][n]]
        /\ M["dev"] = [n \in DOMAIN M["dev"] |-> M["dev"][n]]
    BY <2>2 DEF Groups
  <2> QED BY <2>1, <2>3, <2>4 DEF Groups
<1> DEFINE Open(g) == {n \in DOMAIN W[g] : c.excludeLinks => W[g][n].proto # "link"}
<1>14. \A g \in Groups : kept[g] = [n \in Open(g) |-> W[g][n]]
  <2> SUFFICES ASSUME NEW g \in Groups PROVE kept[g] = [n \in Open(g) |-> W[g][n]]
    OBVIOUS
  <2>1. kept[g] = KeptDeps(W[g], c)
    BY <1>6, KeptManifestIs
  <2>2. KeptDeps(W[g], c) = [n \in Open(g) |-> W[g][n]]
    <3>1. W[g] = [n \in DOMAIN W[g] |-> W[g][n]]
      BY <1>13
    <3> DEFINE D == W[g]
               K == {n \in DOMAIN D : c.excludeLinks => D[n].proto # "link"}
    <3>2. D = [n \in DOMAIN D |-> D[n]] /\ Open(g) = K
      BY <3>1
    <3> HIDE DEF D
    <3>3. KeptDeps(D, c) = [n \in K |-> D[n]]
      BY <3>2, <1>4, KeptIs
    <3> QED BY <3>2, <3>3 DEF D
  <2> QED BY <2>1, <2>2
<1> HIDE DEF kept
(* Whatever counts in the one manifest, counts in the other. *)
<1>15. ASSUME NEW g \in Groups, NEW n \in NamesOf(W, g),
              c.excludeLinks => W[g][n].proto # "link"
       PROVE  n \in Kept(q, g) /\ W[g][n] = m[g][n]
  <2>1. n \in Open(g)
    BY <1>15 DEF NamesOf
  <2>2. \A h \in Groups : DOMAIN kept[h] = Open(h) /\ Open(h) \subseteq DOMAIN W[h]
    BY <1>14
  <2>3. n \in NamesOf(kept, g)
    <3>1. /\ W.prod = W["prod"] /\ W.optional = W["optional"]
          /\ kept.prod = kept["prod"] /\ kept.optional = kept["optional"]
      OBVIOUS
    <3>2. n \in DOMAIN kept[g]
      BY <2>1, <2>2
    <3>3. DOMAIN kept["prod"] \subseteq DOMAIN W["prod"]
          /\ DOMAIN kept["optional"] \subseteq DOMAIN W["optional"]
      BY <2>2 DEF Groups
    <3> HIDE DEF Open
    <3> QED BY <3>1, <3>2, <3>3 DEF NamesOf
  <2>4. n \in DOMAIN E[g] /\ E.specifiers[n] = kept[g][n]
    BY <2>3, <1>1, <1>2 DEF GroupSatisfied
  <2>5. n \in Kept(q, g)
    BY <2>4, <1>7
  <2>6. kept[g] = [k \in Open(g) |-> W[g][k]]
    BY <1>14
  <2>7. kept[g][n] = W[g][n]
    BY <2>1, <2>6
  <2>8. E.specifiers[n] = m[g][n]
    BY <2>5, <1>7
  <2> QED BY <2>4, <2>5, <2>7, <2>8
(* And the other way round. *)
<1>16. ASSUME NEW g \in Groups, NEW n \in Kept(q, g)
       PROVE  n \in NamesOf(W, g) /\ W[g][n] = m[g][n]
  <2> DEFINE K == {k \in DOMAIN X : c.excludeLinks => X[k].proto # "link"}
  <2>1. E.specifiers = [k \in K |-> X[k]]
    <3>1. KeptDeps(X, c) = [k \in K |-> X[k]]
      BY <1>4, <1>9, KeptIs
    <3> QED BY <3>1, <1>1, <1>2
  <2>2. n \in DOMAIN E.specifiers
    BY <1>7
  <2>3. /\ n \in DOMAIN X /\ X[n] = E.specifiers[n]
        /\ c.excludeLinks => X[n].proto # "link"
    BY <2>1, <2>2
  <2>4. PICK h \in Groups : n \in NamesOf(W, h) /\ W[h][n] = X[n]
    <3>1. W.prod = W["prod"] /\ W.optional = W["optional"]
      OBVIOUS
    <3>2. CASE n \in DOMAIN M.optional
      <4>1. n \in NamesOf(W, "optional") /\ W["optional"][n] = X[n]
        BY <3>2, <2>3, <1>6, <1>10 DEF NamesOf, ChoiceOf
      <4> QED BY <4>1 DEF Groups
    <3>3. CASE n \notin DOMAIN M.optional /\ n \in DOMAIN M.prod
      <4>1. n \in NamesOf(W, "prod") /\ W["prod"][n] = X[n]
        BY <3>1, <3>3, <2>3, <1>6, <1>10, <1>12 DEF NamesOf, ChoiceOf
      <4> QED BY <4>1 DEF Groups
    <3>4. CASE n \notin DOMAIN M.optional /\ n \notin DOMAIN M.prod /\ n \in DOMAIN M.dev
      <4>1. n \in NamesOf(W, "dev") /\ W["dev"][n] = X[n]
        BY <3>1, <3>4, <2>3, <1>5, <1>6, <1>10, <1>12 DEF NamesOf, ChoiceOf
      <4> QED BY <4>1 DEF Groups
    <3>5. CASE n \notin DOMAIN M.optional /\ n \notin DOMAIN M.prod /\ n \notin DOMAIN M.dev
      <4>1. n \in DOMAIN P
        BY <3>5, <2>3, <1>10 DEF ChoiceOf
      <4>2. n \in NamesOf(W, "prod") /\ W["prod"][n] = X[n]
        BY <3>1, <3>5, <4>1, <2>3, <1>6, <1>10, <1>12 DEF NamesOf, ChoiceOf
      <4> QED BY <4>2 DEF Groups
    <3> QED BY <3>2, <3>3, <3>4, <3>5
  <2>5. n \in Kept(q, h) /\ W[h][n] = m[h][n]
    BY <2>3, <2>4, <1>15
  <2>6. h = g
    BY <2>5, <1>8
  <2> QED BY <2>4, <2>5, <2>6
<1>17. ASSUME NEW d
       PROVE  d \in deps /\ (c.excludeLinks => d[3].proto # "link") <=> d \in Listing(q)
  <2>1. d \in deps <=> \E g \in Groups : \E n \in NamesOf(W, g) : d = <<g, n, W[g][n]>>
    OBVIOUS
  <2>2. d \in Listing(q) <=> \E g \in Groups : \E n \in Kept(q, g) : d = <<g, n, m[g][n]>>
    BY DEF Listing
  <2>3. ASSUME d \in deps, c.excludeLinks => d[3].proto # "link"
        PROVE  d \in Listing(q)
    <3>1. PICK g \in Groups : \E n \in NamesOf(W, g) : d = <<g, n, W[g][n]>>
      BY <2>1, <2>3
    <3>2. PICK n \in NamesOf(W, g) : d = <<g, n, W[g][n]>>
      BY <3>1
    <3>3. d[3] = W[g][n]
      BY <3>2
    <3>4. n \in Kept(q, g) /\ W[g][n] = m[g][n]
      BY <3>3, <2>3, <1>15
    <3> QED BY <3>2, <3>4, <2>2
  <2>4. ASSUME d \in Listing(q)
        PROVE  d \in deps /\ (c.excludeLinks => d[3].proto # "link")
    <3>1. PICK g \in Groups : \E n \in Kept(q, g) : d = <<g, n, m[g][n]>>
      BY <2>2, <2>4
    <3>2. PICK n \in Kept(q, g) : d = <<g, n, m[g][n]>>
      BY <3>1
    <3>3. n \in NamesOf(W, g) /\ W[g][n] = m[g][n]
      BY <1>16
    <3>4. d[3] = m[g][n] /\ (c.excludeLinks => m[g][n].proto # "link")
      BY <3>2 DEF Kept
    <3> QED BY <3>2, <3>3, <3>4, <2>1
  <2> HIDE DEF deps
  <2> QED BY <2>3, <2>4
<1> HIDE DEF deps
<1> QED BY <1>11, <1>17 DEF E

(* A lockfile is accepted, with and without --frozen-lockfile, by the      *)
(* manifest that it was made from, and only by one that comes to the same: *)
(* for any groups, specifiers, workspace, overrides and settings           *)
(* (satisfies_package_manifest_with_catalogs, lockfile_is_reusable,        *)
(* build_project_snapshot).                                                *)
THEOREM LockfileAcceptedExactly == DecisionSpec => []AcceptedExactly
<1>1. AnswersInv => AcceptedExactly
  <2> SUFFICES ASSUME AnswersInv, Answered("lockfile"), answer.value # Failed, Ordinary(query)
               PROVE  AcceptedExactly
    BY DEF AcceptedExactly, SavedAccepted, AcceptedAgrees
  <2> DEFINE q == query
             e == Edited(q)
             c == q.config
  <2>1. Asked(q) /\ InstallAsked(q) /\ answer = Installed(q)
    BY DEF AnswersInv, AnswerIs, Answered, Asked
  <2>2. Whole(q)
    <3>1. ResolvedAll(q) = Failed => answer.value = Failed
      BY <2>1 DEF Installed
    <3> QED BY <2>1, <3>1 DEF Whole
  <2>3. /\ answer.value = Saved(q)
        /\ answer.reused = Reusable(Saved(q), "a", e, c, q.workspace)
        /\ answer.frozen = FrozenAccepts(Saved(q), "a", e, c)
    BY <2>1, <2>2 DEF Installed, Whole
  <2>4. /\ "a" \in DOMAIN Saved(q).importers /\ Saved(q).importers["a"] = Entry(q)
        /\ Saved(q).version >= 9 /\ PatchesMatch(Saved(q), c)
        /\ OutdatedSetting(Saved(q), c) = None
    BY <2>2, SavedIs
  <2>5. SavedAccepted
    <3> SUFFICES ASSUME q.edit = None
                 PROVE  /\ answer.frozen
                        /\ ~ (q.injected \/ c.inject) => answer.reused
      BY DEF SavedAccepted
    <3>1. e = q.manifest
      BY DEF Edited
    <3>2. SatisfiesManifest(Entry(q), e, c, Saved(q).version >= 9)
      <4>1. SatisfiesManifest(Entry(q), e, c, TRUE)
        BY <2>2, <3>1, OriginalSatisfies
      <4> QED BY <4>1, <2>4
    <3>3. ~ (q.injected \/ c.inject) => LinksMatch(Entry(q), e, c, q.workspace)
      BY <2>2, <3>1, OriginalLinks
    <3> HIDE DEF e
    <3> QED BY <2>3, <2>4, <3>2, <3>3 DEF FrozenAccepts, Reusable
  <2>6. AcceptedAgrees
    <3> SUFFICES ASSUME answer.frozen
                 PROVE  Effective(e, Saved(q).importers["a"], c)
                          = Effective(q.manifest, Saved(q).importers["a"], c)
      BY <2>3 DEF AcceptedAgrees
    <3>1. SatisfiesManifest(Entry(q), e, c, TRUE)
      <4>1. SatisfiesManifest(Entry(q), e, c, Saved(q).version >= 9)
        BY <2>3, <2>4 DEF FrozenAccepts
      <4> QED BY <4>1, <2>4
    <3>2. IsManifest(e)
      BY <2>1 DEF InstallAsked, Edited
    <3> HIDE DEF e
    <3>3. Effective(e, Entry(q), c) = Listing(q)
      BY <2>2, <3>1, <3>2, AcceptedEffective
    <3>4. Effective(q.manifest, Entry(q), c) = Listing(q)
      BY <2>2, OriginalEffective
    <3> QED BY <2>4, <3>3, <3>4
  <2> QED BY <2>5, <2>6 DEF AcceptedExactly
<1> QED BY <1>1, AnswersHold, PTL
-----------------------------------------------------------------------------
(* The lockfile as a file. *)

LEMMA KeyIs ==
  ASSUME NEW k, k = Files!Key(k.registry, k.name, k.v, k.peers, k.local)
  PROVE  /\ Files!PackageId(Files!PackageId(k)) = Files!PackageId(k)
         /\ Files!PackageId(k).registry = k.registry
         /\ k.registry = None => Files!ParsedKey(k) = k
         /\ k.registry = None => Files!ParsedKey(Files!PackageId(k)) = Files!PackageId(k)
<1>1. /\ Files!PackageId(Files!PackageId(k)) = Files!PackageId(k)
      /\ Files!PackageId(k).registry = k.registry
  BY DEF Files!PackageId, Files!Key
<1> QED BY <1>1 DEF Files!ParsedKey

(* A lockfile that has nothing which a reader takes for something else. *)
TidyImporter(importer) ==
  /\ importer = [f \in Groups \cup {"specifiers"} |-> importer[f]]
  /\ ~ Files!Conflicting(importer)
  /\ importer.specifiers = Files!Specifiers(importer)

TidyPackage(packages, k) ==
  /\ k = Files!Key(k.registry, k.name, k.v, k.peers, k.local) /\ k.registry = None
  /\ packages[k] = [info |-> packages[k].info, deps |-> packages[k].deps]
  /\ packages[k].info # Failed
  /\ packages[k].deps = [n \in DOMAIN packages[k].deps |-> packages[k].deps[n]]
  /\ \A n \in DOMAIN packages[k].deps :
       Files!ParsedDep(packages[k].deps[n]) = packages[k].deps[n]
  /\ \A j \in DOMAIN packages :
       Files!PackageId(j) = Files!PackageId(k) => packages[j].info = packages[k].info

Tidy(L) ==
  /\ L.importers = [i \in DOMAIN L.importers |-> L.importers[i]]
  /\ \A i \in DOMAIN L.importers : TidyImporter(L.importers[i])
  /\ L.packages = [k \in DOMAIN L.packages |-> L.packages[k]]
  /\ \A k \in DOMAIN L.packages : TidyPackage(L.packages, k)

Bare(importer) == [g \in Groups |-> importer[g]]

LEMMA BareIs ==
  ASSUME NEW importer, TidyImporter(importer)
  PROVE  /\ ~ Files!Conflicting(Bare(importer))
         /\ Files!Over(Bare(importer), [specifiers |-> Files!Specifiers(Bare(importer))]) = importer
<1> DEFINE b == Bare(importer)
           S == Files!Specifiers(importer)
<1>1. \A g \in Groups : b[g] = importer[g]
  BY DEF Bare
<1>2. ~ Files!Conflicting(b)
  BY <1>1 DEF TidyImporter, Files!Conflicting, Files!Groups, Groups
<1>3. Files!Specifiers(b) = S
  <2>1. b["prod"] = importer["prod"] /\ b["optional"] = importer["optional"]
        /\ b["dev"] = importer["dev"]
    BY <1>1 DEF Groups
  <2> HIDE DEF b
  <2> QED BY <2>1 DEF Files!Specifiers
<1>4. DOMAIN b = Groups /\ "specifiers" \notin Groups
  BY DEF Bare, Groups
<1>5. S = importer["specifiers"]
  BY DEF TidyImporter
<1> HIDE DEF S, b
<1> DEFINE O == Files!Over(b, [specifiers |-> S])
<1>6. /\ O = [f \in Groups \cup {"specifiers"} |-> O[f]]
      /\ \A f \in Groups : O[f] = importer[f]
      /\ O["specifiers"] = importer["specifiers"]
  BY <1>1, <1>4, <1>5 DEF Files!Over
<1>7. importer = [f \in Groups \cup {"specifiers"} |-> importer[f]]
  BY DEF TidyImporter
<1> HIDE DEF O
<1>8. O = importer
  BY <1>6, <1>7
<1> QED BY <1>2, <1>3, <1>8 DEF b, O

(* What is made of a lockfile that was read. *)
Back(L, settings, rest) ==
  [version |-> 9, single |-> DOMAIN L.importers = {"."}, settings |-> settings,
   neverBuilt |-> None, rest |-> rest, importers |-> L.importers, packages |-> L.packages]

LEMMA FromFileIs ==
  ASSUME NEW L, Tidy(L), NEW F,
         F.importers = [i \in DOMAIN L.importers |-> Bare(L.importers[i])],
         F.infos = Files!ToV9(L).infos, F.snapshots = Files!ToV9(L).snapshots
  PROVE  Files!FromV9(F) = Back(L, F.settings, F.rest)
<1> DEFINE keys == DOMAIN L.packages
           infos == F.infos
           snapshots == F.snapshots
           Parsed == {Files!ParsedKey(k) : k \in DOMAIN snapshots}
           Infos == [id \in {Files!ParsedKey(k) : k \in DOMAIN infos} |->
                       infos[CHOOSE k \in DOMAIN infos : Files!ParsedKey(k) = id]]
           DepsAt(k) == snapshots[CHOOSE j \in DOMAIN snapshots : Files!ParsedKey(j) = k]
           importers == [i \in DOMAIN F.importers |->
                           Files!Over(F.importers[i],
                                      [specifiers |-> Files!Specifiers(F.importers[i])])]
           packages == [k \in Parsed |->
                          [info |-> Files!InfoOf(Infos, k),
                           deps |-> [n \in DOMAIN DepsAt(k) |-> Files!ParsedDep(DepsAt(k)[n])]]]
<1>1. /\ infos = [id \in {Files!PackageId(k) : k \in keys} |->
                    L.packages[CHOOSE k \in keys : Files!PackageId(k) = id].info]
      /\ snapshots = [k \in keys |-> L.packages[k].deps]
  BY DEF Files!ToV9
<1>2. \A k \in keys : TidyPackage(L.packages, k)
  BY DEF Tidy
<1>3. ASSUME NEW k \in keys
      PROVE  /\ Files!ParsedKey(k) = k
             /\ Files!PackageId(Files!PackageId(k)) = Files!PackageId(k)
             /\ Files!ParsedKey(Files!PackageId(k)) = Files!PackageId(k)
  BY <1>2, KeyIs DEF TidyPackage
<1> HIDE DEF infos, snapshots
<1>4. DOMAIN infos = {Files!PackageId(k) : k \in keys} /\ DOMAIN snapshots = keys
  BY <1>1
<1>5. ASSUME NEW k \in keys
      PROVE  infos[Files!PackageId(k)] = L.packages[k].info
  <2> DEFINE j == CHOOSE j \in keys : Files!PackageId(j) = Files!PackageId(k)
  <2>1. j \in keys /\ Files!PackageId(j) = Files!PackageId(k)
    OBVIOUS
  <2>2. infos[Files!PackageId(k)] = L.packages[j].info
    BY <1>1
  <2> HIDE DEF j
  <2>3. L.packages[j].info = L.packages[k].info
    BY <2>1, <1>2 DEF TidyPackage
  <2> QED BY <2>2, <2>3
<1>6. Infos = infos
  <2>1. \A id \in DOMAIN infos : Files!ParsedKey(id) = id
    BY <1>3, <1>4
  <2>2. {Files!ParsedKey(k) : k \in DOMAIN infos} = DOMAIN infos
    BY <2>1
  <2>3. \A id \in DOMAIN infos : (CHOOSE k \in DOMAIN infos : Files!ParsedKey(k) = id) = id
    BY <2>1
  <2>4. infos = [id \in DOMAIN infos |-> infos[id]]
    BY <1>1
  <2> QED BY <2>2, <2>3, <2>4
<1>7. Parsed = keys
  BY <1>3, <1>4
<1>8. ASSUME NEW k \in keys
      PROVE  DepsAt(k) = L.packages[k].deps
  <2>1. (CHOOSE j \in DOMAIN snapshots : Files!ParsedKey(j) = k) = k
    BY <1>3, <1>4
  <2>2. snapshots[k] = L.packages[k].deps
    BY <1>1
  <2> QED BY <2>1, <2>2
<1>9. ASSUME NEW k \in keys
      PROVE  Files!InfoOf(Infos, k) = L.packages[k].info
  <2>1. infos[Files!PackageId(k)] = L.packages[k].info /\ Files!PackageId(k) \in DOMAIN infos
    BY <1>4, <1>5
  <2>2. k \in DOMAIN infos => Files!PackageId(k) = k
    BY <1>3, <1>4
  <2> HIDE DEF Infos
  <2> QED BY <2>1, <2>2, <1>6 DEF Files!InfoOf
<1>10. packages = L.packages
  <2> DEFINE Package(k) == [info |-> Files!InfoOf(Infos, k),
                         deps |-> [n \in DOMAIN DepsAt(k) |-> Files!ParsedDep(DepsAt(k)[n])]]
  <2>1. ASSUME NEW k \in keys
        PROVE  Package(k) = L.packages[k]
    <3> DEFINE p == L.packages[k]
               d == p.deps
               back == [n \in DOMAIN DepsAt(k) |-> Files!ParsedDep(DepsAt(k)[n])]
    <3>1. back = [n \in DOMAIN d |-> Files!ParsedDep(d[n])]
      BY <1>8
    <3>2. /\ d = [n \in DOMAIN d |-> d[n]]
          /\ \A n \in DOMAIN d : Files!ParsedDep(d[n]) = d[n]
          /\ p = [info |-> p.info, deps |-> d]
      BY <1>2 DEF TidyPackage
    <3>3. back = d
      <4> HIDE DEF d, back
      <4> QED BY <3>1, <3>2
    <3>4. Package(k) = [info |-> Files!InfoOf(Infos, k), deps |-> back]
      OBVIOUS
    <3> HIDE DEF back, Infos, Package
    <3> QED BY <3>2, <3>3, <3>4, <1>9
  <2>2. packages = [k \in Parsed |-> Package(k)]
    OBVIOUS
  <2>3. L.packages = [k \in keys |-> L.packages[k]]
    BY DEF Tidy
  <2> HIDE DEF Package, packages, Parsed
  <2> QED BY <2>1, <2>2, <2>3, <1>7
<1>11. importers = L.importers
  <2>1. DOMAIN F.importers = DOMAIN L.importers
    OBVIOUS
  <2>2. ASSUME NEW i \in DOMAIN L.importers
        PROVE  Files!Over(F.importers[i], [specifiers |-> Files!Specifiers(F.importers[i])])
                 = L.importers[i]
    <3>1. F.importers[i] = Bare(L.importers[i])
      OBVIOUS
    <3>2. TidyImporter(L.importers[i])
      BY DEF Tidy
    <3> QED BY <3>1, <3>2, BareIs
  <2>3. L.importers = [i \in DOMAIN L.importers |-> L.importers[i]]
    BY DEF Tidy
  <2> QED BY <2>1, <2>2, <2>3
<1>12. ~ (\/ \E i \in DOMAIN F.importers : Files!Conflicting(F.importers[i])
          \/ \E k \in Parsed : Files!InfoOf(Infos, k) = Failed)
  <2>1. ASSUME NEW i \in DOMAIN F.importers
        PROVE  ~ Files!Conflicting(F.importers[i])
    <3>1. F.importers[i] = Bare(L.importers[i]) /\ TidyImporter(L.importers[i])
      BY DEF Tidy
    <3> QED BY <3>1, BareIs
  <2>2. \A k \in keys : L.packages[k].info # Failed
    BY <1>2 DEF TidyPackage
  <2> HIDE DEF Parsed, Infos
  <2> QED BY <2>1, <2>2, <1>7, <1>9
<1>13. Files!FromV9(F) =
         IF \/ \E i \in DOMAIN F.importers : Files!Conflicting(F.importers[i])
            \/ \E k \in Parsed : Files!InfoOf(Infos, k) = Failed
         THEN Failed
         ELSE [version |-> 9, single |-> DOMAIN F.importers = {"."}, settings |-> F.settings,
               neverBuilt |-> None, rest |-> F.rest, importers |-> importers,
               packages |-> packages]
  BY DEF Files!FromV9, infos, snapshots
<1>14. DOMAIN F.importers = DOMAIN L.importers
  OBVIOUS
<1> HIDE DEF Parsed, Infos, importers, packages
<1> QED BY <1>10, <1>11, <1>12, <1>13, <1>14 DEF Back

(* ... and nothing that is written as something else. *)
Legible(L) ==
  /\ \A i \in DOMAIN L.importers : \A g \in Groups :
       Files!WrittenDeps(L.importers[i][g]) = L.importers[i][g]
  /\ \A k \in DOMAIN L.packages : ~ Files!HasComma(L.packages[k].info)

LEMMA HookedIs ==
  ASSUME NEW L, Tidy(L)
  PROVE  Files!ThroughHook(L) = Back(L, L.settings, L.rest)
<1> DEFINE F == Files!ToV9(L)
<1>1. F.importers = [i \in DOMAIN L.importers |-> Bare(L.importers[i])]
  BY DEF Files!ToV9, Bare, Files!Groups, Groups
<1>2. F.settings = L.settings /\ F.rest = L.rest
  BY DEF Files!ToV9
<1>3. Files!ThroughHook(L) = Files!FromV9(F)
  BY DEF Files!ThroughHook
<1> HIDE DEF F
<1>4. F.infos = Files!ToV9(L).infos /\ F.snapshots = Files!ToV9(L).snapshots
  BY DEF F
<1> QED BY <1>1, <1>2, <1>3, <1>4, FromFileIs

LEMMA RenderedIs ==
  ASSUME NEW L
  PROVE  LET F == Files!Render(L) IN
         /\ F.importers = [i \in DOMAIN L.importers |->
                             [g \in Groups |-> Files!WrittenDeps(L.importers[i][g])]]
         /\ F.infos = Files!ToV9(L).infos /\ F.snapshots = Files!ToV9(L).snapshots
         /\ F.settings = Files!NormalizedSettings(L.settings) /\ F.rest = L.rest
<1> DEFINE v9 == Files!ToV9(L)
           F == Files!Render(L)
<1>1. /\ v9.importers = [i \in DOMAIN L.importers |-> [g \in Groups |-> L.importers[i][g]]]
      /\ v9.settings = L.settings /\ v9.rest = L.rest
      /\ DOMAIN v9 = {"version", "settings", "rest", "importers", "infos", "snapshots"}
  BY DEF Files!ToV9, Files!Groups, Groups
<1>2. F = [v9 EXCEPT !.settings = Files!NormalizedSettings(@),
                     !.importers = [i \in DOMAIN @ |->
                                      [g \in Groups |-> Files!WrittenDeps(v9.importers[i][g])]]]
  BY DEF Files!Render, Files!Groups, Groups
<1> HIDE DEF v9
<1>3. /\ F.infos = v9.infos /\ F.snapshots = v9.snapshots /\ F.rest = v9.rest
      /\ F.settings = Files!NormalizedSettings(v9.settings)
      /\ F.importers = [i \in DOMAIN v9.importers |->
                          [g \in Groups |-> Files!WrittenDeps(v9.importers[i][g])]]
  BY <1>1, <1>2
<1>4. F.importers = [i \in DOMAIN L.importers |->
                       [g \in Groups |-> Files!WrittenDeps(L.importers[i][g])]]
  BY <1>1, <1>3
<1> HIDE DEF F
<1> QED BY <1>1, <1>3, <1>4 DEF F, v9

LEMMA ReloadedIs ==
  ASSUME NEW L, Tidy(L), Legible(L)
  PROVE  Files!Reloaded(L) = Back(L, Files!NormalizedSettings(L.settings), L.rest)
<1> DEFINE F == Files!Render(L)
<1>1. /\ F.infos = Files!ToV9(L).infos /\ F.snapshots = Files!ToV9(L).snapshots
      /\ F.settings = Files!NormalizedSettings(L.settings) /\ F.rest = L.rest
      /\ F.importers = [i \in DOMAIN L.importers |->
                          [g \in Groups |-> Files!WrittenDeps(L.importers[i][g])]]
  BY RenderedIs
<1> HIDE DEF F
<1>2. F.importers = [i \in DOMAIN L.importers |-> Bare(L.importers[i])]
  <2>1. \A i \in DOMAIN L.importers :
          [g \in Groups |-> Files!WrittenDeps(L.importers[i][g])] = Bare(L.importers[i])
    BY DEF Legible, Bare
  <2> QED BY <2>1, <1>1
<1>3. Files!FromV9(F) = Back(L, Files!NormalizedSettings(L.settings), L.rest)
  BY <1>1, <1>2, FromFileIs
<1>4. \A id \in DOMAIN F.infos : ~ Files!HasComma(F.infos[id])
  <2> DEFINE keys == DOMAIN L.packages
  <2>1. F.infos = [id \in {Files!PackageId(k) : k \in keys} |->
                     L.packages[CHOOSE k \in keys : Files!PackageId(k) = id].info]
    BY <1>1 DEF Files!ToV9
  <2> SUFFICES ASSUME NEW id \in DOMAIN F.infos PROVE ~ Files!HasComma(F.infos[id])
    OBVIOUS
  <2>2. \E k \in keys : Files!PackageId(k) = id
    BY <2>1
  <2>3. (CHOOSE k \in keys : Files!PackageId(k) = id) \in keys
    BY <2>2
  <2> QED BY <2>1, <2>3 DEF Legible
<1>5. Files!Reloaded(L) = Files!FromV9(F)
  BY <1>4 DEF Files!Reloaded, Files!Parse, F
<1> QED BY <1>3, <1>5

(* Settings that are not written stand for what they were. *)
SettingOf(s, default, field) ==
  IF s = None THEN default[field] ELSE IF s[field] = None THEN default[field] ELSE s[field]

LEMMA SettingsAre ==
  ASSUME NEW s, s = None \/ s \in RecordedSettings, NEW t, t = Files!NormalizedSettings(s)
  PROVE  /\ t = None \/ t \in RecordedSettings
         /\ Files!NormalizedSettings(t) = t
         /\ \A default \in RecordedSettings :
              (\A field \in DOMAIN Files!Omitted : default[field] = Files!Omitted[field]) =>
                \A field \in DOMAIN default :
                  SettingOf(t, default, field) = SettingOf(s, default, field)
<1>1. CASE s = None
  BY <1>1 DEF Files!NormalizedSettings, SettingOf
<1>2. CASE s # None
  <2> DEFINE O == Files!Omitted
             fields == {"autoInstallPeers", "excludeLinks", "peersSuffix", "inject",
                        "dedupePeers"}
             u == [field \in DOMAIN s |->
                     IF field \in DOMAIN O /\ s[field] = O[field] THEN None ELSE s[field]]
             nothing == \A field \in DOMAIN u : u[field] = None
  <2>1. s \in RecordedSettings
    BY <1>2
  <2>2. t = IF nothing THEN None ELSE u
    BY <1>2 DEF Files!NormalizedSettings
  <2>3. DOMAIN s = fields
    BY <2>1 DEF RecordedSettings
  <2> HIDE DEF O
  <2>4. \A field \in fields :
          u[field] = IF field \in DOMAIN O /\ s[field] = O[field] THEN None ELSE s[field]
    BY <2>3
  <2>5. u = [field \in fields |-> u[field]] /\ DOMAIN u = fields
    BY <2>3
  <2>6. u \in RecordedSettings
    <3> DEFINE r == [autoInstallPeers |-> u.autoInstallPeers, excludeLinks |-> u.excludeLinks,
                     peersSuffix |-> u.peersSuffix, inject |-> u.inject,
                     dedupePeers |-> u.dedupePeers]
    <3>1. \A field \in fields : u[field] = None \/ u[field] = s[field]
      BY <2>4
    <3> HIDE DEF u
    <3>2. u = r
      BY <2>5
    <3>3. r \in RecordedSettings
      BY <3>1, <2>1 DEF RecordedSettings
    <3> QED BY <3>2, <3>3
  <2>7. u # None
    <3> HIDE DEF u
    <3> QED BY <2>6, NoneAssumption
  <2>8. Files!NormalizedSettings(u) = IF nothing THEN None ELSE u
    <3> DEFINE w == [field \in DOMAIN u |->
                       IF field \in DOMAIN O /\ u[field] = O[field] THEN None ELSE u[field]]
    <3>1. Files!NormalizedSettings(u) =
            IF \A field \in DOMAIN w : w[field] = None THEN None ELSE w
      <4> HIDE DEF u
      <4> QED BY <2>7 DEF Files!NormalizedSettings, O
    <3>2. \A field \in fields :
            (IF field \in DOMAIN O /\ u[field] = O[field] THEN None ELSE u[field]) = u[field]
      BY <2>4
    <3>3. w = u
      <4> HIDE DEF u
      <4> QED BY <2>5, <3>2
    <3> HIDE DEF w
    <3> QED BY <3>1, <3>3
  <2> HIDE DEF u
  <2>9. t = None \/ t \in RecordedSettings
    BY <2>2, <2>6
  <2>10. Files!NormalizedSettings(t) = t
    <3>1. CASE nothing
      BY <2>2, <3>1 DEF Files!NormalizedSettings
    <3>2. CASE ~ nothing
      <4> HIDE DEF nothing
      <4> QED BY <2>2, <2>8, <3>2
    <3> QED BY <3>1, <3>2
  <2>11. ASSUME NEW default \in RecordedSettings,
                \A field \in DOMAIN O : default[field] = O[field],
                NEW field \in DOMAIN default
         PROVE  SettingOf(t, default, field) = SettingOf(s, default, field)
    <3>1. field \in fields
      BY DEF RecordedSettings
    <3>2. SettingOf(u, default, field) = SettingOf(s, default, field)
      BY <1>2, <2>4, <2>7, <2>11, <3>1 DEF SettingOf
    <3>3. nothing => SettingOf(u, default, field) = default[field]
      BY <2>5, <3>1 DEF SettingOf
    <3> QED BY <2>2, <3>2, <3>3 DEF SettingOf
  <2> QED BY <2>9, <2>10, <2>11 DEF O
<1> QED BY <1>1, <1>2

(* What is made of a file that was read is tidy, whatever the file had.    *)
LEMMA PlainDeps ==
  ASSUME NEW d, d = [n \in DOMAIN d |-> d[n]],
         \A n \in DOMAIN d : Files!WrittenName(n) = n
  PROVE  Files!WrittenDeps(d) = d
<1>1. {Files!WrittenName(m) : m \in DOMAIN d} = DOMAIN d
  OBVIOUS
<1>2. \A n \in DOMAIN d : (CHOOSE m \in DOMAIN d : Files!WrittenName(m) = n) = n
  OBVIOUS
<1> QED BY <1>1, <1>2 DEF Files!WrittenDeps

LEMMA WrittenOnce ==
  ASSUME NEW d, NEW w, w = Files!WrittenDeps(d)
  PROVE  Files!WrittenDeps(w) = w
<1>1. DOMAIN w = {Files!WrittenName(m) : m \in DOMAIN d} /\ w = [n \in DOMAIN w |-> w[n]]
  BY DEF Files!WrittenDeps
<1>2. \A m : Files!WrittenName(Files!WrittenName(m)) = Files!WrittenName(m)
  BY DEF Files!WrittenName, Files!Field
<1>3. \A n \in DOMAIN w : Files!WrittenName(n) = n
  BY <1>1, <1>2
<1> QED BY <1>1, <1>3, PlainDeps

LEMMA ImporterMade ==
  ASSUME NEW b, b = [g \in Groups |-> b[g]], ~ Files!Conflicting(b),
         NEW importer, importer = Files!Over(b, [specifiers |-> Files!Specifiers(b)])
  PROVE  TidyImporter(importer) /\ Bare(importer) = b
<1> DEFINE S == Files!Specifiers(b)
<1>1. DOMAIN b = Groups /\ "specifiers" \notin Groups
  BY DEF Groups
<1> HIDE DEF S
<1>2. /\ importer = [f \in Groups \cup {"specifiers"} |-> importer[f]]
      /\ \A g \in Groups : importer[g] = b[g]
      /\ importer.specifiers = S
  BY <1>1 DEF Files!Over, S
<1>3. ~ Files!Conflicting(importer)
  BY <1>2 DEF Files!Conflicting, Files!Groups, Groups
<1>4. Files!Specifiers(importer) = S
  <2>1. b["prod"] = importer["prod"] /\ b["optional"] = importer["optional"]
        /\ b["dev"] = importer["dev"]
    BY <1>2 DEF Groups
  <2> QED BY <2>1 DEF Files!Specifiers, S
<1>5. Bare(importer) = b
  BY <1>2 DEF Bare
<1> QED BY <1>2, <1>3, <1>4, <1>5 DEF TidyImporter

LEMMA ParsedKeyIs ==
  ASSUME NEW k, k = Files!Key(k.registry, k.name, k.v, k.peers, k.local),
         k.local \in BOOLEAN, k.local => k.registry = None,
         NEW p, p = Files!ParsedKey(k)
  PROVE  /\ p = Files!Key(p.registry, p.name, p.v, p.peers, p.local) /\ p.registry = None
         /\ Files!PackageId(Files!ParsedKey(Files!PackageId(k)))
              = Files!ParsedKey(Files!PackageId(k))
<1>1. p = Files!Key(p.registry, p.name, p.v, p.peers, p.local) /\ p.registry = None
  BY DEF Files!ParsedKey, Files!Key
<1>2. CASE k.local
  BY <1>2 DEF Files!PackageId, Files!ParsedKey
<1>3. CASE ~ k.local
  <2> DEFINE id == Files!Key(k.registry, k.name, k.v, "none", k.local)
  <2>1. Files!PackageId(k) = id
    BY <1>3 DEF Files!PackageId, Files!Key
  <2>2. CASE k.registry = None
    <3>1. Files!ParsedKey(id) = id
      BY <2>2 DEF Files!ParsedKey, Files!Key
    <3>2. Files!PackageId(id) = id
      BY <1>3 DEF Files!PackageId, Files!Key
    <3> HIDE DEF id
    <3> QED BY <1>1, <2>1, <3>1, <3>2
  <2>3. CASE k.registry # None
    <3> DEFINE named == <<k.registry, k.name>>
               parsed == [registry |-> None, name |-> named, v |-> k.v, peers |-> "none",
                          local |-> FALSE]
    <3>1. Files!ParsedKey(id) = parsed
      BY <2>3 DEF Files!ParsedKey, Files!Key
    <3>2. Files!PackageId(parsed) = parsed
      BY DEF Files!PackageId
    <3> HIDE DEF id, parsed
    <3> QED BY <1>1, <2>1, <3>1, <3>2
  <2> QED BY <2>2, <2>3
<1> QED BY <1>1, <1>2, <1>3

LEMMA ReadIsTidy ==
  ASSUME NEW L, IsLockfile(L), NEW F,
         F.importers = [i \in DOMAIN L.importers |->
                          [g \in Groups |-> Files!WrittenDeps(L.importers[i][g])]],
         F.infos = Files!ToV9(L).infos, F.snapshots = Files!ToV9(L).snapshots,
         \A id \in DOMAIN F.infos : ~ Files!HasComma(F.infos[id]),
         NEW T, T = Files!FromV9(F), T # Failed
  PROVE  /\ Tidy(T) /\ Legible(T)
         /\ T = Back(T, F.settings, F.rest)
         /\ T.settings = F.settings /\ T.rest = F.rest
<1> DEFINE keys == DOMAIN L.packages
           infos == F.infos
           snapshots == F.snapshots
           Parsed == {Files!ParsedKey(k) : k \in DOMAIN snapshots}
           Infos == [id \in {Files!ParsedKey(k) : k \in DOMAIN infos} |->
                       infos[CHOOSE k \in DOMAIN infos : Files!ParsedKey(k) = id]]
           DepsAt(k) == snapshots[CHOOSE j \in DOMAIN snapshots : Files!ParsedKey(j) = k]
           importers == [i \in DOMAIN F.importers |->
                           Files!Over(F.importers[i],
                                      [specifiers |-> Files!Specifiers(F.importers[i])])]
           Package(k) == [info |-> Files!InfoOf(Infos, k),
                       deps |-> [n \in DOMAIN DepsAt(k) |-> Files!ParsedDep(DepsAt(k)[n])]]
           packages == [k \in Parsed |-> Package(k)]
           conflict == \/ \E i \in DOMAIN F.importers : Files!Conflicting(F.importers[i])
                       \/ \E k \in Parsed : Files!InfoOf(Infos, k) = Failed
           single == DOMAIN F.importers = {"."}
           made == [version |-> 9, single |-> single, settings |-> F.settings,
                    neverBuilt |-> None, rest |-> F.rest, importers |-> importers,
                    packages |-> packages]
<1>1. T = IF conflict THEN Failed ELSE made
  BY DEF Files!FromV9
<1>2. ~ conflict /\ T = made
  <2> HIDE DEF conflict, made
  <2> QED BY <1>1
<1>3. /\ infos = [id \in {Files!PackageId(k) : k \in keys} |->
                    L.packages[CHOOSE k \in keys : Files!PackageId(k) = id].info]
      /\ snapshots = [k \in keys |-> L.packages[k].deps]
  BY DEF Files!ToV9
<1> HIDE DEF infos, snapshots
<1>4. DOMAIN infos = {Files!PackageId(k) : k \in keys} /\ DOMAIN snapshots = keys
  BY <1>3
<1>5. ASSUME NEW k \in keys
      PROVE  /\ k = Files!Key(k.registry, k.name, k.v, k.peers, k.local)
             /\ k.local \in BOOLEAN /\ (k.local => k.registry = None)
  BY DEF IsLockfile, ArePackages
<1>6. T.importers = importers /\ T.packages = packages
      /\ T.settings = F.settings /\ T.rest = F.rest
  <2> HIDE DEF importers, packages, single
  <2> QED BY <1>2
<1>7. /\ DOMAIN T.importers = DOMAIN F.importers
      /\ T.importers = [i \in DOMAIN T.importers |-> T.importers[i]]
  BY <1>6
<1>8. ASSUME NEW i \in DOMAIN T.importers
      PROVE  /\ TidyImporter(T.importers[i])
             /\ \A g \in Groups :
                  Files!WrittenDeps(T.importers[i][g]) = T.importers[i][g]
  <2> DEFINE b == F.importers[i]
  <2>1. i \in DOMAIN L.importers
    BY <1>7
  <2>2. b = [g \in Groups |-> Files!WrittenDeps(L.importers[i][g])]
    BY <2>1
  <2>3. T.importers[i] = Files!Over(b, [specifiers |-> Files!Specifiers(b)])
    BY <1>6, <1>7
  <2>4. ~ Files!Conflicting(b)
    BY <1>2, <1>7
  <2>5. \A g \in Groups : Files!WrittenDeps(b[g]) = b[g]
    <3> SUFFICES ASSUME NEW g \in Groups PROVE Files!WrittenDeps(b[g]) = b[g]
      OBVIOUS
    <3>1. b[g] = Files!WrittenDeps(L.importers[i][g])
      BY <2>2
    <3> QED BY <3>1, WrittenOnce
  <2> HIDE DEF b
  <2>6. b = [g \in Groups |-> b[g]]
    BY <2>2
  <2>7. TidyImporter(T.importers[i]) /\ Bare(T.importers[i]) = b
    BY <2>3, <2>4, <2>6, ImporterMade
  <2>8. \A g \in Groups : T.importers[i][g] = b[g]
    BY <2>7 DEF Bare
  <2> QED BY <2>5, <2>7, <2>8
<1>9. DOMAIN T.packages = Parsed /\ \A p \in Parsed : T.packages[p] = Package(p)
  <2> HIDE DEF Parsed, Package
  <2> QED BY <1>6
<1>10. ASSUME NEW p \in Parsed
       PROVE  /\ p = Files!Key(p.registry, p.name, p.v, p.peers, p.local) /\ p.registry = None
  <2>1. PICK k \in keys : p = Files!ParsedKey(k)
    BY <1>4
  <2> QED BY <2>1, <1>5, ParsedKeyIs
<1>11. \A id \in DOMAIN Infos : Files!PackageId(id) = id
  <2> SUFFICES ASSUME NEW id \in DOMAIN Infos PROVE Files!PackageId(id) = id
    OBVIOUS
  <2>1. PICK k \in keys : id = Files!ParsedKey(Files!PackageId(k))
    BY <1>4
  <2> QED BY <2>1, <1>5, ParsedKeyIs
<1>12. ASSUME NEW p \in Parsed
       PROVE  /\ T.packages[p].info = Infos[Files!PackageId(p)]
              /\ Files!PackageId(p) \in DOMAIN Infos
              /\ T.packages[p].info # Failed
              /\ T.packages[p] = [info |-> T.packages[p].info, deps |-> T.packages[p].deps]
  <2>1. T.packages[p].info = Files!InfoOf(Infos, p) /\ Files!InfoOf(Infos, p) # Failed
        /\ T.packages[p] = [info |-> T.packages[p].info, deps |-> T.packages[p].deps]
    <3>1. Files!InfoOf(Infos, p) # Failed
      BY <1>2
    <3> DEFINE deps == [n \in DOMAIN DepsAt(p) |-> Files!ParsedDep(DepsAt(p)[n])]
    <3>2. T.packages[p] = [info |-> Files!InfoOf(Infos, p), deps |-> deps]
      BY <1>9
    <3> HIDE DEF Infos, deps
    <3> QED BY <3>1, <3>2
  <2> HIDE DEF Infos, Package, packages
  <2>2. p \in DOMAIN Infos => Files!PackageId(p) = p
    BY <1>11
  <2>3. Files!PackageId(p) \in DOMAIN Infos /\ Files!InfoOf(Infos, p) = Infos[Files!PackageId(p)]
    BY <2>1, <2>2 DEF Files!InfoOf
  <2> QED BY <2>1, <2>3
<1>13. \A id \in DOMAIN Infos : ~ Files!HasComma(Infos[id])
  <2> SUFFICES ASSUME NEW id \in DOMAIN Infos PROVE ~ Files!HasComma(Infos[id])
    OBVIOUS
  <2>1. (CHOOSE k \in DOMAIN infos : Files!ParsedKey(k) = id) \in DOMAIN infos
    OBVIOUS
  <2> QED BY <2>1 DEF infos
<1>14. ASSUME NEW p \in Parsed
       PROVE  LET d == T.packages[p].deps IN
              d = [n \in DOMAIN d |-> d[n]] /\ \A n \in DOMAIN d : Files!ParsedDep(d[n]) = d[n]
  <2> DEFINE d == T.packages[p].deps
             D == DepsAt(p)
             parsed == [n \in DOMAIN D |-> Files!ParsedDep(D[n])]
  <2>1. d = parsed
    <3>1. T.packages[p] = [info |-> Files!InfoOf(Infos, p), deps |-> parsed]
      BY <1>9
    <3> HIDE DEF parsed, Infos
    <3> QED BY <3>1
  <2> HIDE DEF D
  <2>2. \A x : Files!ParsedDep(Files!ParsedDep(x)) = Files!ParsedDep(x)
    BY DEF Files!ParsedDep, Files!Dep
  <2>3. d = [n \in DOMAIN d |-> d[n]] /\ \A n \in DOMAIN d : Files!ParsedDep(d[n]) = d[n]
    BY <2>1, <2>2
  <2> QED BY <2>3
<1> HIDE DEF Infos, Package, importers, Parsed
<1>15. ASSUME NEW p \in Parsed
       PROVE  TidyPackage(T.packages, p)
  <2>1. \A j \in Parsed : Files!PackageId(j) = Files!PackageId(p) =>
                            T.packages[j].info = T.packages[p].info
    <3>1. \A j \in Parsed : T.packages[j].info = Infos[Files!PackageId(j)]
      BY <1>12
    <3> QED BY <3>1
  <2> QED BY <1>9, <1>10, <1>12, <1>14, <2>1 DEF TidyPackage
<1>16. T.packages = [p \in DOMAIN T.packages |-> T.packages[p]]
  BY <1>6
<1>17. Tidy(T)
  BY <1>7, <1>8, <1>9, <1>15, <1>16 DEF Tidy
<1>18. Legible(T)
  BY <1>8, <1>9, <1>12, <1>13 DEF Legible
<1>19. T = Back(T, F.settings, F.rest)
  <2> HIDE DEF packages
  <2>1. single = (DOMAIN T.importers = {"."})
    BY <1>7
  <2> QED BY <1>2, <1>6, <2>1 DEF Back
<1> QED BY <1>6, <1>17, <1>18, <1>19

LEMMA PlainIsTidy ==
  ASSUME NEW L, IsLockfile(L), Files!Plain(L)
  PROVE  Tidy(L) /\ Legible(L)
<1>1. \A i \in DOMAIN L.importers : TidyImporter(L.importers[i])
  BY DEF IsLockfile, AreImporters, TidyImporter, Files!Plain
<1>2. \A k \in DOMAIN L.packages : TidyPackage(L.packages, k)
  BY DEF IsLockfile, ArePackages, TidyPackage, Files!Plain
<1>3. ASSUME NEW i \in DOMAIN L.importers, NEW g \in Groups
      PROVE  Files!WrittenDeps(L.importers[i][g]) = L.importers[i][g]
  <2> DEFINE d == L.importers[i][g]
  <2>1. d = [n \in DOMAIN d |-> d[n]]
    BY DEF IsLockfile, AreImporters
  <2>2. DOMAIN d \cap {"check-engines", "dns-resolution"} = {}
    BY DEF Files!Plain, Files!Groups, Groups
  <2> HIDE DEF d
  <2>3. \A n \in DOMAIN d : Files!WrittenName(n) = n
    BY <2>2 DEF Files!WrittenName
  <2>4. Files!WrittenDeps(d) = d
    BY <2>1, <2>3, PlainDeps
  <2> QED BY <2>4 DEF d
<1>4. \A k \in DOMAIN L.packages : ~ Files!HasComma(L.packages[k].info)
  BY DEF Files!Plain
<1> QED BY <1>1, <1>2, <1>3, <1>4 DEF IsLockfile, AreImporters, ArePackages, Tidy, Legible

LEMMA SavedReads ==
  ASSUME NEW L, IsLockfile(L), L.settings = None \/ L.settings \in RecordedSettings
  PROVE  LET T == Files!Reloaded(L) IN T # Failed => Files!Reloaded(T) = T
<1> DEFINE F == Files!Render(L)
           T == Files!Reloaded(L)
<1> SUFFICES ASSUME T # Failed PROVE Files!Reloaded(T) = T
  OBVIOUS
<1>1. /\ F.infos = Files!ToV9(L).infos /\ F.snapshots = Files!ToV9(L).snapshots
      /\ F.settings = Files!NormalizedSettings(L.settings)
      /\ F.importers = [i \in DOMAIN L.importers |->
                          [g \in Groups |-> Files!WrittenDeps(L.importers[i][g])]]
  BY RenderedIs
<1>2. T = IF \E id \in DOMAIN F.infos : Files!HasComma(F.infos[id]) THEN Failed
          ELSE Files!FromV9(F)
  BY DEF Files!Reloaded, Files!Parse
<1> HIDE DEF F, T
<1>3. T = Files!FromV9(F) /\ \A id \in DOMAIN F.infos : ~ Files!HasComma(F.infos[id])
  BY <1>2
<1>4. /\ Tidy(T) /\ Legible(T)
      /\ T = Back(T, F.settings, F.rest)
      /\ T.settings = F.settings /\ T.rest = F.rest
  BY <1>1, <1>3, ReadIsTidy
<1>5. Files!Reloaded(T) = Back(T, Files!NormalizedSettings(T.settings), T.rest)
  BY <1>4, ReloadedIs
<1>6. Files!NormalizedSettings(F.settings) = F.settings
  BY <1>1, SettingsAre
<1> QED BY <1>4, <1>5, <1>6

(* A lockfile comes back from its file, and from the hook, as it was, with *)
(* the settings that hold for it; and what has come back once does not     *)
(* change any more: for any importers, packages, settings and names        *)
(* (render_lockfile_content, parse_lockfile_content).                      *)
THEOREM LoadsAsSaved == DecisionSpec => []LoadedAsSaved
<1>1. AnswersInv => LoadedAsSaved
  <2> SUFFICES ASSUME AnswersInv, Answered("file")
               PROVE  LoadedAsSaved
    BY DEF LoadedAsSaved
  <2> DEFINE q == query
             L == q.lockfile
             S == IF q.from = 6 THEN Files!ParseV6(L) ELSE L
             rest == {L.rest, Files!ParseV6(L).rest}
  <2>1. FileAsked(q) /\ answer = Loaded(q)
    BY DEF AnswersInv, AnswerIs, Answered, Asked
  <2>2. /\ answer.start = S /\ answer.value = Files!Reloaded(S)
        /\ answer.hooked = Files!ThroughHook(S)
        /\ answer.again = IF answer.value = Failed THEN Failed ELSE Files!Reloaded(answer.value)
    <3> HIDE DEF S
    <3>1. answer = [value |-> Files!Reloaded(S), start |-> S, hooked |-> Files!ThroughHook(S),
                    again |-> IF Files!Reloaded(S) = Failed THEN Failed
                              ELSE Files!Reloaded(Files!Reloaded(S))]
      BY <2>1 DEF Loaded, S
    <3> QED BY <3>1
  <2>3. S.importers = L.importers /\ S.packages = L.packages /\ S.settings = L.settings
        /\ S.rest \in rest
    BY <2>1 DEF FileAsked, Files!ParseV6
  <2>4. L.settings = None \/ L.settings \in RecordedSettings
    BY <2>1 DEF FileAsked
  <2>5. IsLockfile(S)
    <3> HIDE DEF S
    <3> QED BY <2>1, <2>3 DEF FileAsked, IsLockfile
  <2>6. \A settings \in RecordedSettings \cup {None} : Back(S, settings, S.rest) # Failed
    <3> HIDE DEF S, rest
    <3> SUFFICES ASSUME NEW settings \in RecordedSettings \cup {None}
                 PROVE  Back(S, settings, S.rest) # Failed
      OBVIOUS
    <3> DEFINE single == DOMAIN S.importers = {"."}
    <3>1. single \in BOOLEAN
      OBVIOUS
    <3> HIDE DEF single
    <3>2. [version |-> 9, single |-> single, settings |-> settings, neverBuilt |-> None,
           rest |-> S.rest, importers |-> S.importers, packages |-> S.packages]
            \in [version : {9}, single : BOOLEAN, neverBuilt : {None},
                 settings : RecordedSettings \cup {None}, importers : {L.importers},
                 rest : rest, packages : {L.packages}]
      BY <2>3, <3>1
    <3>3. Failed \notin [version : {9}, single : BOOLEAN, neverBuilt : {None},
                         settings : RecordedSettings \cup {None}, importers : {L.importers},
                         rest : rest, packages : {L.packages}]
      BY <2>1 DEF FileAsked, rest
    <3> QED BY <3>2, <3>3 DEF Back, single
  <2> HIDE DEF S
  <2>7. ASSUME Files!Plain(S), NEW settings \in {S.settings, Files!NormalizedSettings(S.settings)}
        PROVE  LET back == Back(S, settings, S.rest) IN
               back # Failed /\ Files!Same(S, back, q.default)
    <3> DEFINE back == Back(S, settings, S.rest)
               default == q.default
    <3>1. settings \in RecordedSettings \cup {None}
      BY <2>3, <2>4, SettingsAre
    <3>2. back # Failed
      BY <2>6, <3>1
    <3>3. /\ back.importers = S.importers /\ back.packages = S.packages
          /\ back.settings = settings /\ back.rest = S.rest
      BY DEF Back
    <3>4. /\ default \in RecordedSettings
          /\ \A field \in DOMAIN Files!Omitted : default[field] = Files!Omitted[field]
      BY <2>1 DEF FileAsked
    <3> HIDE DEF back, default
    <3>5. \A field \in DOMAIN default :
            SettingOf(settings, default, field) = SettingOf(S.settings, default, field)
      BY <2>3, <2>4, <3>4, SettingsAre
    <3>6. Files!Same(S, back, default)
      BY <3>3, <3>5 DEF Files!Same, SettingOf
    <3> QED BY <3>2, <3>6 DEF back, default
  <2>8. ASSUME Files!Plain(S)
        PROVE  \A back \in {answer.value, answer.hooked} :
                 back # Failed /\ Files!Same(S, back, q.default)
    <3>1. Tidy(S) /\ Legible(S)
      BY <2>5, <2>8, PlainIsTidy
    <3>2. answer.value = Back(S, Files!NormalizedSettings(S.settings), S.rest)
      BY <2>2, <3>1, ReloadedIs
    <3>3. answer.hooked = Back(S, S.settings, S.rest)
      BY <2>2, <3>1, HookedIs
    <3> QED BY <2>7, <2>8, <3>2, <3>3
  <2>9. answer.value # Failed => answer.again = answer.value
    <3>1. LET T == Files!Reloaded(S) IN T # Failed => Files!Reloaded(T) = T
      BY <2>3, <2>4, <2>5, SavedReads
    <3> QED BY <2>2, <3>1
  <2> QED BY <2>2, <2>8, <2>9 DEF LoadedAsSaved
<1> QED BY <1>1, AnswersHold, PTL
-----------------------------------------------------------------------------
(* Files of settings. *)

(* The operators of the community modules, on numbers up to a bound. *)
LEMMA MaxIs ==
  ASSUME NEW D, NEW n \in Nat, D \subseteq 1 .. n, D # {}
  PROVE  Npmrcs!Max(D) \in D /\ \A i \in D : i <= Npmrcs!Max(D)
<1> DEFINE below == {n - i : i \in D}
<1>1. \A i \in D : i \in Nat /\ n - i \in Nat
  OBVIOUS
<1>2. PICK m \in below : \A k \in below : m <= k
  <2>1. below \in SUBSET Nat /\ below # {}
    BY <1>1
  <2> QED BY <2>1, Least
<1>3. \E x \in D : \A y \in D : x >= y
  <2>1. PICK x \in D : m = n - x
    OBVIOUS
  <2>2. ASSUME NEW y \in D
        PROVE  x >= y
    <3>1. n - y \in below
      OBVIOUS
    <3>2. n - x <= n - y
      BY <1>2, <2>1, <3>1
    <3>3. x \in Nat /\ y \in Nat
      BY <1>1
    <3> HIDE DEF below
    <3> QED BY <3>2, <3>3
  <2> QED BY <2>2
<1>4. \E z \in D : \A y \in D : z >= y
  BY <1>3
<1>5. Npmrcs!Max(D) \in D /\ \A y \in D : Npmrcs!Max(D) >= y
  BY <1>4 DEF Npmrcs!Max
<1> QED BY <1>5

LEMMA MinIs ==
  ASSUME NEW D \in SUBSET Nat, D # {}
  PROVE  Npmrcs!Min(D) \in D /\ \A i \in D : Npmrcs!Min(D) <= i
<1>1. \E x \in D : \A y \in D : x <= y
  BY Least
<1> QED BY <1>1 DEF Npmrcs!Min

(* A finite set as a sequence has each of its elements once. *)
LEMMA SetToSeqIs ==
  ASSUME NEW S, IsFiniteSet(S)
  PROVE  LET seq == Npmrcs!SetToSeq(S) IN
         /\ Len(seq) \in Nat /\ seq = [i \in 1 .. Len(seq) |-> seq[i]]
         /\ {seq[i] : i \in 1 .. Len(seq)} = S
<1> DEFINE n == Cardinality(S)
<1>1. n \in Nat /\ ExistsBijection(1 .. n, S)
  BY FS_CardinalityType
<1>2. PICK f \in Bijection(1 .. n, S) : TRUE
  BY <1>1 DEF ExistsBijection
<1>3. f \in [1 .. n -> S] /\ \A a, b \in DOMAIN f : f[a] = f[b] => a = b
  BY <1>2 DEF Bijection, Injection, IsInjective
<1>4. Npmrcs!Cardinality(S) = n
  BY DEF Npmrcs!Cardinality, Cardinality
<1> DEFINE seq == Npmrcs!SetToSeq(S)
<1>5. seq \in [1 .. n -> S] /\ Npmrcs!IsInjective(seq)
  BY <1>3, <1>4 DEF Npmrcs!SetToSeq, Npmrcs!IsInjective
<1> HIDE DEF seq
<1>6. Len(seq) = n /\ seq = [i \in 1 .. Len(seq) |-> seq[i]]
  BY <1>5, <1>1
<1>7. seq \in Injection(1 .. n, S) /\ IsFiniteSet(1 .. n) /\ Cardinality(1 .. n) = n
  BY <1>5, <1>1, FS_Interval DEF Injection, IsInjective, Npmrcs!IsInjective
<1>8. seq \in Surjection(1 .. n, S)
  BY <1>7, FS_Injection
<1>9. {seq[i] : i \in 1 .. n} = S
  BY <1>8 DEF Surjection
<1> QED BY <1>1, <1>6, <1>9 DEF seq

(* A sequence of lines, of one file or two. *)
AreLines(L) ==
  /\ Len(L) \in Nat /\ L = [i \in 1 .. Len(L) |-> L[i]]
  /\ \A i \in 1 .. Len(L) :
       LET key == L[i].key IN
       /\ L[i] = [key |-> key, says |-> L[i].says]
       /\ key = Npmrcs!Key(key.for, key.name, key.form)

(* The lines of a file, and those of two, one after the other. *)
LEMMA LinesAre ==
  ASSUME NEW file, IsFile(file)
  PROVE  AreLines(Npmrcs!Lines(file))
<1>1. CASE file = None
  <2>1. Npmrcs!Lines(file) = <<>>
    BY <1>1 DEF Npmrcs!Lines
  <2>2. Len(<<>>) = 0 /\ <<>> = [i \in 1 .. 0 |-> <<>>[i]]
    OBVIOUS
  <2> QED BY <2>1, <2>2 DEF AreLines
<1>2. CASE file # None
  <2>1. Npmrcs!Lines(file) = file
    BY <1>2 DEF Npmrcs!Lines
  <2>2. DOMAIN file = 1 .. Len(file)
    BY <1>2 DEF IsFile
  <2> QED BY <1>2, <2>1, <2>2 DEF AreLines, IsFile
<1> QED BY <1>1, <1>2

LEMMA JoinIs ==
  ASSUME NEW A, NEW B, AreLines(A), AreLines(B)
  PROVE  /\ AreLines(A \o B) /\ Len(A \o B) = Len(A) + Len(B)
         /\ \A i \in 1 .. Len(A) : (A \o B)[i] = A[i]
         /\ \A i \in 1 .. Len(B) : (A \o B)[Len(A) + i] = B[i]
         /\ \A i \in 1 .. Len(A \o B) : \/ \E j \in 1 .. Len(A) : (A \o B)[i] = A[j]
                                       \/ \E j \in 1 .. Len(B) : (A \o B)[i] = B[j]
<1> DEFINE lines == {A[i] : i \in 1 .. Len(A)} \cup {B[i] : i \in 1 .. Len(B)}
<1>1. A \in Seq(lines) /\ B \in Seq(lines)
  BY DEF AreLines
<1> DEFINE L == A \o B
<1>2. /\ L \in Seq(lines) /\ Len(L) = Len(A) + Len(B)
      /\ \A i \in 1 .. Len(A) : L[i] = A[i]
      /\ \A i \in 1 .. Len(B) : L[Len(A) + i] = B[i]
  BY <1>1
<1>3. Len(A) \in Nat /\ Len(B) \in Nat
  BY DEF AreLines
<1>4. ASSUME NEW i \in 1 .. Len(L)
      PROVE  \/ \E j \in 1 .. Len(A) : L[i] = A[j]
             \/ \E j \in 1 .. Len(B) : L[i] = B[j]
  <2>1. CASE i <= Len(A)
    BY <1>2, <1>3, <2>1
  <2>2. CASE ~ (i <= Len(A))
    <3>1. i - Len(A) \in 1 .. Len(B) /\ i = Len(A) + (i - Len(A))
      BY <1>2, <1>3, <2>2
    <3> QED BY <1>2, <3>1
  <2> QED BY <2>1, <2>2
<1> HIDE DEF L
<1>5. Len(L) \in Nat /\ L = [i \in 1 .. Len(L) |-> L[i]]
  BY <1>2, <1>3
<1>6. AreLines(L)
  BY <1>4, <1>5 DEF AreLines
<1> QED BY <1>2, <1>4, <1>6 DEF L

(* What the lines say of a key, if they have it, is what its last one says. *)
LEMMA RawKeys ==
  ASSUME NEW L, AreLines(L)
  PROVE  /\ \A i \in 1 .. Len(L) : L[i].key \in DOMAIN Npmrcs!Raw(L)
         /\ \A key \in DOMAIN Npmrcs!Raw(L) : \E i \in 1 .. Len(L) : L[i].key = key
BY DEF AreLines, Npmrcs!Raw

(* Of the lines for a key the last one counts. *)
LEMMA RawLast ==
  ASSUME NEW L, AreLines(L), NEW key \in DOMAIN Npmrcs!Raw(L),
         NEW m, m = Npmrcs!Max({i \in DOMAIN L : L[i].key = key})
  PROVE  /\ m \in 1 .. Len(L) /\ L[m].key = key /\ Npmrcs!Raw(L)[key] = L[m].says
         /\ \A i \in 1 .. Len(L) : L[i].key = key => i <= m
<1> DEFINE Of(k) == {i \in DOMAIN L : L[i].key = k}
           R == Npmrcs!Raw(L)
<1>1. DOMAIN L = 1 .. Len(L) /\ Len(L) \in Nat
  BY DEF AreLines
<1>2. R = [k \in {L[i].key : i \in DOMAIN L} |-> L[Npmrcs!Max(Of(k))].says]
  BY DEF Npmrcs!Raw
<1>3. Of(key) # {} /\ Of(key) \subseteq 1 .. Len(L)
  BY <1>1, <1>2
<1>4. m = Npmrcs!Max(Of(key))
  OBVIOUS
<1>5. R[key] = L[m].says
  <2> HIDE DEF Of, R
  <2> QED BY <1>2, <1>4 DEF R
<1>6. m \in Of(key) /\ \A i \in Of(key) : i <= m
  <2> HIDE DEF Of
  <2> QED BY <1>1, <1>3, <1>4, MaxIs
<1> QED BY <1>1, <1>5, <1>6

LEMMA RawAt ==
  ASSUME NEW L, AreLines(L), NEW i \in 1 .. Len(L),
         \A j \in 1 .. Len(L) : L[j].key = L[i].key => j <= i
  PROVE  L[i].key \in DOMAIN Npmrcs!Raw(L) /\ Npmrcs!Raw(L)[L[i].key] = L[i].says
<1> DEFINE key == L[i].key
           m == Npmrcs!Max({n \in DOMAIN L : L[n].key = key})
<1>1. key \in DOMAIN Npmrcs!Raw(L)
  BY RawKeys
<1>2. /\ m \in 1 .. Len(L) /\ L[m].key = key /\ Npmrcs!Raw(L)[key] = L[m].says
      /\ \A j \in 1 .. Len(L) : L[j].key = key => j <= m
  BY <1>1, RawLast
<1> HIDE DEF m
<1>3. m = i
  BY <1>2 DEF AreLines
<1> QED BY <1>1, <1>2, <1>3

(* The last line with a key, without a maximum. *)
LEMMA RawHas ==
  ASSUME NEW L, AreLines(L), NEW key \in DOMAIN Npmrcs!Raw(L)
  PROVE  \E m \in 1 .. Len(L) :
           /\ L[m].key = key /\ Npmrcs!Raw(L)[key] = L[m].says
           /\ \A i \in 1 .. Len(L) : L[i].key = key => i <= m
BY RawLast

(* Two files together: what the second one says comes last. *)
LEMMA RawJoin ==
  ASSUME NEW A, NEW B, AreLines(A), AreLines(B)
  PROVE  LET a == Npmrcs!Raw(A)
             b == Npmrcs!Raw(B)
             r == Npmrcs!Raw(A \o B)
         IN  /\ DOMAIN r = DOMAIN a \cup DOMAIN b
             /\ \A key \in DOMAIN b : r[key] = b[key]
             /\ \A key \in DOMAIN a \ DOMAIN b : r[key] = a[key]
<1> DEFINE a == Npmrcs!Raw(A)
           b == Npmrcs!Raw(B)
           L == A \o B
           r == Npmrcs!Raw(L)
<1>1. /\ AreLines(L) /\ Len(L) = Len(A) + Len(B) /\ Len(A) \in Nat /\ Len(B) \in Nat
      /\ \A i \in 1 .. Len(A) : L[i] = A[i]
      /\ \A i \in 1 .. Len(B) : L[Len(A) + i] = B[i]
  BY JoinIs DEF AreLines
<1> HIDE DEF L
<1>2. /\ \A i \in 1 .. Len(A) : A[i].key \in DOMAIN a
      /\ \A i \in 1 .. Len(B) : B[i].key \in DOMAIN b
      /\ \A key \in DOMAIN r : \E i \in 1 .. Len(L) : L[i].key = key
  BY <1>1, RawKeys
<1>3. \A i \in 1 .. Len(L) :
        \/ i \in 1 .. Len(A) /\ L[i] = A[i]
        \/ i - Len(A) \in 1 .. Len(B) /\ L[i] = B[i - Len(A)]
  <2> SUFFICES ASSUME NEW i \in 1 .. Len(L), i \notin 1 .. Len(A)
               PROVE  i - Len(A) \in 1 .. Len(B) /\ L[i] = B[i - Len(A)]
    BY <1>1
  <2>1. i - Len(A) \in 1 .. Len(B) /\ i = Len(A) + (i - Len(A))
    BY <1>1
  <2> QED BY <1>1, <2>1
<1>4. DOMAIN r \subseteq DOMAIN a \cup DOMAIN b
  <2> HIDE DEF a, b, r
  <2> QED BY <1>2, <1>3
<1>5. DOMAIN a \cup DOMAIN b \subseteq DOMAIN r
  <2>1. \A i \in 1 .. Len(A) : i \in 1 .. Len(L) /\ L[i] = A[i]
    BY <1>1
  <2>2. \A i \in 1 .. Len(B) : Len(A) + i \in 1 .. Len(L) /\ L[Len(A) + i] = B[i]
    BY <1>1
  <2>3. \A i \in 1 .. Len(L) : L[i].key \in DOMAIN r
    BY <1>1, RawKeys
  <2>4. /\ \A key \in DOMAIN a : \E i \in 1 .. Len(A) : A[i].key = key
        /\ \A key \in DOMAIN b : \E i \in 1 .. Len(B) : B[i].key = key
    BY RawKeys
  <2> HIDE DEF a, b, r
  <2>5. ASSUME NEW key \in DOMAIN a
        PROVE  key \in DOMAIN r
    BY <2>1, <2>3, <2>4
  <2>6. ASSUME NEW key \in DOMAIN b
        PROVE  key \in DOMAIN r
    BY <2>2, <2>3, <2>4
  <2> QED BY <2>5, <2>6
<1>6. ASSUME NEW key \in DOMAIN b
      PROVE  r[key] = b[key]
  <2>1. PICK m \in 1 .. Len(B) : /\ B[m].key = key /\ b[key] = B[m].says
                                 /\ \A i \in 1 .. Len(B) : B[i].key = key => i <= m
    BY RawHas
  <2>2. Len(A) + m \in 1 .. Len(L) /\ L[Len(A) + m] = B[m]
    BY <1>1
  <2>3. ASSUME NEW j \in 1 .. Len(L), L[j].key = key
        PROVE  j <= Len(A) + m
    <3>1. CASE j \in 1 .. Len(A)
      BY <1>1, <3>1
    <3>2. CASE j - Len(A) \in 1 .. Len(B) /\ L[j] = B[j - Len(A)]
      <4>1. j - Len(A) <= m
        BY <2>1, <2>3, <3>2
      <4> QED BY <1>1, <4>1
    <3> QED BY <1>3, <3>1, <3>2
  <2> HIDE DEF r
  <2>4. Npmrcs!Raw(L)[L[Len(A) + m].key] = L[Len(A) + m].says
    BY <1>1, <2>1, <2>2, <2>3, RawAt
  <2> QED BY <2>1, <2>2, <2>4 DEF r
<1>7. ASSUME NEW key \in DOMAIN a \ DOMAIN b
      PROVE  r[key] = a[key]
  <2>1. PICK m \in 1 .. Len(A) : /\ A[m].key = key /\ a[key] = A[m].says
                                 /\ \A i \in 1 .. Len(A) : A[i].key = key => i <= m
    BY RawHas
  <2>2. m \in 1 .. Len(L) /\ L[m] = A[m]
    BY <1>1
  <2>3. ASSUME NEW j \in 1 .. Len(L), L[j].key = key
        PROVE  j <= m
    <3>1. j \in 1 .. Len(A) /\ L[j] = A[j]
      BY <1>2, <1>3, <2>3
    <3> QED BY <2>1, <2>3, <3>1
  <2> HIDE DEF r
  <2>4. Npmrcs!Raw(L)[L[m].key] = L[m].says
    BY <1>1, <2>1, <2>2, <2>3, RawAt
  <2> QED BY <2>1, <2>2, <2>4 DEF r
<1>8. DOMAIN r = DOMAIN a \cup DOMAIN b
  BY <1>4, <1>5
<1> QED BY <1>6, <1>7, <1>8 DEF L

(* config set and delete change what the file says of one key. *)
SetIn(before, after, key, value) ==
  /\ DOMAIN after = (DOMAIN before \ {key}) \cup (IF value = None THEN {} ELSE {key})
  /\ \A j \in DOMAIN before \ {key} : after[j] = before[j]
  /\ value # None => after[key] = value

(* The file that config set writes says what it said, but for one key. *)
LEMMA SetValueIs ==
  ASSUME NEW q, NEW file, IsFile(file), NEW k, k = Npmrcs!Normalized(q.do.key),
         k = Npmrcs!Key(k.for, k.name, k.form),
         None \notin MayBecome(q, Npmrcs!Lines(file)),
         NEW f, f = Npmrcs!SetValue(file, q.do.key, q.do.value)
  PROVE  /\ AreLines(Npmrcs!Lines(f))
         /\ SetIn(Npmrcs!Raw(Npmrcs!Lines(file)), Npmrcs!Raw(Npmrcs!Lines(f)), k, q.do.value)
<1> DEFINE L == Npmrcs!Lines(file)
           raw == Npmrcs!Raw(L)
           value == q.do.value
           rest == {[key |-> j, says |-> raw[j]] : j \in DOMAIN raw \ {k}}
           new == IF value = None THEN {} ELSE {[key |-> k, says |-> value]}
           all == rest \cup new
           old == {L[i] : i \in 1 .. Len(L)}
<1>1. f = IF all = {} THEN None ELSE Npmrcs!SetToSeq(all)
  BY DEF Npmrcs!SetValue
<1>2. AreLines(L)
  BY LinesAre
<1>3. SetLine(q) = [key |-> k, says |-> value]
  BY DEF SetLine
<1> HIDE DEF L, value
<1>4. rest \subseteq old
  <2> SUFFICES ASSUME NEW j \in DOMAIN raw
               PROVE  [key |-> j, says |-> raw[j]] \in old
    OBVIOUS
  <2>1. PICK m \in 1 .. Len(L) : L[m].key = j /\ raw[j] = L[m].says
    BY <1>2, RawHas
  <2> HIDE DEF raw
  <2>2. L[m] = [key |-> j, says |-> raw[j]]
    BY <1>2, <2>1 DEF AreLines
  <2> QED BY <2>2
<1>5. IsFiniteSet(all)
  <2>1. IsFiniteSet(old)
    <3>1. L \in Surjection(1 .. Len(L), old) /\ IsFiniteSet(1 .. Len(L))
      <4>1. Len(L) \in Nat /\ L = [i \in 1 .. Len(L) |-> L[i]]
        BY <1>2 DEF AreLines
      <4> DEFINE n == Len(L)
      <4>2. IsFiniteSet(1 .. n)
        <5>1. 1 \in Int /\ n \in Int
          BY <4>1
        <5> HIDE DEF n
        <5> QED BY <5>1, FS_Interval
      <4> HIDE DEF n
      <4>3. L \in [1 .. n -> {L[i] : i \in 1 .. n}]
            /\ \A line \in {L[i] : i \in 1 .. n} : \E i \in 1 .. n : L[i] = line
        BY <4>1 DEF n
      <4> QED BY <4>2, <4>3 DEF n, Surjection
    <3> HIDE DEF old
    <3> QED BY <3>1, FS_Surjection
  <2>2. IsFiniteSet(rest)
    <3> HIDE DEF rest, old
    <3> QED BY <1>4, <2>1, FS_Subset
  <2>3. IsFiniteSet(new)
    BY FS_EmptySet, FS_Singleton
  <2> HIDE DEF rest, new
  <2> QED BY <2>2, <2>3, FS_Union
<1>6. \A line \in all :
        /\ line = [key |-> line.key, says |-> line.says]
        /\ line.key = Npmrcs!Key(line.key.for, line.key.name, line.key.form)
        /\ IF line.key = k THEN value # None /\ line.says = value
           ELSE line.key \in DOMAIN raw /\ line.says = raw[line.key]
  <2>1. ASSUME NEW j \in DOMAIN raw
        PROVE  j = Npmrcs!Key(j.for, j.name, j.form)
    <3>1. PICK m \in 1 .. Len(L) : L[m].key = j
      BY <1>2, RawHas
    <3> HIDE DEF raw
    <3> QED BY <1>2, <3>1 DEF AreLines
  <2> HIDE DEF raw
  <2>2. ASSUME NEW line \in rest
        PROVE  \E j \in DOMAIN raw \ {k} : line = [key |-> j, says |-> raw[j]]
    BY <2>2
  <2>3. ASSUME NEW line \in new
        PROVE  value # None /\ line = [key |-> k, says |-> value]
    BY <2>3
  <2> HIDE DEF rest, new
  <2>4. ASSUME NEW line \in rest
        PROVE  /\ line = [key |-> line.key, says |-> line.says]
               /\ line.key \in DOMAIN raw \ {k} /\ line.says = raw[line.key]
    BY <2>2
  <2>5. ASSUME NEW line \in new
        PROVE  /\ line = [key |-> line.key, says |-> line.says]
               /\ line.key = k /\ value # None /\ line.says = value
    BY <2>3
  <2> QED BY <2>1, <2>4, <2>5
<1>7. {line.key : line \in all} = (DOMAIN raw \ {k}) \cup (IF value = None THEN {} ELSE {k})
  <2>1. {line.key : line \in rest} = DOMAIN raw \ {k}
    <3> HIDE DEF raw
    <3>1. \A j \in DOMAIN raw \ {k} : [key |-> j, says |-> raw[j]] \in rest
      OBVIOUS
    <3>2. \A line \in rest : line.key \in DOMAIN raw \ {k}
      OBVIOUS
    <3> HIDE DEF rest
    <3>3. \A j \in DOMAIN raw \ {k} : j \in {line.key : line \in rest}
      <4> SUFFICES ASSUME NEW j \in DOMAIN raw \ {k}
                   PROVE  \E line \in rest : j = line.key
        OBVIOUS
      <4>1. [key |-> j, says |-> raw[j]] \in rest
        BY <3>1
      <4>2. j = [key |-> j, says |-> raw[j]].key
        OBVIOUS
      <4> QED BY <4>1, <4>2
    <3> QED BY <3>2, <3>3
  <2>2. {line.key : line \in new} = IF value = None THEN {} ELSE {k}
    <3>1. CASE value = None
      BY <3>1
    <3>2. CASE value # None
      <4>1. new = {[key |-> k, says |-> value]}
        BY <3>2
      <4> HIDE DEF new
      <4> QED BY <3>2, <4>1
    <3> QED BY <3>1, <3>2
  <2> HIDE DEF rest, new
  <2> QED BY <2>1, <2>2
<1>8. CASE all = {}
  <2>1. Npmrcs!Lines(f) = <<>>
    BY <1>1, <1>8 DEF Npmrcs!Lines
  <2>2. AreLines(<<>>)
    <3>1. Len(<<>>) = 0 /\ <<>> = [i \in 1 .. 0 |-> <<>>[i]]
      OBVIOUS
    <3> QED BY <3>1 DEF AreLines
  <2>3. DOMAIN Npmrcs!Raw(<<>>) = {}
    <3>1. \A key \in DOMAIN Npmrcs!Raw(<<>>) : \E i \in 1 .. Len(<<>>) : <<>>[i].key = key
      BY <2>2, RawKeys
    <3>2. 1 .. Len(<<>>) = {}
      OBVIOUS
    <3> QED BY <3>1, <3>2
  <2>4. {line.key : line \in all} = {}
    BY <1>8
  <2> HIDE DEF all
  <2> QED BY <1>7, <2>1, <2>2, <2>3, <2>4 DEF SetIn, L, value
<1>9. CASE all # {}
  <2>1. f = Npmrcs!SetToSeq(all)
    BY <1>1, <1>9
  <2>2. Len(f) \in Nat /\ f = [i \in 1 .. Len(f) |-> f[i]] /\ {f[i] : i \in 1 .. Len(f)} = all
    <3> HIDE DEF all
    <3> QED BY <1>5, <2>1, SetToSeqIs
  <2>3. f \in MayBecome(q, L)
    <3> DEFINE from == {IF i = 0 THEN SetLine(q) ELSE L[i] : i \in 0 .. Len(L)}
    <3>1. old \subseteq from
      <4> SUFFICES ASSUME NEW i \in 1 .. Len(L) PROVE L[i] \in from
        OBVIOUS
      <4>1. i \in 0 .. Len(L) /\ i # 0
        BY <1>2 DEF AreLines
      <4> QED BY <4>1
    <3>2. new \subseteq from
      <4>1. 0 \in 0 .. Len(L)
        BY <1>2 DEF AreLines
      <4>2. SetLine(q) \in from
        BY <4>1
      <4> HIDE DEF from
      <4> QED BY <1>3, <4>2
    <3>3. all \subseteq from
      <4> HIDE DEF rest, new, old, from
      <4> QED BY <1>4, <3>1, <3>2
    <3> HIDE DEF all, from
    <3>4. f \in Seq(from)
      BY <2>2, <3>3
    <3> QED BY <3>4 DEF from, MayBecome
  <2>4. f # None
    BY <2>3 DEF L
  <2>5. Npmrcs!Lines(f) = f
    BY <2>4 DEF Npmrcs!Lines
  <2> HIDE DEF all
  <2>6. \A i \in 1 .. Len(f) : f[i] \in all
    BY <2>2
  <2>7. AreLines(f)
    BY <1>6, <2>2, <2>6 DEF AreLines
  <2> DEFINE after == Npmrcs!Raw(f)
  <2>8. DOMAIN after = {line.key : line \in all}
    <3>1. /\ \A i \in 1 .. Len(f) : f[i].key \in DOMAIN after
          /\ \A key \in DOMAIN after : \E i \in 1 .. Len(f) : f[i].key = key
      BY <2>7, RawKeys
    <3>2. \A line \in all : \E i \in 1 .. Len(f) : f[i] = line
      BY <2>2
    <3> HIDE DEF after
    <3>3. ASSUME NEW key \in DOMAIN after
          PROVE  \E line \in all : line.key = key
      BY <2>6, <3>1
    <3>4. ASSUME NEW line \in all
          PROVE  line.key \in DOMAIN after
      BY <3>1, <3>2
    <3> QED BY <3>3, <3>4
  <2>9. ASSUME NEW j \in DOMAIN after
        PROVE  IF j = k THEN value # None /\ after[j] = value
               ELSE j \in DOMAIN raw /\ after[j] = raw[j]
    <3>1. PICK m \in 1 .. Len(f) : f[m].key = j /\ after[j] = f[m].says
      BY <2>7, RawHas
    <3> HIDE DEF raw, after
    <3> QED BY <1>6, <2>6, <3>1
  <2> HIDE DEF after
  <2>10. DOMAIN after = (DOMAIN raw \ {k}) \cup (IF value = None THEN {} ELSE {k})
    BY <1>7, <2>8
  <2> HIDE DEF raw
  <2>11. SetIn(raw, after, k, value)
    BY <2>9, <2>10 DEF SetIn
  <2> QED BY <2>5, <2>7, <2>11 DEF after, raw, L, value
<1> QED BY <1>8, <1>9
-----------------------------------------------------------------------------
(* What a command starts with. *)
Joined(home, current) == Npmrcs!Lines(home) \o Npmrcs!Lines(current)

(* What a command keeps as it is written is what the two files say. *)
LEMMA WrittenIs ==
  ASSUME NEW home, NEW current, NEW registry
  PROVE  LET R == Npmrcs!Raw(Joined(home, current))
             raw == Npmrcs!Written(home, current, registry)
         IN  /\ DOMAIN raw = DOMAIN R \cup {Npmrcs!Setting("registry")}
             /\ \A key \in DOMAIN R : raw[key] = R[key]
<1> DEFINE s == Npmrcs!Setting("registry")
           R == Npmrcs!Raw(Joined(home, current))
           raw == Npmrcs!Written(home, current, registry)
<1>1. raw = IF s \in DOMAIN R THEN R ELSE Npmrcs!Over(R, [key \in {s} |-> registry])
  BY DEF Npmrcs!Written, Joined
<1> HIDE DEF s, R, raw
<1>2. CASE s \in DOMAIN R
  BY <1>1, <1>2 DEF s, R, raw
<1>3. CASE s \notin DOMAIN R
  <2>1. raw = [key \in DOMAIN R \cup {s} |-> IF key \in DOMAIN R THEN R[key]
                                             ELSE [k \in {s} |-> registry][key]]
    BY <1>1, <1>3 DEF Npmrcs!Over
  <2>2. DOMAIN raw = DOMAIN R \cup {s} /\ \A key \in DOMAIN R : raw[key] = R[key]
    BY <2>1
  <2> QED BY <2>2 DEF s, R, raw
<1> QED BY <1>2, <1>3

(* Files that mean something are read as they are. *)
LEMMA ReadIs ==
  ASSUME NEW home, NEW current,
         AreLines(Npmrcs!Lines(home)), AreLines(Npmrcs!Lines(current)), Settled(home, current),
         NEW L, L = Joined(home, current)
  PROVE  /\ Npmrcs!Read(home, current) = Npmrcs!Parse(L)
         /\ \A name \in Npmrcs!Typed : \A i \in DOMAIN L :
              Npmrcs!Sets(L[i], name) =>
                Npmrcs!Value(L, name) = Npmrcs!Parsed(name, L[i].says)
<1>1. AreLines(L) /\ DOMAIN L = 1 .. Len(L)
  <2>1. AreLines(L)
    BY LinesAre, JoinIs DEF Joined
  <2> QED BY <2>1 DEF AreLines
<1>2. \A name \in Npmrcs!Typed : \A i, j \in DOMAIN L :
        (Npmrcs!Sets(L[i], name) /\ Npmrcs!Sets(L[j], name)) =>
          i = j /\ Npmrcs!Parsed(name, L[i].says) # Failed
  BY DEF Settled, Joined
<1>3. ASSUME NEW name \in Npmrcs!Typed
      PROVE  /\ \A i \in DOMAIN L :
                  Npmrcs!Sets(L[i], name) =>
                    Npmrcs!Value(L, name) = Npmrcs!Parsed(name, L[i].says)
             /\ Npmrcs!Value(L, name) # Failed
             /\ Npmrcs!Cardinality(Npmrcs!Setters(L, name)) <= 1
  <2> DEFINE S == Npmrcs!Setters(L, name)
  <2>1. \A i : i \in S <=> i \in DOMAIN L /\ Npmrcs!Sets(L[i], name)
    BY DEF Npmrcs!Setters
  <2>2. Npmrcs!Value(L, name) = IF S = {} THEN Npmrcs!Default(name)
                                ELSE Npmrcs!Parsed(name, L[CHOOSE i \in S : TRUE].says)
    BY DEF Npmrcs!Value
  <2>3. Npmrcs!Cardinality(S) = Cardinality(S)
    BY DEF Npmrcs!Cardinality, Cardinality
  <2> HIDE DEF S
  <2>4. CASE S = {}
    <3>1. Npmrcs!Value(L, name) # Failed
      BY <2>2, <2>4, DefaultsAssumption
    <3> QED BY <2>1, <2>3, <2>4, <3>1, FS_EmptySet DEF S
  <2>5. CASE S # {}
    <3>1. PICK i \in S : TRUE
      BY <2>5
    <3>2. S = {i}
      BY <1>2, <2>1, <3>1
    <3>3. (CHOOSE j \in S : TRUE) = i
      BY <3>2
    <3>4. Cardinality(S) = 1
      BY <3>2, FS_Singleton
    <3>5. Npmrcs!Value(L, name) = Npmrcs!Parsed(name, L[i].says)
      BY <2>2, <2>5, <3>3
    <3>6. Npmrcs!Parsed(name, L[i].says) # Failed
      BY <1>2, <2>1, <3>1
    <3> QED BY <2>1, <2>3, <3>2, <3>4, <3>5, <3>6 DEF S
  <2> QED BY <2>4, <2>5
<1>4. Npmrcs!Parses(L)
  BY <1>3 DEF Npmrcs!Parses
<1>5. Npmrcs!Read(home, current) = Npmrcs!Parse(L)
  <2> DEFINE contents == IF home # None /\ current # None
                         THEN <<home \o current, current, home>>
                         ELSE IF current # None THEN <<current>>
                         ELSE IF home # None THEN <<home>> ELSE <<>>
             good == {i \in DOMAIN contents : Npmrcs!Parses(contents[i])}
  <2>1. Npmrcs!Read(home, current)
          = Npmrcs!Parse(IF good = {} THEN <<>> ELSE contents[Npmrcs!Min(good)])
    BY DEF Npmrcs!Read
  <2>2. CASE home = None /\ current = None
    <3>1. contents = <<>>
      BY <2>2
    <3>2. good = {}
      BY <3>1
    <3>3. L = <<>> \o <<>>
      BY <2>2 DEF Joined, Npmrcs!Lines
    <3>4. <<>> \o <<>> = <<>>
      OBVIOUS
    <3> HIDE DEF good, contents
    <3> QED BY <2>1, <3>2, <3>3, <3>4
  <2>3. CASE home # None \/ current # None
    <3>1. DOMAIN contents \subseteq Nat /\ 1 \in DOMAIN contents
      BY <2>3
    <3>2. contents[1] = L
      <4>1. CASE home # None /\ current # None
        BY <4>1 DEF Joined, Npmrcs!Lines
      <4>2. CASE home = None
        <5>1. L = <<>> \o current /\ contents[1] = current
          BY <2>3, <4>2 DEF Joined, Npmrcs!Lines
        <5>2. current \in Seq({current[i] : i \in 1 .. Len(current)})
          <6>1. Npmrcs!Lines(current) = current
            BY <2>3, <4>2 DEF Npmrcs!Lines
          <6>2. Len(current) \in Nat /\ current = [i \in 1 .. Len(current) |-> current[i]]
            BY <6>1 DEF AreLines
          <6> QED BY <6>2
        <5>3. <<>> \o current = current
          BY <5>2
        <5> QED BY <5>1, <5>3
      <4>3. CASE home # None /\ current = None
        <5>1. L = home \o <<>> /\ contents[1] = home
          BY <4>3 DEF Joined, Npmrcs!Lines
        <5>2. home \in Seq({home[i] : i \in 1 .. Len(home)})
          <6>1. Npmrcs!Lines(home) = home
            BY <4>3 DEF Npmrcs!Lines
          <6>2. Len(home) \in Nat /\ home = [i \in 1 .. Len(home) |-> home[i]]
            BY <6>1 DEF AreLines
          <6> QED BY <6>2
        <5>3. home \o <<>> = home
          BY <5>2
        <5> QED BY <5>1, <5>3
      <4> QED BY <4>1, <4>2, <4>3
    <3> HIDE DEF contents
    <3>3. 1 \in good /\ good \in SUBSET Nat /\ \A i \in good : i \in DOMAIN contents
      BY <1>4, <3>1, <3>2
    <3>4. \A i \in good : 1 <= i
      <4>1. \A i \in DOMAIN contents : 1 <= i
        BY <2>3 DEF contents
      <4> QED BY <3>3, <4>1
    <3> HIDE DEF good
    <3>5. Npmrcs!Min(good) = 1
      <4>1. good # {}
        BY <3>3
      <4>2. Npmrcs!Min(good) \in good /\ \A i \in good : Npmrcs!Min(good) <= i
        BY <3>3, <4>1, MinIs
      <4>3. Npmrcs!Min(good) <= 1 /\ 1 <= Npmrcs!Min(good) /\ Npmrcs!Min(good) \in Nat
        BY <3>3, <3>4, <4>2
      <4> QED BY <4>3
    <3> QED BY <2>1, <3>2, <3>3, <3>5
  <2> QED BY <2>2, <2>3
<1> QED BY <1>3, <1>5

(* A command starts with these. *)
LEMMA LoadIs ==
  ASSUME NEW home, NEW current, NEW env,
         NEW config \in Npmrcs!Loads(home, current, env), config # Failed
  PROVE  LET typed == Npmrcs!Derived(Npmrcs!Read(home, current))
             raw == Npmrcs!Written(home, current, typed["registry"])
             user == Npmrcs!Raw(Npmrcs!Lines(current))
         IN  /\ config.typed = Npmrcs!Proxies(typed, env) /\ config.raw = raw
             /\ \E fields \in Npmrcs!Fields(raw) :
                  config.headers = Npmrcs!Headers(fields, user, typed["registry"])
             /\ config.headers # Failed
<1> DEFINE typed == Npmrcs!Derived(Npmrcs!Read(home, current))
           raw == Npmrcs!Written(home, current, typed["registry"])
           user == Npmrcs!Raw(Npmrcs!Lines(current))
           Sent(fields) == Npmrcs!Headers(fields, user, typed["registry"])
           proxied == Npmrcs!Proxies(typed, env)
<1>1. PICK fields \in Npmrcs!Fields(raw) :
        config = IF Sent(fields) = Failed THEN Failed
                 ELSE [typed |-> proxied, raw |-> raw, headers |-> Sent(fields)]
  BY DEF Npmrcs!Loads
<1> HIDE DEF Sent, proxied
<1>2. Sent(fields) # Failed
  BY <1>1
<1>3. config = [typed |-> proxied, raw |-> raw, headers |-> Sent(fields)]
  BY <1>1, <1>2
<1>4. /\ config.typed = proxied /\ config.raw = raw /\ config.headers = Sent(fields)
  BY <1>3
<1> QED BY <1>2, <1>4 DEF Sent, proxied

(* What is derived of c leaves alone the settings that nothing is derived  *)
(* for.                                                                    *)
LEMMA ProxiesAre ==
  ASSUME NEW c, c = [name \in Npmrcs!Typed |-> c[name]], NEW env,
         NEW t, t = Npmrcs!Proxies(c, env)
  PROVE  /\ t = [name \in Npmrcs!Typed |-> t[name]]
         /\ \A name \in Npmrcs!Typed \ Npmrcs!Aliased : t[name] = c[name]
         /\ t["https-proxy"] = None => c["proxy"] = None
<1> DEFINE https == Npmrcs!First(<<c["https-proxy"], c["proxy"], env.https_proxy>>)
           http == Npmrcs!First(<<c["http-proxy"], https, env.http_proxy, env.proxy>>)
           no == Npmrcs!First(<<c["no-proxy"], c["noproxy"], env.no_proxy>>)
<1>1. t = [c EXCEPT !["https-proxy"] = https, !["http-proxy"] = http, !["no-proxy"] = no]
  BY DEF Npmrcs!Proxies
<1>2. https = None => c["proxy"] = None
  <2> DEFINE values == <<c["https-proxy"], c["proxy"], env.https_proxy>>
             given == {i \in DOMAIN values : values[i] # None}
  <2>1. https = IF given = {} THEN None ELSE values[Npmrcs!Min(given)]
    BY DEF Npmrcs!First
  <2>2. DOMAIN values = 1 .. 3 /\ values[2] = c["proxy"]
    OBVIOUS
  <2> HIDE DEF values
  <2> SUFFICES ASSUME c["proxy"] # None
               PROVE  https # None
    OBVIOUS
  <2>3. 2 \in given /\ given \in SUBSET Nat
    BY <2>2
  <2>4. Npmrcs!Min(given) \in given
    <3> HIDE DEF given
    <3> QED BY <2>3, MinIs
  <2>5. given # {} /\ values[Npmrcs!Min(given)] # None
    BY <2>3, <2>4
  <2> HIDE DEF given, https
  <2> QED BY <2>1, <2>5
<1> HIDE DEF https, http, no
<1>3. {"https-proxy", "http-proxy", "no-proxy"} \subseteq Npmrcs!Typed
  BY DEF Npmrcs!Typed, Npmrcs!Texts
<1>4. /\ t = [name \in Npmrcs!Typed |-> t[name]]
      /\ \A name \in Npmrcs!Typed \ Npmrcs!Aliased : t[name] = c[name]
      /\ t["https-proxy"] = https
  BY <1>1, <1>3 DEF Npmrcs!Aliased
<1> QED BY <1>2, <1>4

(* The pattern settings that the others leave. *)
IsDerived(t, c) ==
  /\ t = [name \in Npmrcs!Typed |-> t[name]]
  /\ \A name \in Npmrcs!Typed \ Npmrcs!Patterns : t[name] = c[name]
  /\ t["hoist-pattern"] = IF c["hoist"] /\ c["symlink"] THEN c["hoist-pattern"] ELSE {}
  /\ t["public-hoist-pattern"] =
       IF c["symlink"] THEN IF c["shamefully-hoist"] THEN {"*"}
                            ELSE c["public-hoist-pattern"] \ {""}
       ELSE {}

(* The settings that others change, and those that nothing changes. *)
LEMMA DerivedIs ==
  ASSUME NEW c, c = [name \in Npmrcs!Typed |-> c[name]]
  PROVE  IsDerived(Npmrcs!Derived(c), c)
<1> DEFINE t == Npmrcs!Derived(c)
           hoisted == IF c["hoist"] /\ c["symlink"] THEN c["hoist-pattern"] ELSE {}
           public == IF c["symlink"] THEN IF c["shamefully-hoist"] THEN {"*"}
                                          ELSE c["public-hoist-pattern"] \ {""}
                     ELSE {}
<1>1. t = [c EXCEPT !["hoist-pattern"] = hoisted, !["public-hoist-pattern"] = public]
  BY DEF Npmrcs!Derived
<1> HIDE DEF hoisted, public, t
<1>2. {"hoist-pattern", "public-hoist-pattern"} \subseteq Npmrcs!Typed
  BY DEF Npmrcs!Typed, Npmrcs!Patterns
<1>3. /\ t = [name \in Npmrcs!Typed |-> t[name]]
      /\ \A name \in Npmrcs!Typed \ Npmrcs!Patterns : t[name] = c[name]
      /\ t["hoist-pattern"] = hoisted /\ t["public-hoist-pattern"] = public
  BY <1>1, <1>2 DEF Npmrcs!Patterns
<1> QED BY <1>3 DEF hoisted, public, t, IsDerived

(* An importer of a workspace derives them again. *)
LEMMA AgainIs ==
  ASSUME NEW c, c = [name \in Npmrcs!Typed |-> c[name]], NEW t, t = Npmrcs!Derived(c), NEW env,
         NEW u, u = Npmrcs!Proxies(t, env)
  PROVE  /\ Npmrcs!ForProject(u, FALSE) = u
         /\ "*" \in Npmrcs!ForProject(u, TRUE)["public-hoist-pattern"] <=> u["symlink"]
<1> DEFINE names == Npmrcs!Typed
<1>1. {"hoist", "symlink", "shamefully-hoist"}
        \subseteq names \ (Npmrcs!Patterns \cup Npmrcs!Aliased)
  BY DEF Npmrcs!Typed, Npmrcs!Flags, Npmrcs!Patterns, Npmrcs!Aliased
<1>2. {"hoist-pattern", "public-hoist-pattern"} = Npmrcs!Patterns
      /\ Npmrcs!Patterns \subseteq names \ Npmrcs!Aliased
  BY DEF Npmrcs!Typed, Npmrcs!Patterns, Npmrcs!Aliased
<1>3. IsDerived(t, c)
  BY DerivedIs
<1>4. /\ u = [name \in names |-> u[name]]
      /\ \A name \in names \ Npmrcs!Aliased : u[name] = t[name]
  <2>1. t = [name \in Npmrcs!Typed |-> t[name]]
    BY <1>3 DEF IsDerived
  <2> QED BY <2>1, ProxiesAre
<1>5. Npmrcs!ForProject(u, FALSE) = u
  <2>1. Npmrcs!ForProject(u, FALSE) = Npmrcs!Derived(u)
    BY DEF Npmrcs!ForProject
  <2> DEFINE d == Npmrcs!Derived(u)
  <2>2. IsDerived(d, u)
    BY <1>4, DerivedIs
  <2> HIDE DEF d, names
  <2>3. (u["hoist"] <=> c["hoist"]) /\ (u["symlink"] <=> c["symlink"])
        /\ (u["shamefully-hoist"] <=> c["shamefully-hoist"])
    BY <1>1, <1>3, <1>4 DEF IsDerived, names
  <2>4. u["hoist-pattern"] = t["hoist-pattern"]
        /\ u["public-hoist-pattern"] = t["public-hoist-pattern"]
    BY <1>2, <1>4
  <2>5. d["hoist-pattern"] = u["hoist-pattern"]
    BY <1>3, <2>2, <2>3, <2>4 DEF IsDerived
  <2>6. d["public-hoist-pattern"] = u["public-hoist-pattern"]
    BY <1>3, <2>2, <2>3, <2>4 DEF IsDerived
  <2>7. \A name \in names : d[name] = u[name]
    BY <1>2, <2>2, <2>5, <2>6 DEF IsDerived, names
  <2>8. d = u
    BY <1>4, <2>2, <2>7 DEF IsDerived, names
  <2> QED BY <2>1, <2>8 DEF d
<1>6. "*" \in Npmrcs!ForProject(u, TRUE)["public-hoist-pattern"] <=> u["symlink"]
  <2>1. ASSUME NEW yes, yes = TRUE,
               NEW e, e = [u EXCEPT !["shamefully-hoist"] = yes, !["hoist"] = yes]
        PROVE  "*" \in Npmrcs!Derived(e)["public-hoist-pattern"] <=> u["symlink"]
    <3>1. e = [name \in names |-> e[name]] /\ e["symlink"] = u["symlink"]
          /\ e["shamefully-hoist"] = yes
      BY <1>1, <1>4, <2>1
    <3>2. IsDerived(Npmrcs!Derived(e), e)
      BY <3>1, DerivedIs
    <3>3. e["shamefully-hoist"]
      BY <2>1, <3>1
    <3> QED BY <3>1, <3>2, <3>3 DEF IsDerived
  <2>2. Npmrcs!ForProject(u, TRUE)
          = Npmrcs!Derived([u EXCEPT !["shamefully-hoist"] = TRUE, !["hoist"] = TRUE])
    BY DEF Npmrcs!ForProject
  <2> QED BY <2>1, <2>2
<1> QED BY <1>5, <1>6

Plainly == {"hoist", "symlink", "registry", "proxy", "noproxy"}

LEMMA PlainlyAre ==
  /\ Plainly \subseteq Npmrcs!Typed \ (Npmrcs!Patterns \cup Npmrcs!Aliased)
  /\ \A name \in Plainly : name \notin Npmrcs!Aliased
BY DEF Plainly, Npmrcs!Typed, Npmrcs!Flags, Npmrcs!Patterns, Npmrcs!Texts, Npmrcs!Aliased

(* What importers and requests derive agrees with the settings. *)
Consistent(typed) ==
  /\ typed["https-proxy"] = None => typed["proxy"] = None
  /\ Npmrcs!ForProject(typed, FALSE) = typed
  /\ "*" \in Npmrcs!ForProject(typed, TRUE)["public-hoist-pattern"] <=> typed["symlink"]

(* A setting that no other one changes has the value of the files. *)
LEMMA TypedIs ==
  ASSUME NEW home, NEW current, NEW env,
         AreLines(Npmrcs!Lines(home)), AreLines(Npmrcs!Lines(current)), Settled(home, current),
         NEW config \in Npmrcs!Loads(home, current, env), config # Failed,
         NEW L, L = Joined(home, current)
  PROVE  /\ \A name \in Plainly : config.typed[name] = Npmrcs!Value(L, name)
         /\ Consistent(config.typed)
<1> DEFINE c == Npmrcs!Parse(L)
           t == Npmrcs!Derived(c)
           u == Npmrcs!Proxies(t, env)
<1>1. config.typed = u
  BY LoadIs, ReadIs
<1>2. c = [name \in Npmrcs!Typed |-> c[name]]
      /\ \A name \in Npmrcs!Typed : c[name] = Npmrcs!Value(L, name)
  BY DEF Npmrcs!Parse
<1> HIDE DEF c
<1>3. IsDerived(t, c)
  BY <1>2, DerivedIs
<1>4. t = [name \in Npmrcs!Typed |-> t[name]]
      /\ \A name \in Npmrcs!Typed \ Npmrcs!Patterns : t[name] = c[name]
  BY <1>3 DEF IsDerived
<1>5. /\ Npmrcs!ForProject(u, FALSE) = u
      /\ "*" \in Npmrcs!ForProject(u, TRUE)["public-hoist-pattern"] <=> u["symlink"]
  BY <1>2, AgainIs
<1> HIDE DEF t
<1>6. /\ \A name \in Npmrcs!Typed \ Npmrcs!Aliased : u[name] = t[name]
      /\ u["https-proxy"] = None => t["proxy"] = None
  BY <1>4, ProxiesAre
<1> HIDE DEF u
<1>7. \A name \in Plainly : u[name] = Npmrcs!Value(L, name) /\ u[name] = t[name]
  BY <1>2, <1>4, <1>6, PlainlyAre
<1>8. u["https-proxy"] = None => u["proxy"] = None
  BY <1>6, <1>7 DEF Plainly
<1>9. Consistent(u)
  BY <1>5, <1>8 DEF Consistent
<1> QED BY <1>1, <1>7, <1>9

(* Only the line with its own name sets such a setting. *)
LEMMA SetsAre ==
  ASSUME NEW L, AreLines(L), NEW i \in 1 .. Len(L), NEW name \in Plainly
  PROVE  Npmrcs!Sets(L[i], name) <=> L[i].key = Npmrcs!Setting(name)
<1> DEFINE key == L[i].key
<1>1. key = [for |-> key.for, name |-> key.name, form |-> key.form]
  BY DEF AreLines, Npmrcs!Key
<1>2. Npmrcs!Setting(name) = [for |-> <<>>, name |-> name, form |-> "usual"]
  BY DEF Npmrcs!Setting, Npmrcs!Key
<1>3. Npmrcs!Sets(L[i], name) <=> key.for = <<>> /\ key.name = name /\ key.form = "usual"
  BY PlainlyAre DEF Npmrcs!Sets
<1> HIDE DEF key
<1> QED BY <1>1, <1>2, <1>3 DEF key

(* What is shown of such a setting is what the files say of it. *)
LEMMA ValueIs ==
  ASSUME NEW home, NEW current,
         AreLines(Npmrcs!Lines(home)), AreLines(Npmrcs!Lines(current)), Settled(home, current),
         NEW L, L = Joined(home, current), NEW R, R = Npmrcs!Raw(L), NEW name \in Plainly
  PROVE  /\ Npmrcs!Value(L, name) = IF Npmrcs!Setting(name) \in DOMAIN R
                                    THEN Npmrcs!Parsed(name, R[Npmrcs!Setting(name)])
                                    ELSE Npmrcs!Default(name)
         /\ \A i \in DOMAIN L : Npmrcs!Sets(L[i], name) =>
              /\ L[i].key = Npmrcs!Setting(name)
              /\ Npmrcs!Setting(name) \in DOMAIN R /\ R[Npmrcs!Setting(name)] = L[i].says
              /\ Npmrcs!Value(L, name) = Npmrcs!Parsed(name, L[i].says)
<1> DEFINE s == Npmrcs!Setting(name)
<1>1. AreLines(L) /\ DOMAIN L = 1 .. Len(L) /\ Len(L) \in Nat
  <2>1. AreLines(L)
    BY LinesAre, JoinIs DEF Joined
  <2> QED BY <2>1 DEF AreLines
<1>2. \A i, j \in DOMAIN L : (Npmrcs!Sets(L[i], name) /\ Npmrcs!Sets(L[j], name)) => i = j
  BY PlainlyAre DEF Settled, Joined
<1>3. \A i \in DOMAIN L : Npmrcs!Sets(L[i], name) =>
        Npmrcs!Value(L, name) = Npmrcs!Parsed(name, L[i].says)
  BY ReadIs, PlainlyAre
<1>4. \A i \in DOMAIN L : Npmrcs!Sets(L[i], name) <=> L[i].key = s
  BY <1>1, SetsAre
<1> HIDE DEF s
<1>5. ASSUME NEW i \in DOMAIN L, Npmrcs!Sets(L[i], name)
      PROVE  s \in DOMAIN R /\ R[s] = L[i].says /\ L[i].key = s
  <2>1. L[i].key = s
    BY <1>4, <1>5
  <2>2. \A j \in 1 .. Len(L) : L[j].key = L[i].key => j <= i
    BY <1>1, <1>2, <1>4, <1>5
  <2>3. L[i].key \in DOMAIN R /\ R[L[i].key] = L[i].says
    BY <1>1, <2>2, RawAt
  <2> QED BY <2>1, <2>3
<1>6. CASE s \in DOMAIN R
  <2>1. PICK m \in 1 .. Len(L) : L[m].key = s /\ R[s] = L[m].says
    BY <1>1, <1>6, RawHas
  <2>2. Npmrcs!Value(L, name) = Npmrcs!Parsed(name, L[m].says)
    BY <1>1, <1>3, <1>4, <2>1
  <2> QED BY <1>3, <1>5, <1>6, <2>1, <2>2 DEF s
<1>7. CASE s \notin DOMAIN R
  <2>1. Npmrcs!Setters(L, name) = {}
    BY <1>5, <1>7 DEF Npmrcs!Setters
  <2>2. Npmrcs!Value(L, name) = Npmrcs!Default(name)
    BY <2>1 DEF Npmrcs!Value
  <2> QED BY <1>5, <1>7, <2>2 DEF s
<1> QED BY <1>6, <1>7

(* What a command goes by is what the files say, and what is shown. *)
LEMMA SettingsAgreeIs ==
  ASSUME NEW home, NEW current, NEW env, IsFile(home), IsFile(current), Settled(home, current),
         NEW config \in Npmrcs!Loads(home, current, env), config # Failed
  PROVE  SettingsAgree(home, current, config)
<1> DEFINE L == Joined(home, current)
           R == Npmrcs!Raw(L)
           four == {"hoist", "symlink", "registry", "proxy"}
<1>1. /\ \A name \in Plainly : config.typed[name] = Npmrcs!Value(L, name)
      /\ Consistent(config.typed)
  BY LinesAre, TypedIs
<1>2. four \subseteq Plainly
  BY DEF Plainly
<1>3. \A key \in DOMAIN R : key \in DOMAIN config.raw /\ config.raw[key] = R[key]
  <2> DEFINE registry == Npmrcs!Derived(Npmrcs!Read(home, current))["registry"]
  <2>1. config.raw = Npmrcs!Written(home, current, registry)
    BY LoadIs
  <2> HIDE DEF registry
  <2> DEFINE raw == Npmrcs!Written(home, current, registry)
  <2>2. /\ DOMAIN raw = DOMAIN R \cup {Npmrcs!Setting("registry")}
        /\ \A key \in DOMAIN R : raw[key] = R[key]
    BY WrittenIs
  <2> HIDE DEF raw, R
  <2>3. \A key \in DOMAIN R : key \in DOMAIN raw /\ raw[key] = R[key]
    BY <2>2
  <2> QED BY <2>1, <2>3 DEF raw
<1>4. ASSUME NEW i \in DOMAIN L, NEW name \in four, Npmrcs!Sets(L[i], name)
      PROVE  /\ config.typed[name] = Npmrcs!Parsed(name, L[i].says)
             /\ Npmrcs!Get(config, L[i].key) = L[i].says
  <2>1. /\ L[i].key = Npmrcs!Setting(name)
        /\ Npmrcs!Setting(name) \in DOMAIN R /\ R[Npmrcs!Setting(name)] = L[i].says
        /\ Npmrcs!Value(L, name) = Npmrcs!Parsed(name, L[i].says)
    BY <1>2, <1>4, LinesAre, ValueIs
  <2>2. Npmrcs!Normalized(Npmrcs!Setting(name)) = Npmrcs!Setting(name)
    BY DEF Npmrcs!Normalized, Npmrcs!Setting, Npmrcs!Key
  <2> HIDE DEF R, L
  <2>3. Npmrcs!Get(config, L[i].key) = L[i].says
    BY <1>3, <2>1, <2>2 DEF Npmrcs!Get
  <2> QED BY <1>1, <1>2, <2>1, <2>3
<1>5. ASSUME NEW name \in four, \A i \in DOMAIN L : ~ Npmrcs!Sets(L[i], name)
      PROVE  config.typed[name] = Npmrcs!Default(name)
  <2>1. Npmrcs!Setters(L, name) = {}
    BY <1>5 DEF Npmrcs!Setters
  <2>2. Npmrcs!Value(L, name) = Npmrcs!Default(name)
    BY <2>1 DEF Npmrcs!Value
  <2> QED BY <1>1, <1>2, <2>2
<1>6. L = Npmrcs!Lines(home) \o Npmrcs!Lines(current)
  BY DEF Joined
<1> HIDE DEF L
<1> QED BY <1>1, <1>4, <1>5, <1>6 DEF SettingsAgree, Consistent
-----------------------------------------------------------------------------
(* What a request is sent with. *)

LEMMA JoinedIs ==
  ASSUME NEW home, NEW current, IsFile(home), IsFile(current),
         NEW L, L = Joined(home, current)
  PROVE  AreLines(L) /\ DOMAIN L = 1 .. Len(L) /\ Len(L) \in Nat
<1> DEFINE A == Npmrcs!Lines(home)
           B == Npmrcs!Lines(current)
<1>1. AreLines(A) /\ AreLines(B)
  BY LinesAre
<1> HIDE DEF A, B
<1>2. L = A \o B
  BY DEF Joined, A, B
<1>3. AreLines(L)
  BY <1>1, <1>2, JoinIs
<1> QED BY <1>3 DEF AreLines

LEMMA ForIs ==
  ASSUME NEW at, NEW name
  PROVE  Npmrcs!For(at, name).for = at /\ Npmrcs!For(at, name).name = name
BY DEF Npmrcs!For, Npmrcs!Key

(* The usual form of a key is for the same and has the same name. *)
LEMMA UsualIs ==
  ASSUME NEW k, k = Npmrcs!Key(k.for, k.name, k.form), NEW u, u = Npmrcs!Usual(k)
  PROVE  u.for = k.for /\ u.name = k.name
BY DEF Npmrcs!Usual, Npmrcs!Key

AreFields(fields, raw) ==
  /\ \A k \in DOMAIN raw : Npmrcs!Usual(k) \in DOMAIN fields
  /\ \A key \in DOMAIN fields :
       \E k \in DOMAIN raw : Npmrcs!Usual(k) = key /\ fields[key] = raw[k]

(* However the keys of a URL meet, one of them has the last word. *)
LEMMA FieldsAre ==
  ASSUME NEW raw, NEW fields \in Npmrcs!Fields(raw)
  PROVE  AreFields(fields, raw)
<1> DEFINE usual == {Npmrcs!Usual(k) : k \in DOMAIN raw}
<1>1. PICK last \in SUBSET DOMAIN raw :
        /\ {Npmrcs!Usual(k) : k \in last} = usual
        /\ fields = [key \in usual |-> raw[CHOOSE k \in last : Npmrcs!Usual(k) = key]]
  BY DEF Npmrcs!Fields
<1>2. ASSUME NEW key \in usual
      PROVE  \E k \in DOMAIN raw : Npmrcs!Usual(k) = key /\ fields[key] = raw[k]
  <2>1. \E k \in last : Npmrcs!Usual(k) = key
    BY <1>1
  <2>2. PICK k : k = CHOOSE w \in last : Npmrcs!Usual(w) = key
    OBVIOUS
  <2>3. k \in last /\ Npmrcs!Usual(k) = key
    BY <2>1, <2>2
  <2>4. fields[key] = raw[k]
    BY <1>1, <2>2
  <2> QED BY <1>1, <2>3, <2>4
<1>3. DOMAIN fields = usual /\ \A k \in DOMAIN raw : Npmrcs!Usual(k) \in usual
  BY <1>1
<1> QED BY <1>2, <1>3 DEF AreFields

(* Some line that counts says so of the key, in whatever form. *)
Said(L, key, value) ==
  \E i \in DOMAIN L :
    /\ Prevails(L, i) /\ Npmrcs!Usual(L[i].key) = key /\ value = L[i].says
    /\ L[i].key.for = key.for /\ L[i].key.name = key.name

(* A setting, but for the registry, is a line. *)
LEMMA SaidIs ==
  ASSUME NEW home, NEW current, IsFile(home), IsFile(current),
         NEW L, L = Joined(home, current), NEW registry,
         NEW fields \in Npmrcs!Fields(Npmrcs!Written(home, current, registry)),
         NEW key \in DOMAIN fields, key.name # "registry"
  PROVE  Said(L, key, fields[key])
<1> DEFINE R == Npmrcs!Raw(L)
           raw == Npmrcs!Written(home, current, registry)
           s == Npmrcs!Setting("registry")
<1>1. AreLines(L) /\ DOMAIN L = 1 .. Len(L)
  BY JoinedIs
<1>2. DOMAIN raw = DOMAIN R \cup {s} /\ \A k \in DOMAIN R : raw[k] = R[k]
  BY WrittenIs
<1>3. s = Npmrcs!Key(s.for, s.name, s.form) /\ s.name = "registry"
  BY DEF Npmrcs!Setting, Npmrcs!Key
<1>4. AreFields(fields, raw)
  BY FieldsAre
<1> HIDE DEF R, raw, s
<1>5. PICK k \in DOMAIN raw : Npmrcs!Usual(k) = key /\ fields[key] = raw[k]
  BY <1>4 DEF AreFields
<1>6. k \in DOMAIN R
  <2>1. k # s
    BY <1>3, <1>5, UsualIs
  <2> QED BY <1>2, <2>1
<1>7. PICK i \in 1 .. Len(L) :
        /\ L[i].key = k /\ R[k] = L[i].says
        /\ \A j \in 1 .. Len(L) : L[j].key = k => j <= i
  BY <1>1, <1>6, RawHas DEF R
<1>8. k = Npmrcs!Key(k.for, k.name, k.form)
  BY <1>1, <1>7 DEF AreLines
<1>9. key.for = k.for /\ key.name = k.name
  BY <1>5, <1>8, UsualIs
<1>10. i \in DOMAIN L /\ Prevails(L, i)
  BY <1>1, <1>7 DEF Prevails
<1>11. fields[key] = L[i].says
  BY <1>2, <1>5, <1>6, <1>7
<1> QED BY <1>5, <1>7, <1>9, <1>10, <1>11 DEF Said

(* A header for a URL is made from a line for it. *)
FromLine(L, at, header) ==
  \E i \in DOMAIN L : Prevails(L, i) /\ L[i].key.for = at /\ Yields(L[i], header)

(* What a line says for a URL makes a header that comes from it. *)
LEMMA FromSaid ==
  ASSUME NEW L, NEW at, NEW header, NEW name, NEW value,
         Said(L, Npmrcs!For(at, name), value),
         \/ name = "_authToken" /\ header = <<"Bearer", value>>
         \/ name = "_auth" /\ header = <<"Basic", value>>
         \/ name = "username" /\ Len(header) = 3 /\ header[2] = value
  PROVE  FromLine(L, at, header)
<1>1. PICK i \in DOMAIN L :
        /\ Prevails(L, i) /\ value = L[i].says
        /\ L[i].key.for = Npmrcs!For(at, name).for
        /\ L[i].key.name = Npmrcs!For(at, name).name
  BY DEF Said
<1>2. L[i].key.for = at /\ L[i].key.name = name
  BY <1>1, ForIs
<1>3. Yields(L[i], header)
  BY <1>1, <1>2 DEF Yields
<1> QED BY <1>1, <1>2, <1>3 DEF FromLine

(* A header for a URL comes from a line for it. *)
LEMMA HeaderAtIs ==
  ASSUME NEW home, NEW current, IsFile(home), IsFile(current),
         NEW L, L = Joined(home, current), NEW registry,
         NEW fields \in Npmrcs!Fields(Npmrcs!Written(home, current, registry)),
         NEW user, user = Npmrcs!Raw(Npmrcs!Lines(current)),
         NEW at, NEW header, header = Npmrcs!HeaderAt(fields, user, at),
         header # None, header # Failed
  PROVE  FromLine(L, at, header)
<1> DEFINE helper == Npmrcs!For(at, "tokenHelper")
           token == Npmrcs!For(at, "_authToken")
           auth == Npmrcs!For(at, "_auth")
           name == Npmrcs!For(at, "username")
           word == Npmrcs!For(at, "_password")
           password == fields[word]
           said == IF at = <<>> THEN password ELSE password.text
<1>1. header =
        IF helper \in DOMAIN user
        THEN IF user[helper] = "runs" THEN <<"", "token">> ELSE Failed
        ELSE IF token \in DOMAIN fields THEN <<"Bearer", fields[token]>>
        ELSE IF auth \in DOMAIN fields THEN <<"Basic", fields[auth]>>
        ELSE IF name \in DOMAIN fields /\ word \in DOMAIN fields
                  /\ (at = <<>> \/ password.encoded)
        THEN <<"Basic", fields[name], said>>
        ELSE None
  BY DEF Npmrcs!HeaderAt
<1>2. /\ helper.for = at
      /\ token.name # "registry" /\ auth.name # "registry" /\ name.name # "registry"
  <2>1. token.name = "_authToken" /\ auth.name = "_auth" /\ name.name = "username"
    BY ForIs
  <2> QED BY <2>1, ForIs
<1> HIDE DEF helper, token, auth, name, word, said
<1>3. CASE helper \in DOMAIN user
  <2>1. header = <<"", "token">>
    BY <1>1, <1>3
  <2>2. AreLines(Npmrcs!Lines(home)) /\ AreLines(Npmrcs!Lines(current))
    BY LinesAre
  <2>3. helper \in DOMAIN Npmrcs!Raw(L)
    BY <1>3, <2>2, RawJoin DEF Joined
  <2>4. AreLines(L) /\ DOMAIN L = 1 .. Len(L)
    BY JoinedIs
  <2>5. PICK i \in 1 .. Len(L) :
          L[i].key = helper /\ \A j \in 1 .. Len(L) : L[j].key = helper => j <= i
    BY <2>3, <2>4, RawHas
  <2>6. Prevails(L, i)
    BY <2>4, <2>5 DEF Prevails
  <2>7. L[i].key = Npmrcs!For(L[i].key.for, "tokenHelper")
    BY <1>2, <2>5 DEF helper
  <2>8. Yields(L[i], header)
    BY <2>1, <2>7 DEF Yields
  <2> QED BY <1>2, <2>4, <2>5, <2>6, <2>8 DEF FromLine
<1>4. CASE helper \notin DOMAIN user /\ token \in DOMAIN fields
  <2>1. header = <<"Bearer", fields[token]>>
    BY <1>1, <1>4
  <2>2. Said(L, token, fields[token])
    BY <1>2, <1>4, SaidIs
  <2> QED BY <2>1, <2>2, FromSaid DEF token
<1>5. CASE helper \notin DOMAIN user /\ token \notin DOMAIN fields /\ auth \in DOMAIN fields
  <2>1. header = <<"Basic", fields[auth]>>
    BY <1>1, <1>5
  <2>2. Said(L, auth, fields[auth])
    BY <1>2, <1>5, SaidIs
  <2> QED BY <2>1, <2>2, FromSaid DEF auth
<1>6. CASE helper \notin DOMAIN user /\ token \notin DOMAIN fields /\ auth \notin DOMAIN fields
  <2>1. header = <<"Basic", fields[name], said>> /\ name \in DOMAIN fields
    BY <1>1, <1>6
  <2>2. Said(L, name, fields[name])
    BY <1>2, <2>1, SaidIs
  <2>3. Len(header) = 3 /\ header[2] = fields[name]
    BY <2>1
  <2> QED BY <2>2, <2>3, FromSaid DEF name
<1> QED BY <1>3, <1>4, <1>5, <1>6

(* The tokens for a URL that count, however it is written. *)
TokensAt(L, at) ==
  {i \in DOMAIN L :
     Prevails(L, i) /\ Npmrcs!Usual(L[i].key) = Npmrcs!For(at, "_authToken")}

Helped(current, at) ==
  \E i \in DOMAIN Npmrcs!Lines(current) :
    Npmrcs!Lines(current)[i].key = Npmrcs!For(at, "tokenHelper")

OfToken(header, L, current, at) ==
  \/ header = Failed
  \/ Helped(current, at) /\ header = <<"", "token">>
  \/ ~ Helped(current, at) /\ \E i \in TokensAt(L, at) : header = <<"Bearer", L[i].says>>

(* A URL with a token has one of its tokens, unless a helper gives one. *)
LEMMA TokenIs ==
  ASSUME NEW home, NEW current, IsFile(home), IsFile(current),
         NEW L, L = Joined(home, current), NEW registry,
         NEW fields \in Npmrcs!Fields(Npmrcs!Written(home, current, registry)),
         NEW user, user = Npmrcs!Raw(Npmrcs!Lines(current)),
         NEW at, TokensAt(L, at) # {}
  PROVE  /\ Npmrcs!For(at, "_authToken") \in DOMAIN fields
         /\ OfToken(Npmrcs!HeaderAt(fields, user, at), L, current, at)
<1> DEFINE R == Npmrcs!Raw(L)
           raw == Npmrcs!Written(home, current, registry)
           helper == Npmrcs!For(at, "tokenHelper")
           token == Npmrcs!For(at, "_authToken")
<1>1. AreLines(L) /\ DOMAIN L = 1 .. Len(L)
  BY JoinedIs
<1>2. token \in DOMAIN fields
  <2>1. PICK i \in DOMAIN L : Npmrcs!Usual(L[i].key) = token
    BY DEF TokensAt
  <2>2. L[i].key \in DOMAIN R
    BY <1>1, RawKeys
  <2>3. L[i].key \in DOMAIN raw
    <3>1. DOMAIN raw = DOMAIN R \cup {Npmrcs!Setting("registry")}
      BY WrittenIs
    <3> HIDE DEF R, raw
    <3> QED BY <2>2, <3>1
  <2>4. AreFields(fields, raw)
    BY FieldsAre
  <2> HIDE DEF raw, token
  <2> QED BY <2>1, <2>3, <2>4 DEF AreFields
<1>3. \E i \in TokensAt(L, at) : fields[token] = L[i].says
  <2>1. token.name # "registry"
    <3>1. token.name = "_authToken"
      BY ForIs
    <3> QED BY <3>1
  <2>2. Said(L, token, fields[token])
    BY <1>2, <2>1, SaidIs
  <2> QED BY <2>2 DEF Said, TokensAt
<1>4. helper \in DOMAIN user <=> Helped(current, at)
  <2>1. AreLines(Npmrcs!Lines(current))
    BY LinesAre
  <2>2. DOMAIN Npmrcs!Lines(current) = 1 .. Len(Npmrcs!Lines(current))
    BY <2>1 DEF AreLines
  <2>3. /\ \A i \in DOMAIN Npmrcs!Lines(current) : Npmrcs!Lines(current)[i].key \in DOMAIN user
        /\ \A key \in DOMAIN user :
             \E i \in DOMAIN Npmrcs!Lines(current) : Npmrcs!Lines(current)[i].key = key
    BY <2>1, <2>2, RawKeys
  <2> HIDE DEF helper
  <2> QED BY <2>3 DEF Helped, helper
<1>5. helper \notin DOMAIN user => Npmrcs!HeaderAt(fields, user, at) = <<"Bearer", fields[token]>>
  BY <1>2 DEF Npmrcs!HeaderAt
<1>6. helper \in DOMAIN user => \/ Npmrcs!HeaderAt(fields, user, at) = Failed
                                \/ Npmrcs!HeaderAt(fields, user, at) = <<"", "token">>
  BY DEF Npmrcs!HeaderAt
<1> HIDE DEF helper, token
<1>7. OfToken(Npmrcs!HeaderAt(fields, user, at), L, current, at)
  BY <1>3, <1>4, <1>5, <1>6 DEF OfToken
<1> QED BY <1>2, <1>7 DEF token

AreHeaders(all, fields, user, registry) ==
  /\ \A u \in DOMAIN all :
       /\ all[u] # Failed /\ all[u] # None
       /\ \/ u # <<>> /\ all[u] = Npmrcs!HeaderAt(fields, user, u)
          \/ u = registry.at /\ all[u] = Npmrcs!HeaderAt(fields, user, <<>>)
  /\ \A k \in DOMAIN fields :
       (k.for # <<>> /\ k.name # "registry" /\ Npmrcs!HeaderAt(fields, user, k.for) # None) =>
         k.for \in DOMAIN all /\ all[k.for] = Npmrcs!HeaderAt(fields, user, k.for)

(* The headers of a command: those of each URL, and of the registry. *)
LEMMA HeadersAre ==
  ASSUME NEW fields, NEW user, NEW registry,
         NEW all, all = Npmrcs!Headers(fields, user, registry), all # Failed
  PROVE  AreHeaders(all, fields, user, registry)
<1> DEFINE At(u) == Npmrcs!HeaderAt(fields, user, u)
           urls == {k.for : k \in {k \in DOMAIN fields : k.for # <<>> /\ k.name # "registry"}}
           own == [u \in {u \in urls : At(u) # None} |-> At(u)]
           global == At(<<>>)
           made == IF registry.at \in DOMAIN own \/ global = None THEN own
                   ELSE Npmrcs!Over(own, [at \in {registry.at} |-> global])
<1>1. all = IF \E u \in DOMAIN made : made[u] = Failed THEN Failed ELSE made
  BY DEF Npmrcs!Headers
<1>2. \A k \in DOMAIN fields : k.for # <<>> /\ k.name # "registry" => k.for \in urls
  OBVIOUS
<1>3. \A u \in urls : u # <<>>
  OBVIOUS
<1> HIDE DEF At, urls
<1>4. /\ \A u : u \in DOMAIN own <=> u \in urls /\ At(u) # None
      /\ \A u \in DOMAIN own : own[u] = At(u)
  OBVIOUS
<1>5. IF registry.at \in DOMAIN own \/ global = None THEN made = own
      ELSE made = [u \in DOMAIN own \cup {registry.at} |->
                     IF u \in DOMAIN own THEN own[u] ELSE [at \in {registry.at} |-> global][u]]
  <2> HIDE DEF own, global
  <2> QED BY DEF Npmrcs!Over
<1> HIDE DEF own, global, made
<1>6. /\ \A u \in DOMAIN own : u \in DOMAIN made /\ made[u] = own[u]
      /\ \A u \in DOMAIN made : u \in DOMAIN own \/ (u = registry.at /\ made[u] = global
                                                       /\ global # None)
  <2>1. CASE registry.at \in DOMAIN own \/ global = None
    BY <1>5, <2>1
  <2>2. CASE ~ (registry.at \in DOMAIN own \/ global = None)
    BY <1>5, <2>2
  <2> QED BY <2>1, <2>2
<1>7. all = made /\ \A u \in DOMAIN made : made[u] # Failed
  BY <1>1
<1>8. \A u \in DOMAIN all :
        /\ all[u] # Failed /\ all[u] # None
        /\ \/ u # <<>> /\ all[u] = At(u)
           \/ u = registry.at /\ all[u] = global
  BY <1>3, <1>4, <1>6, <1>7
<1>9. \A k \in DOMAIN fields :
        (k.for # <<>> /\ k.name # "registry" /\ At(k.for) # None) =>
          k.for \in DOMAIN all /\ all[k.for] = At(k.for)
  BY <1>2, <1>4, <1>6, <1>7
<1> QED BY <1>8, <1>9 DEF At, global, AreHeaders

(* The header of the longest part of a URL that has one. *)
IsHeader(header, headers, url) ==
  /\ \A n \in 1 .. Len(url) : SubSeq(url, 1, n) # <<>>
  /\ (\A n \in 1 .. Len(url) : SubSeq(url, 1, n) \notin DOMAIN headers) => header = None
  /\ (\E n \in 1 .. Len(url) : SubSeq(url, 1, n) \in DOMAIN headers) =>
       \E n \in 1 .. Len(url) :
         SubSeq(url, 1, n) \in DOMAIN headers /\ header = headers[SubSeq(url, 1, n)]
  /\ url # <<>> /\ url \in DOMAIN headers => header = headers[url]

(* A request takes the header of the longest prefix that has one. *)
LEMMA HeaderForIs ==
  ASSUME NEW headers, NEW url, Len(url) \in Nat, url = [n \in 1 .. Len(url) |-> url[n]],
         NEW header, header = Npmrcs!HeaderFor(headers, url, None)
  PROVE  IsHeader(header, headers, url)
<1> USE DEF IsHeader
<1> DEFINE lengths == {n \in 1 .. Len(url) : SubSeq(url, 1, n) \in DOMAIN headers}
<1>1. header = IF lengths = {} THEN None ELSE headers[SubSeq(url, 1, Npmrcs!Max(lengths))]
  BY DEF Npmrcs!HeaderFor
<1>2. url \in Seq({url[n] : n \in 1 .. Len(url)})
  OBVIOUS
<1>3. ASSUME NEW n \in 1 .. Len(url)
      PROVE  SubSeq(url, 1, n) # <<>>
  <2>1. n \in Nat /\ n # 0
    OBVIOUS
  <2>2. Len(SubSeq(url, 1, n)) = n
    BY <1>2
  <2> QED BY <2>1, <2>2
<1>4. SubSeq(url, 1, Len(url)) = url
  <2> DEFINE s == SubSeq(url, 1, Len(url))
  <2>1. s = [n \in 1 .. Len(url) |-> url[n]]
    BY <1>2
  <2> QED BY <2>1
<1>5. CASE lengths = {}
  <2>1. header = None
    BY <1>1, <1>5
  <2>2. \A n \in 1 .. Len(url) : SubSeq(url, 1, n) \notin DOMAIN headers
    BY <1>5
  <2>3. url # <<>> => Len(url) \in 1 .. Len(url)
    BY <1>2
  <2>4. url # <<>> => url \notin DOMAIN headers
    BY <1>4, <2>2, <2>3
  <2> HIDE DEF lengths
  <2> QED BY <1>3, <1>4, <2>1, <2>2, <2>4
<1>6. CASE lengths # {}
  <2>1. Npmrcs!Max(lengths) \in lengths /\ \A n \in lengths : n <= Npmrcs!Max(lengths)
    BY <1>6, MaxIs
  <2> DEFINE m == Npmrcs!Max(lengths)
  <2>2. m \in 1 .. Len(url) /\ SubSeq(url, 1, m) \in DOMAIN headers
        /\ header = headers[SubSeq(url, 1, m)]
    BY <1>1, <1>6, <2>1
  <2>3. ASSUME url # <<>>, url \in DOMAIN headers
        PROVE  header = headers[url]
    <3>1. Len(url) \in 1 .. Len(url)
      BY <1>2, <2>3
    <3>2. Len(url) \in lengths
      BY <1>4, <2>3, <3>1
    <3>3. m = Len(url)
      <4>1. Len(url) <= m
        BY <2>1, <3>2
      <4> HIDE DEF m
      <4> QED BY <2>2, <4>1
    <3> HIDE DEF m
    <3> QED BY <1>4, <2>2, <3>3
  <2> HIDE DEF m, lengths
  <2> QED BY <1>3, <1>4, <2>2, <2>3
<1> QED BY <1>5, <1>6

(* No token makes a header that stands for none. *)
LEMMA BearerIs ==
  ASSUME NEW home, NEW current, IsFile(home), IsFile(current),
         NEW L, L = Joined(home, current), NEW i \in DOMAIN L
  PROVE  None # <<"Bearer", L[i].says>>
<1>1. ASSUME NEW file, IsFile(file), NEW j \in 1 .. Len(Npmrcs!Lines(file))
      PROVE  None # <<"Bearer", Npmrcs!Lines(file)[j].says>>
  <2>1. CASE file = None
    <3>1. Npmrcs!Lines(file) = <<>> /\ 1 .. Len(<<>>) = {}
      BY <2>1 DEF Npmrcs!Lines
    <3> QED BY <1>1, <3>1
  <2>2. CASE file # None
    BY <1>1, <2>2 DEF Npmrcs!Lines, IsFile
  <2> QED BY <2>1, <2>2
<1> DEFINE A == Npmrcs!Lines(home)
           B == Npmrcs!Lines(current)
<1>2. AreLines(A) /\ AreLines(B)
  BY LinesAre
<1>3. /\ \A j \in 1 .. Len(A) : None # <<"Bearer", A[j].says>>
      /\ \A j \in 1 .. Len(B) : None # <<"Bearer", B[j].says>>
  BY <1>1
<1>4. L = A \o B /\ i \in 1 .. Len(L)
  BY JoinedIs DEF Joined
<1> HIDE DEF A, B
<1>5. (\E j \in 1 .. Len(A) : L[i] = A[j]) \/ (\E j \in 1 .. Len(B) : L[i] = B[j])
  BY <1>2, <1>4, JoinIs
<1> QED BY <1>3, <1>5

(* The registry and the headers of a command. *)
LEMMA SetupIs ==
  ASSUME NEW home, NEW current, NEW env,
         NEW config \in Npmrcs!Loads(home, current, env), config # Failed
  PROVE  LET raw == Npmrcs!Written(home, current, config.typed["registry"])
             user == Npmrcs!Raw(Npmrcs!Lines(current))
         IN  /\ \E fields \in Npmrcs!Fields(raw) :
                  config.headers = Npmrcs!Headers(fields, user, config.typed["registry"])
             /\ config.raw = raw /\ config.headers # Failed
<1> DEFINE c == Npmrcs!Read(home, current)
           t == Npmrcs!Derived(c)
<1>1. c = [name \in Npmrcs!Typed |-> c[name]]
  BY DEF Npmrcs!Read, Npmrcs!Parse
<1>2. config.typed = Npmrcs!Proxies(t, env)
  BY LoadIs
<1> HIDE DEF c
<1>3. IsDerived(t, c)
  BY <1>1, DerivedIs
<1> HIDE DEF t
<1>4. t = [name \in Npmrcs!Typed |-> t[name]]
  BY <1>3 DEF IsDerived
<1>5. "registry" \in Npmrcs!Typed \ Npmrcs!Aliased
  BY PlainlyAre DEF Plainly
<1>6. config.typed["registry"] = t["registry"]
  BY <1>2, <1>4, <1>5, ProxiesAre
<1> QED BY <1>6, LoadIs DEF t, c

IsUrl(url) == url # <<>> /\ Len(url) \in Nat /\ url = [n \in 1 .. Len(url) |-> url[n]]

(* Requests are sent with what the files have for them, and nothing else. *)
LEMMA RequestsAuthorizedIs ==
  ASSUME NEW home, NEW current, NEW env, IsFile(home), IsFile(current), None # <<"", "token">>,
         NEW config \in Npmrcs!Loads(home, current, env), config # Failed,
         NEW urls, \A url \in urls : IsUrl(url)
  PROVE  RequestsAuthorized(home, current, config, urls)
<1>1. PICK L, registry, user, headers :
        /\ L = Joined(home, current) /\ registry = config.typed["registry"]
        /\ user = Npmrcs!Raw(Npmrcs!Lines(current)) /\ headers = config.headers
  OBVIOUS
<1>2. PICK fields \in Npmrcs!Fields(Npmrcs!Written(home, current, registry)) :
        headers = Npmrcs!Headers(fields, user, registry) /\ headers # Failed
  BY <1>1, SetupIs
<1>3. L = Npmrcs!Lines(home) \o Npmrcs!Lines(current)
  BY <1>1 DEF Joined
<1>4. AreLines(L) /\ DOMAIN L = 1 .. Len(L)
  BY <1>1, JoinedIs
<1>5. \A i \in DOMAIN L : None # <<"Bearer", L[i].says>>
  BY <1>1, BearerIs
<1>6. AreHeaders(headers, fields, user, registry)
  BY <1>1, <1>2, HeadersAre
(* Whatever is sent comes from a line. *)
<1>7. ASSUME NEW u \in DOMAIN headers
      PROVE  \E i \in DOMAIN L :
               /\ Prevails(L, i) /\ Yields(L[i], headers[u])
               /\ \/ L[i].key.for = u /\ u # <<>>
                  \/ L[i].key.for = <<>> /\ u = registry.at
  <2>1. ASSUME NEW at, NEW h, h = Npmrcs!HeaderAt(fields, user, at), h # None, h # Failed
        PROVE  FromLine(L, at, h)
    BY <1>1, <1>2, <2>1, HeaderAtIs
  <2>2. CASE u # <<>> /\ headers[u] = Npmrcs!HeaderAt(fields, user, u)
    <3>1. FromLine(L, u, headers[u])
      BY <1>6, <2>1, <2>2 DEF AreHeaders
    <3> QED BY <2>2, <3>1 DEF FromLine
  <2>3. CASE u = registry.at /\ headers[u] = Npmrcs!HeaderAt(fields, user, <<>>)
    <3>1. FromLine(L, <<>>, headers[u])
      BY <1>6, <2>1, <2>3 DEF AreHeaders
    <3> QED BY <2>3, <3>1 DEF FromLine
  <2> QED BY <1>6, <2>2, <2>3 DEF AreHeaders
(* Whatever has a token is sent with one, unless there is a helper. *)
<1>8. ASSUME NEW at, at # <<>>, TokensAt(L, at) # {}
      PROVE  at \in DOMAIN headers /\ OfToken(headers[at], L, current, at)
  <2>1. PICK token, h :
          token = Npmrcs!For(at, "_authToken") /\ h = Npmrcs!HeaderAt(fields, user, at)
    OBVIOUS
  <2>2. token \in DOMAIN fields /\ OfToken(h, L, current, at)
    BY <1>1, <1>2, <1>8, <2>1, TokenIs
  <2>3. token.for = at /\ token.name # "registry"
    <3>1. token.for = at /\ token.name = "_authToken"
      BY <2>1, ForIs
    <3> QED BY <3>1
  <2>4. h # None
    <3>1. \A i \in TokensAt(L, at) : i \in DOMAIN L
      BY DEF TokensAt
    <3> QED BY <1>5, <2>2, <3>1, FailedAssumption DEF OfToken
  <2>5. at \in DOMAIN headers /\ headers[at] = h
    BY <1>6, <1>8, <2>1, <2>2, <2>3, <2>4 DEF AreHeaders
  <2> QED BY <2>2, <2>5
<1>9. \A at : Helped(current, at) <=>
        \E i \in DOMAIN Npmrcs!Lines(current) :
          Npmrcs!Lines(current)[i].key = Npmrcs!For(at, "tokenHelper")
  BY DEF Helped
<1> SUFFICES ASSUME NEW url \in urls
             PROVE  LET header == Npmrcs!HeaderFor(config.headers, url, None)
                        At == {<<>>} \cup {SubSeq(url, 1, n) : n \in DOMAIN url}
                    IN  /\ header # None =>
                             \E i \in DOMAIN L :
                               /\ Prevails(L, i)
                               /\ L[i].key.for \in At /\ Yields(L[i], header)
                               /\ L[i].key.for = <<>> => registry.at \in At
                        /\ TokensAt(L, url) # {} =>
                             \/ Helped(current, url) /\ header = <<"", "token">>
                             \/ /\ ~ Helped(current, url)
                                /\ \E i \in TokensAt(L, url) : header = <<"Bearer", L[i].says>>
                        /\ header = None =>
                             \A n \in DOMAIN url : TokensAt(L, SubSeq(url, 1, n)) = {}
  BY <1>1, <1>3 DEF RequestsAuthorized, TokensAt, Helped
<1> DEFINE header == Npmrcs!HeaderFor(headers, url, None)
           At == {<<>>} \cup {SubSeq(url, 1, n) : n \in DOMAIN url}
<1>10. /\ url # <<>> /\ Len(url) \in Nat /\ url = [n \in 1 .. Len(url) |-> url[n]]
       /\ DOMAIN url = 1 .. Len(url)
  BY DEF IsUrl
<1>11. IsHeader(header, headers, url)
  BY <1>10, HeaderForIs
<1> HIDE DEF header
<1>12. ASSUME header # None
       PROVE  \E i \in DOMAIN L :
                /\ Prevails(L, i)
                /\ L[i].key.for \in At /\ Yields(L[i], header)
                /\ L[i].key.for = <<>> => registry.at \in At
  <2>1. PICK n \in 1 .. Len(url) :
          SubSeq(url, 1, n) \in DOMAIN headers /\ header = headers[SubSeq(url, 1, n)]
    BY <1>11, <1>12 DEF IsHeader
  <2>2. SubSeq(url, 1, n) \in At /\ <<>> \in At
    BY <1>10
  <2> HIDE DEF At
  <2> QED BY <1>7, <2>1, <2>2
<1>13. ASSUME TokensAt(L, url) # {}
       PROVE  \/ Helped(current, url) /\ header = <<"", "token">>
              \/ /\ ~ Helped(current, url)
                 /\ \E i \in TokensAt(L, url) : header = <<"Bearer", L[i].says>>
  <2>1. url \in DOMAIN headers /\ OfToken(headers[url], L, current, url)
    BY <1>8, <1>10, <1>13
  <2>2. header = headers[url] /\ header # Failed
    BY <1>6, <1>10, <1>11, <2>1 DEF IsHeader, AreHeaders
  <2> QED BY <2>1, <2>2 DEF OfToken
<1>14. ASSUME header = None, NEW n \in DOMAIN url, TokensAt(L, SubSeq(url, 1, n)) # {}
       PROVE  FALSE
  <2> DEFINE s == SubSeq(url, 1, n)
  <2>1. s # <<>>
    BY <1>10, <1>11 DEF IsHeader
  <2>2. s \in DOMAIN headers
    <3> HIDE DEF s
    <3>1. TokensAt(L, s) # {}
      BY <1>14 DEF s
    <3> QED BY <1>8, <2>1, <3>1
  <2>3. \E k \in 1 .. Len(url) : SubSeq(url, 1, k) \in DOMAIN headers
    BY <1>10, <2>2
  <2> QED BY <1>6, <1>11, <1>14, <2>3 DEF AreHeaders, IsHeader
<1>15. Npmrcs!HeaderFor(config.headers, url, None) = header
  BY <1>1 DEF header
<1> HIDE DEF At
<1> QED BY <1>12, <1>13, <1>14, <1>15 DEF At

(* What one setting of one file changes in what both files say. *)
IsSet(a, b, a2, b2, k, value, inProject) ==
  \/ inProject /\ a2 = a /\ SetIn(b, b2, k, value)
  \/ ~ inProject /\ b2 = b /\ SetIn(a, a2, k, value)

Differs(r, r2, k, value, covered) ==
  /\ \A j \in DOMAIN r \ {k} : j \in DOMAIN r2 /\ r2[j] = r[j]
  /\ \A j \in DOMAIN r2 \ {k} : j \in DOMAIN r
  /\ covered => k \in DOMAIN r /\ k \in DOMAIN r2 /\ r2[k] = r[k]
  /\ value # None /\ ~ covered => k \in DOMAIN r2 /\ r2[k] = value

IsOver(r, a, b) ==
  /\ DOMAIN r = DOMAIN a \cup DOMAIN b
  /\ \A key \in DOMAIN b : r[key] = b[key]
  /\ \A key \in DOMAIN a \ DOMAIN b : r[key] = a[key]

LEMMA OverIs ==
  ASSUME NEW A, NEW B, AreLines(A), AreLines(B), NEW r, r = Npmrcs!Raw(A \o B)
  PROVE  IsOver(r, Npmrcs!Raw(A), Npmrcs!Raw(B))
BY RawJoin DEF IsOver

(* One file changes in one key: what both together say changes there only. *)
LEMMA DiffersIs ==
  ASSUME NEW a, NEW b, NEW a2, NEW b2, NEW k, NEW value, NEW inProject \in BOOLEAN,
         IsSet(a, b, a2, b2, k, value, inProject),
         NEW r, IsOver(r, a, b), NEW r2, IsOver(r2, a2, b2)
  PROVE  Differs(r, r2, k, value, ~ inProject /\ k \in DOMAIN b)
<1>1. CASE inProject /\ a2 = a /\ SetIn(b, b2, k, value)
  <2>1. /\ DOMAIN b2 = (DOMAIN b \ {k}) \cup (IF value = None THEN {} ELSE {k})
        /\ \A j \in DOMAIN b \ {k} : b2[j] = b[j]
        /\ value # None => b2[k] = value
    BY <1>1 DEF SetIn
  <2>2. \A j \in DOMAIN r \ {k} : j \in DOMAIN r2 /\ r2[j] = r[j]
    BY <1>1, <2>1 DEF IsOver
  <2>3. \A j \in DOMAIN r2 \ {k} : j \in DOMAIN r
    BY <1>1, <2>1 DEF IsOver
  <2>4. value # None => k \in DOMAIN r2 /\ r2[k] = value
    BY <1>1, <2>1 DEF IsOver
  <2> QED BY <1>1, <2>2, <2>3, <2>4 DEF Differs
<1>2. CASE ~ inProject /\ b2 = b /\ SetIn(a, a2, k, value)
  <2>1. /\ DOMAIN a2 = (DOMAIN a \ {k}) \cup (IF value = None THEN {} ELSE {k})
        /\ \A j \in DOMAIN a \ {k} : a2[j] = a[j]
        /\ value # None => a2[k] = value
    BY <1>2 DEF SetIn
  <2>2. \A j \in DOMAIN r \ {k} : j \in DOMAIN r2 /\ r2[j] = r[j]
    BY <1>2, <2>1 DEF IsOver
  <2>3. \A j \in DOMAIN r2 \ {k} : j \in DOMAIN r
    BY <1>2, <2>1 DEF IsOver
  <2>4. k \in DOMAIN b => k \in DOMAIN r /\ k \in DOMAIN r2 /\ r2[k] = r[k]
    BY <1>2 DEF IsOver
  <2>5. value # None /\ k \notin DOMAIN b => k \in DOMAIN r2 /\ r2[k] = value
    BY <1>2, <2>1 DEF IsOver
  <2> QED BY <1>2, <2>2, <2>3, <2>4, <2>5 DEF Differs
<1> QED BY <1>1, <1>2 DEF IsSet

(* config set and delete change one key of one of the two files. *)
LEMMA ChangedIs ==
  ASSUME NEW q, ConfigAsked(q), q.do # None, NEW loaded, loaded # Failed,
         NEW files, files = Npmrcs!Changed(q, loaded), NEW k, k = Npmrcs!Normalized(q.do.key)
  PROVE  /\ AreLines(Npmrcs!Lines(files.home)) /\ AreLines(Npmrcs!Lines(files.current))
         /\ IsSet(Npmrcs!Raw(Npmrcs!Lines(q.home)), Npmrcs!Raw(Npmrcs!Lines(q.current)),
                  Npmrcs!Raw(Npmrcs!Lines(files.home)), Npmrcs!Raw(Npmrcs!Lines(files.current)),
                  k, q.do.value, q.do.location = "project")
<1>1. /\ IsFile(q.home) /\ IsFile(q.current) /\ k = Npmrcs!Key(k.for, k.name, k.form)
      /\ None \notin MayBecome(q, Npmrcs!Lines(q.home))
      /\ None \notin MayBecome(q, Npmrcs!Lines(q.current))
  BY DEF ConfigAsked
<1>2. AreLines(Npmrcs!Lines(q.home)) /\ AreLines(Npmrcs!Lines(q.current))
  BY <1>1, LinesAre
<1>3. CASE q.do.location = "project"
  <2> DEFINE f == Npmrcs!SetValue(q.current, q.do.key, q.do.value)
  <2>1. files.home = q.home /\ files.current = f
    BY <1>3 DEF Npmrcs!Changed
  <2>2. /\ AreLines(Npmrcs!Lines(f))
        /\ SetIn(Npmrcs!Raw(Npmrcs!Lines(q.current)), Npmrcs!Raw(Npmrcs!Lines(f)), k, q.do.value)
    BY <1>1, SetValueIs
  <2> HIDE DEF f
  <2> QED BY <1>2, <1>3, <2>1, <2>2 DEF IsSet
<1>4. CASE q.do.location # "project"
  <2> DEFINE f == Npmrcs!SetValue(q.home, q.do.key, q.do.value)
  <2>1. files.home = f /\ files.current = q.current
    BY <1>4 DEF Npmrcs!Changed
  <2>2. /\ AreLines(Npmrcs!Lines(f))
        /\ SetIn(Npmrcs!Raw(Npmrcs!Lines(q.home)), Npmrcs!Raw(Npmrcs!Lines(f)), k, q.do.value)
    BY <1>1, SetValueIs
  <2> HIDE DEF f
  <2> QED BY <1>2, <1>4, <2>1, <2>2 DEF IsSet
<1> QED BY <1>3, <1>4

(* What is shown of the settings that two commands load. *)
LEMMA ShownIs ==
  ASSUME NEW home, NEW current, NEW env,
         NEW config \in Npmrcs!Loads(home, current, env), config # Failed,
         NEW R, R = Npmrcs!Raw(Joined(home, current))
  PROVE  /\ DOMAIN config.raw = DOMAIN R \cup {Npmrcs!Setting("registry")}
         /\ \A key \in DOMAIN R : config.raw[key] = R[key]
<1>1. PICK registry : config.raw = Npmrcs!Written(home, current, registry)
  BY LoadIs
<1> QED BY <1>1, WrittenIs

(* What config set has set is shown and loaded, and the rest as before. *)
LEMMA SetTakesIs ==
  ASSUME NEW q, ConfigAsked(q), q.do # None,
         NEW before \in Npmrcs!Loads(q.home, q.current, q.env), before # Failed,
         NEW files, files = Npmrcs!Changed(q, before),
         NEW after \in Npmrcs!Loads(files.home, files.current, q.env), after # Failed
  PROVE  SetTakes(q, before, files, after)
<1>1. PICK k, r, r2, s : /\ k = Npmrcs!Normalized(q.do.key)
                         /\ r = Npmrcs!Raw(Joined(q.home, q.current))
                         /\ r2 = Npmrcs!Raw(Joined(files.home, files.current))
                         /\ s = Npmrcs!Setting("registry")
  OBVIOUS
<1> DEFINE a == Npmrcs!Raw(Npmrcs!Lines(q.home))
           b == Npmrcs!Raw(Npmrcs!Lines(q.current))
           a2 == Npmrcs!Raw(Npmrcs!Lines(files.home))
           b2 == Npmrcs!Raw(Npmrcs!Lines(files.current))
           value == q.do.value
           inProject == (q.do.location = "project")
           covered == q.do.location # "project" /\ k \in DOMAIN b
<1>2. /\ AreLines(Npmrcs!Lines(q.home)) /\ AreLines(Npmrcs!Lines(q.current))
      /\ AreLines(Npmrcs!Lines(files.home)) /\ AreLines(Npmrcs!Lines(files.current))
  BY ChangedIs, LinesAre DEF ConfigAsked
<1>3. IsSet(a, b, a2, b2, k, value, inProject)
  BY <1>1, ChangedIs
<1>4. IsOver(r, a, b) /\ IsOver(r2, a2, b2)
  <2>1. IsOver(r, a, b)
    BY <1>1, <1>2, OverIs DEF Joined
  <2>2. IsOver(r2, a2, b2)
    BY <1>1, <1>2, OverIs DEF Joined
  <2> QED BY <2>1, <2>2
<1>5. inProject \in BOOLEAN
  OBVIOUS
<1> HIDE DEF a, b, a2, b2, value, inProject
<1>6. Differs(r, r2, k, value, ~ inProject /\ k \in DOMAIN b)
  BY <1>3, <1>4, <1>5, DiffersIs
<1>7. Differs(r, r2, k, value, covered)
  <2>1. covered = (~ inProject /\ k \in DOMAIN b)
    BY DEF inProject
  <2> QED BY <1>6, <2>1
<1> HIDE DEF covered
<1>8. /\ DOMAIN before.raw = DOMAIN r \cup {s} /\ \A key \in DOMAIN r : before.raw[key] = r[key]
      /\ DOMAIN after.raw = DOMAIN r2 \cup {s} /\ \A key \in DOMAIN r2 : after.raw[key] = r2[key]
  BY <1>1, ShownIs
<1>9. value # None /\ ~ covered => Npmrcs!Get(after, q.do.key) = value
  BY <1>1, <1>7, <1>8 DEF Npmrcs!Get, Differs
<1>10. covered => Npmrcs!Get(after, q.do.key) = Npmrcs!Get(before, q.do.key)
  BY <1>1, <1>7, <1>8 DEF Npmrcs!Get, Differs
<1>11. {<<j, before.raw[j]>> : j \in DOMAIN before.raw \ {k, s}}
         = {<<j, after.raw[j]>> : j \in DOMAIN after.raw \ {k, s}}
  <2>1. DOMAIN before.raw \ {k, s} = DOMAIN after.raw \ {k, s}
    BY <1>7, <1>8 DEF Differs
  <2>2. \A j \in DOMAIN before.raw \ {k, s} : before.raw[j] = after.raw[j]
    BY <1>7, <1>8 DEF Differs
  <2> QED BY <2>1, <2>2
<1>12. ASSUME Settled(q.home, q.current), Settled(files.home, files.current),
              NEW name \in Plainly, name # k.name
       PROVE  before.typed[name] = after.typed[name]
  <2> DEFINE key == Npmrcs!Setting(name)
  <2>1. before.typed[name] = Npmrcs!Value(Joined(q.home, q.current), name)
    BY <1>2, <1>12, TypedIs
  <2>2. after.typed[name] = Npmrcs!Value(Joined(files.home, files.current), name)
    BY <1>2, <1>12, TypedIs
  <2>3. Npmrcs!Value(Joined(q.home, q.current), name)
          = IF key \in DOMAIN r THEN Npmrcs!Parsed(name, r[key]) ELSE Npmrcs!Default(name)
    BY <1>1, <1>2, <1>12, ValueIs
  <2>4. Npmrcs!Value(Joined(files.home, files.current), name)
          = IF key \in DOMAIN r2 THEN Npmrcs!Parsed(name, r2[key]) ELSE Npmrcs!Default(name)
    BY <1>1, <1>2, <1>12, ValueIs
  <2>5. key # k
    <3>1. key.name = name
      BY DEF Npmrcs!Setting, Npmrcs!Key
    <3> QED BY <1>12, <3>1
  <2> HIDE DEF key
  <2>6. key \in DOMAIN r <=> key \in DOMAIN r2
    BY <1>7, <2>5 DEF Differs
  <2>7. key \in DOMAIN r => r[key] = r2[key]
    BY <1>7, <2>5 DEF Differs
  <2> QED BY <2>1, <2>2, <2>3, <2>4, <2>6, <2>7
<1> QED BY <1>1, <1>9, <1>10, <1>11, <1>12 DEF SetTakes, Plainly, covered, b, value

(* Loading them, sending a request and setting one keep what they promise: *)
(* in the files that a command finds the last line of a key counts, and of *)
(* keys that write one URL differently any.                                *)
THEOREM SettingsDoApply == DecisionSpec => []SettingsApply
<1>1. AnswersInv => SettingsApply
  <2> SUFFICES ASSUME AnswersInv, Answered("config"), answer.value # Failed
               PROVE  SettingsApply
    BY DEF SettingsApply
  <2>1. ConfigAsked(query) /\ answer \in Configured(query)
    BY DEF AnswersInv, Answered, Asked
  <2>2. PICK q, before, files, after :
          /\ q = query /\ before \in Npmrcs!Loads(q.home, q.current, q.env)
          /\ files = Npmrcs!Changed(q, before)
          /\ after \in Npmrcs!Loads(files.home, files.current, q.env)
          /\ answer = [value |-> before, files |-> files, after |-> after]
    BY <2>1 DEF Configured
  <2>3. answer.value = before /\ answer.files = files /\ answer.after = after
    BY <2>2
  <2>4. ConfigAsked(q) /\ before # Failed
    BY <2>1, <2>2, <2>3
  <2>5. IsFile(q.home) /\ IsFile(q.current) /\ None # <<"", "token">>
    BY <2>4 DEF ConfigAsked
  <2>6. \A url \in q.urls : IsUrl(url)
    BY <2>4 DEF ConfigAsked, IsUrl
  <2>7. Settled(q.home, q.current) => SettingsAgree(q.home, q.current, before)
    BY <2>2, <2>4, <2>5, SettingsAgreeIs
  <2>8. RequestsAuthorized(q.home, q.current, before, q.urls)
    BY <2>2, <2>4, <2>5, <2>6, RequestsAuthorizedIs
  <2>9. q.do # None /\ after # Failed => SetTakes(q, before, files, after)
    BY <2>2, <2>4, SetTakesIs
  <2> QED BY <2>2, <2>3, <2>7, <2>8, <2>9 DEF SettingsApply
<1> QED BY <1>1, AnswersHold, PTL
=============================================================================
