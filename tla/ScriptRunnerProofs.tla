-------------------------- MODULE ScriptRunnerProofs --------------------------
(***************************************************************************)
(* Proofs about WorkspaceGraph and ScriptRunner, for any workspace,        *)
(* command and number of threads.  First lemmas about the graph: the walk  *)
(* of a filter reaches what chains of dependencies lead to, and the order  *)
(* of the scripts holds every selected project once, after what it depends *)
(* on but for cycles.  Then what the filters select, the order in which    *)
(* scripts start, that none is passed over, and what is reported.          *)
(***************************************************************************)
EXTENDS ScriptRunner, FiniteSetTheorems, WellFoundedInduction, TLAPS

-----------------------------------------------------------------------------
(* Induction over the naturals, for sets; and the sequence of values that  *)
(* a first value and a step give.                                          *)
LEMMA Least ==
  ASSUME NEW D \in SUBSET Nat, D # {}
  PROVE  \E x \in D : \A y \in D : x <= y
<1>1. \E x \in D : \A y \in D : ~(<<y, x>> \in OpToRel(<, Nat))
  BY NatLessThanWellFounded, WFMin
<1>2. PICK x \in D : \A y \in D : ~(y < x)
  BY <1>1 DEF OpToRel
<1> QED BY <1>2

LEMMA Induction ==
  ASSUME NEW T \in SUBSET Nat, 0 \in T, \A n \in T : n + 1 \in T
  PROVE  T = Nat
<1> SUFFICES ASSUME Nat \ T # {} PROVE FALSE
  OBVIOUS
<1> DEFINE D == Nat \ T
<1>1. D \in SUBSET Nat /\ D # {}
  OBVIOUS
<1> HIDE DEF D
<1>2. PICK x \in D : \A y \in D : x <= y
  BY <1>1, Least
<1>3. x \in Nat /\ x \notin T
  BY <1>1 DEF D
<1>4. x - 1 \in Nat /\ (x - 1) + 1 = x /\ ~(x <= x - 1)
  BY <1>3
<1>5. x - 1 \notin D
  BY <1>2, <1>4
<1> QED BY <1>3, <1>4, <1>5 DEF D

(* The values f[0..n] that step leads to from s0. *)
Goes(S, s0, step, n, f) ==
  /\ f \in [0..n -> S] /\ f[0] = s0
  /\ \A k \in 1..n : f[k] = step[<<k, f[k - 1]>>]

LEMMA Iterates ==
  ASSUME NEW S, NEW s0 \in S, NEW step \in [Nat \X S -> S], NEW n \in Nat
  PROVE  \E f : Goes(S, s0, step, n, f)
<1> DEFINE Exists == {m \in Nat : \E f : Goes(S, s0, step, m, f)}
<1>1. 0 \in Exists
  <2> DEFINE f == [k \in 0..0 |-> s0]
  <2>1. f \in [0..0 -> S] /\ f[0] = s0 /\ 1..0 = {}
    OBVIOUS
  <2>2. Goes(S, s0, step, 0, f)
    BY <2>1 DEF Goes
  <2> QED BY <2>2
<1>2. ASSUME NEW m \in Exists PROVE m + 1 \in Exists
  <2>1. PICK f : Goes(S, s0, step, m, f)
    OBVIOUS
  <2> DEFINE v == step[<<m + 1, f[m]>>]
             h == [k \in 0..(m + 1) |-> IF k = m + 1 THEN v ELSE f[k]]
  <2>2. m \in Nat /\ f \in [0..m -> S] /\ f[0] = s0
    BY <2>1 DEF Goes
  <2>3. v \in S
    BY <2>2
  <2> HIDE DEF v
  <2>4. h \in [0..(m + 1) -> S] /\ h[0] = s0
    BY <2>2, <2>3
  <2>5. ASSUME NEW k \in 1..(m + 1) PROVE h[k] = step[<<k, h[k - 1]>>]
    <3>1. k - 1 \in 0..m /\ h[k - 1] = f[k - 1]
      BY <2>2
    <3>2. CASE k = m + 1
      <4>1. h[k] = v /\ k - 1 = m
        BY <2>2, <3>2
      <4> QED BY <3>1, <3>2, <4>1 DEF v
    <3>3. CASE k # m + 1
      <4>1. k \in 1..m /\ h[k] = f[k]
        BY <2>2, <3>3
      <4> QED BY <2>1, <3>1, <4>1 DEF Goes
    <3> QED BY <3>2, <3>3
  <2>6. Goes(S, s0, step, m + 1, h)
    <3> HIDE DEF h
    <3> QED BY <2>4, <2>5 DEF Goes
  <2> QED BY <2>2, <2>6
<1> HIDE DEF Exists
<1>3. Exists \subseteq Nat
  BY DEF Exists
<1>4. Exists = Nat
  BY <1>1, <1>2, <1>3, Induction
<1> QED BY <1>4 DEF Exists
-----------------------------------------------------------------------------
(* What Those computes, one element of s at a time. *)
Unrolled(s, S, A, T) ==
  /\ T \in [0..Len(s) -> Seq(A)]
  /\ Those(s, S) = T[Len(s)] /\ T[0] = <<>>
  /\ \A k \in 1..Len(s) :
       T[k] = IF s[k] \in S THEN Append(T[k - 1], s[k]) ELSE T[k - 1]

LEMMA ThoseSteps ==
  ASSUME NEW A, NEW s \in Seq(A), NEW S
  PROVE  \E T : Unrolled(s, S, A, T)
<1> DEFINE Body(T) == [k \in 0..Len(s) |->
                         IF k = 0 THEN <<>>
                         ELSE IF s[k] \in S THEN Append(T[k - 1], s[k]) ELSE T[k - 1]]
           step == [x \in Nat \X Seq(A) |->
                      IF x[1] \in 1..Len(s) /\ s[x[1]] \in S
                      THEN Append(x[2], s[x[1]]) ELSE x[2]]
<1>1. <<>> \in Seq(A) /\ step \in [Nat \X Seq(A) -> Seq(A)] /\ Len(s) \in Nat
  OBVIOUS
<1>2. PICK f : Goes(Seq(A), <<>>, step, Len(s), f)
  <2> HIDE DEF step
  <2> QED BY <1>1, Iterates
<1>3. f \in [0..Len(s) -> Seq(A)] /\ f[0] = <<>>
  BY <1>2 DEF Goes
<1>4. ASSUME NEW k \in 1..Len(s)
      PROVE  f[k] = IF s[k] \in S THEN Append(f[k - 1], s[k]) ELSE f[k - 1]
  <2>1. k \in Nat /\ k - 1 \in 0..Len(s) /\ f[k - 1] \in Seq(A)
    BY <1>1, <1>3
  <2>2. f[k] = step[<<k, f[k - 1]>>]
    <3> HIDE DEF step
    <3> QED BY <1>2 DEF Goes
  <2> QED BY <2>1, <2>2
<1>5. f = Body(f)
  <2>1. \A k \in 0..Len(s) :
          f[k] = IF k = 0 THEN <<>>
                 ELSE IF s[k] \in S THEN Append(f[k - 1], s[k]) ELSE f[k - 1]
    <3> TAKE k \in 0..Len(s)
    <3>1. CASE k = 0
      BY <1>3, <3>1
    <3>2. CASE k # 0
      <4>1. k \in 1..Len(s)
        BY <1>1, <3>2
      <4> QED BY <1>4, <3>2, <4>1
    <3> QED BY <3>1, <3>2
  <2> QED BY <2>1, <1>3
<1>6. PICK T : T = Body(T) /\ Those(s, S) = T[Len(s)]
  <2> DEFINE C == CHOOSE T : T = Body(T)
  <2>1. C = Body(C)
    <3> HIDE DEF Body
    <3> QED BY <1>5
  <2>2. Those(s, S) = C[Len(s)]
    BY DEF Those
  <2> QED BY <2>1, <2>2
<1>7. DOMAIN T = 0..Len(s) /\ \A k \in 0..Len(s) : T[k] = Body(T)[k]
  <2>1. DOMAIN Body(T) = 0..Len(s)
    OBVIOUS
  <2> HIDE DEF Body
  <2> QED BY <1>6, <2>1
<1>8. T[0] = <<>>
  <2>1. 0 \in 0..Len(s)
    BY <1>1
  <2> QED BY <1>7, <2>1
<1>9. \A k \in 1..Len(s) :
        T[k] = IF s[k] \in S THEN Append(T[k - 1], s[k]) ELSE T[k - 1]
  <2> TAKE k \in 1..Len(s)
  <2>1. k \in 0..Len(s) /\ k # 0
    BY <1>1
  <2> QED BY <1>7, <2>1
<1> HIDE DEF Body, step
<1>10. \A k \in 0..Len(s) : T[k] \in Seq(A)
  <2> DEFINE Typed == {k \in Nat : k <= Len(s) => T[k] \in Seq(A)}
  <2>1. 0 \in Typed
    <3>1. <<>> \in Seq(A)
      OBVIOUS
    <3> QED BY <1>8, <3>1
  <2>2. ASSUME NEW k \in Typed PROVE k + 1 \in Typed
    <3> SUFFICES ASSUME k + 1 <= Len(s) PROVE T[k + 1] \in Seq(A)
      OBVIOUS
    <3>1. k + 1 \in 1..Len(s) /\ (k + 1) - 1 = k /\ T[k] \in Seq(A) /\ s[k + 1] \in A
      BY <1>1
    <3>2. T[k + 1] = IF s[k + 1] \in S THEN Append(T[k], s[k + 1]) ELSE T[k]
      BY <1>9, <3>1
    <3> QED BY <3>1, <3>2
  <2>3. Typed = Nat
    <3> HIDE DEF Typed
    <3>1. Typed \subseteq Nat
      BY DEF Typed
    <3> QED BY <2>1, <2>2, <3>1, Induction
  <2> QED BY <2>3, <1>1
<1>11. T \in [0..Len(s) -> Seq(A)]
  BY <1>7, <1>10
<1> QED BY <1>6, <1>8, <1>9, <1>11 DEF Unrolled
-----------------------------------------------------------------------------
(* t is s, up to its k-th element, without some elements: m tells where    *)
(* the ones of t stand.                                                    *)
PlacedBy(t, s, k, m) ==
  /\ m \in [1..Len(t) -> 1..k]
  /\ \A i, j \in 1..Len(t) : i < j => m[i] < m[j]
  /\ \A i \in 1..Len(t) : t[i] = s[m[i]]

PartOf(t, s) == \E m : PlacedBy(t, s, Len(s), m)

Once(s) == \A i, j \in 1..Len(s) : s[i] = s[j] => i = j

LEMMA ToSetIs ==
  ASSUME NEW A, NEW s \in Seq(A)
  PROVE  /\ ToSet(s) = {s[i] : i \in 1..Len(s)} /\ Len(s) \in Nat
         /\ \A x : x \in ToSet(s) <=> \E i \in 1..Len(s) : s[i] = x
         /\ ToSet(s) \subseteq A
  BY DEF ToSet

LEMMA AppendFacts ==
  ASSUME NEW A, NEW s \in Seq(A), NEW x \in A
  PROVE  /\ Append(s, x) \in Seq(A) /\ Len(Append(s, x)) = Len(s) + 1
         /\ \A i \in 1..Len(s) : Append(s, x)[i] = s[i]
         /\ Append(s, x)[Len(s) + 1] = x
         /\ ToSet(Append(s, x)) = ToSet(s) \cup {x}
<1>1. /\ Append(s, x) \in Seq(A) /\ Len(Append(s, x)) = Len(s) + 1 /\ Len(s) \in Nat
      /\ \A i \in 1..Len(s) : Append(s, x)[i] = s[i]
      /\ Append(s, x)[Len(s) + 1] = x
  OBVIOUS
<1> DEFINE r == Append(s, x)
<1> HIDE DEF r
<1>2. r \in Seq(A) /\ Len(r) = Len(s) + 1 /\ \A i \in 1..Len(s) : r[i] = s[i]
  BY <1>1 DEF r
<1>3. r[Len(s) + 1] = x
  BY <1>1 DEF r
<1>4. \A y : y \in ToSet(r) <=> y \in ToSet(s) \/ y = x
  <2> TAKE y
  <2>1. y \in ToSet(r) <=> \E i \in 1..(Len(s) + 1) : r[i] = y
    BY <1>2, ToSetIs
  <2>2. y \in ToSet(s) <=> \E i \in 1..Len(s) : s[i] = y
    BY ToSetIs
  <2>3. \A i \in 1..(Len(s) + 1) : i \in 1..Len(s) \/ i = Len(s) + 1
    BY <1>1
  <2>4. 1..Len(s) \subseteq 1..(Len(s) + 1) /\ Len(s) + 1 \in 1..(Len(s) + 1)
    BY <1>1
  <2> QED BY <1>2, <1>3, <2>1, <2>2, <2>3, <2>4
<1> QED BY <1>1, <1>4 DEF r

(* Those takes what is in S, keeps its order and takes nothing twice.      *)
LEMMA ThoseFacts ==
  ASSUME NEW A, NEW s \in Seq(A), NEW S
  PROVE  /\ Those(s, S) \in Seq(A)
         /\ ToSet(Those(s, S)) = ToSet(s) \cap S
         /\ PartOf(Those(s, S), s)
<1>0. PICK T : Unrolled(s, S, A, T)
  BY ThoseSteps
<1>1. /\ T \in [0..Len(s) -> Seq(A)] /\ Those(s, S) = T[Len(s)] /\ T[0] = <<>>
      /\ \A k \in 1..Len(s) :
           T[k] = IF s[k] \in S THEN Append(T[k - 1], s[k]) ELSE T[k - 1]
  BY <1>0 DEF Unrolled
<1> DEFINE Until(k) == {s[i] : i \in 1..k}
           Holds(k) == /\ ToSet(T[k]) = Until(k) \cap S
                       /\ \E m : PlacedBy(T[k], s, k, m)
           Done == {k \in Nat : k <= Len(s) => Holds(k)}
<1>2. Len(s) \in Nat
  OBVIOUS
<1>3. 0 \in Done
  <2>1. Until(0) = {} /\ Len(T[0]) = 0 /\ 1..0 = {}
    BY <1>1
  <2>2. ToSet(T[0]) = {}
    <3>1. DOMAIN T[0] = {}
      BY <1>1
    <3> QED BY <3>1 DEF ToSet
  <2> DEFINE m == [i \in 1..0 |-> 0]
  <2>3. PlacedBy(T[0], s, 0, m)
    BY <2>1 DEF PlacedBy
  <2>4. Holds(0)
    <3> HIDE DEF Until, m
    <3> QED BY <2>1, <2>2, <2>3
  <2> HIDE DEF Holds
  <2> QED BY <2>4
<1>4. ASSUME NEW n \in Done PROVE n + 1 \in Done
  <2> SUFFICES ASSUME n + 1 <= Len(s) PROVE Holds(n + 1)
    <3> HIDE DEF Holds
    <3> QED OBVIOUS
  <2>1. n \in Nat /\ n + 1 \in 1..Len(s) /\ n \in 0..Len(s) /\ (n + 1) - 1 = n /\ s[n + 1] \in A
    BY <1>2
  <2>2. Holds(n)
    <3> HIDE DEF Holds
    <3> QED BY <1>2, <2>1
  <2>3. T[n + 1] = IF s[n + 1] \in S THEN Append(T[n], s[n + 1]) ELSE T[n]
    BY <1>1, <2>1
  <2>4. Until(n + 1) = Until(n) \cup {s[n + 1]}
    <3>1. 1..(n + 1) = 1..n \cup {n + 1}
      BY <2>1
    <3> QED BY <3>1
  <2>5. PICK m : PlacedBy(T[n], s, n, m)
    BY <2>2
  <2> DEFINE t == T[n]
             L == Len(t)
  <2>6. t \in Seq(A) /\ L \in Nat /\ ToSet(t) = Until(n) \cap S /\ PlacedBy(t, s, n, m)
    BY <1>1, <2>1, <2>2, <2>5
  <2> HIDE DEF Until, t
  <2>7. CASE s[n + 1] \in S
    <3> DEFINE u == Append(t, s[n + 1])
               m1 == [i \in 1..(L + 1) |-> IF i = L + 1 THEN n + 1 ELSE m[i]]
    <3>1. T[n + 1] = u
      BY <2>3, <2>7 DEF t
    <3>2. /\ u \in Seq(A) /\ Len(u) = L + 1 /\ \A i \in 1..L : u[i] = t[i]
          /\ u[L + 1] = s[n + 1] /\ ToSet(u) = ToSet(t) \cup {s[n + 1]}
      BY <2>1, <2>6, AppendFacts
    <3> HIDE DEF u
    <3>3. ToSet(u) = Until(n + 1) \cap S
      BY <2>4, <2>6, <2>7, <3>2
    <3>4. /\ m \in [1..L -> 1..n] /\ \A i, j \in 1..L : i < j => m[i] < m[j]
          /\ \A i \in 1..L : t[i] = s[m[i]]
      BY <2>6 DEF PlacedBy
    <3>5. m1 \in [1..(L + 1) -> 1..(n + 1)]
      BY <2>1, <2>6, <3>4
    <3>6. \A i \in 1..(L + 1) : (i \in 1..L /\ m1[i] = m[i])
                                \/ (i = L + 1 /\ m1[i] = n + 1)
      BY <2>6
    <3> HIDE DEF m1
    <3>7. \A i, j \in 1..(L + 1) : i < j => m1[i] < m1[j]
      BY <2>1, <2>6, <3>4, <3>6
    <3>8. \A i \in 1..(L + 1) : u[i] = s[m1[i]]
      BY <3>2, <3>4, <3>6
    <3>9. PlacedBy(u, s, n + 1, m1)
      BY <3>2, <3>5, <3>7, <3>8 DEF PlacedBy
    <3> QED BY <3>1, <3>3, <3>9
  <2>8. CASE s[n + 1] \notin S
    <3>1. T[n + 1] = t /\ ToSet(t) = Until(n + 1) \cap S
      BY <2>3, <2>4, <2>6, <2>8 DEF t
    <3>2. PlacedBy(t, s, n + 1, m)
      BY <2>1, <2>6 DEF PlacedBy
    <3> QED BY <3>1, <3>2
  <2> QED BY <2>7, <2>8
<1>5. Done = Nat
  <2> HIDE DEF Done
  <2>1. Done \subseteq Nat
    BY DEF Done
  <2> QED BY <1>3, <1>4, <2>1, Induction
<1>6. Holds(Len(s))
  <2> HIDE DEF Holds
  <2> QED BY <1>2, <1>5
<1>7. Until(Len(s)) = ToSet(s)
  BY ToSetIs
<1> HIDE DEF Until
<1>8. Those(s, S) \in Seq(A)
  BY <1>1, <1>2
<1> QED BY <1>1, <1>6, <1>7, <1>8 DEF PartOf

(* What is part of a sequence keeps its elements apart and in order.       *)
LEMMA PartFacts ==
  ASSUME NEW A, NEW s \in Seq(A), NEW t \in Seq(A), PartOf(t, s)
  PROVE  /\ ToSet(t) \subseteq ToSet(s)
         /\ Once(s) => Once(t)
<1>1. PICK m : PlacedBy(t, s, Len(s), m)
  BY DEF PartOf
<1>2. /\ m \in [1..Len(t) -> 1..Len(s)] /\ \A i \in 1..Len(t) : t[i] = s[m[i]]
      /\ \A i, j \in 1..Len(t) : i < j => m[i] < m[j]
  BY <1>1 DEF PlacedBy
<1>3. ToSet(t) \subseteq ToSet(s)
  BY <1>2, ToSetIs
<1>4. ASSUME Once(s), NEW i \in 1..Len(t), NEW j \in 1..Len(t), t[i] = t[j]
      PROVE  i = j
  <2>1. m[i] = m[j] /\ m[i] \in Nat
    BY <1>2, <1>4 DEF Once
  <2>2. ~(i < j) /\ ~(j < i)
    BY <1>2, <2>1
  <2> QED BY <2>2
<1> QED BY <1>3, <1>4 DEF Once
-----------------------------------------------------------------------------
(* Paths.                                                                  *)
Edged(E) == E \in [Projects -> SUBSET Projects]

LEMMA PathFacts ==
  ASSUME NEW E, NEW S, NEW p \in S
  PROVE  /\ Path(E, S, p, p)
         /\ \A q : Path(E, S, p, q) =>
              q \in S /\ \A y \in E[q] \cap S : Path(E, S, p, y)
<1>1. Path(E, S, p, p)
  BY DEF Path
<1>2. ASSUME NEW q, Path(E, S, p, q) PROVE q \in S
  <2>1. S \in SUBSET S /\ p \in S /\ \A x \in S : E[x] \cap S \subseteq S
    OBVIOUS
  <2> QED BY <1>2, <2>1 DEF Path
<1>3. ASSUME NEW q, Path(E, S, p, q), NEW y \in E[q] \cap S PROVE Path(E, S, p, y)
  <2> SUFFICES ASSUME NEW T \in SUBSET S, p \in T, \A x \in T : E[x] \cap S \subseteq T
               PROVE  y \in T
    BY DEF Path
  <2>1. q \in T
    BY <1>3 DEF Path
  <2> QED BY <2>1
<1> QED BY <1>1, <1>2, <1>3

(* A path can be walked backwards along the reversed edges.                *)
LEMMA PathReversed ==
  ASSUME NEW E, Edged(E), NEW S \in SUBSET Projects, NEW p, NEW q, Path(E, S, p, q)
  PROVE  Path(Reversed(E), S, q, p)
<1>1. p \in S /\ q \in S
  <2>1. p \in S
    BY DEF Path
  <2> QED BY <2>1, PathFacts
<1> SUFFICES ASSUME NEW T \in SUBSET S, q \in T,
                    \A x \in T : Reversed(E)[x] \cap S \subseteq T,
                    p \notin T
             PROVE  FALSE
  BY <1>1 DEF Path
<1> DEFINE U == S \ T
<1>2. ASSUME NEW x \in U, NEW y \in E[x] \cap S PROVE y \in U
  <2>1. x \in Reversed(E)[y] \cap S
    BY DEF Reversed, Edged
  <2> QED BY <1>2, <2>1
<1>3. U \in SUBSET S /\ p \in U /\ \A x \in U : E[x] \cap S \subseteq U
  BY <1>1, <1>2
<1>4. q \in U
  <2> HIDE DEF U
  <2> QED BY <1>3 DEF Path
<1> QED BY <1>4

LEMMA ReversedFacts ==
  ASSUME NEW E, Edged(E)
  PROVE  Edged(Reversed(E)) /\ Reversed(Reversed(E)) = E
<1>1. Edged(Reversed(E))
  BY DEF Edged, Reversed
<1>2. \A p \in Projects : Reversed(Reversed(E))[p] = E[p]
  BY DEF Edged, Reversed
<1>3. Reversed(Reversed(E)) \in [Projects -> SUBSET Projects]
  BY DEF Edged, Reversed
<1> QED BY <1>1, <1>2, <1>3 DEF Edged

LEMMA ReversedPaths ==
  ASSUME NEW E, Edged(E), NEW p, NEW q
  PROVE  Path(Reversed(E), Projects, p, q) <=> Path(E, Projects, q, p)
<1>1. Path(E, Projects, q, p) => Path(Reversed(E), Projects, p, q)
  BY PathReversed
<1>2. Path(Reversed(E), Projects, p, q) => Path(E, Projects, q, p)
  BY PathReversed, ReversedFacts
<1> QED BY <1>1, <1>2

LEMMA ProjectsFinite == IsFiniteSet(Projects) /\ Cardinality(Projects) \in Nat
<1>1. PathOrder \in Seq(Projects) /\ Projects = {PathOrder[i] : i \in 1..Len(PathOrder)}
  BY GraphAssumption, ToSetIs
<1>2. IsFiniteSet(1..Len(PathOrder))
  <2>1. 1 \in Int /\ Len(PathOrder) \in Int
    BY <1>1
  <2> QED BY <2>1, FS_Interval
<1> DEFINE f == [i \in 1..Len(PathOrder) |-> PathOrder[i]]
<1>3. IsFiniteSet({PathOrder[i] : i \in 1..Len(PathOrder)})
  <2>1. f \in Surjection(1..Len(PathOrder), {PathOrder[i] : i \in 1..Len(PathOrder)})
    BY DEF Surjection
  <2> HIDE DEF f
  <2> QED BY <1>2, <2>1, FS_Surjection
<1> QED BY <1>1, <1>3, FS_CardinalityType
-----------------------------------------------------------------------------
(* The rounds of Reachable.                                                *)
Rounds(E, S, R) ==
  /\ R \in [0..Cardinality(Projects) -> SUBSET Projects]
  /\ Reachable(E, S) = R[Cardinality(Projects)] /\ R[0] = S
  /\ \A n \in 1..Cardinality(Projects) :
       R[n] = R[n - 1] \cup UNION {E[p] : p \in R[n - 1]}

LEMMA ReachableRounds ==
  ASSUME NEW E, Edged(E), NEW S \in SUBSET Projects
  PROVE  \E R : Rounds(E, S, R)
<1> DEFINE N == Cardinality(Projects)
           Body(R) == [n \in 0..N |->
                         IF n = 0 THEN S ELSE R[n - 1] \cup UNION {E[p] : p \in R[n - 1]}]
           step == [x \in Nat \X SUBSET Projects |-> x[2] \cup UNION {E[p] : p \in x[2]}]
<1>1. N \in Nat
  BY ProjectsFinite
<1> HIDE DEF N
<1>2. step \in [Nat \X SUBSET Projects -> SUBSET Projects]
  BY DEF Edged
<1>3. PICK f : Goes(SUBSET Projects, S, step, N, f)
  <2> HIDE DEF step
  <2> QED BY <1>1, <1>2, Iterates
<1>4. f \in [0..N -> SUBSET Projects] /\ f[0] = S
  BY <1>3 DEF Goes
<1>5. ASSUME NEW n \in 1..N PROVE f[n] = f[n - 1] \cup UNION {E[p] : p \in f[n - 1]}
  <2>1. n \in Nat /\ n - 1 \in 0..N /\ f[n - 1] \in SUBSET Projects
    BY <1>1, <1>4
  <2>2. f[n] = step[<<n, f[n - 1]>>]
    <3> HIDE DEF step
    <3> QED BY <1>3 DEF Goes
  <2> QED BY <2>1, <2>2
<1>6. f = Body(f)
  <2>1. \A n \in 0..N : f[n] = IF n = 0 THEN S ELSE f[n - 1] \cup UNION {E[p] : p \in f[n - 1]}
    <3> TAKE n \in 0..N
    <3>1. CASE n = 0
      BY <1>4, <3>1
    <3>2. CASE n # 0
      <4>1. n \in 1..N
        BY <1>1, <3>2
      <4> QED BY <1>5, <3>2, <4>1
    <3> QED BY <3>1, <3>2
  <2> QED BY <2>1, <1>4
<1>7. PICK R : R = Body(R) /\ Reachable(E, S) = R[N]
  <2> DEFINE C == CHOOSE R : R = Body(R)
  <2>1. C = Body(C)
    <3> HIDE DEF Body
    <3> QED BY <1>6
  <2>2. Reachable(E, S) = C[N]
    BY DEF Reachable, N
  <2> QED BY <2>1, <2>2
<1>8. DOMAIN R = 0..N /\ \A n \in 0..N : R[n] = Body(R)[n]
  <2>1. DOMAIN Body(R) = 0..N
    OBVIOUS
  <2> HIDE DEF Body
  <2> QED BY <1>7, <2>1
<1>9. R[0] = S
  <2>1. 0 \in 0..N
    BY <1>1
  <2> QED BY <1>8, <2>1
<1>10. \A n \in 1..N : R[n] = R[n - 1] \cup UNION {E[p] : p \in R[n - 1]}
  <2> TAKE n \in 1..N
  <2>1. n \in 0..N /\ n # 0
    BY <1>1
  <2> QED BY <1>8, <2>1
<1> HIDE DEF Body, step
<1>11. \A n \in 0..N : R[n] \in SUBSET Projects
  <2> DEFINE Typed == {n \in Nat : n <= N => R[n] \in SUBSET Projects}
  <2>1. 0 \in Typed
    BY <1>9
  <2>2. ASSUME NEW n \in Typed PROVE n + 1 \in Typed
    <3> SUFFICES ASSUME n + 1 <= N PROVE R[n + 1] \in SUBSET Projects
      OBVIOUS
    <3>1. n + 1 \in 1..N /\ (n + 1) - 1 = n /\ R[n] \in SUBSET Projects
      BY <1>1
    <3>2. R[n + 1] = R[n] \cup UNION {E[p] : p \in R[n]}
      BY <1>10, <3>1
    <3> QED BY <3>1, <3>2 DEF Edged
  <2>3. Typed = Nat
    <3> HIDE DEF Typed
    <3>1. Typed \subseteq Nat
      BY DEF Typed
    <3> QED BY <2>1, <2>2, <3>1, Induction
  <2> QED BY <2>3, <1>1
<1>12. R \in [0..N -> SUBSET Projects]
  <2>1. R = [n \in 0..N |-> R[n]]
    BY <1>7, <1>8 DEF Body
  <2> QED BY <1>11, <2>1
<1> QED BY <1>7, <1>9, <1>10, <1>12 DEF Rounds, N

(* Enough rounds: before all is reached, each round adds a project.        *)
LEMMA RoundsClose ==
  ASSUME NEW E, Edged(E), NEW S \in SUBSET Projects, NEW R, Rounds(E, S, R)
  PROVE  \A x \in Reachable(E, S) : E[x] \subseteq Reachable(E, S)
<1> DEFINE N == Cardinality(Projects)
           Closed(n) == \A x \in R[n] : E[x] \subseteq R[n]
           Grown == {n \in Nat : n <= N => Closed(n) \/ Cardinality(R[n]) > n}
<1>1. N \in Nat /\ IsFiniteSet(Projects)
  BY ProjectsFinite
<1>2. /\ R \in [0..N -> SUBSET Projects] /\ R[0] = S /\ Reachable(E, S) = R[N]
      /\ \A n \in 1..N : R[n] = R[n - 1] \cup UNION {E[p] : p \in R[n - 1]}
  BY DEF Rounds
<1> HIDE DEF N
<1>3. ASSUME NEW n \in 0..N
      PROVE  R[n] \subseteq Projects /\ IsFiniteSet(R[n]) /\ Cardinality(R[n]) \in Nat
  BY <1>1, <1>2, FS_Subset, FS_CardinalityType
<1>4. 0 \in Grown
  <2>1. CASE S = {}
    <3>1. Closed(0)
      BY <1>2, <2>1
    <3> HIDE DEF Closed
    <3> QED BY <3>1
  <2>2. CASE S # {}
    <3>1. IsFiniteSet(R[0]) /\ Cardinality(R[0]) \in Nat /\ R[0] # {}
      BY <1>1, <1>2, <1>3, <2>2
    <3>2. Cardinality(R[0]) > 0
      BY <3>1, FS_EmptySet
    <3> QED BY <3>2
  <2> QED BY <2>1, <2>2
<1>5. ASSUME NEW n \in Grown PROVE n + 1 \in Grown
  <2> SUFFICES ASSUME n + 1 <= N PROVE Closed(n + 1) \/ Cardinality(R[n + 1]) > n + 1
    <3> HIDE DEF Closed
    <3> QED OBVIOUS
  <2>1. n \in 0..N /\ n + 1 \in 0..N /\ n + 1 \in 1..N /\ (n + 1) - 1 = n /\ n \in Nat
    BY <1>1
  <2>2. R[n + 1] = R[n] \cup UNION {E[p] : p \in R[n]}
    BY <1>2, <2>1
  <2>3. CASE Closed(n)
    <3>1. R[n + 1] = R[n]
      BY <2>2, <2>3
    <3> QED BY <2>3, <3>1
  <2>4. CASE ~Closed(n)
    <3>1. Cardinality(R[n]) > n
      <4> HIDE DEF Closed
      <4> QED BY <2>1, <2>4
    <3>2. R[n] \subseteq R[n + 1] /\ R[n] # R[n + 1]
      BY <2>2, <2>4
    <3>3. /\ IsFiniteSet(R[n + 1])
          /\ Cardinality(R[n]) \in Nat /\ Cardinality(R[n + 1]) \in Nat
      BY <1>3, <2>1
    <3>4. Cardinality(R[n]) < Cardinality(R[n + 1])
      BY <3>2, <3>3, FS_Subset
    <3> QED BY <2>1, <3>1, <3>3, <3>4
  <2> QED BY <2>3, <2>4
<1>6. Grown = Nat
  <2> HIDE DEF Grown
  <2>1. Grown \subseteq Nat
    BY DEF Grown
  <2> QED BY <1>4, <1>5, <2>1, Induction
<1>7. Closed(N) \/ Cardinality(R[N]) > N
  <2> HIDE DEF Closed
  <2> QED BY <1>1, <1>6
<1>8. R[N] \subseteq Projects /\ Cardinality(R[N]) \in Nat
  BY <1>1, <1>3
<1>9. Cardinality(R[N]) <= N
  BY <1>1, <1>8, FS_Subset DEF N
<1>10. Closed(N)
  <2> HIDE DEF Closed
  <2> QED BY <1>1, <1>7, <1>8, <1>9
<1> QED BY <1>2, <1>10

(* The walk of a filter finds what its paths lead to, and nothing else.    *)
LEMMA ReachableFacts ==
  ASSUME NEW E, Edged(E), NEW S \in SUBSET Projects
  PROVE  /\ Reachable(E, S) \subseteq Projects
         /\ \A q : q \in Reachable(E, S) <=> \E c \in S : Path(E, Projects, c, q)
<1>1. PICK R : Rounds(E, S, R)
  BY ReachableRounds
<1> DEFINE N == Cardinality(Projects)
           Found(q) == \E c \in S : Path(E, Projects, c, q)
           Sound == {n \in Nat : n <= N => \A q \in R[n] : Found(q)}
           Kept == {n \in Nat : n <= N => S \subseteq R[n]}
<1>2. N \in Nat
  BY ProjectsFinite
<1>3. /\ R \in [0..N -> SUBSET Projects] /\ R[0] = S /\ Reachable(E, S) = R[N]
      /\ \A n \in 1..N : R[n] = R[n - 1] \cup UNION {E[p] : p \in R[n - 1]}
  BY <1>1 DEF Rounds
<1> HIDE DEF N
<1>4. 0 \in Sound /\ 0 \in Kept
  BY <1>3, PathFacts
<1>5. ASSUME NEW n \in Nat, n + 1 <= N
      PROVE  n \in 0..N /\ R[n] \subseteq Projects
             /\ R[n + 1] = R[n] \cup UNION {E[p] : p \in R[n]}
  <2>1. n \in 0..N /\ n + 1 \in 1..N /\ (n + 1) - 1 = n
    BY <1>2, <1>5
  <2> QED BY <1>3, <2>1
<1>6. ASSUME NEW n \in Sound PROVE n + 1 \in Sound
  <2> SUFFICES ASSUME n + 1 <= N, NEW q \in R[n + 1] PROVE Found(q)
    <3> HIDE DEF Found
    <3> QED OBVIOUS
  <2>1. n \in Nat /\ n <= N
    BY <1>2
  <2>2. \A x \in R[n] : Found(x)
    <3> HIDE DEF Found
    <3> QED BY <2>1
  <2>3. CASE q \in R[n]
    BY <2>2, <2>3
  <2>4. CASE q \notin R[n]
    <3>1. PICK x \in R[n] : q \in E[x]
      BY <1>5, <2>1, <2>4
    <3>2. x \in Projects /\ q \in E[x] \cap Projects
      BY <1>5, <2>1, <3>1 DEF Edged
    <3>3. PICK c \in S : Path(E, Projects, c, x)
      BY <2>2
    <3>4. c \in Projects
      OBVIOUS
    <3>5. Path(E, Projects, c, q)
      BY <3>2, <3>3, <3>4, PathFacts
    <3> QED BY <3>5
  <2> QED BY <2>3, <2>4
<1>7. ASSUME NEW n \in Kept PROVE n + 1 \in Kept
  <2> SUFFICES ASSUME n + 1 <= N PROVE S \subseteq R[n + 1]
    OBVIOUS
  <2>1. n \in Nat /\ n <= N
    BY <1>2
  <2> QED BY <1>5, <2>1
<1> HIDE DEF Found
<1>8. Sound = Nat /\ Kept = Nat
  <2> HIDE DEF Sound, Kept
  <2>1. Sound \subseteq Nat /\ Kept \subseteq Nat
    BY DEF Sound, Kept
  <2> QED BY <1>4, <1>6, <1>7, <2>1, Induction
<1>9. /\ \A q \in Reachable(E, S) : Found(q)
      /\ S \subseteq Reachable(E, S) /\ Reachable(E, S) \subseteq Projects
  <2>1. N <= N /\ N \in 0..N
    BY <1>2
  <2> QED BY <1>2, <1>3, <1>8, <2>1
<1>10. ASSUME NEW q, Found(q) PROVE q \in Reachable(E, S)
  <2>1. PICK c \in S : Path(E, Projects, c, q)
    BY <1>10 DEF Found
  <2>2. \A x \in Reachable(E, S) : E[x] \subseteq Reachable(E, S)
    BY <1>1, RoundsClose
  <2>3. /\ Reachable(E, S) \in SUBSET Projects /\ c \in Reachable(E, S)
        /\ \A x \in Reachable(E, S) : E[x] \cap Projects \subseteq Reachable(E, S)
    BY <1>9, <2>2
  <2> QED BY <2>1, <2>3 DEF Path
<1> QED BY <1>9, <1>10 DEF Found
-----------------------------------------------------------------------------
(* The loop of a visit, one dependency at a time.                          *)
Walks == [SUBSET Projects -> [Seq(Projects) -> [Seq(Projects) -> Seq(Projects)]]]

Turn(g, picked, visit, path, r, p) ==
  IF p \notin picked \/ p \in path \cup ToSet(r) THEN r
  ELSE Append(visit[path \cup {p}][r][Those(NameOrder, g.all[p])], p)

Looped(g, picked, visit, path, ordered, ps, O) ==
  /\ O \in [0..Len(ps) -> Seq(Projects)]
  /\ VisitEach(g, picked, visit, path, ordered, ps) = O[Len(ps)] /\ O[0] = ordered
  /\ \A k \in 1..Len(ps) : O[k] = Turn(g, picked, visit, path, O[k - 1], ps[k])

LEMMA TurnTyped ==
  ASSUME NEW g, Edged(g.all), NEW picked, NEW visit \in Walks, NEW path \in SUBSET Projects,
         NEW r \in Seq(Projects), NEW p \in Projects
  PROVE  /\ Turn(g, picked, visit, path, r, p) \in Seq(Projects)
         /\ Those(NameOrder, g.all[p]) \in Seq(Projects)
         /\ ToSet(Those(NameOrder, g.all[p])) = g.all[p]
         /\ visit[path \cup {p}][r][Those(NameOrder, g.all[p])] \in Seq(Projects)
<1> DEFINE D == Those(NameOrder, g.all[p])
           v == visit[path \cup {p}][r][D]
<1>1. D \in Seq(Projects) /\ ToSet(D) = g.all[p]
  <2>1. NameOrder \in Seq(Projects) /\ ToSet(NameOrder) = Projects
    BY GraphAssumption
  <2>2. g.all[p] \subseteq Projects
    BY DEF Edged
  <2>3. D \in Seq(Projects) /\ ToSet(D) = ToSet(NameOrder) \cap g.all[p]
    BY <2>1, ThoseFacts
  <2> HIDE DEF D
  <2> QED BY <2>1, <2>2, <2>3
<1> HIDE DEF D
<1>2. v \in Seq(Projects)
  BY <1>1 DEF Walks
<1> HIDE DEF v
<1>3. Append(v, p) \in Seq(Projects)
  BY <1>2, AppendFacts
<1>4. Turn(g, picked, visit, path, r, p) \in Seq(Projects)
  BY <1>3 DEF Turn, v, D
<1> QED BY <1>1, <1>2, <1>4 DEF v, D

LEMMA VisitLoop ==
  ASSUME NEW g, Edged(g.all), NEW picked, NEW visit \in Walks, NEW path \in SUBSET Projects,
         NEW ordered \in Seq(Projects), NEW ps \in Seq(Projects)
  PROVE  \E O : Looped(g, picked, visit, path, ordered, ps, O)
<1> DEFINE N == Len(ps)
           After(r, p) == Turn(g, picked, visit, path, r, p)
           Body(O) == [k \in 0..N |->
                         IF k = 0 THEN ordered
                         ELSE IF ps[k] \notin picked \/ ps[k] \in path \cup ToSet(O[k - 1])
                              THEN O[k - 1]
                              ELSE Append(visit[path \cup {ps[k]}][O[k - 1]]
                                               [Those(NameOrder, g.all[ps[k]])], ps[k])]
           step == [x \in Nat \X Seq(Projects) |->
                      IF x[1] \in 1..N THEN After(x[2], ps[x[1]]) ELSE x[2]]
<1>1. N \in Nat /\ \A k \in 1..N : ps[k] \in Projects
  OBVIOUS
<1> HIDE DEF N
<1>2. step \in [Nat \X Seq(Projects) -> Seq(Projects)]
  <2>1. \A r \in Seq(Projects), p \in Projects : After(r, p) \in Seq(Projects)
    BY TurnTyped
  <2> HIDE DEF After
  <2> QED BY <1>1, <2>1
<1>3. PICK f : Goes(Seq(Projects), ordered, step, N, f)
  <2> HIDE DEF step
  <2> QED BY <1>1, <1>2, Iterates
<1>4. f \in [0..N -> Seq(Projects)] /\ f[0] = ordered
  BY <1>3 DEF Goes
<1>5. ASSUME NEW k \in 1..N PROVE f[k] = After(f[k - 1], ps[k])
  <2>1. k \in Nat /\ k - 1 \in 0..N /\ f[k - 1] \in Seq(Projects)
    BY <1>1, <1>4
  <2>2. f[k] = step[<<k, f[k - 1]>>]
    <3> HIDE DEF step
    <3> QED BY <1>3 DEF Goes
  <2> HIDE DEF After
  <2> QED BY <2>1, <2>2
<1>6. Body(f) = [k \in 0..N |-> IF k = 0 THEN ordered ELSE After(f[k - 1], ps[k])]
  BY DEF Turn
<1>7. f = Body(f)
  <2>1. \A k \in 0..N : f[k] = IF k = 0 THEN ordered ELSE After(f[k - 1], ps[k])
    <3> HIDE DEF After
    <3> TAKE k \in 0..N
    <3>1. CASE k = 0
      BY <1>4, <3>1
    <3>2. CASE k # 0
      <4>1. k \in 1..N
        BY <1>1, <3>2
      <4> QED BY <1>5, <3>2, <4>1
    <3> QED BY <3>1, <3>2
  <2> HIDE DEF After, Body
  <2> QED BY <1>4, <1>6, <2>1
<1>8. PICK O : O = Body(O) /\ VisitEach(g, picked, visit, path, ordered, ps) = O[N]
  <2> DEFINE C == CHOOSE O : O = Body(O)
  <2>1. C = Body(C)
    <3> HIDE DEF Body
    <3> QED BY <1>7
  <2>2. VisitEach(g, picked, visit, path, ordered, ps) = C[N]
    BY DEF VisitEach, N
  <2> QED BY <2>1, <2>2
<1>9. O = [k \in 0..N |-> IF k = 0 THEN ordered ELSE After(O[k - 1], ps[k])]
  <2>1. Body(O) = [k \in 0..N |-> IF k = 0 THEN ordered ELSE After(O[k - 1], ps[k])]
    BY DEF Turn
  <2> HIDE DEF Body, After
  <2> QED BY <1>8, <2>1
<1> HIDE DEF Body, step
<1>10. O[0] = ordered
  <2>1. 0 \in 0..N
    BY <1>1
  <2> HIDE DEF After
  <2> QED BY <1>9, <2>1
<1>11. ASSUME NEW k \in 1..N PROVE O[k] = After(O[k - 1], ps[k])
  <2>1. k \in 0..N /\ k # 0
    BY <1>1
  <2> HIDE DEF After
  <2> QED BY <1>9, <2>1
<1>12. \A k \in 0..N : O[k] \in Seq(Projects)
  <2> DEFINE Typed == {k \in Nat : k <= N => O[k] \in Seq(Projects)}
  <2>1. 0 \in Typed
    BY <1>10
  <2>2. ASSUME NEW k \in Typed PROVE k + 1 \in Typed
    <3> SUFFICES ASSUME k + 1 <= N PROVE O[k + 1] \in Seq(Projects)
      OBVIOUS
    <3>1. k + 1 \in 1..N /\ (k + 1) - 1 = k /\ O[k] \in Seq(Projects)
      BY <1>1
    <3>2. O[k + 1] = After(O[k], ps[k + 1]) /\ ps[k + 1] \in Projects
      <4> HIDE DEF After
      <4> QED BY <1>1, <1>11, <3>1
    <3>3. After(O[k], ps[k + 1]) \in Seq(Projects)
      <4>1. O[k] \in Seq(Projects) /\ ps[k + 1] \in Projects
        BY <3>1, <3>2
      <4> QED BY <4>1, TurnTyped
    <3> HIDE DEF After
    <3> QED BY <3>2, <3>3
  <2>3. Typed = Nat
    <3> HIDE DEF Typed
    <3>1. Typed \subseteq Nat
      BY DEF Typed
    <3> QED BY <2>1, <2>2, <3>1, Induction
  <2> QED BY <2>3, <1>1
<1>13. O \in [0..N -> Seq(Projects)]
  <2> DEFINE F == [k \in 0..N |-> O[k]]
  <2>1. O = F
    <3> HIDE DEF After
    <3> QED BY <1>9
  <2>2. F \in [0..N -> Seq(Projects)]
    BY <1>12
  <2> HIDE DEF F
  <2> QED BY <2>1, <2>2
<1> QED BY <1>8, <1>10, <1>11, <1>13 DEF Looped, N

(* The depths of Visit.                                                    *)
Depths(g, picked, V) ==
  /\ V \in [0..Cardinality(Projects) -> Walks]
  /\ Visit(g, picked) = V[Cardinality(Projects)]
  /\ \A path \in SUBSET Projects, ordered \in Seq(Projects), ps \in Seq(Projects) :
       /\ V[0][path][ordered][ps] = ordered
       /\ \A n \in 1..Cardinality(Projects) :
            V[n][path][ordered][ps] =
              VisitEach(g, picked, V[n - 1], path, ordered, ps)

LEMMA VisitDepths ==
  ASSUME NEW g, Edged(g.all), NEW picked
  PROVE  \E V : Depths(g, picked, V)
<1> DEFINE N == Cardinality(Projects)
           Deeper(n, v) == [path \in SUBSET Projects |->
                             [ordered \in Seq(Projects) |->
                               [ps \in Seq(Projects) |->
                                  IF n = 0 THEN ordered
                                  ELSE VisitEach(g, picked, v, path, ordered, ps)]]]
           Body(V) == [n \in 0..N |->
                        [path \in SUBSET Projects |->
                          [ordered \in Seq(Projects) |->
                            [ps \in Seq(Projects) |->
                               IF n = 0 THEN ordered
                               ELSE VisitEach(g, picked, V[n - 1], path, ordered, ps)]]]]
           step == [x \in Nat \X Walks |-> Deeper(x[1], x[2])]
           none == Deeper(0, 0)
<1>1. N \in Nat
  BY ProjectsFinite
<1> HIDE DEF N
<1>2. \A n \in Nat, v \in Walks : Deeper(n, v) \in Walks
  <2> TAKE n \in Nat, v \in Walks
  <2>1. \A path \in SUBSET Projects, ordered \in Seq(Projects), ps \in Seq(Projects) :
          VisitEach(g, picked, v, path, ordered, ps) \in Seq(Projects)
    <3> TAKE path \in SUBSET Projects, ordered \in Seq(Projects), ps \in Seq(Projects)
    <3>1. PICK O : Looped(g, picked, v, path, ordered, ps, O)
      BY VisitLoop
    <3>2. Len(ps) \in 0..Len(ps)
      OBVIOUS
    <3> QED BY <3>1, <3>2 DEF Looped
  <2> QED BY <2>1 DEF Walks
<1>3. none \in Walks
  BY DEF Walks
<1>4. step \in [Nat \X Walks -> Walks]
  <2> HIDE DEF Deeper
  <2> QED BY <1>2
<1> HIDE DEF none
<1>5. PICK f : Goes(Walks, none, step, N, f)
  <2> HIDE DEF step
  <2> QED BY <1>1, <1>3, <1>4, Iterates
<1>6. f \in [0..N -> Walks] /\ f[0] = none
  BY <1>5 DEF Goes
<1>7. ASSUME NEW n \in 1..N PROVE f[n] = Deeper(n, f[n - 1])
  <2>1. n \in Nat /\ n - 1 \in 0..N /\ f[n - 1] \in Walks
    BY <1>1, <1>6
  <2>2. f[n] = step[<<n, f[n - 1]>>]
    <3> HIDE DEF step
    <3> QED BY <1>5 DEF Goes
  <2> HIDE DEF Deeper
  <2> QED BY <2>1, <2>2
<1>8. f[0] = Deeper(0, f[0 - 1])
  BY <1>6 DEF none
<1>9. f = Body(f)
  <2>1. \A n \in 0..N : f[n] = Deeper(n, f[n - 1])
    <3> HIDE DEF Deeper
    <3> TAKE n \in 0..N
    <3>1. n = 0 \/ n \in 1..N
      BY <1>1
    <3> QED BY <1>7, <1>8, <3>1
  <2>2. Body(f) = [n \in 0..N |-> Deeper(n, f[n - 1])]
    OBVIOUS
  <2> HIDE DEF Deeper, Body
  <2> QED BY <1>6, <2>1, <2>2
<1>10. PICK V : V = Body(V) /\ Visit(g, picked) = V[N]
  <2> DEFINE C == CHOOSE V : V = Body(V)
  <2>1. C = Body(C)
    <3> HIDE DEF Body
    <3> QED BY <1>9
  <2>2. Visit(g, picked) = C[N]
    BY DEF Visit, N
  <2> QED BY <2>1, <2>2
<1>11. V = [n \in 0..N |-> Deeper(n, V[n - 1])]
  <2>1. Body(V) = [n \in 0..N |-> Deeper(n, V[n - 1])]
    OBVIOUS
  <2> HIDE DEF Body, Deeper
  <2> QED BY <1>10, <2>1
<1> HIDE DEF Body, step
<1>12. ASSUME NEW n \in 0..N PROVE V[n] = Deeper(n, V[n - 1])
  <2> HIDE DEF Deeper
  <2> QED BY <1>11
<1>13. \A n \in 0..N : V[n] \in Walks
  <2> DEFINE Typed == {n \in Nat : n <= N => V[n] \in Walks}
  <2>1. 0 \in Typed
    <3>1. V[0] = Deeper(0, V[0 - 1])
      <4>1. 0 \in 0..N
        BY <1>1
      <4> HIDE DEF Deeper
      <4> QED BY <1>12, <4>1
    <3>2. V[0] = none
      BY <3>1 DEF none
    <3> QED BY <1>3, <3>2
  <2>2. ASSUME NEW n \in Typed PROVE n + 1 \in Typed
    <3> SUFFICES ASSUME n + 1 <= N PROVE V[n + 1] \in Walks
      OBVIOUS
    <3>1. n + 1 \in 0..N /\ n + 1 \in Nat /\ (n + 1) - 1 = n /\ V[n] \in Walks
      BY <1>1
    <3>2. V[n + 1] = Deeper(n + 1, V[n])
      <4> HIDE DEF Deeper
      <4> QED BY <1>12, <3>1
    <3> HIDE DEF Deeper
    <3> QED BY <1>2, <3>1, <3>2
  <2>3. Typed = Nat
    <3> HIDE DEF Typed
    <3>1. Typed \subseteq Nat
      BY DEF Typed
    <3> QED BY <2>1, <2>2, <3>1, Induction
  <2> QED BY <2>3, <1>1
<1>14. V \in [0..N -> Walks]
  <2> DEFINE F == [n \in 0..N |-> V[n]]
  <2>1. V = F
    <3> HIDE DEF Deeper
    <3> QED BY <1>11
  <2>2. F \in [0..N -> Walks]
    BY <1>13
  <2> HIDE DEF F
  <2> QED BY <2>1, <2>2
<1>15. ASSUME NEW path \in SUBSET Projects, NEW ordered \in Seq(Projects),
              NEW ps \in Seq(Projects)
       PROVE  /\ V[0][path][ordered][ps] = ordered
              /\ \A n \in 1..N : V[n][path][ordered][ps] =
                   VisitEach(g, picked, V[n - 1], path, ordered, ps)
  <2>1. \A n \in 0..N : V[n] = Deeper(n, V[n - 1])
    <3> HIDE DEF Deeper
    <3> QED BY <1>12
  <2>2. V[0][path][ordered][ps] = ordered
    <3>1. V[0] = Deeper(0, V[0 - 1])
      <4>1. 0 \in 0..N
        BY <1>1
      <4> HIDE DEF Deeper
      <4> QED BY <2>1, <4>1
    <3> QED BY <3>1
  <2>3. ASSUME NEW n \in 1..N
        PROVE  V[n][path][ordered][ps] = VisitEach(g, picked, V[n - 1], path, ordered, ps)
    <3>1. n \in 0..N /\ n # 0
      BY <1>1
    <3>2. V[n] = Deeper(n, V[n - 1])
      <4> HIDE DEF Deeper
      <4> QED BY <2>1, <3>1
    <3> QED BY <3>1, <3>2
  <2> QED BY <2>2, <2>3
<1> HIDE DEF Deeper
<1>16. \A path \in SUBSET Projects, ordered \in Seq(Projects), ps \in Seq(Projects) :
         /\ V[0][path][ordered][ps] = ordered
         /\ \A n \in 1..N : V[n][path][ordered][ps] =
              VisitEach(g, picked, V[n - 1], path, ordered, ps)
  BY <1>15
<1>17. Depths(g, picked, V) <=>
         /\ V \in [0..N -> Walks] /\ Visit(g, picked) = V[N]
         /\ \A path \in SUBSET Projects, ordered \in Seq(Projects), ps \in Seq(Projects) :
              /\ V[0][path][ordered][ps] = ordered
              /\ \A n \in 1..N : V[n][path][ordered][ps] =
                   VisitEach(g, picked, V[n - 1], path, ordered, ps)
  BY DEF Depths, N
<1>18. Depths(g, picked, V)
  BY <1>10, <1>14, <1>16, <1>17
<1> QED BY <1>18
-----------------------------------------------------------------------------
(* In the order r, every dependency in S of a project comes before it, or  *)
(* lies on a cycle with it.                                                *)
Settled(E, S, r) ==
  \A i \in 1..Len(r) : \A d \in E[r[i]] \cap S :
    (\E j \in 1..(i - 1) : r[j] = d) \/ Path(E, S, d, r[i])

Clean(E, S, path, r) ==
  /\ r \in Seq(Projects) /\ Once(r) /\ ToSet(r) \subseteq S \ path
  /\ Settled(E, S, r)

Ahead(E, S, path, ps) == \A x \in path, y \in ToSet(ps) \cap S : Path(E, S, x, y)

(* What a visit makes of the order r it is given.                          *)
Grown(E, S, path, r, qs, t) ==
  Clean(E, S, path, t) /\ ToSet(r) \subseteq ToSet(t) /\ (qs \cap S) \ path \subseteq ToSet(t)

Walked(g, S, n, v) ==
  \A path \in SUBSET S, r \in Seq(Projects), ps \in Seq(Projects) :
    Cardinality(S \ path) <= n /\ Clean(g.all, S, path, r) /\ Ahead(g.all, S, path, ps) =>
      Grown(g.all, S, path, r, ToSet(ps), v[path][r][ps])

LEMMA CleanAppend ==
  ASSUME NEW E, NEW S \in SUBSET Projects, NEW path \in SUBSET S, NEW r,
         NEW p \in S \ path, Clean(E, S, path \cup {p}, r),
         \A d \in E[p] \cap S : d \in ToSet(r) \/ Path(E, S, d, p)
  PROVE  Clean(E, S, path, Append(r, p))
<1> DEFINE L == Len(r)
           u == Append(r, p)
<1>1. /\ r \in Seq(Projects) /\ Once(r) /\ ToSet(r) \subseteq S \ path /\ p \notin ToSet(r)
      /\ Settled(E, S, r)
  BY DEF Clean
<1>2. /\ u \in Seq(Projects) /\ Len(u) = L + 1 /\ \A i \in 1..L : u[i] = r[i]
      /\ u[L + 1] = p /\ ToSet(u) = ToSet(r) \cup {p}
  BY <1>1, AppendFacts
<1>3. L \in Nat /\ \A i \in 1..(L + 1) : i \in 1..L \/ i = L + 1
  BY <1>1
<1>4. \A i \in 1..L : r[i] \in ToSet(r) /\ r[i] # p
  BY <1>1, ToSetIs
<1> HIDE DEF u, L
<1>5. Once(u)
  <2> SUFFICES ASSUME NEW i \in 1..(L + 1), NEW j \in 1..(L + 1), u[i] = u[j] PROVE i = j
    BY <1>2 DEF Once
  <2> QED BY <1>1, <1>2, <1>3, <1>4 DEF Once, L
<1>6. ASSUME NEW i \in 1..Len(u), NEW d \in E[u[i]] \cap S
      PROVE  (\E j \in 1..(i - 1) : u[j] = d) \/ Path(E, S, d, u[i])
  <2>1. CASE i \in 1..L
    <3>1. u[i] = r[i]
      BY <1>2, <2>1
    <3>2. (\E j \in 1..(i - 1) : r[j] = d) \/ Path(E, S, d, r[i])
      BY <1>1, <2>1, <3>1 DEF Settled, L
    <3>3. \A j \in 1..(i - 1) : u[j] = r[j]
      BY <1>2, <1>3, <2>1
    <3> QED BY <3>1, <3>2, <3>3
  <2>2. CASE i = L + 1
    <3>1. u[i] = p /\ d \in E[p] \cap S
      BY <1>2, <2>2
    <3>2. CASE d \in ToSet(r)
      <4>1. PICK j \in 1..L : r[j] = d
        BY <1>1, <3>2, ToSetIs DEF L
      <4>2. j \in 1..(i - 1) /\ u[j] = d
        BY <1>2, <1>3, <2>2, <4>1
      <4> QED BY <4>2
    <3> QED BY <3>1, <3>2
  <2> QED BY <1>2, <1>3, <2>1, <2>2
<1>7. Settled(E, S, u)
  BY <1>6 DEF Settled
<1>8. ToSet(u) \subseteq S \ path
  BY <1>1, <1>2
<1> QED BY <1>2, <1>5, <1>7, <1>8 DEF Clean, u

(* One turn of the loop, with a visit that is right one level down.        *)
LEMMA TurnGrows ==
  ASSUME NEW g, Edged(g.all), NEW S \in SUBSET Projects, NEW n \in Nat, NEW v \in Walks,
         Walked(g, S, n, v), NEW path \in SUBSET S, Cardinality(S \ path) <= n + 1,
         NEW r, Clean(g.all, S, path, r), NEW p \in Projects,
         \A x \in path : p \in S => Path(g.all, S, x, p)
  PROVE  Grown(g.all, S, path, r, {p}, Turn(g, S, v, path, r, p))
<1> DEFINE E == g.all
           D == Those(NameOrder, E[p])
           q == path \cup {p}
           u == v[q][r][D]
           t == Turn(g, S, v, path, r, p)
<1>1. r \in Seq(Projects) /\ path \in SUBSET Projects
  BY DEF Clean
<1>2. D \in Seq(Projects) /\ ToSet(D) = E[p] /\ u \in Seq(Projects)
  BY <1>1, TurnTyped
<1>3. t = IF p \notin S \/ p \in path \cup ToSet(r) THEN r ELSE Append(u, p)
  BY DEF Turn
<1>4. E \in [Projects -> SUBSET Projects]
  BY DEF Edged
<1> HIDE DEF D, u, t, E
<1>5. CASE p \notin S \/ p \in path \cup ToSet(r)
  BY <1>3, <1>5 DEF Grown, E, t
<1>6. CASE p \in S /\ p \notin path \cup ToSet(r)
  <2>1. IsFiniteSet(S) /\ IsFiniteSet(S \ path)
    BY ProjectsFinite, FS_Subset
  <2>2. Cardinality(S \ q) <= n
    <3>1. S \ q = (S \ path) \ {p} /\ p \in S \ path
      BY <1>6
    <3>2. Cardinality(S \ path) \in Nat
      BY <2>1, FS_CardinalityType
    <3> DEFINE W == S \ path
    <3> HIDE DEF W
    <3>3. Cardinality(W \ {p}) = IF p \in W THEN Cardinality(W) - 1 ELSE Cardinality(W)
      <4>1. IsFiniteSet(W)
        BY <2>1 DEF W
      <4> QED BY <4>1, FS_RemoveElement
    <3>4. Cardinality(S \ q) = Cardinality(S \ path) - 1
      BY <3>1, <3>3 DEF W
    <3> QED BY <3>2, <3>4
  <2>3. Clean(E, S, q, r)
    BY <1>6 DEF Clean, E
  <2>4. \A x \in q : Path(E, S, x, p)
    BY <1>6, PathFacts DEF E
  <2>5. Ahead(E, S, q, D)
    <3> SUFFICES ASSUME NEW x \in q, NEW y \in E[p] \cap S PROVE Path(E, S, x, y)
      BY <1>2 DEF Ahead
    <3>1. x \in S /\ Path(E, S, x, p)
      BY <1>6, <2>4
    <3> QED BY <3>1, PathFacts
  <2>6. q \in SUBSET S
    BY <1>6
  <2>7. Grown(E, S, q, r, E[p], u)
    BY <1>1, <1>2, <2>2, <2>3, <2>5, <2>6 DEF Walked, E, u
  <2>8. \A d \in E[p] \cap S : d \in ToSet(u) \/ Path(E, S, d, p)
    BY <2>4, <2>7 DEF Grown
  <2>9. Clean(E, S, path, Append(u, p))
    BY <1>6, <2>7, <2>8, CleanAppend DEF Grown
  <2>10. ToSet(Append(u, p)) = ToSet(u) \cup {p}
    BY <1>2, AppendFacts
  <2>11. Grown(E, S, path, r, {p}, Append(u, p))
    BY <2>7, <2>9, <2>10 DEF Grown
  <2> QED BY <1>3, <1>6, <2>11 DEF E, t
<1> QED BY <1>5, <1>6

LEMMA LoopGrows ==
  ASSUME NEW g, Edged(g.all), NEW S \in SUBSET Projects, NEW n \in Nat, NEW v \in Walks,
         Walked(g, S, n, v), NEW path \in SUBSET S, Cardinality(S \ path) <= n + 1,
         NEW r, Clean(g.all, S, path, r), NEW ps \in Seq(Projects),
         Ahead(g.all, S, path, ps)
  PROVE  Grown(g.all, S, path, r, ToSet(ps), VisitEach(g, S, v, path, r, ps))
<1> DEFINE E == g.all
           N == Len(ps)
           Seen(k) == {ps[i] : i \in 1..k}
<1>1. r \in Seq(Projects) /\ path \in SUBSET Projects /\ N \in Nat
  BY DEF Clean
<1>2. PICK O : Looped(g, S, v, path, r, ps, O)
  BY <1>1, VisitLoop
<1>3. /\ O \in [0..N -> Seq(Projects)] /\ O[0] = r
      /\ VisitEach(g, S, v, path, r, ps) = O[N]
      /\ \A k \in 1..N : O[k] = Turn(g, S, v, path, O[k - 1], ps[k])
  BY <1>2 DEF Looped
<1> DEFINE Good(k) == Grown(E, S, path, r, Seen(k), O[k])
           Done == {k \in Nat : k <= N => Good(k)}
<1>4. 0 \in Done
  <2>1. Seen(0) = {}
    OBVIOUS
  <2> HIDE DEF Seen
  <2>2. Good(0)
    BY <1>3, <2>1 DEF Grown
  <2> HIDE DEF Good
  <2> QED BY <2>2
<1>5. ASSUME NEW k \in Done PROVE k + 1 \in Done
  <2> SUFFICES ASSUME k + 1 <= N PROVE Good(k + 1)
    <3> HIDE DEF Good
    <3> QED OBVIOUS
  <2> DEFINE p == ps[k + 1]
             t == Turn(g, S, v, path, O[k], p)
  <2>1. k \in Nat /\ k + 1 \in 1..N /\ (k + 1) - 1 = k /\ p \in Projects
    BY <1>1
  <2>2. Good(k)
    <3> HIDE DEF Good
    <3> QED BY <1>1, <2>1
  <2>3. O[k + 1] = t
    BY <1>3, <2>1
  <2>4. Seen(k + 1) = Seen(k) \cup {p}
    <3>1. 1..(k + 1) = 1..k \cup {k + 1}
      BY <2>1
    <3> QED BY <3>1
  <2>5. p \in ToSet(ps)
    BY <2>1, ToSetIs
  <2>6. \A x \in path : p \in S => Path(E, S, x, p)
    BY <2>5 DEF Ahead
  <2>7. Clean(E, S, path, O[k])
    BY <2>2 DEF Grown
  <2>8. Grown(E, S, path, O[k], {p}, t)
    <3> HIDE DEF p
    <3> QED BY <2>1, <2>6, <2>7, TurnGrows
  <2> HIDE DEF p, t, Seen
  <2> QED BY <2>2, <2>3, <2>4, <2>8 DEF Grown
<1>6. Done = Nat
  <2> HIDE DEF Done
  <2>1. Done \subseteq Nat
    BY DEF Done
  <2> QED BY <1>4, <1>5, <2>1, Induction
<1>7. Good(N)
  <2> HIDE DEF Good
  <2> QED BY <1>1, <1>6
<1>8. Seen(N) = ToSet(ps)
  BY ToSetIs
<1> HIDE DEF Seen
<1> QED BY <1>3, <1>7, <1>8

LEMMA VisitGrows ==
  ASSUME NEW g, Edged(g.all), NEW S \in SUBSET Projects
  PROVE  Walked(g, S, Cardinality(Projects), Visit(g, S))
<1> DEFINE N == Cardinality(Projects)
<1>1. N \in Nat
  BY ProjectsFinite
<1>2. PICK V : Depths(g, S, V)
  BY VisitDepths
<1>3. /\ V \in [0..N -> Walks] /\ Visit(g, S) = V[N]
      /\ \A path \in SUBSET Projects, ordered \in Seq(Projects), ps \in Seq(Projects) :
           /\ V[0][path][ordered][ps] = ordered
           /\ \A n \in 1..N : V[n][path][ordered][ps] =
                VisitEach(g, S, V[n - 1], path, ordered, ps)
  BY <1>2 DEF Depths
<1> HIDE DEF N
<1> DEFINE Done == {n \in Nat : n <= N => Walked(g, S, n, V[n])}
<1>4. 0 \in Done
  <2> SUFFICES ASSUME NEW path \in SUBSET S, NEW r \in Seq(Projects), NEW ps \in Seq(Projects),
                      Cardinality(S \ path) <= 0, Clean(g.all, S, path, r)
               PROVE  Grown(g.all, S, path, r, ToSet(ps), V[0][path][r][ps])
    BY DEF Walked
  <2>1. path \in SUBSET Projects
    OBVIOUS
  <2>2. V[0][path][r][ps] = r
    BY <1>3, <2>1
  <2>3. IsFiniteSet(S \ path)
    BY ProjectsFinite, FS_Subset
  <2>4. Cardinality(S \ path) = 0
    BY <2>3, FS_CardinalityType
  <2>5. S \ path = {}
    BY <2>3, <2>4, FS_EmptySet
  <2> QED BY <2>2, <2>5 DEF Grown
<1>5. ASSUME NEW n \in Done PROVE n + 1 \in Done
  <2> SUFFICES ASSUME n + 1 <= N PROVE Walked(g, S, n + 1, V[n + 1])
    OBVIOUS
  <2>1. n \in Nat /\ n \in 0..N /\ n + 1 \in 1..N /\ (n + 1) - 1 = n /\ Walked(g, S, n, V[n])
    BY <1>1
  <2>2. V[n] \in Walks
    BY <1>3, <2>1
  <2> SUFFICES ASSUME NEW path \in SUBSET S, NEW r \in Seq(Projects), NEW ps \in Seq(Projects),
                      Cardinality(S \ path) <= n + 1, Clean(g.all, S, path, r),
                      Ahead(g.all, S, path, ps)
               PROVE  Grown(g.all, S, path, r, ToSet(ps), V[n + 1][path][r][ps])
    BY DEF Walked
  <2>3. V[n + 1][path][r][ps] = VisitEach(g, S, V[n], path, r, ps)
    <3>1. path \in SUBSET Projects
      OBVIOUS
    <3>2. \A m \in 1..N : V[m][path][r][ps] = VisitEach(g, S, V[m - 1], path, r, ps)
      BY <1>3, <3>1
    <3> QED BY <2>1, <3>2
  <2>4. Grown(g.all, S, path, r, ToSet(ps), VisitEach(g, S, V[n], path, r, ps))
    BY <2>1, <2>2, LoopGrows
  <2> QED BY <2>3, <2>4
<1>6. Done = Nat
  <2> HIDE DEF Done
  <2>1. Done \subseteq Nat
    BY DEF Done
  <2> QED BY <1>4, <1>5, <2>1, Induction
<1>7. Walked(g, S, N, V[N])
  BY <1>1, <1>6
<1> QED BY <1>3, <1>7 DEF N
-----------------------------------------------------------------------------
(* Where the order s puts a project after another that depends on it, they *)
(* are on a cycle.                                                         *)
Respects(E, S, s) ==
  \A i, j \in 1..Len(s) : i < j /\ s[j] \in E[s[i]] => Path(E, S, s[j], s[i])

LEMMA RespectsPart ==
  ASSUME NEW A, NEW s \in Seq(A), NEW t \in Seq(A), PartOf(t, s),
         NEW E, NEW S, Respects(E, S, s)
  PROVE  Respects(E, S, t)
<1>1. PICK m : PlacedBy(t, s, Len(s), m)
  BY DEF PartOf
<1>2. /\ m \in [1..Len(t) -> 1..Len(s)] /\ \A i \in 1..Len(t) : t[i] = s[m[i]]
      /\ \A i, j \in 1..Len(t) : i < j => m[i] < m[j]
  BY <1>1 DEF PlacedBy
<1> SUFFICES ASSUME NEW i \in 1..Len(t), NEW j \in 1..Len(t), i < j, t[j] \in E[t[i]]
             PROVE  Path(E, S, t[j], t[i])
  BY DEF Respects
<1>3. m[i] \in 1..Len(s) /\ m[j] \in 1..Len(s) /\ m[i] < m[j]
  BY <1>2
<1>4. t[i] = s[m[i]] /\ t[j] = s[m[j]]
  BY <1>2
<1> QED BY <1>3, <1>4 DEF Respects

LEMMA ByPathFacts ==
  ASSUME NEW S \in SUBSET Projects
  PROVE  ByPath(S) \in Seq(Projects) /\ Once(ByPath(S)) /\ ToSet(ByPath(S)) = S
<1>1. PathOrder \in Seq(Projects) /\ ToSet(PathOrder) = Projects
  BY GraphAssumption
<1>2. Once(PathOrder)
  <2>1. DOMAIN PathOrder = 1..Len(PathOrder)
    BY <1>1
  <2> QED BY <2>1, GraphAssumption DEF Once
<1> DEFINE t == Those(PathOrder, S)
<1>3. t \in Seq(Projects) /\ ToSet(t) = ToSet(PathOrder) \cap S /\ PartOf(t, PathOrder)
  BY <1>1, ThoseFacts
<1> HIDE DEF t
<1>4. Once(t)
  BY <1>1, <1>2, <1>3, PartFacts
<1> QED BY <1>1, <1>3, <1>4 DEF ByPath, t

(* Sorted, every selected project comes once, and after those it depends   *)
(* on, but for cycles.                                                     *)
LEMMA TopologicalFacts ==
  ASSUME NEW g, Edged(g.all), NEW S \in SUBSET Projects
  PROVE  /\ TopologicallyOrdered(g, S) \in Seq(Projects)
         /\ Once(TopologicallyOrdered(g, S)) /\ ToSet(TopologicallyOrdered(g, S)) = S
         /\ Respects(g.all, S, TopologicallyOrdered(g, S))
<1> DEFINE ps == ByPath(S)
           V == Visit(g, S)
           t == TopologicallyOrdered(g, S)
           N == Cardinality(Projects)
           nobody == {}
           nothing == <<>>
<1>1. ps \in Seq(Projects) /\ ToSet(ps) = S
  BY ByPathFacts
<1>2. nobody \in SUBSET S /\ nothing \in Seq(Projects)
  OBVIOUS
<1>3. Cardinality(S \ nobody) <= N
  <2>1. S \ nobody = S
    OBVIOUS
  <2> QED BY <2>1, ProjectsFinite, FS_Subset
<1>4. Clean(g.all, S, nobody, nothing)
  <2>1. Len(nothing) = 0 /\ 1..0 = {}
    OBVIOUS
  <2>2. ToSet(nothing) = {}
    <3>1. DOMAIN nothing = {}
      OBVIOUS
    <3> QED BY <3>1 DEF ToSet
  <2>3. Once(nothing) /\ Settled(g.all, S, nothing)
    BY <2>1 DEF Once, Settled
  <2> QED BY <1>2, <2>2, <2>3 DEF Clean
<1>5. Ahead(g.all, S, nobody, ps)
  BY DEF Ahead
<1>6. t = V[nobody][nothing][ps]
  BY DEF TopologicallyOrdered
<1>7. Walked(g, S, N, V)
  BY VisitGrows
<1> HIDE DEF ps, V, t, nobody, nothing, N
<1>8. Grown(g.all, S, nobody, nothing, S, t)
  BY <1>1, <1>2, <1>3, <1>4, <1>5, <1>6, <1>7 DEF Walked
<1>9. /\ t \in Seq(Projects) /\ Once(t) /\ ToSet(t) = S
      /\ Settled(g.all, S, t)
  BY <1>8 DEF Grown, Clean, nobody
<1>10. Respects(g.all, S, t)
  <2> SUFFICES ASSUME NEW i \in 1..Len(t), NEW j \in 1..Len(t), i < j, t[j] \in g.all[t[i]]
               PROVE  Path(g.all, S, t[j], t[i])
    BY DEF Respects
  <2>1. t[j] \in g.all[t[i]] \cap S
    BY <1>9, ToSetIs
  <2>2. (\E k \in 1..(i - 1) : t[k] = t[j]) \/ Path(g.all, S, t[j], t[i])
    BY <1>9, <2>1 DEF Settled
  <2>3. ASSUME NEW k \in 1..(i - 1), t[k] = t[j] PROVE FALSE
    <3>1. k \in 1..Len(t) /\ k # j
      BY <1>9
    <3> QED BY <1>9, <2>3, <3>1 DEF Once
  <2> QED BY <2>2, <2>3
<1> QED BY <1>9, <1>10 DEF t

LEMMA ReverseFacts ==
  ASSUME NEW A, NEW s \in Seq(A), Once(s)
  PROVE  /\ Reverse(s) \in Seq(A) /\ Len(Reverse(s)) = Len(s)
         /\ \A i \in 1..Len(s) : Reverse(s)[i] = s[(Len(s) - i) + 1]
         /\ Once(Reverse(s)) /\ ToSet(Reverse(s)) = ToSet(s)
<1> DEFINE L == Len(s)
           r == Reverse(s)
<1>1. L \in Nat /\ \A i \in 1..L : (L - i) + 1 \in 1..L
  OBVIOUS
<1>2. \A i \in 1..L : s[(L - i) + 1] \in A
  BY <1>1
<1>3. r = [i \in 1..L |-> s[(L - i) + 1]]
  BY DEF Reverse
<1> HIDE DEF L, r
<1>4. r \in Seq(A) /\ Len(r) = L /\ \A i \in 1..L : r[i] = s[(L - i) + 1]
  BY <1>1, <1>2, <1>3
<1>5. Once(r)
  <2> SUFFICES ASSUME NEW i \in 1..L, NEW j \in 1..L, r[i] = r[j] PROVE i = j
    BY <1>4 DEF Once
  <2>1. (L - i) + 1 \in 1..L /\ (L - j) + 1 \in 1..L
    BY <1>1
  <2>2. s[(L - i) + 1] = s[(L - j) + 1]
    BY <1>4
  <2>3. (L - i) + 1 = (L - j) + 1
    BY <2>1, <2>2 DEF Once, L
  <2> QED BY <1>1, <2>3
<1>6. ToSet(r) = ToSet(s)
  <2>1. ASSUME NEW i \in 1..L
        PROVE  (L - i) + 1 \in 1..L /\ r[i] = s[(L - i) + 1] /\ r[(L - i) + 1] = s[i]
    <3>1. (L - i) + 1 \in 1..L /\ (L - ((L - i) + 1)) + 1 = i
      BY <1>1
    <3> QED BY <1>4, <3>1
  <2>2. ToSet(r) = {r[i] : i \in 1..L} /\ ToSet(s) = {s[i] : i \in 1..L}
    BY <1>1, <1>4, ToSetIs DEF L
  <2>3. ASSUME NEW y \in ToSet(r)
        PROVE  y \in ToSet(s)
    <3>1. PICK i \in 1..L : y = r[i]
      BY <2>2
    <3> QED BY <2>1, <2>2, <3>1
  <2>4. ASSUME NEW y \in ToSet(s)
        PROVE  y \in ToSet(r)
    <3>1. PICK i \in 1..L : y = s[i]
      BY <2>2
    <3> QED BY <2>1, <2>2, <3>1
  <2> QED BY <2>3, <2>4
<1> QED BY <1>4, <1>5, <1>6 DEF r, L

LEMMA RespectsReversed ==
  ASSUME NEW E, Edged(E), NEW S \in SUBSET Projects, NEW s \in Seq(Projects),
         Once(s), ToSet(s) = S, Respects(E, S, s)
  PROVE  Respects(Reversed(E), S, Reverse(s))
<1> DEFINE L == Len(s)
           r == Reverse(s)
<1>1. L \in Nat /\ Len(r) = L /\ \A i \in 1..L : r[i] = s[(L - i) + 1]
  BY ReverseFacts
<1> HIDE DEF r
<1> SUFFICES ASSUME NEW i \in 1..L, NEW j \in 1..L, i < j, r[j] \in Reversed(E)[r[i]]
             PROVE  Path(Reversed(E), S, r[j], r[i])
  BY <1>1 DEF Respects, r
<1> DEFINE x == (L - i) + 1
           y == (L - j) + 1
<1>2. x \in 1..L /\ y \in 1..L /\ y < x
  BY <1>1
<1>3. r[i] = s[x] /\ r[j] = s[y] /\ s[x] \in Projects /\ s[y] \in Projects
  BY <1>1, <1>2
<1> HIDE DEF x, y
<1>4. s[x] \in E[s[y]]
  BY <1>3 DEF Reversed
<1>5. Path(E, S, s[x], s[y])
  BY <1>2, <1>4 DEF Respects
<1> QED BY <1>3, <1>5, PathReversed

(* The edges that the order of a command follows.                          *)
Towards(g, o) == IF o.reverse THEN Reversed(g.all) ELSE g.all

LEMMA OrderedFacts ==
  ASSUME NEW g, Edged(g.all), NEW S \in SUBSET Projects, NEW o
  PROVE  /\ Ordered(g, S, o) \in Seq(Projects) /\ Once(Ordered(g, S, o))
         /\ ToSet(Ordered(g, S, o)) = S
         /\ Sorted(o) => Respects(Towards(g, o), S, Ordered(g, S, o))
<1> DEFINE t == IF Sorted(o) THEN TopologicallyOrdered(g, S) ELSE ByPath(S)
<1>1. /\ t \in Seq(Projects) /\ Once(t) /\ ToSet(t) = S
      /\ Sorted(o) => Respects(g.all, S, t)
  BY TopologicalFacts, ByPathFacts
<1>2. Ordered(g, S, o) = IF o.reverse THEN Reverse(t) ELSE t
  BY DEF Ordered
<1> HIDE DEF t
<1>3. Reverse(t) \in Seq(Projects) /\ Once(Reverse(t)) /\ ToSet(Reverse(t)) = S
  BY <1>1, ReverseFacts
<1>4. Sorted(o) => Respects(Reversed(g.all), S, Reverse(t))
  BY <1>1, RespectsReversed
<1> QED BY <1>1, <1>2, <1>3, <1>4 DEF Towards

LEMMA FromFacts ==
  ASSUME NEW A, NEW s \in Seq(A), NEW p \in ToSet(s)
  PROVE  From(s, p) \in Seq(A) /\ PartOf(From(s, p), s)
<1> DEFINE I == {i \in 1..Len(s) : s[i] = p}
           j == SelectInSeq(s, LAMBDA q : q = p)
           t == From(s, p)
           L == Len(s)
<1>1. I # {} /\ I \in SUBSET Nat /\ L \in Nat
  BY ToSetIs
<1>2. j = IF I # {} THEN Min(I) ELSE 0
  BY DEF SelectInSeq
<1>3. j \in 1..L
  <2>1. \E x \in I : \A y \in I : x <= y
    <3> HIDE DEF I
    <3> QED BY <1>1, Least
  <2>2. Min(I) \in I
    <3> HIDE DEF I
    <3> QED BY <2>1 DEF Min
  <2> QED BY <1>1, <1>2, <2>2
<1>4. t = SubSeq(s, j, L)
  BY DEF From
<1> HIDE DEF I, j, t
<1>5. /\ t \in Seq(A) /\ Len(t) = (L - j) + 1
      /\ \A i \in 1..Len(t) : t[i] = s[(j + i) - 1]
  BY <1>1, <1>3, <1>4
<1> DEFINE m == [i \in 1..Len(t) |-> (j + i) - 1]
<1>6. PlacedBy(t, s, L, m)
  BY <1>1, <1>3, <1>5 DEF PlacedBy
<1> QED BY <1>5, <1>6 DEF PartOf, t
-----------------------------------------------------------------------------
(* What every component of the state may be. *)
TypeOK ==
  /\ graph \in Graphs /\ command \in Commands
  /\ selected \in SUBSET Projects /\ plan \in Seq(Projects) /\ queue \in Seq(Projects)
  /\ main \in {"start", "order", "begin", "sequence", "join", "report", "done"}
  /\ at \in [Workers -> Places] /\ target \in [Workers -> Projects \cup {NoTarget}]
  /\ should_stop \in BOOLEAN /\ late \in SUBSET Projects
  /\ outcomes \in SUBSET [target : Projects, ok : BOOLEAN]

(* The plan holds selected projects that run, each once, and respects the  *)
(* dependencies.                                                           *)
Planned ==
  /\ main \in {"start", "order"} => plan = <<>>
  /\ Once(plan) /\ ToSet(plan) \subseteq selected
  /\ Sorted(command) => Respects(Towards(graph, command), selected, plan)

(* Before anything has been started. *)
Begun == main \notin {"start", "order", "begin"}
Quiet ==
  ~Begun => /\ queue = <<>> /\ outcomes = {} /\ late = {} /\ ~should_stop
            /\ at = [w \in Workers |-> "idle"]
            /\ target = [w \in Workers |-> NoTarget]
            /\ result = Unfinished

(* What is queued is the rest of the plan; what is not has been started.   *)
Cut == Len(plan) - Len(queue)
Split ==
  Begun => /\ Len(queue) <= Len(plan)
           /\ \A k \in 1..Len(queue) : queue[k] = plan[Cut + k]
           /\ Started = {plan[k] : k \in 1..Cut}

(* Each target that has been started has one worker, or one outcome.       *)
Apart ==
  /\ \A w \in Workers : target[w] = NoTarget <=> at[w] \notin {"run", "push", "pushErr"}
  /\ \A v, w \in Workers : target[v] = target[w] /\ v # w => target[v] = NoTarget
  /\ \A w \in Workers : target[w] \notin Recorded
  /\ \A o, x \in outcomes : o.target = x.target => o = x

(* When the workers stop. *)
Stopping ==
  /\ main = "join" => at[1] # "idle"
  /\ main # "join" => \A w \in Workers : at[w] \in {"idle", "exit"}
  /\ main = "sequence" => ~should_stop /\ (Bails => Failed = {})
  /\ \A w \in Workers : at[w] = "exit" => should_stop \/ queue = <<>>
  /\ should_stop => Bails /\ (Failed # {} \/ \E w \in Workers : at[w] = "pushErr")
  /\ main \in {"report", "done"} => queue = <<>> \/ (Bails /\ Failed # {})

(* After a failure there are workers that were about to take a target, and *)
(* one that was not.                                                       *)
Popping == {w \in Workers : at[w] = "pop"}
Awake == {w \in Workers : at[w] # "idle"}
Lagging ==
  IF should_stop THEN Cardinality(late) + Cardinality(Popping) < Cardinality(Awake)
  ELSE late = {}

(* The summary. *)
Told ==
  /\ \A p \in DOMAIN summary : summary[p] = "skipped" <=> ~Runs(p)
  /\ ToSet(plan) \subseteq DOMAIN summary
  /\ \A p \in ToSet(plan) : Runs(p)
  /\ main = "join" => \A p \in DOMAIN summary : summary[p] \in {"running", "skipped"}
  /\ main # "join" => \A p \in DOMAIN summary :
       (summary[p] = "passed" <=> p \in Passed) /\ (summary[p] = "failure" <=> p \in Failed)
  /\ main = "done" /\ result.kind \notin {"noMatch", "noResume"} /\ selected # {} =>
       written = summary

(* The result. *)
FirstFailure(p) ==
  /\ p \in Failed
  /\ \A i, j \in 1..Len(plan) : plan[i] \in Failed /\ plan[j] = p => j <= i
Resulting ==
  /\ main \in {"start", "order", "begin", "sequence", "join"} => result = Unfinished
  /\ main = "report" => \/ result = Unfinished /\ ~(Bails /\ Failed # {})
                        \/ /\ result.kind = "error" /\ Bails
                           /\ FirstFailure(result.project)
  /\ main = "done" /\ plan # <<>> =>
       /\ result.kind = "error" <=> Bails /\ Failed # {}
       /\ result.kind = "error" => FirstFailure(result.project)

IInv == TypeOK /\ Planned /\ Quiet /\ Split /\ Apart /\ Stopping /\ Lagging /\ Told
        /\ Resulting
-----------------------------------------------------------------------------
(* Filters.                                                                *)
LEMMA GraphTyped ==
  ASSUME NEW g \in Graphs, NEW s \in Selectors
  PROVE  Edged(g.all) /\ Edged(g.prod) /\ Edged(Edges(g, s))
<1>1. g \in [all : [Projects -> SUBSET Projects], prod : [Projects -> SUBSET Projects]]
  BY RunnerAssumption
<1>2. Edged(g.all) /\ Edged(g.prod)
  BY <1>1 DEF Edged
<1> QED BY <1>2 DEF Edges

LEMMA SelectExact ==
  ASSUME graph \in Graphs, NEW s \in Selectors
  PROVE  /\ SelectFromGraph(graph, s) \subseteq Projects
         /\ \A p \in Projects : p \in SelectFromGraph(graph, s) <=> Matches(s, p)
<1> DEFINE E == Edges(graph, s)
<1>1. Edged(E) /\ Edged(Reversed(E))
  BY GraphTyped, ReversedFacts
<1>2. s.core \in SUBSET Projects /\ s.nonTest \in SUBSET Projects
  BY DEF Selectors
<1> HIDE DEF E
<1>3. /\ Reachable(E, s.core) \subseteq Projects
      /\ \A q : q \in Reachable(E, s.core) <=> \E c \in s.core : Path(E, Projects, c, q)
  BY <1>1, <1>2, ReachableFacts
<1>4. /\ Reachable(Reversed(E), s.nonTest) \subseteq Projects
      /\ \A q : q \in Reachable(Reversed(E), s.nonTest) <=>
           \E c \in s.nonTest : Path(Reversed(E), Projects, c, q)
  BY <1>1, <1>2, ReachableFacts
<1>5. \A q, c : Path(Reversed(E), Projects, c, q) <=> Path(E, Projects, q, c)
  BY <1>1, ReversedPaths
<1>6. \A q : q \in Reachable(Reversed(E), s.nonTest) <=>
        \E c \in s.nonTest : Path(E, Projects, q, c)
  BY <1>4, <1>5
<1>7. s.traversal \in Traversals
  BY DEF Selectors
<1>8. CASE s.traversal = "none"
  BY <1>2, <1>8 DEF SelectFromGraph, Matches
<1>9. CASE s.traversal = "dependencies"
  BY <1>3, <1>9 DEF SelectFromGraph, Matches, E
<1>10. CASE s.traversal = "dependenciesOnly"
  BY <1>3, <1>10 DEF SelectFromGraph, Matches, E
<1>11. CASE s.traversal = "dependents"
  BY <1>2, <1>4, <1>6, <1>11 DEF SelectFromGraph, Matches, E
<1>12. CASE s.traversal = "dependentsOnly"
  BY <1>4, <1>6, <1>12 DEF SelectFromGraph, Matches, E
<1> QED BY <1>7, <1>8, <1>9, <1>10, <1>11, <1>12 DEF Traversals

LEMMA FilterFacts ==
  ASSUME graph \in Graphs, NEW filters \in SUBSET Selectors
  PROVE  /\ ResolveFilters(graph, filters) \subseteq Projects
         /\ \A p \in Projects : p \in ResolveFilters(graph, filters) <=>
              /\ \A s \in filters : s.negative => ~Matches(s, p)
              /\ \/ \A s \in filters : s.negative
                 \/ \E s \in filters : ~s.negative /\ Matches(s, p)
<1> DEFINE positive == {s \in filters : ~s.negative}
           negative == filters \ positive
           Sel(s) == SelectFromGraph(graph, s)
           include == IF positive = {} THEN Projects ELSE UNION {Sel(s) : s \in positive}
           exclude == UNION {Sel(s) : s \in negative}
<1>1. ResolveFilters(graph, filters) = include \ exclude
  BY DEF ResolveFilters
<1>2. \A s \in filters : Sel(s) \subseteq Projects
                         /\ \A p \in Projects : p \in Sel(s) <=> Matches(s, p)
  BY SelectExact
<1> HIDE DEF Sel
<1>3. include \subseteq Projects
  BY <1>2
<1>4. ASSUME NEW p \in Projects
      PROVE  /\ p \in exclude <=> \E s \in filters : s.negative /\ Matches(s, p)
             /\ p \in include <=> \/ \A s \in filters : s.negative
                                  \/ \E s \in filters : ~s.negative /\ Matches(s, p)
  <2>1. p \in exclude <=> \E s \in filters : s.negative /\ Matches(s, p)
    <3>1. \A s : s \in negative <=> s \in filters /\ s.negative
      OBVIOUS
    <3>2. p \in exclude <=> \E s \in negative : p \in Sel(s)
      OBVIOUS
    <3> HIDE DEF negative, exclude
    <3> QED BY <1>2, <3>1, <3>2
  <2>2. CASE positive = {}
    <3>1. \A s \in filters : s.negative
      BY <2>2
    <3>2. p \in include
      BY <2>2
    <3> HIDE DEF positive, include
    <3> QED BY <3>1, <3>2, <2>1
  <2>3. CASE positive # {}
    <3>1. \A s : s \in positive <=> s \in filters /\ ~s.negative
      OBVIOUS
    <3>2. p \in include <=> \E s \in positive : p \in Sel(s)
      BY <2>3
    <3> HIDE DEF positive, include
    <3> QED BY <1>2, <2>1, <2>3, <3>1, <3>2
  <2> QED BY <2>1, <2>2, <2>3
<1> HIDE DEF include, exclude
<1> QED BY <1>1, <1>3, <1>4

LEMMA CommandTyped ==
  ASSUME command \in Commands
  PROVE  command.here \in Projects /\ command.limit \in Nat
         /\ command.filters \in SUBSET Selectors
  BY RunnerAssumption

LEMMA SelectedTyped ==
  ASSUME graph \in Graphs, command \in Commands
  PROVE  RunSelected \in SUBSET Projects /\ ExecSelected \in SUBSET Projects
<1>1. /\ command.here \in Projects /\ Root \in Projects
      /\ command.filters \in SUBSET Selectors
  BY CommandTyped, RunnerAssumption
<1>2. ResolveFilters(graph, command.filters) \subseteq Projects
  BY <1>1, FilterFacts
<1>3. \A s \in Selectors : s.core \subseteq Projects
  BY DEF Selectors
<1>4. RunSelected \in SUBSET Projects
  BY <1>1, <1>2 DEF RunSelected
<1>5. ExecSelected \in SUBSET Projects
  <2>1. ASSUME NEW F \in SUBSET command.filters PROVE UNION {s.core : s \in F} \subseteq Projects
    BY <1>1, <1>3
  <2> DEFINE F == {f \in command.filters : ~f.negative /\ f.traversal = "none"}
  <2>2. UNION {s.core : s \in F} \subseteq Projects
    <3>1. F \in SUBSET command.filters
      OBVIOUS
    <3> HIDE DEF F
    <3> QED BY <2>1, <3>1
  <2> QED BY <1>1, <2>2 DEF ExecSelected
<1> QED BY <1>4, <1>5
-----------------------------------------------------------------------------
(* What no step changes, and what changes with it.                         *)
LEMMA InputFrame ==
  ASSUME UNCHANGED inputs
  PROVE  /\ (Bails <=> Bails') /\ \A p : Runs(p) <=> (Runs(p))'
         /\ graph' = graph /\ command' = command
  BY DEF inputs, Bails, Runs

LEMMA InputsFixed == [Next]_vars => UNCHANGED inputs
  BY DEF Next, Main, Select, NoMatch, NoResume, Order, NoScript, Begin, RunNext, SequenceDone,
         Join, Report, Worker, vars, inputs

LEMMA OutcomeFrame ==
  ASSUME UNCHANGED <<outcomes, target>>
  PROVE  Recorded' = Recorded /\ Failed' = Failed /\ Passed' = Passed /\ Started' = Started
  BY DEF Recorded, Failed, Passed, Started

LEMMA TailTyped ==
  ASSUME NEW A, NEW s \in Seq(A), s # <<>>
  PROVE  /\ Head(s) \in A /\ Head(s) = s[1] /\ Tail(s) \in Seq(A)
         /\ Len(s) \in Nat \ {0} /\ Len(Tail(s)) = Len(s) - 1
         /\ \A k \in 1..Len(Tail(s)) : Tail(s)[k] = s[k + 1]
  OBVIOUS

(* The order of Order.                                                     *)
Chosen == IF command.resume = NoProject THEN Ordered(graph, selected, command)
          ELSE From(Ordered(graph, selected, command), command.resume)

LEMMA ChosenFacts ==
  ASSUME TypeOK, command.resume \in selected \cup {NoProject}
  PROVE  /\ Chosen \in Seq(Projects) /\ Once(Chosen) /\ ToSet(Chosen) \subseteq selected
         /\ Sorted(command) => Respects(Towards(graph, command), selected, Chosen)
<1> DEFINE all == Ordered(graph, selected, command)
<1>1. graph \in Graphs /\ selected \in SUBSET Projects /\ Edged(graph.all)
  BY RunnerAssumption DEF TypeOK, Edged
<1>2. /\ all \in Seq(Projects) /\ Once(all) /\ ToSet(all) = selected
      /\ Sorted(command) => Respects(Towards(graph, command), selected, all)
  BY <1>1, OrderedFacts
<1> HIDE DEF all
<1>3. CASE command.resume = NoProject
  BY <1>2, <1>3 DEF Chosen, all
<1>4. CASE command.resume # NoProject
  <2> DEFINE t == From(all, command.resume)
  <2>1. command.resume \in ToSet(all)
    BY <1>2, <1>4
  <2>2. t \in Seq(Projects) /\ PartOf(t, all)
    BY <1>2, <2>1, FromFacts
  <2>3. Chosen = t
    BY <1>4 DEF Chosen, all
  <2> HIDE DEF t
  <2>4. Once(t) /\ ToSet(t) \subseteq selected
    BY <1>2, <2>2, PartFacts
  <2>5. Sorted(command) => Respects(Towards(graph, command), selected, t)
    BY <1>2, <2>2, RespectsPart
  <2> QED BY <2>2, <2>3, <2>4, <2>5
<1> QED BY <1>3, <1>4

LEMMA OrderStep ==
  ASSUME TypeOK, Order
  PROVE  /\ plan' \in Seq(Projects) /\ Once(plan')
         /\ ToSet(plan') = ToSet(Chosen) \cap {p \in Projects : Runs(p)}
         /\ ToSet(plan') \subseteq selected
         /\ Sorted(command) => Respects(Towards(graph, command), selected, plan')
         /\ summary' = [p \in ToSet(Chosen) |-> IF Runs(p) THEN "queued" ELSE "skipped"]
         /\ ToSet(Chosen) \subseteq Projects
<1> DEFINE R == {p \in Projects : Runs(p)}
<1>1. plan' = Those(Chosen, R)
  BY DEF Order, Chosen
<1>2. summary' = [p \in ToSet(Chosen) |-> IF Runs(p) THEN "queued" ELSE "skipped"]
  BY DEF Order, Chosen
<1> HIDE DEF R
<1>3. /\ Chosen \in Seq(Projects) /\ Once(Chosen) /\ ToSet(Chosen) \subseteq selected
      /\ Sorted(command) => Respects(Towards(graph, command), selected, Chosen)
  BY ChosenFacts DEF Order
<1>4. plan' \in Seq(Projects) /\ ToSet(plan') = ToSet(Chosen) \cap R /\ PartOf(plan', Chosen)
  BY <1>1, <1>3, ThoseFacts
<1>5. Once(plan')
  BY <1>3, <1>4, PartFacts
<1>6. Sorted(command) => Respects(Towards(graph, command), selected, plan')
  BY <1>3, <1>4, RespectsPart
<1>7. ToSet(Chosen) \subseteq Projects
  BY <1>3 DEF TypeOK
<1> QED BY <1>2, <1>3, <1>4, <1>5, <1>6, <1>7 DEF R

LEMMA TypeInit == Init => TypeOK
<1> SUFFICES ASSUME Init PROVE TypeOK
  OBVIOUS
<1>1. <<>> \in Seq(Projects) /\ {} \in SUBSET Projects
  OBVIOUS
<1> QED BY <1>1 DEF Init, PoolInit, TypeOK, Places

LEMMA WorkerTyped ==
  ASSUME TypeOK, Apart, NEW w \in Workers, Worker(w)
  PROVE  TypeOK'
<1>1. UNCHANGED <<graph, command, main, selected, plan>>
  BY DEF Worker, inputs
<1>2. CASE CheckStop(w)
  BY <1>1, <1>2 DEF CheckStop, Move, TypeOK, Places
<1>3. CASE Pop(w)
  <2>1. CASE queue = <<>>
    BY <1>1, <1>3, <2>1 DEF Pop, Move, TypeOK, Places
  <2>2. CASE queue # <<>>
    <3>1. Head(queue) \in Projects /\ Tail(queue) \in Seq(Projects)
      BY <2>2, TailTyped DEF TypeOK
    <3> QED BY <1>1, <1>3, <2>2, <3>1 DEF Pop, Move, TypeOK, Places
  <2> QED BY <2>1, <2>2
<1>4. CASE ScriptEnds(w, ~Bails)
  BY <1>1, <1>4 DEF ScriptEnds, Move, TypeOK, Places
<1>5. CASE Push(w)
  <2>1. target[w] \in Projects
    BY <1>5 DEF Push, Apart, TypeOK
  <2>2. [target |-> target[w], ok |-> at[w] = "push"] \in [target : Projects, ok : BOOLEAN]
    BY <2>1
  <2>3. outcomes' \in SUBSET [target : Projects, ok : BOOLEAN]
    BY <1>5, <2>2 DEF Push, TypeOK
  <2>4. target' \in [Workers -> Projects \cup {NoTarget}]
    BY <1>5 DEF Push, TypeOK
  <2>5. at' \in [Workers -> Places]
    BY <1>5 DEF Push, Move, TypeOK, Places
  <2>6. UNCHANGED <<queue, should_stop, late>>
    BY <1>5 DEF Push
  <2> QED BY <1>1, <2>3, <2>4, <2>5, <2>6 DEF TypeOK
<1> QED BY <1>2, <1>3, <1>4, <1>5 DEF Worker, WorkerStep

LEMMA MainTyped ==
  ASSUME TypeOK, Main
  PROVE  TypeOK'
<1>1. graph' = graph /\ command' = command
  BY DEF Main, Select, NoMatch, NoResume, Order, NoScript, Begin, RunNext, SequenceDone,
         Join, Report, inputs
<1>2. CASE Select
  <2>1. selected' \in SUBSET Projects
    BY <1>2, SelectedTyped DEF Select, TypeOK
  <2> QED BY <1>1, <1>2, <2>1 DEF Select, TypeOK, poolVars
<1>3. CASE NoMatch \/ NoResume \/ NoScript \/ Report
  BY <1>1, <1>3 DEF NoMatch, NoResume, NoScript, Report, Return, TypeOK, poolVars
<1>4. CASE Order
  <2>1. plan' \in Seq(Projects)
    BY <1>4, OrderStep
  <2> QED BY <1>1, <1>4, <2>1 DEF Order, TypeOK, poolVars
<1>5. CASE Begin
  <2> DEFINE n == Concurrency(Len(plan))
  <2> HIDE DEF n
  <2>1. CASE n <= 1
    BY <1>1, <1>5, <2>1 DEF Begin, TypeOK, n
  <2>2. CASE ~(n <= 1)
    <3>1. /\ main' = "join" /\ queue' = plan
          /\ at' = [w \in Workers |-> IF w <= n THEN "check" ELSE "idle"]
          /\ UNCHANGED <<selected, plan, target, should_stop, outcomes, late>>
      BY <1>5, <2>2 DEF Begin, Spawn, n
    <3>2. at' \in [Workers -> Places]
      BY <3>1 DEF Places
    <3> QED BY <1>1, <3>1, <3>2 DEF TypeOK
  <2> QED BY <2>1, <2>2
<1>6. CASE RunNext
  <2>1. Head(queue) \in Projects /\ Tail(queue) \in Seq(Projects)
    BY <1>6, TailTyped DEF RunNext, TypeOK
  <2>2. PICK ok \in BOOLEAN : /\ outcomes' = outcomes \cup {[target |-> Head(queue), ok |-> ok]}
                             /\ main' \in {main, "report"}
    BY <1>6 DEF RunNext
  <2>3. [target |-> Head(queue), ok |-> ok] \in [target : Projects, ok : BOOLEAN]
    BY <2>1
  <2>4. outcomes' \in SUBSET [target : Projects, ok : BOOLEAN]
    BY <2>2, <2>3 DEF TypeOK
  <2>5. /\ main' \in {"sequence", "report"} /\ queue' = Tail(queue)
        /\ UNCHANGED <<selected, plan, at, target, should_stop, late>>
    BY <1>6, <2>2 DEF RunNext
  <2> QED BY <1>1, <2>1, <2>4, <2>5 DEF TypeOK
<1>7. CASE SequenceDone \/ Join
  BY <1>1, <1>7 DEF SequenceDone, Join, TypeOK, poolVars
<1> QED BY <1>2, <1>3, <1>4, <1>5, <1>6, <1>7 DEF Main

LEMMA TypeNext == TypeOK /\ Apart /\ [Next]_vars => TypeOK'
<1> SUFFICES ASSUME TypeOK, Apart, [Next]_vars PROVE TypeOK'
  OBVIOUS
<1>1. CASE UNCHANGED vars
  BY <1>1 DEF vars, inputs, TypeOK
<1> QED BY <1>1, MainTyped, WorkerTyped DEF Next
-----------------------------------------------------------------------------
(* The plan.                                                               *)
LEMMA EmptyPlan == ToSet(<<>>) = {} /\ Once(<<>>) /\ \A E, S : Respects(E, S, <<>>)
<1>1. Len(<<>>) = 0 /\ 1..0 = {} /\ DOMAIN <<>> = {}
  OBVIOUS
<1> QED BY <1>1 DEF ToSet, Once, Respects

LEMMA PlannedInit == Init => Planned
<1> SUFFICES ASSUME Init PROVE Planned
  OBVIOUS
<1>1. plan = <<>>
  BY DEF Init
<1> QED BY <1>1, EmptyPlan DEF Planned

LEMMA PlannedNext == TypeOK /\ Planned /\ [Next]_vars => Planned'
<1> SUFFICES ASSUME TypeOK, Planned, [Next]_vars PROVE Planned'
  OBVIOUS
<1>1. graph' = graph /\ command' = command
  BY InputsFixed DEF inputs
<1>2. CASE Select
  <2>1. plan' = <<>> /\ main' = "order"
    BY <1>2 DEF Select, Planned
  <2> QED BY <2>1, EmptyPlan DEF Planned
<1>3. CASE Order
  <2>1. /\ Once(plan') /\ ToSet(plan') \subseteq selected
        /\ Sorted(command) => Respects(Towards(graph, command), selected, plan')
    BY <1>3, OrderStep
  <2>2. main' = "begin" /\ selected' = selected
    BY <1>3 DEF Order
  <2> QED BY <1>1, <2>1, <2>2 DEF Planned
<1>4. CASE \/ NoMatch \/ NoResume \/ NoScript \/ Begin \/ RunNext \/ SequenceDone \/ Join
           \/ Report
  <2>1. /\ selected' = selected /\ plan' = plan
        /\ main' \notin {"start", "order"}
    BY <1>4 DEF NoMatch, NoResume, NoScript, Begin, RunNext, SequenceDone, Join, Report, Return
  <2> QED BY <1>1, <2>1 DEF Planned
<1>5. CASE UNCHANGED vars \/ \E w \in Workers : Worker(w)
  <2>1. UNCHANGED <<selected, plan, main>>
    BY <1>5 DEF vars, Worker
  <2> QED BY <1>1, <2>1 DEF Planned
<1> QED BY <1>2, <1>3, <1>4, <1>5 DEF Next, Main

(* Nothing has been started before the scripts begin.                      *)
LEMMA QuietInit == Init => Quiet
  BY DEF Init, PoolInit, Quiet

LEMMA QuietNext == TypeOK /\ Quiet /\ [Next]_vars => Quiet'
<1> SUFFICES ASSUME TypeOK, Quiet, [Next]_vars PROVE Quiet'
  OBVIOUS
<1>1. CASE Select \/ Order
  <2>1. ~Begun /\ UNCHANGED <<queue, outcomes, late, should_stop, at, target, result>>
    BY <1>1 DEF Select, Order, Begun, poolVars
  <2> QED BY <2>1 DEF Quiet, Unfinished, Outcome
<1>2. CASE \/ NoMatch \/ NoResume \/ NoScript \/ Begin \/ RunNext \/ SequenceDone \/ Join
           \/ Report
  <2>1. Begun'
    BY <1>2 DEF NoMatch, NoResume, NoScript, Begin, RunNext, SequenceDone, Join, Report,
                Return, Begun
  <2> QED BY <2>1 DEF Quiet
<1>3. CASE UNCHANGED vars
  BY <1>3 DEF vars, poolVars, Quiet, Begun, Unfinished, Outcome
<1>4. CASE \E w \in Workers : Worker(w)
  <2>1. PICK w \in Workers : Worker(w)
    BY <1>4
  <2>2. at[w] # "idle" /\ main' = main
    BY <2>1 DEF Worker, WorkerStep, CheckStop, Pop, ScriptEnds, Push
  <2>3. Begun
    BY <2>1, <2>2 DEF Quiet
  <2> QED BY <2>2, <2>3 DEF Quiet, Begun
<1> QED BY <1>1, <1>2, <1>3, <1>4 DEF Next, Main
-----------------------------------------------------------------------------
(* Targets and outcomes.                                                   *)
LEMMA NobodysTarget == NoTarget \notin Projects
  BY PoolAssumption, RunnerAssumption

LEMMA Fresh ==
  ASSUME TypeOK, Planned, Split, Begun, queue # <<>>
  PROVE  /\ Cut \in Nat /\ Cut + 1 \in 1..Len(plan) /\ Head(queue) = plan[Cut + 1]
         /\ Head(queue) \in Projects /\ Head(queue) \in ToSet(plan)
         /\ Head(queue) \notin Started
<1>1. /\ Len(queue) \in Nat \ {0} /\ Head(queue) = queue[1] /\ Head(queue) \in Projects
      /\ Len(plan) \in Nat
  BY TailTyped DEF TypeOK
<1>2. /\ Len(queue) <= Len(plan) /\ \A k \in 1..Len(queue) : queue[k] = plan[Cut + k]
      /\ Started = {plan[k] : k \in 1..Cut}
  BY DEF Split
<1>3. Cut \in Nat /\ Cut + 1 \in 1..Len(plan) /\ 1 \in 1..Len(queue)
  BY <1>1, <1>2 DEF Cut
<1>4. Head(queue) = plan[Cut + 1]
  BY <1>1, <1>2, <1>3
<1>5. Head(queue) \in ToSet(plan)
  BY <1>3, <1>4, ToSetIs DEF TypeOK
<1>6. ASSUME NEW k \in 1..Cut, plan[k] = plan[Cut + 1] PROVE FALSE
  <2>1. k \in 1..Len(plan) /\ k # Cut + 1
    BY <1>3
  <2> QED BY <1>3, <1>6, <2>1 DEF Planned, Once
<1> QED BY <1>1, <1>2, <1>3, <1>4, <1>5, <1>6

LEMMA WorkerBegun ==
  ASSUME Quiet, NEW w \in Workers, Worker(w), Stopping
  PROVE  Begun /\ main = "join"
<1>1. at[w] \notin {"idle", "exit"}
  BY DEF Worker, WorkerStep, CheckStop, Pop, ScriptEnds, Push
<1> QED BY <1>1 DEF Quiet, Stopping

(* What taking and recording a target make of the sets of targets.         *)
LEMMA PopStep ==
  ASSUME TypeOK, Apart, NEW w \in Workers, Pop(w), queue # <<>>
  PROVE  /\ target' = [target EXCEPT ![w] = Head(queue)]
         /\ Started' = Started \cup {Head(queue)}
         /\ Recorded' = Recorded /\ Failed' = Failed /\ Passed' = Passed
         /\ at' = [at EXCEPT ![w] = "run"] /\ queue' = Tail(queue)
         /\ Head(queue) \in Projects /\ Head(queue) # NoTarget
         /\ UNCHANGED <<outcomes, should_stop>>
         /\ late' = IF should_stop THEN late \cup {Head(queue)} ELSE late
<1>1. /\ target' = [target EXCEPT ![w] = Head(queue)] /\ target[w] = NoTarget
      /\ target \in [Workers -> Projects \cup {NoTarget}]
  BY DEF Pop, Apart, TypeOK
<1>2. Head(queue) \in Projects /\ Head(queue) # NoTarget
  BY TailTyped, NobodysTarget DEF TypeOK
<1>3. {target'[v] : v \in {u \in Workers : target'[u] # NoTarget}} =
        {target[v] : v \in {u \in Workers : target[u] # NoTarget}} \cup {Head(queue)}
  BY <1>1, <1>2
<1>4. Recorded' = Recorded /\ Failed' = Failed /\ Passed' = Passed
  BY DEF Pop, Recorded, Failed, Passed
<1> QED BY <1>1, <1>2, <1>3, <1>4 DEF Started, Pop, Move

LEMMA PushStep ==
  ASSUME TypeOK, Apart, NEW w \in Workers, Push(w)
  PROVE  /\ target[w] \in Projects /\ target' = [target EXCEPT ![w] = NoTarget]
         /\ outcomes' = outcomes \cup {[target |-> target[w], ok |-> at[w] = "push"]}
         /\ Recorded' = Recorded \cup {target[w]} /\ Started' = Started
         /\ Failed' = Failed \cup (IF at[w] = "push" THEN {} ELSE {target[w]})
         /\ at' = [at EXCEPT ![w] = "check"]
         /\ UNCHANGED <<queue, should_stop, late>>
<1>1. /\ target[w] \in Projects /\ target' = [target EXCEPT ![w] = NoTarget]
      /\ target \in [Workers -> Projects \cup {NoTarget}] /\ target[w] # NoTarget
  BY NobodysTarget DEF Push, Apart, TypeOK
<1> DEFINE new == [target |-> target[w], ok |-> at[w] = "push"]
<1>2. outcomes' = outcomes \cup {new} /\ new.target = target[w] /\ (new.ok <=> at[w] = "push")
  BY DEF Push
<1> HIDE DEF new
<1>3. Recorded' = Recorded \cup {target[w]}
  BY <1>2 DEF Recorded
<1>4. Failed' = Failed \cup (IF at[w] = "push" THEN {} ELSE {target[w]})
  BY <1>2 DEF Failed
<1> DEFINE Held == {target[v] : v \in {u \in Workers : target[u] # NoTarget}}
<1>5. {target'[v] : v \in {u \in Workers : target'[u] # NoTarget}} \cup {target[w]} = Held
  BY <1>1
<1>6. Started' = Started
  BY <1>3, <1>5 DEF Started
<1> QED BY <1>1, <1>2, <1>3, <1>4, <1>6 DEF Push, Move, new

LEMMA RunStep ==
  ASSUME TypeOK, RunNext
  PROVE  /\ queue # <<>> /\ Head(queue) \in Projects /\ main = "sequence"
         /\ \E ok \in BOOLEAN :
              /\ outcomes' = outcomes \cup {[target |-> Head(queue), ok |-> ok]}
              /\ Failed' = Failed \cup (IF ok THEN {} ELSE {Head(queue)})
              /\ Passed' = Passed \cup (IF ok THEN {Head(queue)} ELSE {})
              /\ summary' = Marked(summary, Head(queue), ok)
              /\ IF ok \/ ~Bails THEN UNCHANGED <<main, result>>
                 ELSE main' = "report" /\ result' = Outcome("error", Head(queue))
         /\ Recorded' = Recorded \cup {Head(queue)} /\ Started' = Started \cup {Head(queue)}
         /\ UNCHANGED <<at, target, should_stop, late, plan, selected, written>>
         /\ queue' = Tail(queue)
<1>1. PICK ok \in BOOLEAN :
        /\ outcomes' = outcomes \cup {[target |-> Head(queue), ok |-> ok]}
        /\ summary' = Marked(summary, Head(queue), ok)
        /\ IF ok \/ ~Bails THEN UNCHANGED <<main, result>>
           ELSE main' = "report" /\ result' = Outcome("error", Head(queue))
  BY DEF RunNext
<1>2. /\ queue # <<>> /\ main = "sequence" /\ queue' = Tail(queue)
      /\ UNCHANGED <<at, target, should_stop, late, plan, selected, written>>
  BY DEF RunNext
<1>3. Head(queue) \in Projects
  BY <1>2, TailTyped DEF TypeOK
<1> DEFINE new == [target |-> Head(queue), ok |-> ok]
<1>4. outcomes' = outcomes \cup {new} /\ new.target = Head(queue) /\ (new.ok <=> ok)
  BY <1>1
<1> HIDE DEF new
<1>5. /\ Failed' = Failed \cup (IF ok THEN {} ELSE {Head(queue)})
      /\ Passed' = Passed \cup (IF ok THEN {Head(queue)} ELSE {})
  BY <1>4 DEF Failed, Passed
<1>6. Recorded' = Recorded \cup {Head(queue)}
  BY <1>4 DEF Recorded
<1>7. Started' = Started \cup {Head(queue)}
  BY <1>2, <1>6 DEF Started
<1> QED BY <1>1, <1>2, <1>3, <1>5, <1>6, <1>7
LEMMA ApartInit == Init => Apart
<1> SUFFICES ASSUME Init PROVE Apart
  OBVIOUS
<1>1. /\ at = [w \in Workers |-> "idle"] /\ target = [w \in Workers |-> NoTarget]
      /\ outcomes = {}
  BY DEF Init, PoolInit
<1> QED BY <1>1 DEF Apart, Recorded

LEMMA RecordedTyped ==
  ASSUME TypeOK
  PROVE  Recorded \subseteq Projects /\ Failed \subseteq Recorded /\ Passed \subseteq Recorded
         /\ Recorded = Passed \cup Failed
<1>1. \A o \in outcomes : o.target \in Projects /\ o.ok \in BOOLEAN
  BY DEF TypeOK
<1> QED BY <1>1 DEF Recorded, Failed, Passed

LEMMA ApartStarts ==
  ASSUME TypeOK, Apart, NEW p \in Projects, NEW ok \in BOOLEAN, p \notin Recorded,
         \A w \in Workers : target[w] # p,
         outcomes' = outcomes \cup {[target |-> p, ok |-> ok]},
         UNCHANGED <<at, target>>
  PROVE  Apart'
<1> DEFINE new == [target |-> p, ok |-> ok]
<1>1. new.target = p /\ outcomes' = outcomes \cup {new}
  OBVIOUS
<1> HIDE DEF new
<1>2. Recorded' = Recorded \cup {p}
  BY <1>1 DEF Recorded
<1>3. \A o, x \in outcomes' : o.target = x.target => o = x
  <2>1. \A o \in outcomes : o.target # p
    BY DEF Recorded
  <2>2. \A o, x \in outcomes : o.target = x.target => o = x
    BY DEF Apart
  <2> QED BY <1>1, <2>1, <2>2
<1>4. \A w \in Workers : target[w] \notin Recorded'
  BY <1>2 DEF Apart
<1> QED BY <1>3, <1>4 DEF Apart

LEMMA ApartNext ==
  TypeOK /\ Planned /\ Quiet /\ Split /\ Apart /\ Stopping /\ [Next]_vars => Apart'
<1> SUFFICES ASSUME TypeOK, Planned, Quiet, Split, Apart, Stopping, [Next]_vars PROVE Apart'
  OBVIOUS
<1> USE DEF Places
<1>1. CASE UNCHANGED <<at, target, outcomes>>
  BY <1>1 DEF Apart, Recorded
<1>2. CASE Begin
  <2>1. CASE UNCHANGED at
    BY <1>2, <1>1, <2>1 DEF Begin, Spawn
  <2>2. CASE ~UNCHANGED at
    <3>1. /\ \A w \in Workers : at'[w] \in {"check", "idle"}
          /\ UNCHANGED <<target, outcomes>>
      BY <1>2, <2>2 DEF Begin, Spawn
    <3>2. outcomes = {} /\ \A w \in Workers : target[w] = NoTarget
      BY <1>2 DEF Begin, Quiet, Begun
    <3> QED BY <3>1, <3>2 DEF Apart, Recorded
  <2> QED BY <2>1, <2>2
<1>3. CASE RunNext
  <2>1. PICK ok \in BOOLEAN : outcomes' = outcomes \cup {[target |-> Head(queue), ok |-> ok]}
    BY <1>3, RunStep
  <2>2. /\ queue # <<>> /\ main = "sequence" /\ Head(queue) \in Projects
        /\ UNCHANGED <<at, target>>
    BY <1>3, RunStep
  <2>3. Head(queue) \notin Started
    BY <2>2, Fresh DEF Begun
  <2>4. Head(queue) \notin Recorded /\ \A w \in Workers : target[w] # Head(queue)
    BY <2>2, <2>3, NobodysTarget DEF Started
  <2> QED BY <2>1, <2>2, <2>4, ApartStarts
<1>4. ASSUME NEW w \in Workers, Worker(w) PROVE Apart'
  <2>1. Begun /\ main = "join"
    BY <1>4, WorkerBegun
  <2>2. CASE CheckStop(w)
    <3>1. /\ at[w] = "check" /\ UNCHANGED <<target, outcomes>>
          /\ at' = [at EXCEPT ![w] = at'[w]] /\ at'[w] \in {"exit", "pop"}
      BY <2>2 DEF CheckStop, Move, TypeOK
    <3>2. \A v \in Workers : at'[v] = at[v] \/ (v = w /\ at'[w] \in {"exit", "pop"})
      BY <3>1 DEF TypeOK
    <3>3. Recorded' = Recorded
      BY <3>1 DEF Recorded
    <3> QED BY <3>1, <3>2, <3>3 DEF Apart
  <2>3. CASE Pop(w) /\ queue = <<>>
    <3>1. /\ at[w] = "pop" /\ UNCHANGED <<target, outcomes>> /\ at' = [at EXCEPT ![w] = "exit"]
      BY <2>3 DEF Pop, Move
    <3>2. Recorded' = Recorded
      BY <3>1 DEF Recorded
    <3> QED BY <3>1, <3>2 DEF Apart, TypeOK
  <2>4. CASE Pop(w) /\ queue # <<>>
    <3>1. /\ target' = [target EXCEPT ![w] = Head(queue)]
          /\ at' = [at EXCEPT ![w] = "run"] /\ Recorded' = Recorded
          /\ Head(queue) # NoTarget /\ outcomes' = outcomes
      BY <2>4, PopStep
    <3>2. Head(queue) \notin Started
      BY <2>1, <2>4, Fresh
    <3>3. Head(queue) \notin Recorded /\ \A v \in Workers : target[v] # Head(queue)
      BY <3>1, <3>2 DEF Started
    <3> DEFINE h == Head(queue)
    <3> HIDE DEF h
    <3>4. \A v \in Workers : target'[v] = IF v = w THEN h ELSE target[v]
      BY <3>1 DEF TypeOK, h
    <3>5. \A v \in Workers : at'[v] = IF v = w THEN "run" ELSE at[v]
      BY <3>1 DEF TypeOK
    <3> QED BY <3>1, <3>3, <3>4, <3>5 DEF Apart, h
  <2>5. CASE ScriptEnds(w, ~Bails)
    <3>1. /\ at[w] = "run" /\ UNCHANGED <<target, outcomes>>
          /\ at'[w] \in {"push", "pushErr"}
          /\ \A v \in Workers : v # w => at'[v] = at[v]
      BY <2>5 DEF ScriptEnds, Move, TypeOK
    <3>2. Recorded' = Recorded
      BY <3>1 DEF Recorded
    <3> QED BY <3>1, <3>2 DEF Apart
  <2>6. CASE Push(w)
    <3> DEFINE t == target[w]
               ok == at[w] = "push"
    <3>1. /\ t \in Projects /\ target' = [target EXCEPT ![w] = NoTarget]
          /\ outcomes' = outcomes \cup {[target |-> t, ok |-> ok]}
          /\ Recorded' = Recorded \cup {t} /\ at' = [at EXCEPT ![w] = "check"]
      BY <2>6, PushStep
    <3>2. t \notin Recorded /\ t # NoTarget
      BY <3>1, NobodysTarget DEF Apart
    <3>3. \A v \in Workers : target'[v] = IF v = w THEN NoTarget ELSE target[v]
      BY <3>1 DEF TypeOK
    <3>4. \A v \in Workers : at'[v] = IF v = w THEN "check" ELSE at[v]
      BY <3>1 DEF TypeOK
    <3>5. \A v \in Workers : v # w => target[v] # t
      BY <3>2 DEF Apart
    <3>6. NoTarget \notin Recorded
      BY RecordedTyped, NobodysTarget
    <3> DEFINE new == [target |-> t, ok |-> ok]
    <3>7. new.target = t /\ outcomes' = outcomes \cup {new}
      BY <3>1
    <3> HIDE DEF t, ok, new
    <3>8. \A o, x \in outcomes' : o.target = x.target => o = x
      <4>1. \A o \in outcomes : o.target # t
        BY <3>2 DEF Recorded
      <4>2. \A o, x \in outcomes : o.target = x.target => o = x
        BY DEF Apart
      <4> QED BY <3>7, <4>1, <4>2
    <3>9. \A v \in Workers : target'[v] \notin Recorded'
      BY <3>1, <3>2, <3>3, <3>5, <3>6 DEF Apart
    <3> QED BY <3>3, <3>4, <3>8, <3>9 DEF Apart
  <2> QED BY <1>4, <2>2, <2>3, <2>4, <2>5, <2>6 DEF Worker, WorkerStep
<1>5. CASE UNCHANGED vars
  BY <1>1, <1>5 DEF vars
<1>6. CASE Select \/ NoMatch \/ NoResume \/ Order \/ NoScript \/ SequenceDone \/ Join \/ Report
  BY <1>1, <1>6 DEF Select, NoMatch, NoResume, Order, NoScript, SequenceDone, Join, Report,
                    poolVars
<1> QED BY <1>2, <1>3, <1>4, <1>5, <1>6 DEF Next, Main
-----------------------------------------------------------------------------
(* What has been started is a prefix of the plan.                          *)
LEMMA NothingStarted ==
  ASSUME Quiet, ~Begun
  PROVE  Started = {} /\ Recorded = {} /\ Failed = {} /\ Passed = {} /\ Popping = {}
  BY DEF Quiet, Started, Recorded, Failed, Passed, Popping

LEMMA SplitStarts ==
  ASSUME TypeOK, Planned, Split, Begun, queue # <<>>, Begun',
         queue' = Tail(queue), plan' = plan, Started' = Started \cup {Head(queue)}
  PROVE  Split'
<1>1. /\ Cut \in Nat /\ Cut + 1 \in 1..Len(plan) /\ Head(queue) = plan[Cut + 1]
  BY Fresh
<1>2. /\ Len(queue) \in Nat \ {0} /\ Len(queue') = Len(queue) - 1
      /\ \A k \in 1..Len(queue') : queue'[k] = queue[k + 1]
      /\ Len(plan) \in Nat
  BY TailTyped DEF TypeOK
<1>3. /\ Len(queue) <= Len(plan) /\ \A k \in 1..Len(queue) : queue[k] = plan[Cut + k]
      /\ Started = {plan[k] : k \in 1..Cut}
  BY DEF Split
<1>4. Cut' = Cut + 1
  BY <1>2 DEF Cut
<1>5. Started' = {plan[k] : k \in 1..(Cut + 1)}
  <2>1. 1..(Cut + 1) = 1..Cut \cup {Cut + 1}
    BY <1>1
  <2> QED BY <1>1, <1>3, <2>1
<1>6. \A k \in 1..Len(queue') : queue'[k] = plan[Cut' + k]
  <2> TAKE k \in 1..Len(queue')
  <2>1. k + 1 \in 1..Len(queue) /\ Cut' + k = Cut + (k + 1)
    BY <1>1, <1>2, <1>4
  <2> QED BY <1>2, <1>3, <2>1
<1>7. Len(queue') <= Len(plan') /\ plan' = plan
  BY <1>2, <1>3
<1> QED BY <1>4, <1>5, <1>6, <1>7 DEF Split

LEMMA SplitInit == Init => Split
  BY DEF Init, Split, Begun

LEMMA SplitNext ==
  TypeOK /\ Planned /\ Quiet /\ Split /\ Apart /\ Stopping /\ [Next]_vars => Split'
<1> SUFFICES ASSUME TypeOK, Planned, Quiet, Split, Apart, Stopping, [Next]_vars PROVE Split'
  OBVIOUS
<1>1. CASE UNCHANGED <<main, queue, plan, target, outcomes>>
  BY <1>1, OutcomeFrame DEF Split, Begun, Cut
<1>2. CASE Select \/ Order
  BY <1>2 DEF Select, Order, Split, Begun
<1>3. CASE NoMatch \/ NoResume \/ NoScript
  <2>1. ~Begun /\ UNCHANGED <<queue, plan, target, outcomes>> /\ plan = <<>>
    BY <1>3 DEF NoMatch, NoResume, NoScript, Begun, Planned, poolVars
  <2>2. queue = <<>> /\ Started = {}
    BY <2>1, NothingStarted DEF Quiet
  <2>3. Started' = {} /\ queue' = <<>> /\ plan' = <<>>
    BY <2>1, <2>2, OutcomeFrame
  <2>4. Len(queue') = 0 /\ Len(plan') = 0
    BY <2>3
  <2>5. Cut' = 0
    BY <2>4 DEF Cut
  <2> QED BY <2>3, <2>4, <2>5 DEF Split
<1>4. CASE Begin
  <2>1. ~Begun /\ queue' = plan /\ UNCHANGED <<plan, target, outcomes>>
    BY <1>4 DEF Begin, Spawn, Begun
  <2>2. Started' = {}
    BY <2>1, NothingStarted, OutcomeFrame
  <2>3. Len(plan) \in Nat
    BY DEF TypeOK
  <2>4. Cut' = 0
    BY <2>1, <2>3 DEF Cut
  <2>5. 1..0 = {} /\ \A k \in 1..Len(plan) : 0 + k = k
    BY <2>3
  <2> QED BY <2>1, <2>2, <2>3, <2>4, <2>5 DEF Split
<1>5. CASE RunNext
  <2>1. /\ queue # <<>> /\ main = "sequence" /\ queue' = Tail(queue) /\ plan' = plan
        /\ Started' = Started \cup {Head(queue)}
    BY <1>5, RunStep
  <2>2. Begun /\ Begun'
    BY <1>5, <2>1 DEF RunNext, Begun
  <2> QED BY <2>1, <2>2, SplitStarts
<1>6. CASE SequenceDone \/ Join \/ Report
  <2>1. Begun /\ UNCHANGED <<queue, plan, target, outcomes>>
    BY <1>6 DEF SequenceDone, Join, Report, Begun, poolVars
  <2> QED BY <2>1, OutcomeFrame DEF Split, Cut
<1>7. ASSUME NEW w \in Workers, Worker(w) PROVE Split'
  <2>1. Begun /\ UNCHANGED <<main, plan>>
    BY <1>7, WorkerBegun DEF Worker
  <2>2. Begun'
    BY <2>1 DEF Begun
  <2>3. CASE CheckStop(w) \/ ScriptEnds(w, ~Bails) \/ (Pop(w) /\ queue = <<>>)
    BY <1>1, <2>1, <2>3 DEF CheckStop, ScriptEnds, Pop
  <2>4. CASE Pop(w) /\ queue # <<>>
    <3>1. queue' = Tail(queue) /\ Started' = Started \cup {Head(queue)}
      BY <2>4, PopStep
    <3> QED BY <2>1, <2>2, <2>4, <3>1, SplitStarts
  <2>5. CASE Push(w)
    <3>1. Started' = Started /\ queue' = queue
      BY <2>5, PushStep
    <3> QED BY <2>1, <2>2, <3>1 DEF Split, Cut
  <2> QED BY <1>7, <2>3, <2>4, <2>5 DEF Worker, WorkerStep
<1>8. CASE UNCHANGED vars
  BY <1>1, <1>8 DEF vars
<1> QED BY <1>2, <1>3, <1>4, <1>5, <1>6, <1>7, <1>8 DEF Next, Main

-----------------------------------------------------------------------------
(* When the workers stop.                                                  *)
LEMMA StoppingInit == Init => Stopping
  BY DEF Init, PoolInit, Stopping

LEMMA StoppingNext ==
  TypeOK /\ Planned /\ Quiet /\ Split /\ Apart /\ Stopping /\ [Next]_vars => Stopping'
<1> SUFFICES ASSUME TypeOK, Planned, Quiet, Split, Apart, Stopping, [Next]_vars
             PROVE  Stopping'
  OBVIOUS
<1>0. Bails <=> Bails'
  BY InputsFixed, InputFrame
<1>1. CASE UNCHANGED <<main, queue, at, target, should_stop, outcomes>>
  <2>1. Failed' = Failed
    BY <1>1, OutcomeFrame
  <2> QED BY <1>0, <1>1, <2>1 DEF Stopping
<1>2. CASE Select \/ Order
  <2>1. /\ UNCHANGED <<queue, at, target, should_stop, outcomes>>
        /\ main # "join" /\ main' \in {"order", "begin"}
    BY <1>2 DEF Select, Order, poolVars
  <2>2. Failed' = Failed
    BY <2>1, OutcomeFrame
  <2> QED BY <1>0, <2>1, <2>2 DEF Stopping
<1>3. CASE NoMatch \/ NoResume \/ NoScript
  <2>1. /\ UNCHANGED <<queue, at, target, should_stop, outcomes>>
        /\ main # "join" /\ ~Begun /\ main' = "done"
    BY <1>3 DEF NoMatch, NoResume, NoScript, Return, Begun, poolVars
  <2>2. Failed' = Failed /\ queue = <<>>
    BY <2>1, OutcomeFrame DEF Quiet
  <2> QED BY <1>0, <2>1, <2>2 DEF Stopping
<1>4. CASE Begin
  <2>1. ~Begun /\ UNCHANGED <<target, should_stop, outcomes>>
    BY <1>4 DEF Begin, Spawn, Begun
  <2>2. Failed = {} /\ Failed' = {} /\ ~should_stop /\ ~should_stop'
    BY <2>1, NothingStarted, OutcomeFrame DEF Quiet
  <2>3. at = [w \in Workers |-> "idle"]
    BY <2>1 DEF Quiet
  <2> DEFINE n == Concurrency(Len(plan))
  <2>4. n \in Nat
    <3>1. Len(plan) \in Nat /\ command.limit \in Nat
      BY CommandTyped DEF TypeOK
    <3> QED BY <3>1 DEF Concurrency, Requested
  <2> HIDE DEF n
  <2>5. CASE n <= 1
    <3>1. main' = "sequence" /\ at' = at
      BY <1>4, <2>5 DEF Begin, n
    <3> QED BY <2>2, <2>3, <3>1 DEF Stopping
  <2>6. CASE ~(n <= 1)
    <3>1. main' = "join" /\ at' = [w \in Workers |-> IF w <= n THEN "check" ELSE "idle"]
      BY <1>4, <2>6 DEF Begin, Spawn, n
    <3>2. 1 \in Workers /\ 1 <= n
      BY <2>4, <2>6, PoolAssumption DEF Workers
    <3>3. at'[1] = "check"
      BY <3>1, <3>2
    <3>4. \A w \in Workers : at'[w] \in {"check", "idle"}
      BY <3>1
    <3> QED BY <2>2, <3>1, <3>3, <3>4 DEF Stopping
  <2> QED BY <2>5, <2>6
<1>5. CASE RunNext
  <2>1. PICK ok \in BOOLEAN :
          /\ Failed' = Failed \cup (IF ok THEN {} ELSE {Head(queue)})
          /\ IF ok \/ ~Bails THEN UNCHANGED <<main, result>>
             ELSE main' = "report" /\ result' = Outcome("error", Head(queue))
    BY <1>5, RunStep
  <2>2. /\ queue # <<>> /\ main = "sequence" /\ UNCHANGED <<at, should_stop>>
    BY <1>5, RunStep
  <2>3. /\ \A w \in Workers : at[w] \in {"idle", "exit"} /\ at[w] # "exit"
        /\ ~should_stop /\ (Bails => Failed = {})
    BY <2>2 DEF Stopping
  <2>4. CASE ok \/ ~Bails
    <3>1. main' = "sequence" /\ (Bails => Failed' = {})
      BY <2>1, <2>2, <2>3, <2>4
    <3> QED BY <1>0, <2>2, <2>3, <3>1 DEF Stopping
  <2>5. CASE ~(ok \/ ~Bails)
    <3>1. main' = "report" /\ Bails /\ Failed' # {}
      BY <2>1, <2>5
    <3> QED BY <1>0, <2>2, <2>3, <3>1 DEF Stopping
  <2> QED BY <2>4, <2>5
<1>6. CASE SequenceDone
  <2>1. /\ main = "sequence" /\ main' = "report" /\ queue = <<>>
        /\ UNCHANGED <<queue, at, target, should_stop, outcomes>>
    BY <1>6 DEF SequenceDone, poolVars
  <2> QED BY <2>1 DEF Stopping
<1>7. CASE Join
  <2>1. /\ main = "join" /\ main' = "report" /\ \A w \in Workers : at[w] \in {"idle", "exit"}
        /\ UNCHANGED <<queue, at, target, should_stop, outcomes>>
    BY <1>7 DEF Join, Joined, poolVars
  <2>2. Failed' = Failed
    BY <2>1, OutcomeFrame
  <2>3. 1 \in Workers
    BY PoolAssumption DEF Workers
  <2>4. at[1] = "exit"
    BY <2>1, <2>3 DEF Stopping
  <2>5. queue = <<>> \/ (Bails /\ Failed # {})
    <3>1. CASE should_stop
      <4>1. Bails /\ (Failed # {} \/ \E w \in Workers : at[w] = "pushErr")
        BY <3>1 DEF Stopping
      <4> QED BY <2>1, <4>1
    <3>2. CASE ~should_stop
      BY <2>3, <2>4, <3>2 DEF Stopping
    <3> QED BY <3>1, <3>2
  <2> QED BY <1>0, <2>1, <2>2, <2>5 DEF Stopping
<1>8. CASE Report
  <2>1. /\ main = "report" /\ main' = "done"
        /\ UNCHANGED <<queue, at, target, should_stop, outcomes>>
    BY <1>8 DEF Report, Return, poolVars
  <2>2. Failed' = Failed
    BY <2>1, OutcomeFrame
  <2> QED BY <1>0, <2>1, <2>2 DEF Stopping
<1>9. ASSUME NEW w \in Workers, Worker(w) PROVE Stopping'
  <2>1. main = "join" /\ main' = "join"
    BY <1>9, WorkerBegun DEF Worker
  <2>2. at \in [Workers -> Places] /\ at[w] # "idle" /\ 1 \in Workers /\ at[1] # "idle"
    BY <1>9, <2>1, PoolAssumption
       DEF TypeOK, Worker, WorkerStep, CheckStop, Pop, ScriptEnds, Push, Stopping, Workers
  <2> SUFFICES /\ \A v \in Workers : at[v] # "idle" => at'[v] # "idle"
               /\ \A v \in Workers : at'[v] = "exit" => should_stop' \/ queue' = <<>>
               /\ should_stop' => Bails /\ (Failed' # {} \/ \E v \in Workers : at'[v] = "pushErr")
    BY <1>0, <2>1, <2>2 DEF Stopping
  <2>3. /\ \A v \in Workers : at[v] = "exit" => should_stop \/ queue = <<>>
        /\ should_stop => Bails /\ (Failed # {} \/ \E v \in Workers : at[v] = "pushErr")
    BY DEF Stopping
  <2>4. CASE CheckStop(w)
    <3>1. /\ at[w] = "check" /\ UNCHANGED <<queue, target, should_stop, outcomes>>
          /\ \A v \in Workers : at'[v] = IF v = w THEN (IF should_stop THEN "exit" ELSE "pop")
                                         ELSE at[v]
      BY <2>2, <2>4 DEF CheckStop, Move
    <3>2. Failed' = Failed
      BY <3>1, OutcomeFrame
    <3> QED BY <2>3, <3>1, <3>2
  <2>5. CASE Pop(w) /\ queue = <<>>
    <3>1. /\ at[w] = "pop" /\ UNCHANGED <<queue, target, should_stop, outcomes>>
          /\ \A v \in Workers : at'[v] = IF v = w THEN "exit" ELSE at[v]
      BY <2>2, <2>5 DEF Pop, Move
    <3>2. Failed' = Failed
      BY <3>1, OutcomeFrame
    <3> QED BY <2>3, <2>5, <3>1, <3>2
  <2>6. CASE Pop(w) /\ queue # <<>>
    <3>1. /\ at[w] = "pop" /\ Failed' = Failed /\ should_stop' = should_stop
          /\ \A v \in Workers : at'[v] = IF v = w THEN "run" ELSE at[v]
      BY <2>2, <2>6, PopStep DEF Pop
    <3> QED BY <2>3, <2>6, <3>1
  <2>7. CASE ScriptEnds(w, ~Bails)
    <3>1. /\ at[w] = "run" /\ UNCHANGED <<queue, target, outcomes>>
          /\ \/ at' = [at EXCEPT ![w] = "push"] /\ should_stop' = should_stop
             \/ at' = [at EXCEPT ![w] = "pushErr"] /\ should_stop' = (should_stop \/ Bails)
      BY <2>7 DEF ScriptEnds, Move
    <3>2. Failed' = Failed
      BY <3>1, OutcomeFrame
    <3>3. CASE at' = [at EXCEPT ![w] = "push"] /\ should_stop' = should_stop
      BY <2>2, <2>3, <3>1, <3>2, <3>3
    <3>4. CASE at' = [at EXCEPT ![w] = "pushErr"] /\ should_stop' = (should_stop \/ Bails)
      <4>1. /\ \A v \in Workers : at'[v] = IF v = w THEN "pushErr" ELSE at[v]
            /\ queue' = queue
        BY <2>2, <3>1, <3>4
      <4>2. should_stop => should_stop'
        BY <3>4
      <4>3. should_stop' => Bails
        BY <2>3, <3>4
      <4> QED BY <2>3, <4>1, <4>2, <4>3
    <3> QED BY <3>1, <3>3, <3>4
  <2>8. CASE Push(w)
    <3>1. /\ at[w] \in {"push", "pushErr"} /\ UNCHANGED <<queue, should_stop>>
          /\ Failed' = Failed \cup (IF at[w] = "push" THEN {} ELSE {target[w]})
          /\ \A v \in Workers : at'[v] = IF v = w THEN "check" ELSE at[v]
      BY <2>2, <2>8, PushStep DEF Push
    <3> QED BY <2>3, <3>1
  <2> QED BY <1>9, <2>4, <2>5, <2>6, <2>7, <2>8 DEF Worker, WorkerStep
<1>10. CASE UNCHANGED vars
  BY <1>1, <1>10 DEF vars
<1> QED BY <1>2, <1>3, <1>4, <1>5, <1>6, <1>7, <1>8, <1>9, <1>10 DEF Next, Main
-----------------------------------------------------------------------------
(* How many workers take a target after a failure.                         *)
LEMMA WorkersFinite ==
  /\ IsFiniteSet(Workers) /\ \A S \in SUBSET Workers : IsFiniteSet(S) /\ Cardinality(S) \in Nat
  /\ \A S \in SUBSET Projects : IsFiniteSet(S) /\ Cardinality(S) \in Nat
<1>1. 1 \in Int /\ Threads \in Int
  BY PoolAssumption
<1>2. IsFiniteSet(Workers)
  BY <1>1, FS_Interval DEF Workers
<1> QED BY <1>2, ProjectsFinite, FS_Subset, FS_CardinalityType

LEMMA LaggingInit == Init => Lagging
  BY DEF Init, PoolInit, Lagging

LEMMA LaggingNext ==
  TypeOK /\ Quiet /\ Stopping /\ Lagging /\ [Next]_vars => Lagging'
<1> SUFFICES ASSUME TypeOK, Quiet, Stopping, Lagging, [Next]_vars PROVE Lagging'
  OBVIOUS
<1>1. CASE UNCHANGED <<at, should_stop, late>>
  BY <1>1 DEF Lagging, Popping, Awake
<1>2. CASE Begin
  <2>1. ~should_stop /\ late = {}
    BY <1>2 DEF Begin, Quiet, Begun
  <2>2. UNCHANGED <<should_stop, late>>
    BY <1>2 DEF Begin, Spawn
  <2> QED BY <2>1, <2>2 DEF Lagging
<1>3. CASE RunNext
  BY <1>1, <1>3 DEF RunNext
<1>4. ASSUME NEW w \in Workers, Worker(w) PROVE Lagging'
  <2>1. at \in [Workers -> Places] /\ should_stop \in BOOLEAN /\ should_stop' \in BOOLEAN
    BY <1>4 DEF TypeOK, Worker, WorkerStep, CheckStop, Pop, ScriptEnds, Push
  <2>2. /\ at[w] # "idle" /\ at'[w] # "idle" /\ \A v \in Workers : v # w => at'[v] = at[v]
    BY <1>4, <2>1 DEF Worker, WorkerStep, CheckStop, Pop, ScriptEnds, Push, Move
  <2>3. Awake' = Awake
    BY <2>2 DEF Awake
  <2>4. /\ Popping \in SUBSET Workers /\ Popping' \in SUBSET Workers
        /\ Awake \in SUBSET Workers
    BY DEF Popping, Awake
  <2>5. /\ Cardinality(Popping) \in Nat /\ Cardinality(Popping') \in Nat
        /\ Cardinality(Awake) \in Nat /\ Cardinality(late) \in Nat
        /\ IsFiniteSet(Popping) /\ IsFiniteSet(Awake) /\ IsFiniteSet(late)
    BY <2>4, WorkersFinite DEF TypeOK
  <2>6. CASE ~should_stop'
    <3>1. ~should_stop
      BY <1>4, <2>6 DEF Worker, WorkerStep, CheckStop, Pop, ScriptEnds, Push
    <3>2. late' = late
      BY <1>4, <3>1 DEF Worker, WorkerStep, CheckStop, Pop, ScriptEnds, Push
    <3> QED BY <2>6, <3>1, <3>2 DEF Lagging
  <2>7. CASE should_stop' /\ ~should_stop
    <3>1. ScriptEnds(w, ~Bails) /\ at[w] = "run"
      BY <1>4, <2>7 DEF Worker, WorkerStep, CheckStop, Pop, ScriptEnds, Push
    <3>2. late' = {} /\ w \notin Popping' /\ w \in Awake
      BY <2>1, <2>2, <2>7, <3>1 DEF ScriptEnds, Move, Lagging, Popping, Awake
    <3>3. Popping' \subseteq Awake /\ Popping' # Awake
      BY <2>3, <3>2 DEF Popping, Awake
    <3>4. Cardinality(Popping') < Cardinality(Awake)
      BY <2>5, <3>3, FS_Subset
    <3>5. Cardinality(late') = 0
      BY <3>2, FS_EmptySet
    <3>6. Cardinality(late') + Cardinality(Popping') < Cardinality(Awake')
      BY <2>3, <2>5, <3>4, <3>5
    <3> QED BY <2>7, <3>6 DEF Lagging
  <2>8. CASE should_stop' /\ should_stop
    <3>1. Cardinality(late) + Cardinality(Popping) < Cardinality(Awake)
      BY <2>8 DEF Lagging
    <3> SUFFICES Cardinality(late') + Cardinality(Popping')
                   <= Cardinality(late) + Cardinality(Popping)
      <4>1. Cardinality(late') \in Nat
        <5>1. late' \in SUBSET Projects
          BY <1>4, TailTyped
             DEF TypeOK, Worker, WorkerStep, CheckStop, Pop, ScriptEnds, Push
        <5> QED BY <5>1, WorkersFinite
      <4> QED BY <2>3, <2>5, <2>8, <3>1, <4>1 DEF Lagging
    <3>2. CASE late' = late
      <4>1. Popping' \subseteq Popping
        BY <1>4, <2>1, <2>2, <2>8
           DEF Worker, WorkerStep, CheckStop, Pop, ScriptEnds, Push, Move, Popping
      <4>2. Cardinality(Popping') <= Cardinality(Popping)
        BY <2>5, <4>1, FS_Subset
      <4> QED BY <2>5, <3>2, <4>2
    <3>3. CASE late' # late
      <4>1. Pop(w) /\ queue # <<>> /\ late' = late \cup {Head(queue)} /\ at'[w] = "run"
        BY <1>4, <2>1, <2>8, <3>3
           DEF Worker, WorkerStep, CheckStop, Pop, ScriptEnds, Push, Move
      <4>2. Popping' = Popping \ {w} /\ w \in Popping
        BY <2>2, <4>1 DEF Pop, Popping
      <4>3. Cardinality(Popping') = Cardinality(Popping) - 1
        BY <2>5, <4>2, FS_RemoveElement
      <4>4. Head(queue) \notin late
        BY <3>3, <4>1
      <4>5. Cardinality(late') = Cardinality(late) + 1
        BY <2>5, <4>1, <4>4, FS_AddElement
      <4> QED BY <2>5, <4>3, <4>5
    <3> QED BY <3>2, <3>3
  <2> QED BY <2>1, <2>6, <2>7, <2>8
<1>5. CASE UNCHANGED vars
  BY <1>1, <1>5 DEF vars
<1>6. CASE Select \/ NoMatch \/ NoResume \/ Order \/ NoScript \/ SequenceDone \/ Join \/ Report
  BY <1>1, <1>6 DEF Select, NoMatch, NoResume, Order, NoScript, SequenceDone, Join, Report,
                    poolVars
<1> QED BY <1>2, <1>3, <1>4, <1>5, <1>6 DEF Next, Main
-----------------------------------------------------------------------------
(* The summary.                                                            *)
LEMMA ToldInit == Init => Told
<1> SUFFICES ASSUME Init PROVE Told
  OBVIOUS
<1>1. /\ plan = <<>> /\ main = "start" /\ DOMAIN summary = {} /\ selected = {}
  BY DEF Init
<1> QED BY <1>1, EmptyPlan DEF Told

LEMMA StartedInPlan ==
  ASSUME TypeOK, Split, Begun
  PROVE  Started \subseteq ToSet(plan) /\ Recorded \subseteq ToSet(plan)
<1>1. Started = {plan[k] : k \in 1..Cut} /\ Len(queue) \in Nat /\ Len(plan) \in Nat
  BY DEF Split, TypeOK
<1>2. \A k \in 1..Cut : k \in 1..Len(plan)
  BY <1>1 DEF Cut
<1>3. Started \subseteq ToSet(plan)
  BY <1>1, <1>2, ToSetIs DEF TypeOK
<1> QED BY <1>3 DEF Started

(* A target succeeds or fails. *)
LEMMA OneOutcome ==
  ASSUME TypeOK, Apart
  PROVE  Passed \cap Failed = {}
  BY DEF Apart, TypeOK, Passed, Failed

LEMMA ToldNext ==
  /\ TypeOK /\ Planned /\ Quiet /\ Split /\ Apart /\ Stopping /\ Told
  /\ [Next]_vars
  => Told'
<1> SUFFICES ASSUME TypeOK, Planned, Quiet, Split, Apart, Stopping, Told, [Next]_vars
             PROVE  Told'
  OBVIOUS
<1>0. \A p : Runs(p) <=> (Runs(p))'
  BY InputsFixed, InputFrame
<1>1. /\ \A p \in DOMAIN summary : summary[p] = "skipped" <=> ~Runs(p)
      /\ ToSet(plan) \subseteq DOMAIN summary
      /\ \A p \in ToSet(plan) : Runs(p)
  BY DEF Told
<1>2. CASE UNCHANGED <<main, result, outcomes, target, plan, summary, written, selected>>
  BY <1>0, <1>2, OutcomeFrame DEF Told
<1>3. CASE Select \/ SequenceDone
  <2>1. /\ main # "join" /\ main' \notin {"join", "done"}
        /\ UNCHANGED <<outcomes, target, plan, summary>>
    BY <1>3 DEF Select, SequenceDone, poolVars
  <2>2. \A p \in DOMAIN summary :
          (summary[p] = "passed" <=> p \in Passed) /\ (summary[p] = "failure" <=> p \in Failed)
    BY <2>1 DEF Told
  <2>3. Passed' = Passed /\ Failed' = Failed
    BY <2>1, OutcomeFrame
  <2> QED BY <1>0, <1>1, <2>1, <2>2, <2>3 DEF Told
<1>4. CASE NoMatch \/ NoResume \/ NoScript \/ Report
  <2>1. /\ main # "join" /\ main' = "done"
        /\ UNCHANGED <<outcomes, target, plan, summary, selected>>
    BY <1>4 DEF NoMatch, NoResume, NoScript, Report, Return, poolVars
  <2>2. \A p \in DOMAIN summary :
          (summary[p] = "passed" <=> p \in Passed) /\ (summary[p] = "failure" <=> p \in Failed)
    BY <2>1 DEF Told
  <2>3. Passed' = Passed /\ Failed' = Failed
    BY <2>1, OutcomeFrame
  <2>4. result'.kind \notin {"noMatch", "noResume"} /\ selected' # {} => written' = summary'
    <3>1. CASE NoMatch
      BY <3>1 DEF NoMatch
    <3>2. CASE NoResume
      BY <3>2 DEF NoResume, Return, Outcome
    <3>3. CASE NoScript \/ Report
      BY <3>3 DEF NoScript, Report
    <3> QED BY <1>4, <3>1, <3>2, <3>3
  <2> QED BY <1>0, <1>1, <2>1, <2>2, <2>3, <2>4 DEF Told
<1>5. CASE Order
  <2>1. /\ ToSet(plan') = ToSet(Chosen) \cap {p \in Projects : Runs(p)}
        /\ summary' = [p \in ToSet(Chosen) |-> IF Runs(p) THEN "queued" ELSE "skipped"]
    BY <1>5, OrderStep
  <2>2. main' = "begin" /\ ~Begun /\ UNCHANGED <<outcomes, target>>
    BY <1>5 DEF Order, Begun, poolVars
  <2>3. Passed' = {} /\ Failed' = {}
    BY <2>2, NothingStarted, OutcomeFrame
  <2> QED BY <1>0, <2>1, <2>2, <2>3 DEF Told
<1>6. CASE Begin
  <2>1. /\ main = "begin" /\ main' \in {"sequence", "join"} /\ plan' = plan
        /\ UNCHANGED <<outcomes, target>> /\ ~Begun
    BY <1>6 DEF Begin, Spawn, Begun
  <2>2. Passed = {} /\ Failed = {} /\ Passed' = {} /\ Failed' = {}
    BY <2>1, NothingStarted, OutcomeFrame
  <2>3. CASE main' = "sequence"
    <3>1. summary' = summary
      BY <1>6, <2>3 DEF Begin
    <3>2. \A p \in DOMAIN summary : summary[p] \notin {"passed", "failure"}
      BY <2>1, <2>2 DEF Told
    <3> QED BY <1>0, <1>1, <2>1, <2>2, <2>3, <3>1, <3>2 DEF Told
  <2>4. CASE main' = "join"
    <3>1. summary' = [p \in DOMAIN summary |-> IF Runs(p) THEN "running" ELSE "skipped"]
      BY <1>6, <2>4 DEF Begin
    <3> QED BY <1>0, <1>1, <2>1, <2>4, <3>1 DEF Told
  <2> QED BY <2>1, <2>3, <2>4
<1>7. CASE RunNext
  <2> DEFINE h == Head(queue)
  <2>1. PICK ok \in BOOLEAN :
          /\ Failed' = Failed \cup (IF ok THEN {} ELSE {h})
          /\ Passed' = Passed \cup (IF ok THEN {h} ELSE {})
          /\ summary' = Marked(summary, h, ok)
          /\ main' \in {"sequence", "report"}
    BY <1>7, RunStep
  <2>2. queue # <<>> /\ main = "sequence" /\ plan' = plan
    BY <1>7, RunStep
  <2>3. h \in ToSet(plan) /\ h \notin Started
    BY <2>2, Fresh DEF Begun
  <2>4. h \notin Passed /\ h \notin Failed
    BY <2>3, RecordedTyped DEF Started
  <2>5. h \in DOMAIN summary /\ Runs(h)
    BY <1>1, <2>3
  <2> HIDE DEF h
  <2>6. summary' = [summary EXCEPT ![h] = IF ok THEN "passed" ELSE "failure"]
    BY <2>1 DEF Marked
  <2>7. \A p \in DOMAIN summary :
          (summary[p] = "passed" <=> p \in Passed) /\ (summary[p] = "failure" <=> p \in Failed)
    BY <2>2 DEF Told
  <2>8. DOMAIN summary' = DOMAIN summary
    BY <2>6
  <2>9. \A p \in DOMAIN summary :
          summary'[p] = IF p = h THEN (IF ok THEN "passed" ELSE "failure") ELSE summary[p]
    BY <2>6
  <2>10. \A p \in DOMAIN summary' : summary'[p] = "skipped" <=> ~Runs(p)
    BY <1>1, <2>5, <2>8, <2>9
  <2>11. \A p \in DOMAIN summary' : (summary'[p] = "passed" <=> p \in Passed')
                                    /\ (summary'[p] = "failure" <=> p \in Failed')
    BY <2>1, <2>4, <2>7, <2>8, <2>9
  <2> QED BY <1>0, <1>1, <2>1, <2>2, <2>8, <2>10, <2>11 DEF Told
<1>8. CASE Join
  <2>1. /\ main = "join" /\ main' = "report" /\ UNCHANGED <<outcomes, target, plan>>
        /\ summary' = [p \in DOMAIN summary |->
                         IF p \in Failed THEN "failure"
                         ELSE IF p \in Passed THEN "passed" ELSE summary[p]]
    BY <1>8 DEF Join, poolVars
  <2>2. Passed' = Passed /\ Failed' = Failed
    BY <2>1, OutcomeFrame
  <2>3. \A p \in DOMAIN summary : summary[p] \in {"running", "skipped"}
    BY <2>1 DEF Told
  <2>4. Passed \cap Failed = {} /\ Passed \cup Failed \subseteq ToSet(plan)
    <3>1. Begun
      BY <2>1 DEF Begun
    <3> QED BY <3>1, OneOutcome, RecordedTyped, StartedInPlan
  <2>5. \A p \in DOMAIN summary' : summary'[p] = "skipped" <=> ~Runs(p)
    BY <1>1, <2>1, <2>4
  <2>6. \A p \in DOMAIN summary' : (summary'[p] = "passed" <=> p \in Passed)
                                   /\ (summary'[p] = "failure" <=> p \in Failed)
    BY <2>1, <2>3, <2>4
  <2> QED BY <1>0, <1>1, <2>1, <2>2, <2>5, <2>6 DEF Told
<1>9. ASSUME NEW w \in Workers, Worker(w) PROVE Told'
  <2>1. main = "join" /\ UNCHANGED <<main, plan, summary>>
    BY <1>9, WorkerBegun DEF Worker
  <2>2. \A p \in DOMAIN summary : summary[p] \in {"running", "skipped"}
    BY <2>1 DEF Told
  <2> QED BY <1>0, <1>1, <2>1, <2>2 DEF Told
<1>10. CASE UNCHANGED vars
  BY <1>2, <1>10 DEF vars
<1> QED BY <1>3, <1>4, <1>5, <1>6, <1>7, <1>8, <1>9, <1>10 DEF Next, Main
-----------------------------------------------------------------------------
(* The result.                                                             *)
LEMMA FirstOfThose ==
  ASSUME NEW A, NEW s \in Seq(A), Once(s), NEW F, F # {}, F \subseteq ToSet(s)
  PROVE  /\ Those(s, F)[1] \in F
         /\ \A i, j \in 1..Len(s) : s[i] \in F /\ s[j] = Those(s, F)[1] => j <= i
<1> DEFINE t == Those(s, F)
<1>1. t \in Seq(A) /\ ToSet(t) = ToSet(s) \cap F /\ PartOf(t, s)
  BY ThoseFacts
<1> HIDE DEF t
<1>2. ToSet(t) = F
  BY <1>1
<1>3. /\ 1 \in 1..Len(t) /\ Len(t) \in Nat /\ t[1] \in F
      /\ \A x \in F : \E i \in 1..Len(t) : t[i] = x
  <2>1. /\ Len(t) \in Nat /\ \A x : x \in F <=> \E i \in 1..Len(t) : t[i] = x
    BY <1>1, <1>2, ToSetIs
  <2>2. PICK i \in 1..Len(t) : TRUE
    BY <2>1
  <2>3. 1 \in 1..Len(t)
    BY <2>1, <2>2
  <2> QED BY <2>1, <2>3
<1>4. PICK m : PlacedBy(t, s, Len(s), m)
  BY <1>1 DEF PartOf
<1>5. /\ m \in [1..Len(t) -> 1..Len(s)] /\ \A i \in 1..Len(t) : t[i] = s[m[i]]
      /\ \A i, j \in 1..Len(t) : i < j => m[i] < m[j]
  BY <1>4 DEF PlacedBy
<1>6. ASSUME NEW i \in 1..Len(s), NEW j \in 1..Len(s), s[i] \in F, s[j] = t[1]
      PROVE  j <= i
  <2>1. PICK k \in 1..Len(t) : t[k] = s[i]
    BY <1>3, <1>6
  <2>2. m[k] \in 1..Len(s) /\ m[1] \in 1..Len(s) /\ s[m[k]] = s[i] /\ s[m[1]] = s[j]
    BY <1>3, <1>5, <1>6, <2>1
  <2>3. m[k] = i /\ m[1] = j
    BY <2>2 DEF Once
  <2>4. k = 1 \/ 1 < k
    BY <1>3, <2>1
  <2>5. m[1] <= m[k]
    BY <1>3, <1>5, <2>2, <2>4
  <2> QED BY <2>3, <2>5
<1> QED BY <1>3, <1>6 DEF t

LEMMA ResultingInit == Init => Resulting
<1> SUFFICES ASSUME Init PROVE Resulting
  OBVIOUS
<1>1. main = "start" /\ result = Unfinished
  BY DEF Init
<1> QED BY <1>1 DEF Resulting

LEMMA ResultingNext ==
  /\ TypeOK /\ Planned /\ Quiet /\ Split /\ Apart /\ Stopping /\ Resulting
  /\ [Next]_vars
  => Resulting'
<1> SUFFICES ASSUME TypeOK, Planned, Quiet, Split, Apart, Stopping, Resulting, [Next]_vars
             PROVE  Resulting'
  OBVIOUS
<1>0. Bails <=> Bails'
  BY InputsFixed, InputFrame
<1>1. Unfinished' = Unfinished /\ Unfinished.kind = "none"
  BY DEF Unfinished, Outcome
<1>2. CASE UNCHANGED <<main, result, outcomes, target, plan>>
  <2>1. Failed' = Failed
    BY <1>2, OutcomeFrame
  <2> QED BY <1>0, <1>1, <1>2, <2>1 DEF Resulting, FirstFailure
<1>3. CASE Select \/ Order \/ Begin
  <2>1. /\ main \in {"start", "order", "begin"} /\ result' = result
        /\ main' \in {"order", "begin", "sequence", "join"}
    BY <1>3 DEF Select, Order, Begin
  <2> QED BY <1>1, <2>1 DEF Resulting
<1>4. CASE NoMatch \/ NoResume \/ NoScript
  <2>1. main' = "done" /\ plan' = <<>>
    BY <1>4 DEF NoMatch, NoResume, NoScript, Return, Planned
  <2> QED BY <2>1 DEF Resulting
<1>5. CASE RunNext
  <2> DEFINE h == Head(queue)
  <2>1. PICK ok \in BOOLEAN :
          /\ Failed' = Failed \cup (IF ok THEN {} ELSE {h})
          /\ IF ok \/ ~Bails THEN UNCHANGED <<main, result>>
             ELSE main' = "report" /\ result' = Outcome("error", h)
    BY <1>5, RunStep
  <2>2. queue # <<>> /\ main = "sequence" /\ plan' = plan
    BY <1>5, RunStep
  <2>3. result = Unfinished
    BY <2>2 DEF Resulting
  <2>4. CASE ok \/ ~Bails
    <3>1. main' = "sequence" /\ result' = Unfinished
      BY <2>1, <2>2, <2>3, <2>4
    <3> QED BY <1>1, <3>1 DEF Resulting
  <2>5. CASE ~(ok \/ ~Bails)
    <3>1. main' = "report" /\ result' = Outcome("error", h) /\ Bails
      BY <2>1, <2>5
    <3>2. Failed = {}
      BY <2>2, <3>1 DEF Stopping
    <3>3. Failed' = {h}
      BY <2>1, <2>5, <3>2
    <3>4. Once(plan) /\ \A i \in 1..Len(plan) : i \in Nat
      BY DEF Planned
    <3>5. result'.kind = "error" /\ result'.project = h
      <4> HIDE DEF h
      <4> QED BY <3>1 DEF Outcome
    <3>6. FirstFailure(result.project)'
      <4> HIDE DEF h
      <4>1. \A i, j \in 1..Len(plan) : plan[i] \in {h} /\ plan[j] = h => j <= i
        BY <3>4 DEF Once
      <4> QED BY <2>2, <3>3, <3>5, <4>1 DEF FirstFailure
    <3> QED BY <1>0, <3>1, <3>5, <3>6 DEF Resulting
  <2> QED BY <2>4, <2>5
<1>6. CASE SequenceDone
  <2>1. /\ main = "sequence" /\ main' = "report" /\ UNCHANGED <<result, outcomes, target>>
    BY <1>6 DEF SequenceDone, poolVars
  <2>2. result = Unfinished /\ (Bails => Failed = {}) /\ Failed' = Failed
    BY <2>1, OutcomeFrame DEF Resulting, Stopping
  <2> QED BY <1>0, <1>1, <2>1, <2>2 DEF Resulting
<1>7. CASE Join
  <2> DEFINE first == Those(plan, Failed)[1]
  <2>1. /\ main = "join" /\ main' = "report" /\ UNCHANGED <<outcomes, target, plan>>
        /\ result' = IF Bails /\ Failed # {} THEN Outcome("error", first) ELSE result
    BY <1>7 DEF Join, poolVars
  <2>2. result = Unfinished /\ Failed' = Failed
    BY <2>1, OutcomeFrame DEF Resulting
  <2>3. Failed \subseteq ToSet(plan) /\ plan \in Seq(Projects) /\ Once(plan)
    <3>1. Begun
      BY <2>1 DEF Begun
    <3> QED BY <3>1, StartedInPlan, RecordedTyped DEF TypeOK, Planned
  <2>4. CASE Bails /\ Failed # {}
    <3>1. /\ first \in Failed
          /\ \A i, j \in 1..Len(plan) : plan[i] \in Failed /\ plan[j] = first => j <= i
      BY <2>3, <2>4, FirstOfThose
    <3> HIDE DEF first
    <3>2. result'.kind = "error" /\ result'.project = first
      BY <2>1, <2>4 DEF Outcome
    <3>3. FirstFailure(result.project)'
      BY <2>1, <2>2, <3>1, <3>2 DEF FirstFailure
    <3> QED BY <1>0, <2>1, <2>4, <3>2, <3>3 DEF Resulting
  <2>5. CASE ~(Bails /\ Failed # {})
    BY <1>0, <1>1, <2>1, <2>2, <2>5 DEF Resulting
  <2> QED BY <2>4, <2>5
<1>8. CASE Report
  <2>1. /\ main = "report" /\ main' = "done" /\ UNCHANGED <<outcomes, target, plan>>
        /\ result' = IF result = Unfinished THEN Outcome("ok", NoProject) ELSE result
    BY <1>8 DEF Report, Return, poolVars
  <2>2. Failed' = Failed
    BY <2>1, OutcomeFrame
  <2>3. CASE result = Unfinished /\ ~(Bails /\ Failed # {})
    <3>1. result'.kind = "ok"
      BY <2>1, <2>3 DEF Outcome
    <3> QED BY <1>0, <2>1, <2>2, <2>3, <3>1 DEF Resulting
  <2>4. CASE result.kind = "error" /\ Bails /\ FirstFailure(result.project)
    <3>1. result' = result /\ Failed # {}
      BY <1>1, <2>1, <2>4 DEF FirstFailure
    <3>2. FirstFailure(result.project)'
      BY <2>1, <2>2, <2>4, <3>1 DEF FirstFailure
    <3> QED BY <1>0, <2>1, <2>2, <2>4, <3>1, <3>2 DEF Resulting
  <2> QED BY <2>1, <2>3, <2>4 DEF Resulting
<1>9. ASSUME NEW w \in Workers, Worker(w) PROVE Resulting'
  <2>1. main = "join" /\ UNCHANGED <<main, result>>
    BY <1>9, WorkerBegun DEF Worker
  <2> QED BY <1>1, <2>1 DEF Resulting
<1>10. CASE UNCHANGED vars
  BY <1>2, <1>10 DEF vars
<1> QED BY <1>3, <1>4, <1>5, <1>6, <1>7, <1>8, <1>9, <1>10 DEF Next, Main

-----------------------------------------------------------------------------
(* The invariant: where the main thread and the workers stand, which part  *)
(* of the plan has been started, by whom, with what outcome, and what the  *)
(* summary and the result say of it.                                       *)
THEOREM Invariance == Spec => []IInv
<1>1. Init => IInv
  BY TypeInit, PlannedInit, QuietInit, SplitInit, ApartInit, StoppingInit, LaggingInit,
     ToldInit, ResultingInit DEF IInv
<1>2. IInv /\ [Next]_vars => IInv'
  BY TypeNext, PlannedNext, QuietNext, SplitNext, ApartNext, StoppingNext, LaggingNext,
     ToldNext, ResultingNext DEF IInv
<1> QED BY <1>1, <1>2, PTL DEF Spec

(* Filters select exactly what they say, whatever the workspace: chains of *)
(* dependencies of any length, cycles, shared dependencies, and exclusions *)
(* that win over every inclusion.                                          *)
THEOREM FiltersExactHolds == Spec => []FiltersExact
<1>1. IInv => FiltersExact
  <2> SUFFICES ASSUME TypeOK PROVE FiltersExact
    BY DEF IInv
  <2>1. graph \in Graphs /\ command.filters \in SUBSET Selectors
    BY CommandTyped DEF TypeOK
  <2> QED BY <2>1, FilterFacts DEF FiltersExact
<1> QED BY <1>1, Invariance, PTL

(* With any number of threads, a sorted script starts only after those of  *)
(* the selected projects that its project depends on, or before them with  *)
(* --reverse; cycles are the only exception.                               *)
THEOREM DependenciesFirstHolds == Spec => []DependenciesFirst
<1>1. IInv => DependenciesFirst
  <2> SUFFICES ASSUME TypeOK, Planned, Quiet, Split, Sorted(command),
                      NEW p \in Started, NEW d \in ToSet(plan) \ Started,
                      d \in Towards(graph, command)[p]
               PROVE  Path(Towards(graph, command), selected, d, p)
    BY DEF IInv, DependenciesFirst, Towards
  <2>1. Begun
    BY NothingStarted
  <2>2. /\ Started = {plan[k] : k \in 1..Cut} /\ Len(plan) \in Nat /\ Len(queue) \in Nat
        /\ Len(queue) <= Len(plan)
    BY <2>1 DEF Split, TypeOK
  <2>3. PICK i \in 1..Cut : plan[i] = p
    BY <2>2
  <2>4. PICK j \in 1..Len(plan) : plan[j] = d
    BY ToSetIs DEF TypeOK
  <2>5. i \in 1..Len(plan) /\ i < j
    BY <2>2, <2>3, <2>4 DEF Cut
  <2>6. Respects(Towards(graph, command), selected, plan)
    BY DEF Planned
  <2> QED BY <2>3, <2>4, <2>5, <2>6 DEF Respects
<1> QED BY <1>1, Invariance, PTL

(* Whatever the threads do, no script is run twice or passed over, all of  *)
(* the plan is run unless a failure stops it, and after a failure every    *)
(* other thread takes one more target at most.                             *)
THEOREM NothingSkippedHolds == Spec => []NothingSkipped
<1>1. ASSUME IInv PROVE NothingSkipped
  <2>1. TypeOK /\ Quiet /\ Split /\ Apart /\ Stopping /\ Lagging
    BY <1>1 DEF IInv
  <2>2. Len(plan) \in Nat /\ Len(queue) \in Nat
    BY <2>1 DEF TypeOK
  <2>3. \E n \in 0..Len(plan) : Started = ToSet(SubSeq(plan, 1, n))
    <3>1. \A n \in 0..Len(plan) : ToSet(SubSeq(plan, 1, n)) = {plan[k] : k \in 1..n}
      <4> TAKE n \in 0..Len(plan)
      <4> DEFINE t == SubSeq(plan, 1, n)
      <4>1. t \in Seq(Projects) /\ Len(t) = n /\ \A k \in 1..n : t[k] = plan[k]
        BY <2>1, <2>2 DEF TypeOK
      <4> HIDE DEF t
      <4>2. ToSet(t) = {plan[k] : k \in 1..n}
        BY <4>1, ToSetIs
      <4> QED BY <4>2 DEF t
    <3>2. CASE Begun
      <4>1. Cut \in 0..Len(plan) /\ Started = {plan[k] : k \in 1..Cut}
        BY <2>1, <2>2, <3>2 DEF Split, Cut
      <4> QED BY <3>1, <4>1
    <3>3. CASE ~Begun
      <4>1. Started = {} /\ 0 \in 0..Len(plan) /\ 1..0 = {}
        BY <2>1, <2>2, <3>3, NothingStarted
      <4> QED BY <3>1, <4>1
    <3> QED BY <3>2, <3>3
  <2>4. Cardinality(outcomes) = Cardinality(Recorded)
    <3> DEFINE f == [o \in outcomes |-> o.target]
    <3>1. f \in [outcomes -> Recorded] /\ \A x \in Recorded : \E o \in outcomes : f[o] = x
      BY DEF Recorded
    <3>2. \A o, x \in outcomes : f[o] = f[x] => o = x
      BY <2>1 DEF Apart
    <3> HIDE DEF f
    <3>3. f \in Injection(outcomes, Recorded) /\ f \in Surjection(outcomes, Recorded)
      BY <3>1, <3>2 DEF Injection, Surjection, IsInjective
    <3>4. Recorded \subseteq Projects
      BY <2>1, RecordedTyped
    <3>5. IsFiniteSet(Recorded)
      BY <3>4, WorkersFinite
    <3> QED BY <3>3, <3>5, FS_Injection
  <2>5. main = "done" /\ (~Bails \/ Failed = {}) => Recorded = ToSet(plan)
    <3> SUFFICES ASSUME main = "done", ~Bails \/ Failed = {} PROVE Recorded = ToSet(plan)
      OBVIOUS
    <3>1. Begun /\ queue = <<>>
      BY <2>1 DEF Begun, Stopping
    <3>2. Cut = Len(plan)
      BY <2>2, <3>1 DEF Cut
    <3>3. Started = ToSet(plan)
      BY <2>1, <3>1, <3>2, ToSetIs DEF Split, TypeOK
    <3>4. \A w \in Workers : target[w] = NoTarget
      BY <2>1 DEF Stopping, Apart
    <3> QED BY <3>3, <3>4 DEF Started
  <2>6. late = {} \/ Cardinality(late) < Cardinality({w \in Workers : at[w] # "idle"})
    <3>1. CASE ~should_stop
      BY <2>1, <3>1 DEF Lagging
    <3>2. CASE should_stop
      <4>1. Cardinality(late) + Cardinality(Popping) < Cardinality(Awake)
        BY <2>1, <3>2 DEF Lagging
      <4>2. Popping \in SUBSET Workers /\ Awake \in SUBSET Workers
        BY DEF Popping, Awake
      <4>3. Cardinality(late) \in Nat /\ Cardinality(Popping) \in Nat /\ Cardinality(Awake) \in Nat
        BY <2>1, <4>2, WorkersFinite DEF TypeOK
      <4>4. Cardinality(late) < Cardinality(Awake)
        BY <4>1, <4>3
      <4> QED BY <4>4 DEF Awake
    <3> QED BY <3>1, <3>2
  <2>7. \A v, w \in Workers : target[v] = target[w] /\ v # w => target[v] = NoTarget
    BY <2>1 DEF Apart
  <2> QED BY <2>3, <2>4, <2>5, <2>6, <2>7 DEF NothingSkipped
<1> QED BY <1>1, Invariance, PTL

(* The command fails exactly when a script has failed and it bails, with   *)
(* the failure that comes first in the plan, whichever thread was first;   *)
(* the summary says of every selected project how it went.                 *)
THEOREM ReportFaithfulHolds == Spec => []ReportFaithful
<1>1. ASSUME IInv PROVE ReportFaithful
  <2>1. Told /\ Resulting
    BY <1>1 DEF IInv
  <2>2. main = "done" /\ plan # <<>> =>
          /\ result.kind = "error" <=> Bails /\ Failed # {}
          /\ result.kind = "error" => FirstFailure(result.project)
    BY <2>1 DEF Resulting
  <2>3. ASSUME main = "done", result.kind \notin {"noMatch", "noResume"}, selected # {}
        PROVE  /\ ToSet(plan) \subseteq DOMAIN written
               /\ \A p \in DOMAIN written :
                    /\ written[p] = "passed" <=> p \in Passed
                    /\ written[p] = "failure" <=> p \in Failed
                    /\ written[p] = "skipped" <=> ~Runs(p)
    BY <2>1, <2>3 DEF Told
  <2> QED BY <2>2, <2>3 DEF ReportFaithful, FirstFailure
<1> QED BY <1>1, Invariance, PTL
=============================================================================
