----------------------------- MODULE ListProofs -----------------------------
(***************************************************************************)
(* What the operators on lists that the models use return: insertions,      *)
(* removals and selections by place, and sums over a list and over a set of *)
(* its places.  Induction goes by the least element of a set of naturals.   *)
(***************************************************************************)
EXTENDS Integers, SequencesExt, Selection, FiniteSetTheorems, SequenceTheorems,
        WellFoundedInduction, TLAPS

\* A set of naturals that has a member has a least one.
LEMMA LeastElement ==
  ASSUME NEW T, T \subseteq Nat, T # {}
  PROVE  \E x \in T : \A y \in T : x <= y
<1> DEFINE R == OpToRel(<, Nat)
<1>1. IsWellFoundedOn(R, Nat)
  BY NatLessThanWellFounded
<1>2. \A x, y \in Nat : x < y => <<x, y>> \in R
  BY DEF OpToRel
<1> HIDE DEF R
<1>3. PICK x \in T : \A y \in T : ~ (<<y, x>> \in R)
  BY <1>1, WFMin
<1>4. ASSUME NEW y \in T PROVE x <= y
  <2>1. ~(y < x)
    BY <1>2, <1>3
  <2> QED BY <2>1
<1> QED BY <1>4

\* A set that has 0, and the successor of each natural it has, has all of them.
LEMMA AllNaturals ==
  ASSUME NEW S, 0 \in S, \A n \in Nat : n \in S => n + 1 \in S
  PROVE  \A n \in Nat : n \in S
<1> DEFINE T == Nat \ S
<1>1. SUFFICES ASSUME T # {} PROVE FALSE
  OBVIOUS
<1>2. PICK x \in T : \A y \in T : x <= y
  BY <1>1, LeastElement
<1>3. x # 0 /\ x - 1 \in Nat
  OBVIOUS
<1>4. x - 1 \in S
  BY <1>2, <1>3
<1>5. x - 1 + 1 \in S
  BY <1>3, <1>4
<1> QED BY <1>5

\* The same up to a bound.
LEMMA AllUpTo ==
  ASSUME NEW n \in Nat, NEW S, 0 \in S, \A k \in 0..(n - 1) : k \in S => k + 1 \in S
  PROVE  \A k \in 0..n : k \in S
<1> DEFINE U == {k \in Nat : k <= n => k \in S}
<1>1. 0 \in U
  OBVIOUS
<1>2. \A k \in Nat : k \in U => k + 1 \in U
  OBVIOUS
<1> HIDE DEF U
<1>3. \A k \in Nat : k \in U
  BY <1>1, <1>2, AllNaturals
<1> QED BY <1>3 DEF U

LEMMA GreatestElement ==
  ASSUME NEW n \in Nat, NEW T, T \subseteq 1..n, T # {}
  PROVE  Max(T) \in T /\ \A y \in T : y <= Max(T)
<1> DEFINE D == {n - x : x \in T}
<1>1. D \subseteq Nat /\ D # {}
  <2>1. \A x \in T : n - x \in Nat
    OBVIOUS
  <2> QED BY <2>1
<1> HIDE DEF D
<1>2. PICK d \in D : \A y \in D : d <= y
  BY <1>1, LeastElement
<1>3. PICK x \in T : d = n - x
  BY DEF D
<1>4. \A y \in T : x >= y
  <2> TAKE y \in T
  <2>1. n - y \in D
    BY DEF D
  <2>2. n - x <= n - y
    BY <1>2, <1>3, <2>1
  <2> QED BY <2>2
<1> QED BY <1>4 DEF Max


(***************************************************************************)
(* Sums.                                                                    *)
(***************************************************************************)

\* The sum of v over the elements of l
Total(v, l) == FoldLeft(LAMBDA n, r : n + v[r], 0, l)

\* it is the function by which the fold of v over l recurs.
SumsOver(v, l, n, it) ==
    it = [s \in SUBSET (1..n) |-> IF s = {} THEN 0 ELSE it[s \ {Max(s)}] + v[l[Max(s)]]]

\* There is such a function.
LEMMA SumsExist ==
  ASSUME NEW v, NEW l, NEW n \in Nat
  PROVE  \E it : SumsOver(v, l, n, it)
<1> DEFINE S == {m \in Nat : \E it : SumsOver(v, l, m, it)}
<1>1. 0 \in S
  <2> DEFINE it == [s \in SUBSET (1..0) |-> 0]
  <2>1. \A s \in SUBSET (1..0) : s = {}
    OBVIOUS
  <2>2. SumsOver(v, l, 0, it)
    BY <2>1 DEF SumsOver
  <2> QED BY <2>2
<1>2. ASSUME NEW m \in Nat, m \in S PROVE m + 1 \in S
  <2>1. PICK it : SumsOver(v, l, m, it)
    BY <1>2
  <2> DEFINE jt == [s \in SUBSET (1..(m + 1)) |->
                      IF m + 1 \in s THEN it[s \ {m + 1}] + v[l[m + 1]] ELSE it[s]]
  <2>2. ASSUME NEW s \in SUBSET (1..(m + 1)), s # {}, m + 1 \in s
        PROVE  jt[s] = jt[s \ {Max(s)}] + v[l[Max(s)]]
    <3>1. Max(s) \in s /\ m + 1 <= Max(s)
      <4>1. m + 1 \in Nat
        OBVIOUS
      <4> QED BY <2>2, <4>1, GreatestElement
    <3>2. Max(s) = m + 1
      <4>1. Max(s) \in 1..(m + 1)
        BY <2>2, <3>1
      <4> QED BY <3>1, <4>1
    <3>3. s \ {m + 1} \in SUBSET (1..(m + 1)) /\ m + 1 \notin s \ {m + 1}
      OBVIOUS
    <3>4. jt[s \ {m + 1}] = it[s \ {m + 1}]
      BY <3>3
    <3>5. jt[s] = it[s \ {m + 1}] + v[l[m + 1]]
      BY <2>2
    <3> QED BY <3>2, <3>4, <3>5
  <2>3. ASSUME NEW s \in SUBSET (1..(m + 1)), s # {}, m + 1 \notin s
        PROVE  jt[s] = jt[s \ {Max(s)}] + v[l[Max(s)]]
    <3>1. s \in SUBSET (1..m)
      BY <2>3
    <3>2. Max(s) \in s
      BY <2>3, <3>1, GreatestElement
    <3>3. /\ s \ {Max(s)} \in SUBSET (1..m) /\ s \ {Max(s)} \in SUBSET (1..(m + 1))
          /\ m + 1 \notin s \ {Max(s)}
      BY <2>3, <3>1
    <3>4. jt[s] = it[s] /\ jt[s \ {Max(s)}] = it[s \ {Max(s)}]
      BY <2>3, <3>3
    <3>5. it[s] = it[s \ {Max(s)}] + v[l[Max(s)]]
      BY <2>1, <2>3, <3>1 DEF SumsOver
    <3> QED BY <3>4, <3>5
  <2>4. jt[{}] = 0
    <3>1. it[{}] = 0
      BY <2>1 DEF SumsOver
    <3> QED BY <3>1
  <2>5. \A s \in SUBSET (1..(m + 1)) :
            jt[s] = IF s = {} THEN 0 ELSE jt[s \ {Max(s)}] + v[l[Max(s)]]
    <3> HIDE DEF jt
    <3> QED BY <2>2, <2>3, <2>4
  <2>6. SumsOver(v, l, m + 1, jt)
    <3>1. jt = [s \in SUBSET (1..(m + 1)) |-> jt[s]]
      OBVIOUS
    <3> HIDE DEF jt
    <3> QED BY <2>5, <3>1 DEF SumsOver
  <2>7. m + 1 \in Nat
    OBVIOUS
  <2> HIDE DEF jt
  <2> QED BY <2>6, <2>7
<1> HIDE DEF S
<1>3. n \in S
  BY <1>1, <1>2, AllNaturals
<1> QED BY <1>3 DEF S

\* p has the sums of v over the first elements of l.
PartialSums(v, l, p) ==
    /\ p \in [0..Len(l) -> Nat]
    /\ p[0] = 0
    /\ \A k \in 1..Len(l) : p[k] = p[k - 1] + v[l[k]]

LEMMA TotalIsPartialSum ==
  ASSUME NEW R, NEW v \in [R -> Nat], NEW l \in Seq(R)
  PROVE  \E p : PartialSums(v, l, p) /\ Total(v, l) = p[Len(l)]
<1> DEFINE n == Len(l)
           it == CHOOSE it : SumsOver(v, l, n, it)
           p == [k \in 0..n |-> it[1..k]]
<1>1. n \in Nat /\ DOMAIN l = 1..n
  OBVIOUS
<1>2. SumsOver(v, l, n, it)
  BY <1>1, SumsExist
<1>3. Total(v, l) = it[1..n]
  <2>1. Total(v, l) = (CHOOSE f : f = [s \in SUBSET (DOMAIN l) |->
                          IF s = {} THEN 0 ELSE f[s \ {Max(s)}] + v[l[Max(s)]]])[DOMAIN l]
    BY DEF Total, FoldLeft, MapThenFoldSet
  <2>2. it = CHOOSE f : f = [s \in SUBSET (1..n) |->
                          IF s = {} THEN 0 ELSE f[s \ {Max(s)}] + v[l[Max(s)]]]
    BY DEF SumsOver
  <2> QED BY <1>1, <2>1, <2>2
<1> HIDE DEF it, n
<1>4. p[0] = 0
  <2>1. 1..0 = {}
    OBVIOUS
  <2>2. it[{}] = 0
    BY <1>2 DEF SumsOver
  <2> QED BY <1>1, <2>1, <2>2
<1>5. ASSUME NEW k \in 1..n PROVE p[k] = p[k - 1] + v[l[k]]
  <2>0. k \in Nat /\ k >= 1 /\ k <= n /\ k \in 1..k /\ k - 1 \in 0..n /\ k \in 0..n
    BY <1>1
  <2>1. 1..k \in SUBSET (1..n) /\ 1..k # {} /\ k \in 1..k /\ k \in Nat /\ k - 1 \in 0..n /\ k \in 0..n
    <3>1. \A x \in 1..k : x \in 1..n
      BY <1>1, <2>0
    <3> QED BY <2>0, <3>1
  <2>2. Max(1..k) = k
    <3>1. Max(1..k) \in 1..k /\ k <= Max(1..k)
      BY <2>1, GreatestElement
    <3> QED BY <2>1, <3>1
  <2>3. (1..k) \ {k} = 1..(k - 1)
    BY <2>1
  <2>4. it[1..k] = it[(1..k) \ {Max(1..k)}] + v[l[Max(1..k)]]
    BY <1>2, <2>1 DEF SumsOver
  <2> QED BY <2>1, <2>2, <2>3, <2>4
<1>6. \A k \in 0..n : p[k] \in Nat
  <2> DEFINE S == {k \in 0..n : p[k] \in Nat}
  <2> HIDE DEF p
  <2>1. 0 \in S
    BY <1>1, <1>4
  <2>2. \A k \in 0..(n - 1) : k \in S => k + 1 \in S
    <3> SUFFICES ASSUME NEW k \in 0..(n - 1), k \in S PROVE p[k + 1] \in Nat /\ k + 1 \in 0..n
      OBVIOUS
    <3>1. k + 1 \in 1..n /\ (k + 1) - 1 = k /\ k + 1 \in 0..n
      BY <1>1
    <3>2. v[l[k + 1]] \in Nat
      BY <1>1, <3>1
    <3>3. p[k + 1] = p[k] + v[l[k + 1]]
      BY <1>5, <3>1
    <3> QED BY <3>1, <3>2, <3>3
  <2> HIDE DEF S
  <2>3. \A k \in 0..n : k \in S
    BY <1>1, <2>1, <2>2, AllUpTo
  <2> QED BY <2>3 DEF S
<1>7. PartialSums(v, l, p)
  <2>1. p \in [0..n -> Nat]
    BY <1>6
  <2> HIDE DEF p
  <2> QED BY <1>4, <1>5, <2>1 DEF PartialSums, n
<1>8. Total(v, l) = p[n]
  BY <1>1, <1>3
<1> HIDE DEF p
<1> QED BY <1>7, <1>8 DEF n

\* A sum is a natural, that over one element is its value, and that over a
\* concatenation is that over its parts.
LEMMA TotalFacts ==
  ASSUME NEW R, NEW v \in [R -> Nat]
  PROVE  /\ Total(v, <<>>) = 0
         /\ \A l \in Seq(R) : Total(v, l) \in Nat
         /\ \A r \in R : Total(v, <<r>>) = v[r]
         /\ \A l, m \in Seq(R) : Total(v, l \o m) = Total(v, l) + Total(v, m)
<1>1. Total(v, <<>>) = 0
  <2>1. <<>> \in Seq(R) /\ Len(<<>>) = 0
    OBVIOUS
  <2>2. PICK p : PartialSums(v, <<>>, p) /\ Total(v, <<>>) = p[Len(<<>>)]
    BY <2>1, TotalIsPartialSum
  <2> QED BY <2>1, <2>2 DEF PartialSums
<1>2. ASSUME NEW l \in Seq(R) PROVE Total(v, l) \in Nat
  <2>1. PICK p : PartialSums(v, l, p) /\ Total(v, l) = p[Len(l)]
    BY TotalIsPartialSum
  <2> QED BY <2>1 DEF PartialSums
<1>3. ASSUME NEW r \in R PROVE Total(v, <<r>>) = v[r]
  <2>1. <<r>> \in Seq(R) /\ Len(<<r>>) = 1 /\ <<r>>[1] = r
    OBVIOUS
  <2>2. PICK p : PartialSums(v, <<r>>, p) /\ Total(v, <<r>>) = p[Len(<<r>>)]
    BY <2>1, TotalIsPartialSum
  <2>3. p[1] = p[1 - 1] + v[<<r>>[1]] /\ p[0] = 0
    BY <2>1, <2>2 DEF PartialSums
  <2> QED BY <2>1, <2>2, <2>3
<1>4. ASSUME NEW l \in Seq(R), NEW m \in Seq(R)
      PROVE  Total(v, l \o m) = Total(v, l) + Total(v, m)
  <2> DEFINE a == Len(l)
             b == Len(m)
             w == l \o m
  <2>1. /\ w \in Seq(R) /\ Len(w) = a + b /\ a \in Nat /\ b \in Nat
        /\ \A i \in 1..a : w[i] = l[i]
        /\ \A i \in 1..b : w[a + i] = m[i]
    <3>1. w \in Seq(R) /\ Len(w) = a + b /\ a \in Nat /\ b \in Nat
      OBVIOUS
    <3>2. \A i \in 1..(a + b) : w[i] = IF i <= a THEN l[i] ELSE m[i - a]
      BY ConcatProperties
    <3>3. \A i \in 1..a : w[i] = l[i]
      BY <3>1, <3>2
    <3>4. \A i \in 1..b : w[a + i] = m[i]
      <4> TAKE i \in 1..b
      <4>1. a + i \in 1..(a + b) /\ ~(a + i <= a) /\ (a + i) - a = i
        BY <3>1
      <4> QED BY <3>2, <4>1
    <3> QED BY <3>1, <3>3, <3>4
  <2> HIDE DEF w
  <2>2. PICK p : PartialSums(v, l, p) /\ Total(v, l) = p[a]
    BY TotalIsPartialSum
  <2>3. PICK q : PartialSums(v, m, q) /\ Total(v, m) = q[b]
    BY TotalIsPartialSum
  <2>4. PICK u : PartialSums(v, w, u) /\ Total(v, w) = u[a + b]
    <3>1. \E u : PartialSums(v, w, u) /\ Total(v, w) = u[Len(w)]
      BY <2>1, TotalIsPartialSum
    <3> QED BY <2>1, <3>1
  <2> HIDE DEF a, b
  <2>5. \A k \in 0..a : u[k] = p[k]
    <3> DEFINE S == {k \in 0..a : u[k] = p[k]}
    <3>1. 0 \in S
      BY <2>1, <2>2, <2>4 DEF PartialSums
    <3>2. ASSUME NEW k \in 0..(a - 1), k \in S PROVE k + 1 \in S
      <4>1. k + 1 \in 1..a /\ k + 1 \in 1..(a + b) /\ (k + 1) - 1 = k /\ k + 1 \in 0..a
        BY <2>1
      <4>2. u[k + 1] = u[k] + v[w[k + 1]] /\ p[k + 1] = p[k] + v[l[k + 1]]
        BY <2>1, <2>2, <2>4, <4>1 DEF PartialSums, a
      <4> QED BY <2>1, <3>2, <4>1, <4>2
    <3> HIDE DEF S
    <3>3. \A k \in 0..a : k \in S
      BY <2>1, <3>1, <3>2, AllUpTo
    <3> QED BY <3>3 DEF S
  <2>6. \A k \in 0..b : u[a + k] = u[a] + q[k]
    <3> DEFINE S == {k \in 0..b : u[a + k] = u[a] + q[k]}
    <3>0. u[a] \in Nat /\ \A k \in 0..b : q[k] \in Nat
      <4>1. \A k \in 0..b : q[k] \in Nat
        BY <2>3 DEF PartialSums, b
      <4>2. u \in [0..(a + b) -> Nat] /\ a \in 0..(a + b)
        BY <2>1, <2>4 DEF PartialSums
      <4> QED BY <4>1, <4>2
    <3>1. 0 \in S
      <4>1. u[a + 0] = u[a] + 0 /\ q[0] = 0
        BY <2>1, <2>3, <3>0 DEF PartialSums
      <4> QED BY <2>1, <4>1
    <3>2. ASSUME NEW k \in 0..(b - 1), k \in S PROVE k + 1 \in S
      <4>1. /\ k + 1 \in 1..b /\ (a + (k + 1)) \in 1..(a + b) /\ (k + 1) - 1 = k /\ k + 1 \in 0..b
            /\ (a + (k + 1)) - 1 = a + k /\ k \in 0..b
        BY <2>1
      <4>2. u[a + (k + 1)] = u[a + k] + v[w[a + (k + 1)]] /\ q[k + 1] = q[k] + v[m[k + 1]]
        BY <2>1, <2>3, <2>4, <4>1 DEF PartialSums, b
      <4>3. w[a + (k + 1)] = m[k + 1] /\ v[m[k + 1]] \in Nat
        BY <2>1, <4>1 DEF b
      <4>4. u[a + k] = u[a] + q[k]
        BY <3>2
      <4>5. u[a + (k + 1)] = u[a] + q[k + 1]
        BY <3>0, <4>1, <4>2, <4>3, <4>4
      <4> QED BY <4>1, <4>5
    <3> HIDE DEF S
    <3>3. \A k \in 0..b : k \in S
      BY <2>1, <3>1, <3>2, AllUpTo
    <3> QED BY <3>3 DEF S
  <2>7. u[a + b] = u[a] + q[b] /\ u[a] = p[a]
    <3>1. a \in 0..a /\ b \in 0..b
      BY <2>1
    <3> QED BY <2>5, <2>6, <3>1
  <2> QED BY <2>2, <2>3, <2>4, <2>7 DEF w
<1> QED BY <1>1, <1>2, <1>3, <1>4

(***************************************************************************)
(* Insertion, removal and selection by place.                               *)
(***************************************************************************)

LEMMA InsertAtFacts ==
  ASSUME NEW S, NEW l \in Seq(S), NEW p \in 1..(Len(l) + 1), NEW e \in S
  PROVE  /\ InsertAt(l, p, e) \in Seq(S)
         /\ Len(InsertAt(l, p, e)) = Len(l) + 1
         /\ \A k \in 1..(p - 1) : InsertAt(l, p, e)[k] = l[k]
         /\ InsertAt(l, p, e)[p] = e
         /\ \A k \in p..Len(l) : InsertAt(l, p, e)[k + 1] = l[k]
<1> DEFINE n == Len(l)
           a == SubSeq(l, 1, p - 1)
           b == SubSeq(l, p, n)
           c == <<e>>
<1>1. n \in Nat /\ p \in Nat /\ p >= 1 /\ p <= n + 1 /\ \A i \in 1..n : l[i] \in S
  OBVIOUS
<1>2. a \in Seq(S) /\ Len(a) = p - 1 /\ \A i \in 1..(p - 1) : a[i] = l[i]
  <2>1. \A i \in 1..(p - 1) : l[i] \in S
    BY <1>1
  <2> HIDE DEF n
  <2>2. a \in Seq(S) /\ Len(a) = (IF 1 <= p - 1 THEN (p - 1) - 1 + 1 ELSE 0)
        /\ \A i \in 1..((p - 1) - 1 + 1) : a[i] = l[1 + i - 1]
    BY <1>1, <2>1, SubSeqProperties
  <2> HIDE DEF a
  <2>3. Len(a) = p - 1
    BY <1>1, <2>2
  <2>4. \A i \in 1..(p - 1) : a[i] = l[i]
    BY <1>1, <2>2
  <2> QED BY <2>2, <2>3, <2>4
<1>3. b \in Seq(S) /\ Len(b) = n - p + 1 /\ \A i \in 1..(n - p + 1) : b[i] = l[p + i - 1]
  <2>1. \A i \in p..n : l[i] \in S
    BY <1>1
  <2> HIDE DEF n
  <2>2. b \in Seq(S) /\ Len(b) = (IF p <= n THEN n - p + 1 ELSE 0)
        /\ \A i \in 1..(n - p + 1) : b[i] = l[p + i - 1]
    BY <1>1, <2>1, SubSeqProperties
  <2> HIDE DEF b
  <2>3. Len(b) = n - p + 1
    BY <1>1, <2>2
  <2> QED BY <2>2, <2>3
<1>4. c \in Seq(S) /\ Len(c) = 1 /\ c[1] = e
  OBVIOUS
<1> DEFINE ac == a \o c
           acb == ac \o b
<1>5. InsertAt(l, p, e) = acb
  BY DEF InsertAt
<1> HIDE DEF n, a, b, c
<1>6. ac \in Seq(S) /\ Len(ac) = p /\ (\A i \in 1..(p - 1) : ac[i] = l[i]) /\ ac[p] = e
  <2>1. ac \in Seq(S) /\ Len(ac) = Len(a) + Len(c)
        /\ \A i \in 1..(Len(a) + Len(c)) : ac[i] = IF i <= Len(a) THEN a[i] ELSE c[i - Len(a)]
    BY <1>2, <1>4, ConcatProperties
  <2> HIDE DEF ac
  <2>2. Len(ac) = p /\ \A i \in 1..p : ac[i] = IF i <= p - 1 THEN a[i] ELSE c[i - (p - 1)]
    BY <1>1, <1>2, <1>4, <2>1
  <2>3. \A i \in 1..(p - 1) : ac[i] = l[i]
    BY <1>1, <1>2, <2>2
  <2>4. p \in 1..p /\ ~(p <= p - 1) /\ p - (p - 1) = 1
    BY <1>1
  <2> QED BY <1>4, <2>1, <2>2, <2>3, <2>4
<1> HIDE DEF ac
<1>7. acb \in Seq(S) /\ Len(acb) = n + 1
      /\ \A i \in 1..(n + 1) : acb[i] = IF i <= p THEN ac[i] ELSE b[i - p]
  <2>1. acb \in Seq(S) /\ Len(acb) = Len(ac) + Len(b)
        /\ \A i \in 1..(Len(ac) + Len(b)) : acb[i] = IF i <= Len(ac) THEN ac[i] ELSE b[i - Len(ac)]
    BY <1>3, <1>6, ConcatProperties
  <2>2. Len(ac) = p /\ Len(ac) + Len(b) = n + 1
    BY <1>1, <1>3, <1>6
  <2> HIDE DEF acb
  <2> QED BY <2>1, <2>2
<1> HIDE DEF acb
<1>8. \A k \in 1..(p - 1) : acb[k] = l[k]
  BY <1>1, <1>6, <1>7
<1>9. acb[p] = e
  BY <1>1, <1>6, <1>7
<1>10. \A k \in p..n : acb[k + 1] = l[k]
  <2> TAKE k \in p..n
  <2>1. k + 1 \in 1..(n + 1) /\ ~(k + 1 <= p) /\ (k + 1) - p \in 1..(n - p + 1)
        /\ p + ((k + 1) - p) - 1 = k
    BY <1>1
  <2> QED BY <1>3, <1>7, <2>1
<1> QED BY <1>5, <1>7, <1>8, <1>9, <1>10 DEF n

LEMMA RemoveAtFacts ==
  ASSUME NEW S, NEW l \in Seq(S), NEW p \in 1..Len(l)
  PROVE  /\ RemoveAt(l, p) \in Seq(S)
         /\ Len(RemoveAt(l, p)) = Len(l) - 1
         /\ \A k \in 1..(p - 1) : RemoveAt(l, p)[k] = l[k]
         /\ \A k \in (p + 1)..Len(l) : RemoveAt(l, p)[k - 1] = l[k]
<1> DEFINE n == Len(l)
           a == SubSeq(l, 1, p - 1)
           b == SubSeq(l, p + 1, n)
<1>1. n \in Nat /\ p \in Nat /\ p >= 1 /\ p <= n /\ \A i \in 1..n : l[i] \in S
  OBVIOUS
<1>2. a \in Seq(S) /\ Len(a) = p - 1 /\ \A i \in 1..(p - 1) : a[i] = l[i]
  <2>1. \A i \in 1..(p - 1) : l[i] \in S
    BY <1>1
  <2> HIDE DEF n
  <2>2. a \in Seq(S) /\ Len(a) = (IF 1 <= p - 1 THEN (p - 1) - 1 + 1 ELSE 0)
        /\ \A i \in 1..((p - 1) - 1 + 1) : a[i] = l[1 + i - 1]
    BY <1>1, <2>1, SubSeqProperties
  <2> HIDE DEF a
  <2>3. Len(a) = p - 1
    BY <1>1, <2>2
  <2>4. \A i \in 1..(p - 1) : a[i] = l[i]
    BY <1>1, <2>2
  <2> QED BY <2>2, <2>3, <2>4
<1>3. b \in Seq(S) /\ Len(b) = n - p /\ \A i \in 1..(n - p) : b[i] = l[p + i]
  <2>1. \A i \in (p + 1)..n : l[i] \in S
    BY <1>1
  <2> HIDE DEF n
  <2>2. b \in Seq(S) /\ Len(b) = (IF p + 1 <= n THEN n - (p + 1) + 1 ELSE 0)
        /\ \A i \in 1..(n - (p + 1) + 1) : b[i] = l[(p + 1) + i - 1]
    BY <1>1, <2>1, SubSeqProperties
  <2> HIDE DEF b
  <2>3. Len(b) = n - p
    BY <1>1, <2>2
  <2>4. \A i \in 1..(n - p) : b[i] = l[p + i]
    <3> TAKE i \in 1..(n - p)
    <3>1. i \in 1..(n - (p + 1) + 1) /\ (p + 1) + i - 1 = p + i
      BY <1>1
    <3> QED BY <2>2, <3>1
  <2> QED BY <2>2, <2>3, <2>4
<1> DEFINE ab == a \o b
<1>4. RemoveAt(l, p) = ab
  BY DEF RemoveAt
<1> HIDE DEF n, a, b
<1>5. ab \in Seq(S) /\ Len(ab) = n - 1
      /\ \A i \in 1..(n - 1) : ab[i] = IF i <= p - 1 THEN a[i] ELSE b[i - (p - 1)]
  <2>1. ab \in Seq(S) /\ Len(ab) = Len(a) + Len(b)
        /\ \A i \in 1..(Len(a) + Len(b)) : ab[i] = IF i <= Len(a) THEN a[i] ELSE b[i - Len(a)]
    BY <1>2, <1>3, ConcatProperties
  <2>2. Len(a) = p - 1 /\ Len(a) + Len(b) = n - 1
    BY <1>1, <1>2, <1>3
  <2> HIDE DEF ab
  <2> QED BY <2>1, <2>2
<1> HIDE DEF ab
<1>6. \A k \in 1..(p - 1) : ab[k] = l[k]
  BY <1>1, <1>2, <1>5
<1>7. \A k \in (p + 1)..n : ab[k - 1] = l[k]
  <2> TAKE k \in (p + 1)..n
  <2>1. k - 1 \in 1..(n - 1) /\ ~(k - 1 <= p - 1) /\ (k - 1) - (p - 1) \in 1..(n - p)
        /\ p + ((k - 1) - (p - 1)) = k
    BY <1>1
  <2> QED BY <1>3, <1>5, <2>1
<1> QED BY <1>4, <1>5, <1>6, <1>7 DEF n

(* Selections.                                                              *)
(***************************************************************************)

\* Two places of K have different ranks, from 1 to the number of places.
LEMMA RankInjective ==
  ASSUME NEW K \in SUBSET Nat, IsFiniteSet(K)
  PROVE  /\ Cardinality(K) \in Nat
         /\ \A j \in K : Rank(K, j) \in 1..Cardinality(K)
         /\ \A i, j \in K : Rank(K, i) = Rank(K, j) => i = j
<1> DEFINE B(j) == {k \in K : k <= j}
<1>1. Cardinality(K) \in Nat
  BY FS_CardinalityType
<1>2. ASSUME NEW j \in K
      PROVE  IsFiniteSet(B(j)) /\ Cardinality(B(j)) \in 1..Cardinality(K)
  <2>1. B(j) \in SUBSET K /\ j \in B(j)
    OBVIOUS
  <2>2. IsFiniteSet(B(j)) /\ Cardinality(B(j)) <= Cardinality(K)
    BY <2>1, FS_Subset
  <2>3. Cardinality(B(j)) # 0
    BY <2>1, <2>2, FS_EmptySet
  <2> QED BY <1>1, <2>2, <2>3, FS_CardinalityType
<1>3. ASSUME NEW i \in K, NEW j \in K, i < j
      PROVE  Cardinality(B(i)) < Cardinality(B(j))
  <2>0. i \in Nat /\ j \in Nat /\ K \in SUBSET Nat /\ i < j
    BY <1>3
  <2>1. /\ B(i) \in SUBSET B(j)
        /\ j \in B(j)
        /\ j \notin B(i)
    <3>1. \A k \in K : k <= i => k <= j
      BY <2>0
    <3>2. ~(j <= i) /\ j <= j
      BY <2>0
    <3> QED BY <3>1, <3>2
  <2>2. Cardinality(B(i)) <= Cardinality(B(j)) /\ Cardinality(B(i)) # Cardinality(B(j))
    BY <1>2, <2>1, FS_Subset
  <2> QED BY <1>2, <2>2, FS_CardinalityType
<1>4. ASSUME NEW i \in K, NEW j \in K, Rank(K, i) = Rank(K, j)
      PROVE  i = j
  <2> HIDE DEF B
  <2>1. Cardinality(B(i)) = Cardinality(B(j)) /\ Cardinality(B(i)) \in Int /\ Cardinality(B(j)) \in Int
    BY <1>1, <1>2, <1>4 DEF Rank, B
  <2>2. ~(i < j) /\ ~(j < i)
    BY <1>3, <2>1
  <2> QED BY <2>2
<1> QED BY <1>1, <1>2, <1>4 DEF Rank

\* Every number up to the number of places is the rank of one of them.
LEMMA RankSurjective ==
  ASSUME NEW K \in SUBSET Nat, IsFiniteSet(K), NEW i \in 1..Cardinality(K)
  PROVE  \E j \in K : Rank(K, j) = i
<1> DEFINE r == [j \in K |-> Rank(K, j)]
<1>1. r \in Injection(K, 1..Cardinality(K))
  BY RankInjective DEF Injection, IsInjective
<1>2. /\ IsFiniteSet(1..Cardinality(K))
      /\ Cardinality(1..Cardinality(K)) = Cardinality(K)
  <2>1. Cardinality(K) \in Nat /\ 1 \in Int
    BY RankInjective
  <2> DEFINE n == Cardinality(K)
  <2>2. n \in Int /\ (IF 1 > n THEN 0 ELSE n - 1 + 1) = n
    <3> HIDE DEF n
    <3>1. n \in Nat
      BY <2>1 DEF n
    <3> QED BY <3>1
  <2> QED BY <2>1, <2>2, FS_Interval
<1>3. r \in Surjection(K, 1..Cardinality(K))
  BY <1>1, <1>2, FS_Injection
<1> QED BY <1>3 DEF Surjection

\* The selection has every chosen element of the sequence, and each once.
LEMMA SelectedFacts ==
  ASSUME NEW S, NEW s \in Seq(S), NEW K \in SUBSET DOMAIN s
  PROVE  /\ Selected(s, K) \in Seq(S)
         /\ \A i \in DOMAIN Selected(s, K) : \E j \in K : Selected(s, K)[i] = s[j]
         /\ \A j \in K : \E i \in DOMAIN Selected(s, K) : Selected(s, K)[i] = s[j]
         /\ (\A i, j \in K : s[i] = s[j] => i = j) =>
               \A i, j \in DOMAIN Selected(s, K) : Selected(s, K)[i] = Selected(s, K)[j] => i = j
<1> DEFINE n == Cardinality(K)
           place(i) == CHOOSE j \in K : Rank(K, j) = i
<1>1. K \in SUBSET Nat /\ IsFiniteSet(K) /\ n \in Nat
  <2>1. DOMAIN s = 1..Len(s) /\ Len(s) \in Nat
    OBVIOUS
  <2>2. IsFiniteSet(1..Len(s))
    BY <2>1, FS_Interval
  <2>3. IsFiniteSet(K)
    BY <2>1, <2>2, FS_Subset
  <2> QED BY <2>1, <2>3, FS_CardinalityType
<1>2. ASSUME NEW i \in 1..n
      PROVE  place(i) \in K /\ Rank(K, place(i)) = i
  BY <1>1, <1>2, RankSurjective
<1>3. ASSUME NEW j \in K
      PROVE  Rank(K, j) \in 1..n /\ place(Rank(K, j)) = j
  BY <1>1, RankInjective
<1>4. Selected(s, K) = [i \in 1..n |-> s[place(i)]]
  BY DEF Selected
<1> HIDE DEF n, place
<1>5. Selected(s, K) \in Seq(S) /\ DOMAIN Selected(s, K) = 1..n
  <2>1. \A i \in 1..n : s[place(i)] \in S
    BY <1>2
  <2>2. [i \in 1..n |-> s[place(i)]] \in [1..n -> S]
    BY <2>1
  <2>3. \A f \in [1..n -> S] : f \in Seq(S)
    BY <1>1
  <2> QED BY <1>4, <2>2, <2>3
<1>6. \A i \in 1..n : Selected(s, K)[i] = s[place(i)]
  BY <1>4
<1>7. \A j \in K : Selected(s, K)[Rank(K, j)] = s[j]
  BY <1>3, <1>6
<1>8. ASSUME \A i, j \in K : s[i] = s[j] => i = j,
             NEW i \in 1..n, NEW j \in 1..n, Selected(s, K)[i] = Selected(s, K)[j]
      PROVE  i = j
  <2>1. place(i) = place(j)
    BY <1>2, <1>6, <1>8
  <2> QED BY <1>2, <2>1
<1> QED BY <1>2, <1>3, <1>5, <1>6, <1>7, <1>8

\* The selection keeps the order: it takes the places one after the other.
LEMMA SelectedPlaces ==
  ASSUME NEW S, NEW s \in Seq(S), NEW K \in SUBSET DOMAIN s
  PROVE  \E f \in [1..Cardinality(K) -> K] :
            /\ Cardinality(K) \in Nat /\ Len(Selected(s, K)) = Cardinality(K)
            /\ \A i \in 1..Cardinality(K) : Selected(s, K)[i] = s[f[i]]
            /\ \A i, j \in 1..Cardinality(K) : i < j => f[i] < f[j]
            /\ \A j \in K : \E i \in 1..Cardinality(K) : f[i] = j
<1> DEFINE n == Cardinality(K)
           f == [i \in 1..n |-> CHOOSE j \in K : Rank(K, j) = i]
<1>1. K \in SUBSET Nat /\ IsFiniteSet(K) /\ n \in Nat
  <2>1. DOMAIN s = 1..Len(s) /\ Len(s) \in Nat
    OBVIOUS
  <2>2. IsFiniteSet(1..Len(s))
    BY <2>1, FS_Interval
  <2>3. IsFiniteSet(K)
    BY <2>1, <2>2, FS_Subset
  <2> QED BY <2>1, <2>3, FS_CardinalityType
<1>2. ASSUME NEW i \in 1..n
      PROVE  f[i] \in K /\ Rank(K, f[i]) = i
  BY <1>1, <1>2, RankSurjective
<1>3. \A j \in K : Rank(K, j) \in 1..n /\ f[Rank(K, j)] = j
  BY <1>1, RankInjective
<1>4. Selected(s, K) = [i \in 1..n |-> s[f[i]]]
  BY DEF Selected
<1> HIDE DEF f, n
<1>5. ASSUME NEW i \in K, NEW j \in K, i <= j
      PROVE  Rank(K, i) <= Rank(K, j)
  <2> DEFINE A == {k \in K : k <= i}
             B == {k \in K : k <= j}
  <2>0. i \in Nat /\ j \in Nat /\ i <= j /\ K \in SUBSET Nat
    BY <1>1, <1>5
  <2>1. A \in SUBSET B
    <3>1. \A k \in K : k <= i => k <= j
      BY <2>0
    <3> QED BY <3>1
  <2>2. IsFiniteSet(B)
    BY <1>1, FS_Subset
  <2> HIDE DEF A, B
  <2>3. Cardinality(A) <= Cardinality(B)
    BY <2>1, <2>2, FS_Subset
  <2> QED BY <2>3 DEF Rank, A, B
<1>6. \A i, j \in 1..n : i < j => f[i] < f[j]
  <2> SUFFICES ASSUME NEW i \in 1..n, NEW j \in 1..n, i < j, ~(f[i] < f[j]) PROVE FALSE
    OBVIOUS
  <2>1. f[i] \in K /\ f[j] \in K /\ f[j] <= f[i]
    BY <1>1, <1>2
  <2>2. Rank(K, f[j]) <= Rank(K, f[i])
    BY <1>5, <2>1
  <2>3. Rank(K, f[j]) = j /\ Rank(K, f[i]) = i
    BY <1>2
  <2> QED BY <1>1, <2>2, <2>3
<1>7. f \in [1..n -> K]
  <2>1. f = [i \in 1..n |-> f[i]]
    BY DEF f
  <2> QED BY <1>2, <2>1
<1>8. Len(Selected(s, K)) = n /\ \A i \in 1..n : Selected(s, K)[i] = s[f[i]]
  BY <1>1, <1>4
<1> QED BY <1>1, <1>3, <1>6, <1>7, <1>8 DEF n


(***************************************************************************)
(* Sums over finite sets.                                                   *)
(***************************************************************************)
Chosen(s) == CHOOSE x \in s : TRUE

\* it is the function by which SumFunctionOnSet recurs.
SetSums(v, S, it) ==
    it = [s \in SUBSET S |-> IF s = {} THEN 0 ELSE v[Chosen(s)] + it[s \ {Chosen(s)}]]

\* The number of elements of a set without one of them
LEMMA OneLess ==
  ASSUME NEW S, IsFiniteSet(S), NEW x \in S
  PROVE  /\ IsFiniteSet(S \ {x}) /\ Cardinality(S) \in Nat /\ Cardinality(S \ {x}) \in Nat
         /\ Cardinality(S \ {x}) + 1 = Cardinality(S)
<1>1. IsFiniteSet(S \ {x}) /\ Cardinality(S \ {x}) = Cardinality(S) - 1
  BY FS_RemoveElement
<1>2. Cardinality(S) \in Nat /\ Cardinality(S \ {x}) \in Nat
  BY <1>1, FS_CardinalityType
<1> QED BY <1>1, <1>2

LEMMA ChosenFacts ==
  ASSUME NEW S, IsFiniteSet(S), NEW s \in SUBSET S, s # {}
  PROVE  /\ Chosen(s) \in s /\ s \ {Chosen(s)} \in SUBSET S
         /\ Cardinality(s) \in Nat /\ Cardinality(s \ {Chosen(s)}) + 1 = Cardinality(s)
         /\ Cardinality(s \ {Chosen(s)}) \in Nat
<1>1. Chosen(s) \in s
  BY DEF Chosen
<1>2. IsFiniteSet(s)
  BY FS_Subset
<1> QED BY <1>1, <1>2, OneLess

LEMMA SetSumsExist ==
  ASSUME NEW v, NEW S, IsFiniteSet(S)
  PROVE  \E it : SetSums(v, S, it)
<1> DEFINE Rest(it, s) == IF s = {} THEN 0 ELSE v[Chosen(s)] + it[s \ {Chosen(s)}]
           UpTo(n, it) == \A s \in SUBSET S : Cardinality(s) <= n => it[s] = Rest(it, s)
           N == {n \in Nat : \E it : UpTo(n, it)}
<1>0. \A s \in SUBSET S : IsFiniteSet(s) /\ Cardinality(s) \in Nat
  BY FS_Subset, FS_CardinalityType
<1>1. 0 \in N
  <2> DEFINE it == [s \in SUBSET S |-> 0]
  <2>1. \A s \in SUBSET S : Cardinality(s) <= 0 => s = {}
    <3> SUFFICES ASSUME NEW s \in SUBSET S, Cardinality(s) <= 0 PROVE s = {}
      OBVIOUS
    <3>1. Cardinality(s) = 0
      BY <1>0
    <3> QED BY <1>0, <3>1, FS_EmptySet
  <2>2. UpTo(0, it)
    BY <2>1
  <2> HIDE DEF UpTo
  <2> QED BY <2>2
<1>2. ASSUME NEW n \in Nat, n \in N PROVE n + 1 \in N
  <2>1. PICK it : UpTo(n, it)
    BY <1>2
  <2> DEFINE jt == [s \in SUBSET S |-> IF Cardinality(s) <= n THEN it[s]
                                       ELSE v[Chosen(s)] + it[s \ {Chosen(s)}]]
  <2>2. ASSUME NEW s \in SUBSET S, Cardinality(s) <= n + 1 PROVE jt[s] = Rest(jt, s)
    <3>1. CASE s = {}
      <4>1. Cardinality(s) = 0
        BY <3>1, FS_EmptySet
      <4>2. jt[s] = it[s]
        BY <4>1
      <4>3. it[s] = 0
        BY <2>1, <3>1, <4>1
      <4> QED BY <3>1, <4>2, <4>3
    <3>2. CASE s # {}
      <4> DEFINE t == s \ {Chosen(s)}
      <4>1. /\ t \in SUBSET S /\ Cardinality(s) \in Nat /\ Cardinality(t) + 1 = Cardinality(s)
            /\ Cardinality(t) \in Nat
        BY <3>2, ChosenFacts
      <4>2. Cardinality(t) <= n
        BY <2>2, <4>1
      <4>3. jt[t] = it[t]
        BY <4>1, <4>2
      <4>4. jt[s] = v[Chosen(s)] + it[t]
        <5>1. CASE Cardinality(s) <= n
          BY <2>1, <3>2, <5>1
        <5>2. CASE ~(Cardinality(s) <= n)
          BY <5>2
        <5> QED BY <5>1, <5>2
      <4> QED BY <3>2, <4>3, <4>4
    <3> QED BY <3>1, <3>2
  <2>3. UpTo(n + 1, jt)
    BY <2>2
  <2> HIDE DEF UpTo, jt
  <2> QED BY <2>3
<1> HIDE DEF N
<1>3. Cardinality(S) \in N
  <2>1. Cardinality(S) \in Nat
    BY FS_CardinalityType
  <2> QED BY <1>1, <1>2, <2>1, AllNaturals
<1>4. PICK it : UpTo(Cardinality(S), it)
  BY <1>3 DEF N
<1> DEFINE jt == [s \in SUBSET S |-> it[s]]
<1>5. ASSUME NEW s \in SUBSET S PROVE jt[s] = Rest(jt, s)
  <2>1. Cardinality(s) <= Cardinality(S)
    BY FS_Subset
  <2>2. it[s] = Rest(it, s)
    BY <1>4, <2>1
  <2> QED BY <2>2
<1>6. jt = [s \in SUBSET S |-> jt[s]]
  OBVIOUS
<1> HIDE DEF jt
<1>7. SetSums(v, S, jt)
  BY <1>5, <1>6 DEF SetSums
<1> QED BY <1>7

\* It is the same function on the subsets of both sets.
LEMMA SetSumsAgree ==
  ASSUME NEW v, NEW S, IsFiniteSet(S), NEW T \in SUBSET S, NEW it, NEW jt,
         SetSums(v, S, it), SetSums(v, T, jt)
  PROVE  it[T] = jt[T]
<1> DEFINE N == {n \in Nat : \A s \in SUBSET T : Cardinality(s) <= n => it[s] = jt[s]}
<1>0. /\ it = [s \in SUBSET S |-> IF s = {} THEN 0 ELSE v[Chosen(s)] + it[s \ {Chosen(s)}]]
      /\ jt = [s \in SUBSET T |-> IF s = {} THEN 0 ELSE v[Chosen(s)] + jt[s \ {Chosen(s)}]]
  BY DEF SetSums
<1>1. \A s \in SUBSET T : IsFiniteSet(s) /\ Cardinality(s) \in Nat /\ s \in SUBSET S
  BY FS_Subset, FS_CardinalityType
<1>2. it[{}] = jt[{}]
  BY <1>0
<1>3. 0 \in N
  <2> SUFFICES ASSUME NEW s \in SUBSET T, Cardinality(s) <= 0 PROVE s = {}
    BY <1>2
  <2>1. Cardinality(s) = 0
    BY <1>1
  <2> QED BY <1>1, <2>1, FS_EmptySet
<1>4. ASSUME NEW n \in Nat, n \in N PROVE n + 1 \in N
  <2> SUFFICES ASSUME NEW s \in SUBSET T, Cardinality(s) <= n + 1, s # {} PROVE it[s] = jt[s]
    BY <1>2
  <2> DEFINE t == s \ {Chosen(s)}
  <2>1. IsFiniteSet(T) /\ s \in SUBSET S /\ t \in SUBSET T /\ s \in SUBSET T
    BY FS_Subset
  <2>2. Cardinality(s) \in Nat /\ Cardinality(t) + 1 = Cardinality(s) /\ Cardinality(t) \in Nat
    BY <2>1, ChosenFacts
  <2>3. Cardinality(t) <= n
    BY <2>2
  <2>4. it[t] = jt[t]
    BY <1>4, <2>1, <2>3
  <2>5. it[s] = v[Chosen(s)] + it[t]
    BY <1>0, <2>1
  <2>6. jt[s] = v[Chosen(s)] + jt[t]
    BY <1>0, <2>1
  <2> QED BY <2>4, <2>5, <2>6
<1> HIDE DEF N
<1>5. Cardinality(T) \in N
  <2>1. Cardinality(T) \in Nat
    BY <1>1
  <2> QED BY <1>3, <1>4, <2>1, AllNaturals
<1>6. T \in SUBSET T /\ Cardinality(T) <= Cardinality(T)
  BY <1>1
<1> QED BY <1>5, <1>6 DEF N

\* A sum over a finite set, by any one of its elements
LEMMA SumByChosen ==
  ASSUME NEW v, NEW S, IsFiniteSet(S)
  PROVE  SumFunctionOnSet(v, S) = IF S = {} THEN 0
                                  ELSE v[Chosen(S)] + SumFunctionOnSet(v, S \ {Chosen(S)})
<1> DEFINE it == CHOOSE it : SetSums(v, S, it)
           T == S \ {Chosen(S)}
           jt == CHOOSE jt : SetSums(v, T, jt)
<1>1. IsFiniteSet(T) /\ T \in SUBSET S
  BY FS_Subset
<1>2. SetSums(v, S, it) /\ SetSums(v, T, jt)
  BY <1>1, SetSumsExist
<1>3. SumFunctionOnSet(v, S) = it[S] /\ SumFunctionOnSet(v, T) = jt[T]
  BY DEF SumFunctionOnSet, FoldFunctionOnSet, MapThenFoldSet, SetSums, Chosen
<1> HIDE DEF it, jt
<1>4. it[T] = jt[T]
  BY <1>1, <1>2, SetSumsAgree
<1>5. it[S] = IF S = {} THEN 0 ELSE v[Chosen(S)] + it[T]
  BY <1>2 DEF SetSums
<1> QED BY <1>3, <1>4, <1>5

SumOf(v, S) == SumFunctionOnSet(v, S)

\* What a sum of naturals over the finite set S is
SumFactsAt(v, S) ==
    /\ SumOf(v, S) \in Nat
    /\ \A x \in S : SumOf(v, S) = v[x] + SumOf(v, S \ {x})

LEMMA SumFacts ==
  ASSUME NEW D, NEW v \in [D -> Nat], NEW S \in SUBSET D, IsFiniteSet(S)
  PROVE  SumFactsAt(v, S) /\ SumOf(v, {}) = 0
<1> DEFINE N == {n \in Nat : \A s \in SUBSET S : Cardinality(s) <= n => SumFactsAt(v, s)}
<1>1. \A s \in SUBSET S : IsFiniteSet(s) /\ Cardinality(s) \in Nat
  BY FS_Subset, FS_CardinalityType
<1>2. SumOf(v, {}) = 0
  BY FS_EmptySet, SumByChosen DEF SumOf
<1>3. 0 \in N
  <2> SUFFICES ASSUME NEW s \in SUBSET S, Cardinality(s) <= 0 PROVE SumFactsAt(v, s)
    OBVIOUS
  <2>1. Cardinality(s) = 0
    BY <1>1
  <2>2. s = {}
    BY <1>1, <2>1, FS_EmptySet
  <2> QED BY <1>2, <2>2 DEF SumFactsAt
<1>4. ASSUME NEW n \in Nat, n \in N PROVE n + 1 \in N
  <2> SUFFICES ASSUME NEW s \in SUBSET S, Cardinality(s) <= n + 1, s # {} PROVE SumFactsAt(v, s)
    <3>1. SumFactsAt(v, {})
      BY <1>2 DEF SumFactsAt
    <3> QED BY <3>1
  <2> DEFINE c == Chosen(s)
             t == s \ {c}
  <2>1. c \in s /\ Cardinality(s) \in Nat /\ Cardinality(t) + 1 = Cardinality(s) /\ Cardinality(t) \in Nat
    BY ChosenFacts
  <2>2. SumOf(v, s) = v[c] + SumOf(v, t)
    BY <1>1, SumByChosen DEF SumOf
  <2>3. t \in SUBSET S /\ Cardinality(t) <= n
    BY <2>1
  <2> HIDE DEF c
  <2>4. SumOf(v, t) \in Nat /\ \A x \in t : SumOf(v, t) = v[x] + SumOf(v, t \ {x})
    BY <1>4, <2>3 DEF SumFactsAt
  <2>5. \A x \in s : v[x] \in Nat
    OBVIOUS
  <2>6. ASSUME NEW x \in s PROVE SumOf(v, s) = v[x] + SumOf(v, s \ {x})
    <3>1. CASE x = c
      BY <2>2, <3>1
    <3>2. CASE x # c
      <4> DEFINE u == s \ {x}
                 w == t \ {x}
      <4>1. x \in t /\ c \in u /\ u \ {c} = w /\ u \in SUBSET S /\ w \in SUBSET S
        BY <2>1, <3>2
      <4>2. Cardinality(u) + 1 = Cardinality(s) /\ Cardinality(u) \in Nat
        BY <1>1, OneLess
      <4>3. Cardinality(u) <= n
        BY <2>1, <4>2
      <4>4. Cardinality(w) <= n
        <5>1. Cardinality(w) + 1 = Cardinality(t) /\ Cardinality(w) \in Nat
          BY <1>1, <2>3, <4>1, OneLess
        <5> QED BY <2>1, <2>3, <5>1
      <4>5. SumOf(v, u) = v[c] + SumOf(v, u \ {c})
        BY <1>4, <4>1, <4>3 DEF SumFactsAt
      <4>6. SumOf(v, w) \in Nat
        BY <1>4, <4>1, <4>4 DEF SumFactsAt
      <4>7. SumOf(v, t) = v[x] + SumOf(v, w)
        BY <2>4, <4>1
      <4>8. SumOf(v, u) = v[c] + SumOf(v, w)
        BY <4>1, <4>5
      <4> HIDE DEF u, w, t
      <4> QED BY <2>1, <2>2, <2>5, <4>6, <4>7, <4>8 DEF u
    <3> QED BY <3>1, <3>2
  <2>7. SumOf(v, s) \in Nat
    BY <2>1, <2>2, <2>4, <2>5
  <2> QED BY <2>6, <2>7 DEF SumFactsAt
<1> HIDE DEF N
<1>5. Cardinality(S) \in N
  BY <1>1, <1>3, <1>4, AllNaturals
<1>6. S \in SUBSET S /\ Cardinality(S) <= Cardinality(S)
  BY <1>1
<1> QED BY <1>2, <1>5, <1>6 DEF N

\* The sum over a set and one element more
LEMMA SumOneMore ==
  ASSUME NEW D, NEW v \in [D -> Nat], NEW S \in SUBSET D, IsFiniteSet(S), NEW x \in D, x \notin S
  PROVE  SumOf(v, S \cup {x}) = SumOf(v, S) + v[x] /\ SumOf(v, S) \in Nat
<1> DEFINE T == S \cup {x}
<1>1. T \in SUBSET D /\ IsFiniteSet(T) /\ x \in T /\ T \ {x} = S
  BY FS_AddElement
<1>2. SumFactsAt(v, T) /\ SumFactsAt(v, S)
  <2> HIDE DEF T
  <2> QED BY <1>1, SumFacts
<1>3. SumOf(v, T) = v[x] + SumOf(v, T \ {x}) /\ SumOf(v, S) \in Nat
  BY <1>1, <1>2 DEF SumFactsAt
<1> DEFINE a == SumOf(v, S)
           c == v[x]
<1>4. a \in Nat /\ c \in Nat /\ SumOf(v, T) = c + a
  BY <1>1, <1>3
<1>5. SumOf(v, T) = a + c
  <2> HIDE DEF a, c
  <2> QED BY <1>4
<1> QED BY <1>4, <1>5

\* The sum over more elements is no less, and greater if one of them counts.
LEMMA SumIsMonotone ==
  ASSUME NEW D, NEW v \in [D -> Nat], NEW S \in SUBSET D, IsFiniteSet(S), NEW T \in SUBSET S
  PROVE  /\ SumOf(v, T) <= SumOf(v, S)
         /\ \A x \in S \ T : v[x] > 0 => SumOf(v, T) < SumOf(v, S)
<1> DEFINE N == {n \in Nat : \A s \in SUBSET S : Cardinality(s \ T) <= n /\ T \in SUBSET s
                                => SumOf(v, T) <= SumOf(v, s)}
<1>1. \A s \in SUBSET S : /\ IsFiniteSet(s) /\ SumOf(v, s) \in Nat
                          /\ \A x \in s : SumOf(v, s) = v[x] + SumOf(v, s \ {x})
  <2> SUFFICES ASSUME NEW s \in SUBSET S
               PROVE  /\ IsFiniteSet(s) /\ SumOf(v, s) \in Nat
                      /\ \A x \in s : SumOf(v, s) = v[x] + SumOf(v, s \ {x})
    OBVIOUS
  <2>1. IsFiniteSet(s) /\ s \in SUBSET D
    BY FS_Subset
  <2>2. SumFactsAt(v, s)
    BY <2>1, SumFacts
  <2> QED BY <2>1, <2>2 DEF SumFactsAt
<1>2. \A s \in SUBSET S : IsFiniteSet(s \ T) /\ Cardinality(s \ T) \in Nat
  BY <1>1, FS_Subset, FS_CardinalityType
<1>3. 0 \in N
  <2> SUFFICES ASSUME NEW s \in SUBSET S, Cardinality(s \ T) <= 0, T \in SUBSET s
               PROVE  SumOf(v, T) <= SumOf(v, s)
    OBVIOUS
  <2>1. Cardinality(s \ T) = 0
    BY <1>2
  <2>2. s \ T = {}
    BY <1>2, <2>1, FS_EmptySet
  <2>3. s = T
    BY <2>2
  <2> QED BY <1>1, <2>3
<1>4. ASSUME NEW n \in Nat, n \in N PROVE n + 1 \in N
  <2> SUFFICES ASSUME NEW s \in SUBSET S, Cardinality(s \ T) <= n + 1, T \in SUBSET s
               PROVE  SumOf(v, T) <= SumOf(v, s)
    OBVIOUS
  <2>1. CASE s \ T = {}
    <3>1. s = T
      BY <2>1
    <3> QED BY <1>1, <3>1
  <2>2. CASE s \ T # {}
    <3>1. PICK x \in s \ T : TRUE
      BY <2>2
    <3> DEFINE u == s \ {x}
    <3>2. u \in SUBSET S /\ T \in SUBSET u /\ u \ T = (s \ T) \ {x} /\ x \in s
      BY <3>1
    <3>3. Cardinality((s \ T) \ {x}) + 1 = Cardinality(s \ T) /\ Cardinality((s \ T) \ {x}) \in Nat
      BY <1>2, <3>1, OneLess
    <3>4. Cardinality(u \ T) <= n
      BY <1>2, <3>2, <3>3
    <3>5. SumOf(v, T) <= SumOf(v, u)
      BY <1>4, <3>2, <3>4
    <3>6. SumOf(v, s) = v[x] + SumOf(v, u) /\ SumOf(v, u) \in Nat /\ SumOf(v, T) \in Nat
      BY <1>1, <3>2
    <3>7. v[x] \in Nat
      BY <3>2
    <3> HIDE DEF u
    <3> QED BY <3>5, <3>6, <3>7
  <2> QED BY <2>1, <2>2
<1> HIDE DEF N
<1>5. \A s \in SUBSET S : T \in SUBSET s => SumOf(v, T) <= SumOf(v, s)
  <2> SUFFICES ASSUME NEW s \in SUBSET S, T \in SUBSET s PROVE SumOf(v, T) <= SumOf(v, s)
    OBVIOUS
  <2>1. Cardinality(s \ T) \in N
    BY <1>2, <1>3, <1>4, AllNaturals
  <2>2. Cardinality(s \ T) <= Cardinality(s \ T)
    BY <1>2
  <2> QED BY <2>1, <2>2 DEF N
<1>6. ASSUME NEW x \in S \ T, v[x] > 0 PROVE SumOf(v, T) < SumOf(v, S)
  <2> DEFINE u == S \ {x}
  <2>1. SumOf(v, T) <= SumOf(v, u)
    BY <1>5
  <2>2. SumOf(v, S) = v[x] + SumOf(v, u) /\ SumOf(v, u) \in Nat /\ SumOf(v, T) \in Nat
    BY <1>1
  <2>3. v[x] \in Nat
    OBVIOUS
  <2> HIDE DEF u
  <2> QED BY <1>6, <2>1, <2>2, <2>3
<1> QED BY <1>5, <1>6

\* h gives every place of K, of those of u, another name, under which v counts
\* the same.
Renames(h, K, D, u, v) ==
    /\ IsFiniteSet(K) /\ u \in [DOMAIN u -> Nat] /\ v \in [D -> Nat]
    /\ K \in SUBSET DOMAIN u /\ h \in [K -> D]
    /\ \A i, j \in K : h[i] = h[j] => i = j
    /\ \A k \in K : u[k] = v[h[k]]
ImageOf(h, T) == {h[k] : k \in T}

\* A sum does not depend on how the elements are named.
LEMMA SumRenamed ==
  ASSUME NEW h, NEW K, NEW D, NEW u, NEW v, Renames(h, K, D, u, v), NEW T \in SUBSET K
  PROVE  SumOf(u, T) = SumOf(v, ImageOf(h, T))
<1> DEFINE E == DOMAIN u
<1>0. /\ IsFiniteSet(K) /\ u \in [E -> Nat] /\ v \in [D -> Nat]
      /\ K \in SUBSET E /\ h \in [K -> D]
      /\ \A i, j \in K : h[i] = h[j] => i = j
      /\ \A k \in K : u[k] = v[h[k]]
  BY DEF Renames
<1> HIDE DEF E
<1> DEFINE Im(s) == {h[k] : k \in s}
           N == {n \in Nat : \A s \in SUBSET K : Cardinality(s) <= n => SumOf(u, s) = SumOf(v, Im(s))}
<1>1. \A s \in SUBSET K : IsFiniteSet(s) /\ Cardinality(s) \in Nat
  BY <1>0, FS_Subset, FS_CardinalityType
<1>2. \A s \in SUBSET K : Im(s) \in SUBSET D /\ IsFiniteSet(Im(s))
  <2> SUFFICES ASSUME NEW s \in SUBSET K PROVE Im(s) \in SUBSET D /\ IsFiniteSet(Im(s))
    BY <1>0
  <2>1. Im(s) \in SUBSET D
    BY <1>0
  <2> DEFINE f == [k \in s |-> h[k]]
             I == Im(s)
  <2>2. f \in Surjection(s, I)
    BY <1>0 DEF Surjection
  <2> HIDE DEF f, I
  <2>3. IsFiniteSet(I)
    BY <1>0, <1>1, <2>2, FS_Surjection
  <2> QED BY <1>0, <2>1, <2>3 DEF I
<1>3. 0 \in N
  <2> SUFFICES ASSUME NEW s \in SUBSET K, Cardinality(s) <= 0 PROVE SumOf(u, s) = SumOf(v, Im(s))
    BY <1>0
  <2>1. Cardinality(s) = 0
    BY <1>0, <1>1
  <2>2. s = {} /\ Im(s) = {}
    BY <1>0, <1>1, <2>1, FS_EmptySet
  <2>3. SumOf(u, {}) = 0 /\ SumOf(v, {}) = 0
    BY <1>0, FS_EmptySet, SumByChosen DEF SumOf
  <2> HIDE DEF Im
  <2> QED BY <1>0, <2>2, <2>3
<1>4. ASSUME NEW n \in Nat, n \in N PROVE n + 1 \in N
  <2> SUFFICES ASSUME NEW s \in SUBSET K, Cardinality(s) <= n + 1
               PROVE  SumOf(u, s) = SumOf(v, Im(s))
    BY <1>0
  <2>1. CASE s = {}
    <3>1. Cardinality(s) <= n
      BY <1>0, <2>1, FS_EmptySet
    <3> QED BY <1>0, <1>4, <3>1
  <2>2. CASE s # {}
    <3>1. PICK x \in s : TRUE
      BY <1>0, <2>2
    <3> DEFINE t == s \ {x}
    <3>2. Cardinality(t) + 1 = Cardinality(s) /\ Cardinality(t) \in Nat /\ IsFiniteSet(t)
      BY <1>0, <1>1, OneLess
    <3>3. t \in SUBSET K /\ Cardinality(t) <= n
      BY <1>0, <1>1, <3>2
    <3>4. SumOf(u, t) = SumOf(v, Im(t))
      BY <1>0, <1>4, <3>3
    <3>5. h[x] \in D /\ h[x] \notin Im(t) /\ Im(s) = Im(t) \cup {h[x]} /\ s = t \cup {x} /\ x \notin t
      BY <1>0
    <3>6. IsFiniteSet(Im(t)) /\ Im(t) \in SUBSET D
      BY <1>0, <1>2, <3>3
    <3> HIDE DEF Im, t
    <3> DEFINE I == Im(t)
               y == h[x]
    <3>7. IsFiniteSet(I) /\ I \in SUBSET D /\ y \in D /\ y \notin I
      BY <1>0, <3>5, <3>6
    <3> HIDE DEF I, y
    <3>8. SumOf(v, I \cup {y}) = SumOf(v, I) + v[y]
      BY <1>0, <3>7, SumOneMore
    <3>9. SumOf(u, t \cup {x}) = SumOf(u, t) + u[x]
      <4>1. x \in K
        BY <1>0
      <4> QED BY <1>0, <3>2, <3>3, <3>5, <4>1, SumOneMore
    <3>10. x \in K
      BY <1>0
    <3> QED BY <1>0, <3>4, <3>5, <3>8, <3>9, <3>10 DEF I, y
  <2> QED BY <1>0, <2>1, <2>2
<1> HIDE DEF N
<1>5. Cardinality(T) \in N
  BY <1>0, <1>1, <1>3, <1>4, AllNaturals
<1>6. T \in SUBSET K /\ Cardinality(T) <= Cardinality(T)
  BY <1>0, <1>1
<1> QED BY <1>0, <1>5, <1>6 DEF N, ImageOf

\* The sum over some elements less, each of which counts one
LEMMA SumWithoutOnes ==
  ASSUME NEW D, NEW v \in [D -> Nat], NEW S \in SUBSET D, IsFiniteSet(S), NEW H \in SUBSET S,
         \A x \in H : v[x] = 1
  PROVE  SumOf(v, S) = SumOf(v, S \ H) + Cardinality(H)
<1> DEFINE N == {n \in Nat : \A h \in SUBSET H : Cardinality(h) <= n =>
                                SumOf(v, S) = SumOf(v, S \ h) + Cardinality(h)}
<1>0. IsFiniteSet(H)
  BY FS_Subset
<1>1. \A h \in SUBSET H : IsFiniteSet(h) /\ Cardinality(h) \in Nat
  BY <1>0, FS_Subset, FS_CardinalityType
<1>2. 0 \in N
  <2> SUFFICES ASSUME NEW h \in SUBSET H, Cardinality(h) <= 0
               PROVE  SumOf(v, S) = SumOf(v, S \ h) + Cardinality(h)
    OBVIOUS
  <2>1. Cardinality(h) = 0
    BY <1>1
  <2>2. h = {}
    BY <1>1, <2>1, FS_EmptySet
  <2>3. S \ h = S
    BY <2>2
  <2>4. SumOf(v, S) \in Nat
    BY SumFacts DEF SumFactsAt
  <2> QED BY <2>1, <2>3, <2>4
<1>3. ASSUME NEW n \in Nat, n \in N PROVE n + 1 \in N
  <2> SUFFICES ASSUME NEW h \in SUBSET H, Cardinality(h) <= n + 1
               PROVE  SumOf(v, S) = SumOf(v, S \ h) + Cardinality(h)
    OBVIOUS
  <2>1. CASE h = {}
    <3>1. Cardinality(h) <= n
      BY <2>1, FS_EmptySet
    <3> QED BY <1>3, <3>1
  <2>2. CASE h # {}
    <3>1. PICK x \in h : TRUE
      BY <2>2
    <3> DEFINE g == h \ {x}
               A == S \ h
    <3>2. Cardinality(g) + 1 = Cardinality(h) /\ Cardinality(g) \in Nat
      BY <1>1, OneLess
    <3>3. g \in SUBSET H /\ Cardinality(g) <= n
      BY <1>1, <3>2
    <3>4. SumOf(v, S) = SumOf(v, S \ g) + Cardinality(g)
      BY <1>3, <3>3
    <3>5. S \ g = A \cup {x} /\ x \notin A /\ x \in D /\ A \in SUBSET D /\ v[x] = 1
      OBVIOUS
    <3>6. IsFiniteSet(A)
      BY FS_Subset
    <3> HIDE DEF A
    <3>7. SumOf(v, A \cup {x}) = SumOf(v, A) + v[x] /\ SumOf(v, A) \in Nat
      BY <3>5, <3>6, SumOneMore
    <3> DEFINE a == SumOf(v, A)
               c == Cardinality(g)
    <3>8. a \in Nat /\ c \in Nat /\ SumOf(v, S) = (a + 1) + c /\ Cardinality(h) = c + 1
      BY <3>2, <3>4, <3>5, <3>7
    <3>9. SumOf(v, S) = a + (c + 1)
      <4> HIDE DEF a, c
      <4> QED BY <3>8
    <3> QED BY <3>8, <3>9 DEF A
  <2> QED BY <2>1, <2>2
<1> HIDE DEF N
<1>4. Cardinality(H) \in N
  BY <1>1, <1>2, <1>3, AllNaturals
<1>5. H \in SUBSET H /\ Cardinality(H) <= Cardinality(H)
  BY <1>1
<1> QED BY <1>4, <1>5 DEF N

\* A set of places that holds every place before its own is an initial segment.
LEMMA InitialSegment ==
  ASSUME NEW n \in Nat, NEW S \in SUBSET (1..n), \A i \in 1..n, j \in S : i <= j => i \in S
  PROVE  Cardinality(S) \in 0..n /\ S = 1..Cardinality(S)
<1>1. CASE S = {}
  <2>1. Cardinality(S) = 0
    BY <1>1, FS_EmptySet
  <2> QED BY <1>1, <2>1
<1>2. CASE S # {}
  <2> DEFINE m == Max(S)
  <2>1. m \in S /\ \A y \in S : y <= m
    BY <1>2, GreatestElement
  <2> HIDE DEF m
  <2>2. m \in 1..n /\ S = 1..m
    <3>1. m \in 1..n
      BY <2>1
    <3>2. \A i \in 1..m : i \in 1..n /\ i <= m
      BY <3>1
    <3>3. \A y \in S : y \in 1..m
      BY <2>1, <3>1
    <3> QED BY <2>1, <3>1, <3>2, <3>3
  <2>3. Cardinality(1..m) = m
    <3>1. m \in Int /\ 1 \in Int /\ ~(1 > m) /\ m - 1 + 1 = m
      BY <2>2
    <3>2. Cardinality(1..m) = IF 1 > m THEN 0 ELSE m - 1 + 1
      BY <3>1, FS_Interval
    <3> QED BY <3>1, <3>2
  <2>4. Cardinality(S) = m
    BY <2>2, <2>3
  <2> QED BY <2>2, <2>4
<1> QED BY <1>1, <1>2

(***************************************************************************)
(* Places: what an operation does with the elements it leaves alone.        *)
(***************************************************************************)

\* h takes the places K of the list m to the places J of l, in order, where the
\* same elements are.
Renumbers(h, m, K, l, J) ==
    /\ h \in [K -> J]
    /\ \A i, j \in K : h[i] = h[j] => i = j
    /\ \A i, j \in K : i < j => h[i] < h[j]
    /\ \A j \in J : \E k \in K : h[k] = j
    /\ \A k \in K : m[k] = l[h[k]]

Renumbered(m, K, l, J) == \E h : Renumbers(h, m, K, l, J)

\* All places but the new one are those of the old list.
LEMMA InsertRenumbers ==
  ASSUME NEW S, NEW l \in Seq(S), NEW b \in S, NEW p \in 1..(Len(l) + 1),
         NEW K, K = DOMAIN InsertAt(l, p, b) \ {p}
  PROVE  Renumbered(InsertAt(l, p, b), K, l, DOMAIN l)
<1> DEFINE m == InsertAt(l, p, b)
           n == Len(l)
           h == [k \in K |-> IF k < p THEN k ELSE k - 1]
<1>1. n \in Nat /\ DOMAIN l = 1..n /\ p \in Nat /\ p >= 1 /\ p <= n + 1
  OBVIOUS
<1>2. /\ m \in Seq(S) /\ Len(m) = n + 1 /\ m[p] = b
      /\ \A k \in 1..(p - 1) : m[k] = l[k]
      /\ \A k \in p..n : m[k + 1] = l[k]
  <2>1. l \in Seq(S)
    OBVIOUS
  <2>2. /\ InsertAt(l, p, b) \in Seq(S)
        /\ Len(InsertAt(l, p, b)) = Len(l) + 1
        /\ \A k \in 1..(p - 1) : InsertAt(l, p, b)[k] = l[k]
        /\ InsertAt(l, p, b)[p] = b
        /\ \A k \in p..Len(l) : InsertAt(l, p, b)[k + 1] = l[k]
    BY <2>1, InsertAtFacts
  <2> QED BY <2>2
<1>3. K = (1..(n + 1)) \ {p}
  <2>1. DOMAIN m = 1..(n + 1)
    BY <1>2
  <2> QED BY <2>1
<1> HIDE DEF m, n
<1>4. Renumbers(h, m, K, l, DOMAIN l)
  <2>1. h \in [K -> DOMAIN l]
    BY <1>1, <1>3
  <2>2. \A i, j \in K : h[i] = h[j] => i = j
    BY <1>1, <1>3
  <2>3. \A j \in DOMAIN l : \E k \in K : h[k] = j
    <3> TAKE j \in DOMAIN l
    <3>1. CASE j < p
      <4>1. j \in K /\ h[j] = j
        BY <1>1, <1>3, <3>1
      <4> QED BY <4>1
    <3>2. CASE ~(j < p)
      <4>1. j + 1 \in K /\ ~(j + 1 < p) /\ j + 1 - 1 = j
        BY <1>1, <1>3, <3>2
      <4>2. h[j + 1] = j
        BY <4>1
      <4> QED BY <4>1, <4>2
    <3> QED BY <3>1, <3>2
  <2>4. \A k \in K : m[k] = l[h[k]]
    <3> TAKE k \in K
    <3>1. CASE k < p
      <4>1. k \in 1..(p - 1) /\ h[k] = k
        BY <1>1, <1>3, <3>1
      <4> QED BY <1>2, <4>1
    <3>2. CASE ~(k < p)
      <4>1. k - 1 \in p..n /\ (k - 1) + 1 = k /\ h[k] = k - 1
        BY <1>1, <1>3, <3>2
      <4> QED BY <1>2, <4>1
    <3> QED BY <3>1, <3>2
  <2>5. \A i, j \in K : i < j => h[i] < h[j]
    BY <1>1, <1>3
  <2> HIDE DEF h
  <2> QED BY <2>1, <2>2, <2>3, <2>4, <2>5 DEF Renumbers
<1> QED BY <1>4 DEF Renumbered, m

\* The places of a list without its element at p are the others of the old list.
LEMMA RemoveRenumbers ==
  ASSUME NEW S, NEW l \in Seq(S), NEW p \in DOMAIN l, NEW J, J = DOMAIN l \ {p}
  PROVE  Renumbered(RemoveAt(l, p), DOMAIN RemoveAt(l, p), l, J)
<1> DEFINE m == RemoveAt(l, p)
           n == Len(l)
           K == 1..(n - 1)
           h == [k \in K |-> IF k < p THEN k ELSE k + 1]
<1>1. n \in Nat /\ DOMAIN l = 1..n /\ p \in Nat /\ p >= 1 /\ p <= n /\ J = (1..n) \ {p}
  OBVIOUS
<1>2. /\ m \in Seq(S) /\ Len(m) = n - 1
      /\ \A k \in 1..(p - 1) : m[k] = l[k]
      /\ \A k \in (p + 1)..n : m[k - 1] = l[k]
  <2>1. p \in 1..Len(l)
    BY <1>1
  <2> QED BY <2>1, RemoveAtFacts
<1>3. DOMAIN m = K
  BY <1>2
<1> HIDE DEF m, n
<1>4. Renumbers(h, m, K, l, J)
  <2>1. h \in [K -> J]
    BY <1>1
  <2>2. \A i, j \in K : h[i] = h[j] => i = j
    BY <1>1
  <2>3. \A j \in J : \E k \in K : h[k] = j
    <3> TAKE j \in J
    <3>1. CASE j < p
      <4>1. j \in K /\ h[j] = j
        BY <1>1, <3>1
      <4> QED BY <4>1
    <3>2. CASE ~(j < p)
      <4>1. j - 1 \in K /\ ~(j - 1 < p) /\ j - 1 + 1 = j
        BY <1>1, <3>2
      <4>2. h[j - 1] = j
        BY <4>1
      <4> QED BY <4>1, <4>2
    <3> QED BY <3>1, <3>2
  <2>4. \A k \in K : m[k] = l[h[k]]
    <3> TAKE k \in K
    <3>1. CASE k < p
      <4>1. k \in 1..(p - 1) /\ h[k] = k
        BY <1>1, <3>1
      <4> QED BY <1>2, <4>1
    <3>2. CASE ~(k < p)
      <4>1. k + 1 \in (p + 1)..n /\ (k + 1) - 1 = k /\ h[k] = k + 1
        BY <1>1, <3>2
      <4> QED BY <1>2, <4>1
    <3> QED BY <3>1, <3>2
  <2>5. \A i, j \in K : i < j => h[i] < h[j]
    BY <1>1
  <2> HIDE DEF h, K
  <2> QED BY <2>1, <2>2, <2>3, <2>4, <2>5 DEF Renumbers
<1> HIDE DEF h, K
<1>5. Renumbers(h, m, DOMAIN m, l, J)
  BY <1>3, <1>4
<1> QED BY <1>5 DEF Renumbered, m

\* All places but the one where e was put are those of the old list.
LEMMA ReplaceRenumbers ==
  ASSUME NEW l, NEW p, NEW e, NEW K, K = DOMAIN l \ {p}, NEW m, m = [l EXCEPT ![p] = e]
  PROVE  Renumbered(m, K, l, K)
<1> DEFINE h == [k \in K |-> k]
<1>1. Renumbers(h, m, K, l, K)
  BY DEF Renumbers
<1> QED BY <1>1 DEF Renumbered

\* A selection holds the elements at the places selected.
LEMMA SelectRenumbers ==
  ASSUME NEW S, NEW l \in Seq(S), NEW K \in SUBSET DOMAIN l
  PROVE  Renumbered(Selected(l, K), DOMAIN Selected(l, K), l, K)
<1> DEFINE m == Selected(l, K)
<1>1. l \in Seq(S) /\ Len(l) \in Nat /\ DOMAIN l = 1..Len(l) /\ K \in SUBSET Nat
  OBVIOUS
<1>2. PICK f \in [1..Cardinality(K) -> K] :
          /\ Cardinality(K) \in Nat /\ Len(m) = Cardinality(K)
          /\ \A i \in 1..Cardinality(K) : m[i] = l[f[i]]
          /\ \A i, j \in 1..Cardinality(K) : i < j => f[i] < f[j]
          /\ \A j \in K : \E i \in 1..Cardinality(K) : f[i] = j
  BY SelectedPlaces
<1>3. m \in Seq(S)
  BY SelectedFacts
<1> HIDE DEF m
<1>4. DOMAIN m = 1..Cardinality(K)
  BY <1>2, <1>3
<1>5. ASSUME NEW i \in DOMAIN m, NEW j \in DOMAIN m, f[i] = f[j] PROVE i = j
  <2>1. i \in 1..Cardinality(K) /\ j \in 1..Cardinality(K)
    BY <1>4, <1>5
  <2>2. f[i] \in Nat /\ f[j] \in Nat
    BY <1>1, <1>2, <2>1
  <2>3. i < j => f[i] < f[j]
    BY <1>2, <2>1
  <2>4. j < i => f[j] < f[i]
    BY <1>2, <2>1
  <2>5. ~(i < j) /\ ~(j < i)
    BY <1>5, <2>2, <2>3, <2>4
  <2>6. i \in Int /\ j \in Int
    BY <2>1
  <2> QED BY <2>5, <2>6
<1>6. \A i, j \in DOMAIN m : i < j => f[i] < f[j]
  BY <1>2, <1>4
<1>7. Renumbers(f, m, DOMAIN m, l, K)
  BY <1>2, <1>4, <1>5, <1>6 DEF Renumbers
<1> QED BY <1>7 DEF Renumbered, m
=============================================================================
