-------------------------- MODULE ProcessFlowProofs --------------------------
(***************************************************************************)
(* The processors of the process-flow simulator: what they run, where their  *)
(* events are, and that whoever waits for a processor or for a request is    *)
(* not forgotten.                                                           *)
(***************************************************************************)
EXTENDS ProcessFlow, ListProofs

(***************************************************************************)
(* What the operators on the event queue do to the events in it: which are  *)
(* pending afterwards, and that none is in the queue twice.                 *)
(***************************************************************************)
Agendas(E) == {q \in [soon : Seq(E), later : SUBSET E] : IsFiniteSet(q.later)}

\* The event is in the queue once or not at all.
AtMostOnce(q, e) ==
    /\ e \in q.later => \A i \in DOMAIN q.soon : q.soon[i] # e
    /\ \A i, j \in DOMAIN q.soon : q.soon[i] = e /\ q.soon[j] = e => i = j

\* The agenda by its parts
LEMMA AgendaParts ==
  ASSUME NEW E, NEW q \in Agendas(E)
  PROVE  /\ q.soon \in Seq(E) /\ q.later \in SUBSET E /\ IsFiniteSet(q.later)
         /\ q = [soon |-> q.soon, later |-> q.later]
         /\ DOMAIN q.soon = 1..Len(q.soon) /\ Len(q.soon) \in Nat
BY DEF Agendas

LEMMA AgendaMade ==
  ASSUME NEW E, NEW s \in Seq(E), NEW L \in SUBSET E, IsFiniteSet(L)
  PROVE  [soon |-> s, later |-> L] \in Agendas(E)
BY DEF Agendas

\* addtointq adds the event and no other, once if it was not there.
LEMMA PutFacts ==
  ASSUME NEW E, NEW q \in Agendas(E), NEW e \in E, NEW delay
  PROVE  /\ Put(q, e, delay) \in Agendas(E)
         /\ \A x : Pending(Put(q, e, delay), x) <=> (x = e \/ Pending(q, x))
         /\ \A x : AtMostOnce(q, x) /\ (x # e \/ ~Pending(q, x)) => AtMostOnce(Put(q, e, delay), x)
         /\ delay = 0 => Put(q, e, delay).later = q.later
         /\ Put(q, e, delay).later \subseteq q.later \cup {e}
<1> DEFINE n == Len(q.soon)
           a == Append(q.soon, e)
<1>0. /\ q.soon \in Seq(E) /\ q.later \in SUBSET E /\ IsFiniteSet(q.later)
      /\ q = [soon |-> q.soon, later |-> q.later]
      /\ DOMAIN q.soon = 1..n /\ n \in Nat
  BY AgendaParts
<1>1. CASE delay = 0
  <2>1. Put(q, e, delay) = [soon |-> a, later |-> q.later]
    BY <1>0, <1>1 DEF Put
  <2>2. a \in Seq(E) /\ DOMAIN a = 1..n + 1 /\ a[n + 1] = e /\ \A i \in 1..n : a[i] = q.soon[i]
    BY <1>0
  <2> HIDE DEF a, n
  <2>3. [soon |-> a, later |-> q.later] \in Agendas(E)
    BY <1>0, <2>2, AgendaMade
  <2>4. \A x : (\E i \in DOMAIN a : a[i] = x) <=> (x = e \/ \E i \in DOMAIN q.soon : q.soon[i] = x)
    <3>1. \A i \in 1..n + 1 : i = n + 1 \/ i \in 1..n
      BY <1>0
    <3>2. n + 1 \in 1..n + 1 /\ \A i \in 1..n : i \in 1..n + 1
      BY <1>0
    <3> QED BY <1>0, <2>2, <3>1, <3>2
  <2>5. ASSUME NEW x, AtMostOnce(q, x), x # e \/ ~Pending(q, x)
        PROVE  AtMostOnce([soon |-> a, later |-> q.later], x)
    <3>1. \A i \in 1..n + 1 : i = n + 1 \/ i \in 1..n
      BY <1>0
    <3>2. x \in q.later => \A i \in DOMAIN a : a[i] # x
      BY <1>0, <2>2, <2>5, <3>1 DEF AtMostOnce, Pending
    <3>3. ASSUME NEW i \in DOMAIN a, NEW j \in DOMAIN a, a[i] = x, a[j] = x
          PROVE  i = j
      BY <1>0, <2>2, <2>5, <3>1, <3>3 DEF AtMostOnce, Pending
    <3> QED BY <3>2, <3>3 DEF AtMostOnce
  <2> QED BY <1>1, <2>1, <2>3, <2>4, <2>5 DEF Pending
<1>2. CASE delay # 0
  <2>1. Put(q, e, delay) = [soon |-> q.soon, later |-> q.later \cup {e}]
    BY <1>0, <1>2 DEF Put
  <2>2. IsFiniteSet(q.later \cup {e})
    BY <1>0, FS_AddElement
  <2>3. [soon |-> q.soon, later |-> q.later \cup {e}] \in Agendas(E)
    BY <1>0, <2>2, AgendaMade
  <2> QED BY <1>2, <2>1, <2>3 DEF Pending, AtMostOnce
<1> QED BY <1>1, <1>2

\* removefromintq takes the event out and leaves the others where they are.
LEMMA CancelFacts ==
  ASSUME NEW E, NEW q \in Agendas(E), NEW e, Pending(q, e), AtMostOnce(q, e)
  PROVE  /\ Cancel(q, e) \in Agendas(E)
         /\ \A x : Pending(Cancel(q, e), x) <=> (x # e /\ Pending(q, x))
         /\ \A x : AtMostOnce(q, x) => AtMostOnce(Cancel(q, e), x)
         /\ Cancel(q, e).later = q.later \ {e}
<1> DEFINE n == Len(q.soon)
           k == CHOOSE i \in DOMAIN q.soon : q.soon[i] = e
           a == RemoveAt(q.soon, k)
<1>0. /\ q.soon \in Seq(E) /\ q.later \in SUBSET E /\ IsFiniteSet(q.later)
      /\ q = [soon |-> q.soon, later |-> q.later]
      /\ DOMAIN q.soon = 1..n /\ n \in Nat
  BY AgendaParts
<1>1. CASE e \in q.later
  <2>1. Cancel(q, e) = [soon |-> q.soon, later |-> q.later \ {e}]
    BY <1>0, <1>1 DEF Cancel
  <2>2. IsFiniteSet(q.later \ {e})
    BY <1>0, FS_RemoveElement
  <2>3. [soon |-> q.soon, later |-> q.later \ {e}] \in Agendas(E)
    BY <1>0, <2>2, AgendaMade
  <2> QED BY <1>1, <2>1, <2>3 DEF Pending, AtMostOnce
<1>2. CASE e \notin q.later
  <2>1. Cancel(q, e) = [soon |-> a, later |-> q.later]
    BY <1>0, <1>2 DEF Cancel
  <2>2. k \in 1..n /\ q.soon[k] = e
    BY <1>0, <1>2 DEF Pending
  <2>3. a = SubSeq(q.soon, 1, k - 1) \o SubSeq(q.soon, k + 1, n)
    BY DEF RemoveAt
  <2>a. k \in Nat /\ k - 1 \in Nat /\ k >= 1 /\ k <= n
    BY <1>0, <2>2
  <2>b. q.soon[k] = e
    BY <2>2
  <2> HIDE DEF a, k, n
  <2>4. /\ a \in Seq(E) /\ DOMAIN a = 1..n - 1
        /\ \A i \in 1..n - 1 : a[i] = q.soon[IF i < k THEN i ELSE i + 1]
    <3> DEFINE u == SubSeq(q.soon, 1, k - 1)
               v == SubSeq(q.soon, k + 1, n)
    <3>1. u \in Seq(E) /\ Len(u) = k - 1 /\ \A i \in 1..k - 1 : u[i] = q.soon[i]
      BY <1>0, <2>a
    <3>2. v \in Seq(E) /\ Len(v) = n - k /\ \A i \in 1..n - k : v[i] = q.soon[i + k]
      <4>1. CASE k = n
        BY <1>0, <2>a, <4>1 DEF n
      <4>2. CASE k < n
        BY <1>0, <2>a, <4>2 DEF n
      <4> QED BY <1>0, <2>a, <4>1, <4>2
    <3> HIDE DEF u, v
    <3>3. a = u \o v
      BY <2>3 DEF u, v
    <3>4. u \o v \in Seq(E) /\ Len(u \o v) = n - 1
      <4>1. u \o v \in Seq(E) /\ Len(u \o v) = Len(u) + Len(v)
        BY <3>1, <3>2
      <4>2. (k - 1) + (n - k) = n - 1
        BY <1>0, <2>a
      <4> QED BY <3>1, <3>2, <4>1, <4>2
    <3>5. ASSUME NEW i \in 1..n - 1
          PROVE  (u \o v)[i] = q.soon[IF i < k THEN i ELSE i + 1]
      <4>1. CASE i < k
        BY <1>0, <2>a, <3>1, <3>2, <4>1
      <4>2. CASE ~(i < k)
        <5>1. (u \o v)[i] = v[i - (k - 1)] /\ i - (k - 1) \in 1..n - k
          BY <1>0, <2>a, <3>1, <3>2, <4>2
        <5>2. v[i - (k - 1)] = q.soon[(i - (k - 1)) + k]
          BY <3>2, <5>1
        <5>3. (i - (k - 1)) + k = i + 1
          BY <2>a
        <5> QED BY <4>2, <5>1, <5>2, <5>3
      <4> QED BY <4>1, <4>2
    <3>6. DOMAIN (u \o v) = 1..n - 1
      BY <3>4
    <3> QED BY <3>3, <3>4, <3>5, <3>6
  <2> DEFINE old(i) == IF i < k THEN i ELSE i + 1
  <2>5. \A i \in 1..n - 1 : old(i) \in 1..n /\ old(i) # k
    BY <1>0, <2>a
  <2>6. \A j \in 1..n : j # k => \E i \in 1..n - 1 : old(i) = j
    <3> SUFFICES ASSUME NEW j \in 1..n, j # k PROVE \E i \in 1..n - 1 : old(i) = j
      OBVIOUS
    <3>1. CASE j < k
      BY <1>0, <2>a, <3>1
    <3>2. CASE j > k
      <4>1. j - 1 \in 1..n - 1 /\ old(j - 1) = j
        BY <1>0, <2>a, <3>2
      <4> QED BY <4>1
    <3> QED BY <1>0, <2>a, <3>1, <3>2
  <2>7. \A i, j \in 1..n - 1 : old(i) = old(j) => i = j
    BY <1>0, <2>a
  <2>8. \A i \in 1..n - 1 : a[i] = q.soon[old(i)]
    BY <2>4
  <2> HIDE DEF old
  <2>9. [soon |-> a, later |-> q.later] \in Agendas(E)
    BY <1>0, <2>4, AgendaMade
  <2>10. \A j \in 1..n : q.soon[j] = e => j = k
    BY <1>0, <2>a, <2>b DEF AtMostOnce
  <2>11. \A x : (\E i \in DOMAIN a : a[i] = x) <=> (x # e /\ \E j \in DOMAIN q.soon : q.soon[j] = x)
    <3> SUFFICES ASSUME NEW x
                 PROVE  (\E i \in 1..n - 1 : a[i] = x) <=> (x # e /\ \E j \in 1..n : q.soon[j] = x)
      BY <1>0, <2>4
    <3>1. ASSUME NEW i \in 1..n - 1, a[i] = x
          PROVE  x # e /\ \E j \in 1..n : q.soon[j] = x
      BY <2>5, <2>8, <2>10, <3>1
    <3>2. ASSUME NEW j \in 1..n, q.soon[j] = x, x # e
          PROVE  \E i \in 1..n - 1 : a[i] = x
      <4>1. j # k
        BY <2>b, <3>2
      <4> QED BY <2>6, <2>8, <3>2, <4>1
    <3> QED BY <3>1, <3>2
  <2>12. ASSUME NEW x, AtMostOnce(q, x)
         PROVE  AtMostOnce([soon |-> a, later |-> q.later], x)
    BY <1>0, <2>4, <2>5, <2>7, <2>8, <2>12 DEF AtMostOnce
  <2> QED BY <1>2, <2>1, <2>9, <2>11, <2>12 DEF Pending
<1> QED BY <1>1, <1>2

\* The passing of time loses no event and makes none.
LEMMA TurnFacts ==
  ASSUME NEW E, NEW q \in Agendas(E), NEW m \in Nat, NEW t \in Turns(q, m)
  PROVE  /\ t \in Agendas(E) /\ t.soon # <<>>
         /\ \A x : Pending(t, x) <=> Pending(q, x)
         /\ \A x : AtMostOnce(q, x) => AtMostOnce(t, x)
         /\ t.later \subseteq q.later
<1>0. /\ q.soon \in Seq(E) /\ q.later \in SUBSET E /\ IsFiniteSet(q.later)
  BY AgendaParts
<1>1. CASE q.soon # <<>>
  BY <1>1 DEF Turns
<1>2. CASE q.soon = <<>>
  <2>a. PICK S \in SUBSET q.later : /\ Cardinality(S) \in 1..m
                                     /\ \E s \in SetToSeqs(S) : t = [soon |-> s, later |-> q.later \ S]
    BY <1>2 DEF Turns, Advance
  <2>b. PICK s \in SetToSeqs(S) : t = [soon |-> s, later |-> q.later \ S]
    BY <2>a
  <2>1. Cardinality(S) \in 1..m /\ t = [soon |-> s, later |-> q.later \ S]
    BY <2>a, <2>b
  <2> DEFINE n == Cardinality(S)
  <2>2. IsFiniteSet(S) /\ n \in Nat /\ n >= 1
    BY <1>0, <2>1, FS_Subset
  <2>3. s \in [1..n -> S] /\ \A i, j \in 1..n : i # j => s[i] # s[j]
    BY DEF SetToSeqs
  <2>4. IsFiniteSet(1..n) /\ Cardinality(1..n) = n
    <3> HIDE DEF n
    <3>1. (IF 1 > n THEN 0 ELSE n - 1 + 1) = n /\ 1 \in Int /\ n \in Int
      BY <2>2
    <3> QED BY <3>1, FS_Interval
  <2>5. s \in Injection(1..n, S)
    BY <2>3 DEF Injection, IsInjective
  <2>6. s \in Surjection(1..n, S)
    BY <2>2, <2>4, <2>5, FS_Injection
  <2>7. \A x \in S : \E i \in 1..n : s[i] = x
    BY <2>6 DEF Surjection
  <2>8. s \in Seq(E) /\ DOMAIN s = 1..n /\ s # <<>>
    <3> HIDE DEF n
    <3>1. s \in [1..n -> E] /\ DOMAIN s = 1..n /\ 1 \in 1..n
      BY <1>0, <2>2, <2>3
    <3>2. DOMAIN <<>> # 1..n
      BY <3>1
    <3> QED BY <2>2, <3>1, <3>2
  <2>9. IsFiniteSet(q.later \ S)
    BY <1>0, FS_Difference
  <2>10. t \in Agendas(E)
    BY <1>0, <2>1, <2>8, <2>9, AgendaMade
  <2> HIDE DEF n
  <2>11. \A x : Pending(t, x) <=> Pending(q, x)
    BY <1>2, <2>1, <2>3, <2>7, <2>8 DEF Pending
  <2>12. \A x : AtMostOnce(q, x) => AtMostOnce(t, x)
    BY <1>2, <2>1, <2>3, <2>8 DEF AtMostOnce
  <2> QED BY <2>1, <2>8, <2>10, <2>11, <2>12
<1> QED BY <1>1, <1>2

\* getfromintq takes the first event out and leaves the others.
LEMMA RestFacts ==
  ASSUME NEW E, NEW t \in Agendas(E), t.soon # <<>>
  PROVE  /\ Head(t.soon) \in E /\ Rest(t) \in Agendas(E) /\ Pending(t, Head(t.soon))
         /\ \A x : Pending(Rest(t), x) => Pending(t, x)
         /\ \A x : Pending(t, x) /\ x # Head(t.soon) => Pending(Rest(t), x)
         /\ AtMostOnce(t, Head(t.soon)) => ~Pending(Rest(t), Head(t.soon))
         /\ \A x : AtMostOnce(t, x) => AtMostOnce(Rest(t), x)
         /\ Rest(t).later = t.later
<1> DEFINE n == Len(t.soon)
           a == Tail(t.soon)
<1>0. /\ t.soon \in Seq(E) /\ t.later \in SUBSET E /\ IsFiniteSet(t.later)
      /\ t = [soon |-> t.soon, later |-> t.later]
      /\ DOMAIN t.soon = 1..n /\ n \in Nat
  BY AgendaParts
<1>1. /\ n >= 1 /\ Head(t.soon) = t.soon[1] /\ a \in Seq(E) /\ DOMAIN a = 1..n - 1
      /\ \A i \in 1..n - 1 : a[i] = t.soon[i + 1]
  BY <1>0
<1>2. Rest(t) = [soon |-> a, later |-> t.later]
  BY <1>0 DEF Rest
<1> HIDE DEF n, a
<1>3. /\ 1 \in 1..n /\ \A i \in 1..n - 1 : i + 1 \in 1..n /\ i + 1 # 1
      /\ \A j \in 1..n : j # 1 => j - 1 \in 1..n - 1 /\ (j - 1) + 1 = j
      /\ \A i, j \in 1..n - 1 : i + 1 = j + 1 => i = j
  BY <1>0, <1>1
<1>4. [soon |-> a, later |-> t.later] \in Agendas(E)
  BY <1>0, <1>1, AgendaMade
<1>5. \A x : Pending(Rest(t), x) => Pending(t, x)
  BY <1>0, <1>1, <1>2, <1>3 DEF Pending
<1>6. ASSUME NEW x, Pending(t, x), x # t.soon[1]
      PROVE  Pending(Rest(t), x)
  <2>1. CASE x \in t.later
    BY <1>2, <2>1 DEF Pending
  <2>2. CASE \E j \in 1..n : t.soon[j] = x
    <3>1. PICK j \in 1..n : t.soon[j] = x
      BY <2>2
    <3>2. j # 1 /\ j - 1 \in 1..n - 1 /\ a[j - 1] = x
      BY <1>1, <1>3, <1>6, <3>1
    <3> QED BY <1>1, <1>2, <3>2 DEF Pending
  <2> QED BY <1>0, <1>6, <2>1, <2>2 DEF Pending
<1>a. Rest(t).soon = a /\ Rest(t).later = t.later
  BY <1>2
<1>7. ASSUME AtMostOnce(t, t.soon[1])
      PROVE  ~Pending(Rest(t), t.soon[1])
  <2>1. t.soon[1] \notin t.later
    BY <1>0, <1>3, <1>7 DEF AtMostOnce
  <2>a. \A j \in 1..n : t.soon[j] = t.soon[1] => j = 1
    BY <1>0, <1>3, <1>7 DEF AtMostOnce
  <2>2. ASSUME NEW i \in 1..n - 1 PROVE a[i] # t.soon[1]
    <3>1. i + 1 \in 1..n /\ i + 1 # 1 /\ a[i] = t.soon[i + 1]
      BY <1>1, <1>3
    <3> QED BY <2>a, <3>1
  <2> QED BY <1>1, <1>a, <2>1, <2>2 DEF Pending
<1>8. ASSUME NEW x, AtMostOnce(t, x)
      PROVE  AtMostOnce(Rest(t), x)
  <2>a. x \in t.later => \A j \in 1..n : t.soon[j] # x
    BY <1>0, <1>8 DEF AtMostOnce
  <2>1. x \in t.later => \A i \in 1..n - 1 : a[i] # x
    <3> SUFFICES ASSUME x \in t.later, NEW i \in 1..n - 1 PROVE a[i] # x
      OBVIOUS
    <3>1. i + 1 \in 1..n /\ a[i] = t.soon[i + 1]
      BY <1>1, <1>3
    <3> QED BY <2>a, <3>1
  <2>2. ASSUME NEW i \in 1..n - 1, NEW j \in 1..n - 1, a[i] = x, a[j] = x
        PROVE  i = j
    <3>1. i + 1 = j + 1
      BY <1>0, <1>1, <1>3, <1>8, <2>2 DEF AtMostOnce
    <3> QED BY <1>3, <3>1
  <2> QED BY <1>1, <1>a, <2>1, <2>2 DEF AtMostOnce
<1>9. t.soon[1] \in E /\ Pending(t, t.soon[1])
  BY <1>0, <1>3 DEF Pending
<1> QED BY <1>1, <1>2, <1>a, <1>4, <1>5, <1>6, <1>7, <1>8, <1>9

\* The events at the places K are added, each once if they differ.
LEMMA PutAllFacts ==
  ASSUME NEW E, NEW q \in Agendas(E), NEW s \in Seq(E), NEW K \in SUBSET DOMAIN s, NEW delay,
         \A i, j \in K : s[i] = s[j] => i = j
  PROVE  /\ PutAll(q, s, K, delay) \in Agendas(E)
         /\ \A x : Pending(PutAll(q, s, K, delay), x) <=> (Pending(q, x) \/ \E i \in K : s[i] = x)
         /\ \A x : AtMostOnce(q, x) /\ (~Pending(q, x) \/ \A i \in K : s[i] # x)
                      => AtMostOnce(PutAll(q, s, K, delay), x)
<1> DEFINE A == {i \in K : delay[i] = 0}
           B == {j \in K : delay[j] # 0}
           u == q.soon
           v == Selected(s, A)
           w == u \o v
           L == q.later \cup {s[i] : i \in B}
           a == PutAll(q, s, K, delay)
<1>1. /\ u \in Seq(E) /\ q.later \in SUBSET E /\ IsFiniteSet(q.later)
      /\ DOMAIN u = 1..Len(u) /\ Len(u) \in Nat
  BY AgendaParts
<1>2. A \in SUBSET DOMAIN s /\ B \in SUBSET DOMAIN s /\ A \cup B = K /\ A \cap B = {}
  OBVIOUS
<1>3. IsFiniteSet(L) /\ L \in SUBSET E
  <2>1. DOMAIN s = 1..Len(s) /\ Len(s) \in Nat
    OBVIOUS
  <2>2. IsFiniteSet(DOMAIN s)
    BY <2>1, FS_Interval
  <2> HIDE DEF B
  <2>3. IsFiniteSet(B)
    BY <1>2, <2>2, FS_Subset
  <2>4. IsFiniteSet({s[i] : i \in B})
    <3> DEFINE f == [i \in B |-> s[i]]
               R == {s[i] : i \in B}
    <3>1. f \in Surjection(B, R)
      BY DEF Surjection
    <3> HIDE DEF f, R
    <3>2. IsFiniteSet(R)
      BY <2>3, <3>1, FS_Surjection
    <3> QED BY <3>2 DEF R
  <2>5. {s[i] : i \in B} \in SUBSET E
    BY <1>2
  <2> QED BY <1>1, <2>4, <2>5, FS_Union
<1> HIDE DEF A, B, u
<1>4. /\ v \in Seq(E)
      /\ \A i \in DOMAIN v : \E j \in A : v[i] = s[j]
      /\ \A j \in A : \E i \in DOMAIN v : v[i] = s[j]
      /\ \A i, j \in DOMAIN v : v[i] = v[j] => i = j
  <2>1. /\ v \in Seq(E)
        /\ \A i \in DOMAIN v : \E j \in A : v[i] = s[j]
        /\ \A j \in A : \E i \in DOMAIN v : v[i] = s[j]
        /\ (\A i, j \in A : s[i] = s[j] => i = j) =>
               \A i, j \in DOMAIN v : v[i] = v[j] => i = j
    BY <1>2, SelectedFacts
  <2>2. \A i, j \in A : s[i] = s[j] => i = j
    BY <1>2
  <2> HIDE DEF v
  <2> QED BY <2>1, <2>2
<1> HIDE DEF v
<1> DEFINE m == Len(u)
           n == Len(v)
<1>5. /\ m \in Nat /\ n \in Nat /\ DOMAIN u = 1..m /\ DOMAIN v = 1..n
      /\ w \in Seq(E) /\ DOMAIN w = 1..m + n
      /\ \A i \in 1..m + n : w[i] = IF i <= m THEN u[i] ELSE v[i - m]
  BY <1>1, <1>4
<1> HIDE DEF m, n, w, L
<1>6. a = [soon |-> w, later |-> L]
  BY DEF PutAll, w, v, u, L, A, B
<1>7. a \in Agendas(E)
  BY <1>3, <1>5, <1>6, AgendaMade
<1>8. a.soon = w /\ a.later = L
  BY <1>6
<1> HIDE DEF a
<1>9. \A i \in DOMAIN w : (i \in DOMAIN u /\ w[i] = u[i]) \/ (i - m \in DOMAIN v /\ w[i] = v[i - m] /\ i \notin DOMAIN u)
  <2> SUFFICES ASSUME NEW i \in 1..m + n
               PROVE  (i \in 1..m /\ w[i] = u[i]) \/ (i - m \in 1..n /\ w[i] = v[i - m] /\ i \notin 1..m)
    BY <1>5
  <2> QED BY <1>5
<1>10. /\ \A i \in DOMAIN u : i \in DOMAIN w /\ w[i] = u[i]
       /\ \A i \in DOMAIN v : i + m \in DOMAIN w /\ w[i + m] = v[i]
  <2>1. ASSUME NEW i \in 1..m PROVE i \in 1..m + n /\ w[i] = u[i]
    BY <1>5
  <2>2. ASSUME NEW i \in 1..n PROVE i + m \in 1..m + n /\ w[i + m] = v[i]
    <3>1. i + m \in 1..m + n /\ ~(i + m <= m) /\ (i + m) - m = i
      BY <1>5
    <3> QED BY <1>5, <3>1
  <2> QED BY <1>5, <2>1, <2>2
<1>11. \A x : (\E i \in DOMAIN w : w[i] = x) <=> ((\E i \in DOMAIN u : u[i] = x) \/ \E j \in A : s[j] = x)
  <2>1. ASSUME NEW x, NEW i \in DOMAIN w, w[i] = x
        PROVE  (\E y \in DOMAIN u : u[y] = x) \/ \E j \in A : s[j] = x
    BY <1>4, <1>9, <2>1
  <2>2. ASSUME NEW x, NEW i \in DOMAIN u, u[i] = x PROVE \E y \in DOMAIN w : w[y] = x
    BY <1>10, <2>2
  <2>3. ASSUME NEW x, NEW j \in A, s[j] = x PROVE \E y \in DOMAIN w : w[y] = x
    <3>1. PICK i \in DOMAIN v : v[i] = s[j]
      BY <1>4
    <3> QED BY <1>10, <2>3, <3>1
  <2> QED BY <2>1, <2>2, <2>3
<1>12. \A x : x \in L <=> (x \in q.later \/ \E j \in B : s[j] = x)
  BY DEF L
<1>13. \A x : Pending(a, x) <=> (Pending(q, x) \/ \E i \in K : s[i] = x)
  BY <1>2, <1>8, <1>11, <1>12 DEF Pending, u
<1>14. ASSUME NEW x, AtMostOnce(q, x), \A i \in K : s[i] # x
       PROVE  AtMostOnce(a, x)
  <2>1. \A i \in DOMAIN v : v[i] # x
    BY <1>2, <1>4, <1>14
  <2>2. \A i \in DOMAIN w : w[i] = x => i \in DOMAIN u /\ u[i] = x
    BY <1>9, <2>1
  <2>3. x \in L => x \in q.later
    BY <1>2, <1>12, <1>14
  <2> QED BY <1>8, <1>14, <2>2, <2>3 DEF AtMostOnce, u
<1>15. ASSUME NEW x, ~Pending(q, x)
       PROVE  AtMostOnce(a, x)
  <2>1. x \notin q.later /\ \A i \in DOMAIN u : u[i] # x
    BY <1>15 DEF Pending, u
  <2>2. \A i \in DOMAIN w : w[i] = x => i - m \in DOMAIN v /\ v[i - m] = x
    BY <1>9, <2>1
  <2>3. x \in L => \A i \in DOMAIN w : w[i] # x
    <3> SUFFICES ASSUME x \in L, NEW i \in DOMAIN w, w[i] = x PROVE FALSE
      OBVIOUS
    <3>1. PICK j \in B : s[j] = x
      BY <1>12, <2>1
    <3>2. PICK y \in A : s[y] = x
      BY <1>4, <2>2
    <3> QED BY <1>2, <3>1, <3>2
  <2>4. ASSUME NEW i \in DOMAIN w, NEW j \in DOMAIN w, w[i] = x, w[j] = x PROVE i = j
    <3>1. i - m = j - m
      BY <1>4, <2>2, <2>4
    <3>2. i \in Int /\ j \in Int /\ m \in Int
      BY <1>5
    <3> QED BY <3>1, <3>2
  <2> QED BY <1>8, <2>3, <2>4 DEF AtMostOnce
<1> QED BY <1>7, <1>13, <1>14, <1>15 DEF a

(***************************************************************************)
(* Types.  The times of the events of processes are differences that the     *)
(* generators compute; T has those that occur.                              *)
(***************************************************************************)
FlowTypes == {"CSWITCH_EVENT", "SLEEP_EVENT", "SYNTHIO_EVENT", "IOREQ_EVENT", "IO_ACCESS_ARRIVE"}
IntrTypes == {"IO_RESPOND_TO_DEVICE", "IO_ACCESS_COMPLETE", "IO_ACCESS_ARRIVE", "WAKEUP_EVENT", "INTEND_EVENT"}

FlowEvents(T) ==
    {e \in [type : FlowTypes, time : T, arg : Int] :
        e.type = "CSWITCH_EVENT" => e.arg \in Procs \cup {Nobody}}
IdleEvents == [type : {"CSWITCH_EVENT"}, time : {0, 1}, arg : Procs \cup {Nobody}]
IntrEvents == [type : IntrTypes, time : {0}, arg : Int]
Causes     == {config.causes[i] : i \in DOMAIN config.causes}

\* A clock interrupt has nothing to do.
OnlyIntend(s) == \A j \in DOMAIN s : s[j].type = "INTEND_EVENT"

Intrs ==
    {i \in [cause : {"CLOCK"} \cup Causes, oldstate : CpuStates, events : Seq(IntrEvents)] :
        i.cause = "CLOCK" => OnlyIntend(i.events)}

CpuRecords ==
    [state : CpuStates, procp : Procs \cup {Nobody}, intrs : Seq(Intrs), idleevents : Seq(IdleEvents)]
ProcRecords(T) ==
    [events : Seq(FlowEvents(T)), stat : {"PROC_SLEEP", "PROC_RUN", "PROC_ONPROC"}, chan : Int]
ProcTables(T) == [Procs -> ProcRecords(T)]
LimitEvents(T) == [type : {"SLEEP_EVENT"}, time : T, arg : Int]
GenRecords(T) ==
    [blkno : Int, bcount : Int, devno : Devices, class : {"CRITICAL", "LIMITED", "NONE"},
     limits : Seq(LimitEvents(T))]
IoRecords == [opid : Int, devno : Devices, wanted : BOOLEAN, limited : BOOLEAN]

QueueEvents ==
    {CpuEvent(c) : c \in Cpus} \cup {ClockInterrupt}
      \cup [type : {"IO_INTERRUPT"}, arg : Int, cause : Causes]

Typed(T) ==
    /\ {0, 1} \subseteq T
    /\ config \in Configs
    /\ agenda \in Agendas(QueueEvents)
    /\ cpus \in [Cpus -> CpuRecords]
    /\ procs \in ProcTables(T)
    /\ pf_dispq \in Seq(Procs) /\ sleepqueue \in Seq(Procs)
    /\ pendiolist \in SUBSET IoRecords /\ doneiolist \in SUBSET IoRecords
    /\ gens \in [Procs -> GenRecords(T)]
    /\ synthio_iocnt \in 0..config.endiocnt
    /\ queue \in [Devices -> [waiting : SUBSET Int, out : SUBSET Int]]
    /\ idlereset \in BOOLEAN /\ stop_sim \in BOOLEAN /\ fault \in BOOLEAN

(***************************************************************************)
(* The invariant.                                                           *)
(***************************************************************************)

\* The list has an event, and its last one is the only one of the type.
EndsIn(s, type) ==
    /\ s # <<>>
    /\ \A i \in DOMAIN s : s[i].type = type <=> i = Len(s)

\* What a processor does that has no interrupt
Base(k) ==
    IF k.procp # Nobody THEN "CPU_PROCESS" ELSE IF k.idleevents # <<>> THEN "CPU_IDLE_WORK" ELSE "CPU_IDLE"

\* Only processor 1 is interrupted; each interrupt keeps what it came upon.
GoodCpu(c, k) ==
    /\ k.intrs = <<>> => k.state = Base(k)
    /\ k.intrs # <<>> =>
          /\ c = 1 /\ k.state = "CPU_INTR"
          /\ \A i \in DOMAIN k.intrs :
                k.intrs[i].oldstate = IF i < Len(k.intrs) THEN "CPU_INTR" ELSE Base(k)
    /\ \A i \in DOMAIN k.intrs : EndsIn(k.intrs[i].events, "INTEND_EVENT")

\* The processor is busy if and only if its event is in the queue, once, and
\* due at once in an interrupt.
GoodEvent(c, k, q) ==
    /\ Pending(q, CpuEvent(c)) <=> k.state # "CPU_IDLE"
    /\ AtMostOnce(q, CpuEvent(c))
    /\ k.intrs # <<>> => CpuEvent(c) \notin q.later

Running ==
    /\ \A c \in Cpus : GoodCpu(c, cpus[c]) /\ GoodEvent(c, cpus[c], agenda)
    /\ ~stop_sim => /\ synthio_iocnt < config.endiocnt
                    /\ \A p \in Procs : EndsIn(procs[p].events, "SYNTHIO_EVENT")

BaseInv == (\E T : Typed(T)) /\ Running

(***************************************************************************)
(* Lists of events.                                                         *)
(***************************************************************************)

\* What is left when the first event is taken
LEMMA EndsInTail ==
  ASSUME NEW S, NEW s \in Seq(S), NEW type, EndsIn(s, type)
  PROVE  /\ s # <<>> /\ Head(s) \in S /\ Tail(s) \in Seq(S) /\ Head(s) = s[1]
         /\ Head(s).type # type => EndsIn(Tail(s), type)
         /\ Head(s).type = type => Tail(s) = <<>>
<1> DEFINE n == Len(s)
<1>1. n \in Nat /\ DOMAIN s = 1..n /\ s # <<>> /\ n >= 1 /\ Head(s) = s[1] /\ Head(s) \in S
      /\ Tail(s) \in Seq(S) /\ Len(Tail(s)) = n - 1 /\ \A i \in 1..n - 1 : Tail(s)[i] = s[i + 1]
  BY DEF EndsIn
<1>2. \A i \in 1..n : s[i].type = type <=> i = n
  BY <1>1 DEF EndsIn
<1> DEFINE a == Tail(s)
<1>3. a \in Seq(S) /\ Len(a) = n - 1 /\ \A i \in 1..n - 1 : a[i] = s[i + 1]
  BY <1>1
<1> HIDE DEF n, a
<1>4. CASE n = 1
  <2>1. a = <<>>
    BY <1>3, <1>4
  <2>2. s[1].type = type
    BY <1>2, <1>4
  <2> QED BY <1>1, <2>1, <2>2 DEF a
<1>5. CASE n > 1
  <2>1. s[1].type # type
    BY <1>1, <1>2, <1>5
  <2>2. a # <<>>
    BY <1>1, <1>3, <1>5
  <2>3. ASSUME NEW i \in 1..n - 1 PROVE a[i].type = type <=> i = n - 1
    <3>1. i + 1 \in 1..n /\ (i + 1 = n <=> i = n - 1) /\ a[i] = s[i + 1]
      BY <1>1, <1>3
    <3> QED BY <1>2, <3>1
  <2>4. DOMAIN a = 1..n - 1
    BY <1>3
  <2>5. EndsIn(a, type)
    BY <1>3, <2>2, <2>3, <2>4 DEF EndsIn
  <2> QED BY <1>1, <2>1, <2>5 DEF a
<1> QED BY <1>1, <1>4, <1>5

\* Events put before a list do not change how it ends.
LEMMA EndsInPrefix ==
  ASSUME NEW S, NEW u \in Seq(S), NEW s \in Seq(S), NEW type, EndsIn(s, type),
         \A i \in DOMAIN u : u[i].type # type
  PROVE  u \o s \in Seq(S) /\ EndsIn(u \o s, type)
<1> DEFINE n == Len(s)  m == Len(u)  a == u \o s
<1>1. /\ n \in Nat /\ m \in Nat /\ DOMAIN s = 1..n /\ DOMAIN u = 1..m /\ n >= 1
      /\ a \in Seq(S) /\ Len(a) = m + n
      /\ \A i \in 1..m + n : a[i] = IF i <= m THEN u[i] ELSE s[i - m]
  BY DEF EndsIn
<1>2. /\ \A i \in 1..n : s[i].type = type <=> i = n
      /\ \A i \in 1..m : u[i].type # type
  BY <1>1 DEF EndsIn
<1>3. DOMAIN a = 1..m + n
  BY <1>1
<1> HIDE DEF n, m, a
<1>4. ASSUME NEW i \in 1..m + n PROVE a[i].type = type <=> i = m + n
  <2>1. CASE i <= m
    BY <1>1, <1>2, <2>1
  <2>2. CASE ~(i <= m)
    <3>1. i - m \in 1..n /\ (i - m = n <=> i = m + n) /\ a[i] = s[i - m]
      BY <1>1, <2>2
    <3> QED BY <1>2, <3>1
  <2> QED BY <2>1, <2>2
<1>5. a # <<>>
  BY <1>1
<1> QED BY <1>1, <1>3, <1>4, <1>5 DEF EndsIn, a

\* The time of the first event does not matter.
LEMMA EndsInTime ==
  ASSUME NEW S, NEW s \in Seq(S), NEW type, EndsIn(s, type), NEW t, [s[1] EXCEPT !.time = t] \in S,
         [s[1] EXCEPT !.time = t].type = s[1].type
  PROVE  [s EXCEPT ![1].time = t] \in Seq(S) /\ EndsIn([s EXCEPT ![1].time = t], type)
<1> DEFINE a == [s EXCEPT ![1].time = t]
<1>1. Len(s) \in Nat /\ DOMAIN s = 1..Len(s) /\ Len(s) >= 1 /\ 1 \in 1..Len(s)
  BY DEF EndsIn
<1>2. a \in Seq(S) /\ Len(a) = Len(s) /\ DOMAIN a = 1..Len(s)
  BY <1>1
<1>3. a[1] = [s[1] EXCEPT !.time = t] /\ \A i \in 1..Len(s) : i # 1 => a[i] = s[i]
  BY <1>1
<1>4. a # <<>>
  BY <1>1, <1>2
<1> HIDE DEF a
<1>5. \A i \in 1..Len(s) : a[i].type = s[i].type
  BY <1>1, <1>3
<1> QED BY <1>1, <1>2, <1>4, <1>5 DEF EndsIn, a

\* The list of the interrupt on top of the others
SetTop(intrs, s) == [intrs EXCEPT ![1] = [intrs[1] EXCEPT !.events = s]]

LEMMA SetTopFacts ==
  ASSUME NEW intrs \in Seq(Intrs), intrs # <<>>, NEW s \in Seq(IntrEvents),
         intrs[1].cause = "CLOCK" => OnlyIntend(s)
  PROVE  /\ SetTop(intrs, s) \in Seq(Intrs) /\ SetTop(intrs, s) # <<>>
         /\ Len(SetTop(intrs, s)) = Len(intrs) /\ DOMAIN SetTop(intrs, s) = DOMAIN intrs
         /\ 1 \in DOMAIN intrs /\ intrs[1] \in Intrs /\ Head(intrs) = intrs[1]
         /\ Head(SetTop(intrs, s)) = SetTop(intrs, s)[1]
         /\ SetTop(intrs, s)[1] = [intrs[1] EXCEPT !.events = s]
         /\ \A i \in DOMAIN intrs : i # 1 => SetTop(intrs, s)[i] = intrs[i]
         /\ \A i \in DOMAIN intrs : SetTop(intrs, s)[i].oldstate = intrs[i].oldstate
         /\ \A i \in DOMAIN intrs : SetTop(intrs, s)[i].cause = intrs[i].cause
<1> DEFINE top == [intrs[1] EXCEPT !.events = s]
           a   == [intrs EXCEPT ![1] = top]
<1>1. Len(intrs) \in Nat /\ DOMAIN intrs = 1..Len(intrs) /\ 1 \in 1..Len(intrs) /\ intrs[1] \in Intrs
      /\ Head(intrs) = intrs[1]
  OBVIOUS
<1>2. top \in Intrs /\ top.oldstate = intrs[1].oldstate /\ top.cause = intrs[1].cause
  BY <1>1 DEF Intrs
<1> HIDE DEF top
<1>3. a \in Seq(Intrs) /\ Len(a) = Len(intrs) /\ DOMAIN a = 1..Len(intrs) /\ a[1] = top
      /\ \A i \in 1..Len(intrs) : i # 1 => a[i] = intrs[i]
  BY <1>1, <1>2
<1>4. a # <<>> /\ Head(a) = a[1]
  BY <1>1, <1>3
<1>5. SetTop(intrs, s) = a
  BY DEF SetTop, top
<1> HIDE DEF a
<1>6. \A i \in 1..Len(intrs) : a[i].oldstate = intrs[i].oldstate /\ a[i].cause = intrs[i].cause
  BY <1>1, <1>2, <1>3
<1> QED BY <1>1, <1>2, <1>3, <1>4, <1>5, <1>6 DEF top

(***************************************************************************)
(* The steps of a processor.                                                *)
(***************************************************************************)

LEMMA CpuRecordParts ==
  ASSUME NEW k \in CpuRecords
  PROVE  /\ k.state \in CpuStates /\ k.procp \in Procs \cup {Nobody}
         /\ k.intrs \in Seq(Intrs) /\ k.idleevents \in Seq(IdleEvents)
         /\ k = [state |-> k.state, procp |-> k.procp, intrs |-> k.intrs, idleevents |-> k.idleevents]
BY DEF CpuRecords

\* What a handler makes of the processor, before the state of an idle one is set
Resumable(c, k) ==
    /\ k.intrs = <<>> /\ k.procp # Nobody => k.state = "CPU_PROCESS"
    /\ k.intrs # <<>> =>
          /\ c = 1 /\ k.state = "CPU_INTR"
          /\ \A i \in DOMAIN k.intrs :
                k.intrs[i].oldstate = IF i < Len(k.intrs) THEN "CPU_INTR" ELSE Base(k)
    /\ \A i \in DOMAIN k.intrs : EndsIn(k.intrs[i].events, "INTEND_EVENT")

\* The processor after the last part of pf_handle_cpu_event
Settled(k) ==
    IF k.intrs = <<>> /\ k.procp = Nobody
      THEN [k EXCEPT !.state = IF k.idleevents = <<>> THEN "CPU_IDLE" ELSE "CPU_IDLE_WORK"]
      ELSE k

\* Events of other processors in the agenda stay as they are; processor c has
\* none in q.
OthersGood(c, q) ==
    /\ \A d \in Cpus : d # c => GoodEvent(d, cpus[d], q)
    /\ ~Pending(q, CpuEvent(c)) /\ AtMostOnce(q, CpuEvent(c))

LEMMA SettledFacts ==
  ASSUME NEW c, NEW k \in CpuRecords, Resumable(c, k)
  PROVE  /\ Settled(k) \in CpuRecords
         /\ Settled(k).intrs = k.intrs /\ Settled(k).procp = k.procp /\ Settled(k).idleevents = k.idleevents
         /\ GoodCpu(c, Settled(k))
         /\ Settled(k).state = "CPU_IDLE" <=> (k.intrs = <<>> /\ k.procp = Nobody /\ k.idleevents = <<>>)
<1>0. /\ k.state \in CpuStates /\ k.procp \in Procs \cup {Nobody}
      /\ k.intrs \in Seq(Intrs) /\ k.idleevents \in Seq(IdleEvents)
      /\ k = [state |-> k.state, procp |-> k.procp, intrs |-> k.intrs, idleevents |-> k.idleevents]
  BY CpuRecordParts
<1>1. CASE k.intrs = <<>> /\ k.procp = Nobody
  <2> DEFINE st == IF k.idleevents = <<>> THEN "CPU_IDLE" ELSE "CPU_IDLE_WORK"
  <2>1. Settled(k) = [state |-> st, procp |-> k.procp, intrs |-> k.intrs, idleevents |-> k.idleevents]
    BY <1>0, <1>1 DEF Settled
  <2>2. st \in CpuStates
    BY DEF CpuStates
  <2>3. Settled(k) \in CpuRecords
    BY <1>0, <2>1, <2>2 DEF CpuRecords
  <2>4. GoodCpu(c, Settled(k))
    BY <1>1, <2>1 DEF GoodCpu, Base
  <2> QED BY <1>1, <2>1, <2>3, <2>4
<1>2. CASE ~(k.intrs = <<>> /\ k.procp = Nobody)
  <2>1. Settled(k) = k
    BY <1>2 DEF Settled
  <2>2. GoodCpu(c, k)
    BY <1>2 DEF GoodCpu, Resumable, Base
  <2>3. k.state # "CPU_IDLE"
    BY <1>2 DEF Resumable
  <2> QED BY <1>2, <2>1, <2>2, <2>3
<1> QED BY <1>1, <1>2

\* The processors when c changes
CpuChanged(c, k) == [cpus EXCEPT ![c] = k]

LEMMA Continued ==
  ASSUME NEW T, Typed(T), NEW c \in Cpus, NEW k \in CpuRecords, Resumable(c, k),
         NEW P, NEW q \in Agendas(QueueEvents), NEW stops \in BOOLEAN, NEW bad \in BOOLEAN,
         \A d \in Cpus : GoodCpu(d, cpus[d]), OthersGood(c, q),
         Continue(c, CpuChanged(c, k), P, q, stops, bad)
  PROVE  /\ procs' = P
         /\ cpus' = CpuChanged(c, Settled(k))
         /\ cpus' \in [Cpus -> CpuRecords]
         /\ agenda' \in Agendas(QueueEvents)
         /\ Settled(k).state = "CPU_IDLE" => agenda' = q
         /\ Settled(k).state # "CPU_IDLE" => agenda' = Put(q, CpuEvent(c), NextDelay(Chain(k, P)))
         /\ \A d \in Cpus : GoodCpu(d, cpus'[d]) /\ GoodEvent(d, cpus'[d], agenda')
         /\ \A x : Pending(agenda', x) => (Pending(q, x) \/ x = CpuEvent(c))
         /\ \A x : x # CpuEvent(c) /\ AtMostOnce(q, x) => AtMostOnce(agenda', x)
         /\ stop_sim' \in BOOLEAN /\ fault' \in BOOLEAN
         /\ stop_sim' <=> (stops \/ (k.intrs = <<>> /\ k.procp # Nobody /\ P[k.procp].events = <<>>))
         /\ fault' <=> bad
<1> DEFINE next == Chain(k, P)
           idle == k.intrs = <<>> /\ k.procp = Nobody
<1> DEFINE C == [cpus EXCEPT ![c] = k]
<1>0. cpus \in [Cpus -> CpuRecords] /\ C[c] = k /\ C \in [Cpus -> CpuRecords]
  BY DEF Typed
<1>1. /\ procs' = P
      /\ cpus' = [cpus EXCEPT ![c] = IF ~idle THEN k
                          ELSE [k EXCEPT !.state = IF next = <<>> THEN "CPU_IDLE" ELSE "CPU_IDLE_WORK"]]
      /\ agenda' = IF idle /\ next = <<>> THEN q ELSE Put(q, CpuEvent(c), NextDelay(next))
      /\ stop_sim' = (stops \/ (k.intrs = <<>> /\ k.procp # Nobody /\ next = <<>>))
      /\ fault' = (bad \/ (k.intrs # <<>> /\ next = <<>>))
  <2> HIDE DEF C
  <2>1. Continue(c, C, P, q, stops, bad)
    BY DEF C, CpuChanged
  <2> QED BY <1>0, <2>1 DEF Continue
<1>2. /\ idle => next = k.idleevents
      /\ k.intrs = <<>> /\ k.procp # Nobody => next = P[k.procp].events
      /\ k.intrs # <<>> => next = Head(k.intrs).events
  BY DEF Chain
<1>3. /\ Settled(k) \in CpuRecords
      /\ Settled(k).intrs = k.intrs /\ Settled(k).procp = k.procp /\ Settled(k).idleevents = k.idleevents
      /\ GoodCpu(c, Settled(k))
      /\ Settled(k).state = "CPU_IDLE" <=> (idle /\ next = <<>>)
  BY <1>2, SettledFacts
<1>4. cpus' = [cpus EXCEPT ![c] = Settled(k)]
  BY <1>1, <1>2 DEF Settled
<1>5. k.intrs # <<>> => next # <<>> /\ Head(next).time = 0
  <2> SUFFICES ASSUME k.intrs # <<>> PROVE next # <<>> /\ Head(next).time = 0
    OBVIOUS
  <2>1. k.intrs \in Seq(Intrs)
    BY CpuRecordParts
  <2>2. 1 \in DOMAIN k.intrs /\ Head(k.intrs) = k.intrs[1] /\ k.intrs[1] \in Intrs
    BY <2>1
  <2>3. k.intrs[1].events \in Seq(IntrEvents) /\ EndsIn(k.intrs[1].events, "INTEND_EVENT")
    BY <2>2 DEF Intrs, Resumable
  <2> DEFINE s == k.intrs[1].events
  <2>4. s # <<>> /\ Head(s) \in IntrEvents
    <3> HIDE DEF s
    <3>1. s \in Seq(IntrEvents) /\ EndsIn(s, "INTEND_EVENT")
      BY <2>3 DEF s
    <3> QED BY <3>1, EndsInTail
  <2> QED BY <1>2, <2>2, <2>4 DEF IntrEvents
<1> HIDE DEF C, next, idle
<1>6. CpuEvent(c) \in QueueEvents
  BY DEF QueueEvents
<1> DEFINE a == Put(q, CpuEvent(c), NextDelay(next))
<1>7. /\ a \in Agendas(QueueEvents)
      /\ \A x : Pending(a, x) <=> (x = CpuEvent(c) \/ Pending(q, x))
      /\ \A x : AtMostOnce(q, x) /\ (x # CpuEvent(c) \/ ~Pending(q, x)) => AtMostOnce(a, x)
      /\ NextDelay(next) = 0 => a.later = q.later
      /\ a.later \subseteq q.later \cup {CpuEvent(c)}
  <2> DEFINE d == NextDelay(next)
             e == CpuEvent(c)
  <2> HIDE DEF d, e
  <2>1. e \in QueueEvents
    BY <1>6 DEF e
  <2>2. /\ Put(q, e, d) \in Agendas(QueueEvents)
        /\ \A x : Pending(Put(q, e, d), x) <=> (x = e \/ Pending(q, x))
        /\ \A x : AtMostOnce(q, x) /\ (x # e \/ ~Pending(q, x)) => AtMostOnce(Put(q, e, d), x)
        /\ d = 0 => Put(q, e, d).later = q.later
        /\ Put(q, e, d).later \subseteq q.later \cup {e}
    BY <2>1, PutFacts
  <2> QED BY <2>2 DEF d, e
<1>8. agenda' = IF idle /\ next = <<>> THEN q ELSE a
  BY <1>1
<1> HIDE DEF a
<1>9. \A d \in Cpus : d # c => CpuEvent(d) # CpuEvent(c)
  BY DEF CpuEvent
<1>10. ASSUME NEW d \in Cpus
       PROVE  GoodCpu(d, cpus'[d]) /\ GoodEvent(d, cpus'[d], agenda')
  <2>1. CASE d # c
    <3>1. cpus'[d] = cpus[d] /\ GoodEvent(d, cpus[d], q) /\ GoodCpu(d, cpus[d]) /\ CpuEvent(d) # CpuEvent(c)
      BY <1>4, <1>9, <2>1 DEF OthersGood
    <3> DEFINE kd == cpus[d]
    <3> HIDE DEF kd
    <3>2. GoodEvent(d, kd, q)
      BY <3>1 DEF kd
    <3>3. Pending(agenda', CpuEvent(d)) <=> Pending(q, CpuEvent(d))
      BY <1>7, <1>8, <3>1
    <3>4. AtMostOnce(agenda', CpuEvent(d))
      BY <1>7, <1>8, <3>1, <3>2 DEF GoodEvent
    <3>5. CpuEvent(d) \notin q.later => CpuEvent(d) \notin agenda'.later
      BY <1>7, <1>8, <3>1
    <3>6. GoodEvent(d, kd, agenda')
      BY <3>2, <3>3, <3>4, <3>5 DEF GoodEvent
    <3> QED BY <3>1, <3>6 DEF kd
  <2>2. CASE d = c
    <3>1. cpus'[c] = Settled(k)
      BY <1>0, <1>4
    <3>2. Pending(agenda', CpuEvent(c)) <=> Settled(k).state # "CPU_IDLE"
      BY <1>3, <1>7, <1>8 DEF OthersGood
    <3>3. AtMostOnce(agenda', CpuEvent(c))
      BY <1>7, <1>8 DEF OthersGood
    <3>4. k.intrs # <<>> => CpuEvent(c) \notin agenda'.later
      <4> SUFFICES ASSUME k.intrs # <<>> PROVE CpuEvent(c) \notin agenda'.later
        OBVIOUS
      <4>1. NextDelay(next) = 0
        BY <1>5 DEF NextDelay
      <4>2. CpuEvent(c) \notin q.later
        BY DEF OthersGood, Pending
      <4> QED BY <1>7, <1>8, <4>1, <4>2
    <3>5. GoodEvent(c, Settled(k), agenda')
      BY <1>3, <3>2, <3>3, <3>4 DEF GoodEvent
    <3> QED BY <1>3, <2>2, <3>1, <3>5
  <2> QED BY <2>1, <2>2
<1>11. /\ \A x : Pending(agenda', x) => (Pending(q, x) \/ x = CpuEvent(c))
       /\ \A x : x # CpuEvent(c) /\ AtMostOnce(q, x) => AtMostOnce(agenda', x)
       /\ agenda' \in Agendas(QueueEvents)
  BY <1>7, <1>8
<1>12. /\ Settled(k).state = "CPU_IDLE" => agenda' = q
       /\ Settled(k).state # "CPU_IDLE" => agenda' = a
  BY <1>3, <1>8
<1>13. cpus' \in [Cpus -> CpuRecords]
  BY <1>0, <1>3, <1>4
<1>14. /\ stop_sim' \in BOOLEAN /\ fault' \in BOOLEAN
       /\ stop_sim' <=> (stops \/ (k.intrs = <<>> /\ k.procp # Nobody /\ P[k.procp].events = <<>>))
       /\ fault' <=> bad
  <2>1. k.intrs = <<>> /\ k.procp # Nobody => next = P[k.procp].events
    BY <1>2
  <2>2. fault' = bad
    <3>1. fault' = (bad \/ FALSE)
      BY <1>1, <1>5
    <3> QED BY <3>1
  <2>3. stop_sim' = (stops \/ (k.intrs = <<>> /\ k.procp # Nobody /\ next = <<>>))
    BY <1>1
  <2>4. (k.intrs = <<>> /\ k.procp # Nobody /\ next = <<>>) <=>
           (k.intrs = <<>> /\ k.procp # Nobody /\ P[k.procp].events = <<>>)
    BY <2>1
  <2> QED BY <2>2, <2>3, <2>4
<1> QED BY <1>1, <1>4, <1>10, <1>11, <1>12, <1>13, <1>14 DEF a, next, CpuChanged

\* The list of the last interrupt of a processor, and the list of its process
TopList(c)  == cpus[c].intrs[1].events
FlowList(c) == procs[cpus[c].procp].events

WithTop(k, s) == [k EXCEPT !.intrs = SetTop(k.intrs, s)]

\* A processor works on the list of its last interrupt,
InIntr(c) ==
    LET k == cpus[c]
        s == TopList(c)
    IN /\ k.intrs # <<>> /\ c = 1
       /\ k.intrs[1] \in Intrs /\ Head(k.intrs) = k.intrs[1] /\ 1 \in DOMAIN k.intrs
       /\ Chain(k, procs) = s /\ s \in Seq(IntrEvents) /\ EndsIn(s, "INTEND_EVENT")
       /\ Head(s) \in IntrEvents
       /\ WithChain(c, cpus, Tail(s)) = CpuChanged(c, WithTop(k, Tail(s)))
       /\ ProcWithChain(c, cpus, procs, Tail(s)) = procs

\* The list of process p changes.
WithList(P, p, s) == [P EXCEPT ![p] = [@ EXCEPT !.events = s]]

\* of its process,
InProc(c, T) ==
    LET k == cpus[c]
        s == FlowList(c)
    IN /\ k.intrs = <<>> /\ k.procp # Nobody /\ k.procp \in Procs
       /\ Chain(k, procs) = s /\ s \in Seq(FlowEvents(T)) /\ EndsIn(s, "SYNTHIO_EVENT")
       /\ Head(s) \in FlowEvents(T)
       /\ WithChain(c, cpus, Tail(s)) = CpuChanged(c, k)
       /\ ProcWithChain(c, cpus, procs, Tail(s)) = WithList(procs, k.procp, Tail(s))

\* or of its idle loop.
InIdle(c) ==
    LET k == cpus[c]
        s == k.idleevents
    IN /\ k.intrs = <<>> /\ k.procp = Nobody
       /\ Chain(k, procs) = s /\ s \in Seq(IdleEvents) /\ s # <<>> /\ Head(s) \in IdleEvents
       /\ WithChain(c, cpus, Tail(s)) = CpuChanged(c, [k EXCEPT !.idleevents = Tail(s)])
       /\ ProcWithChain(c, cpus, procs, Tail(s)) = procs

LEMMA Modes ==
  ASSUME NEW T, Typed(T), Running, ~stop_sim, NEW c \in Cpus, Chain(cpus[c], procs) # <<>>
  PROVE  InIntr(c) \/ InProc(c, T) \/ InIdle(c)
<1> DEFINE k == cpus[c]
<1>0. cpus \in [Cpus -> CpuRecords] /\ procs \in ProcTables(T)
  BY DEF Typed
<1>1. /\ k \in CpuRecords
      /\ k.state \in CpuStates /\ k.procp \in Procs \cup {Nobody}
      /\ k.intrs \in Seq(Intrs) /\ k.idleevents \in Seq(IdleEvents)
  BY <1>0, CpuRecordParts
<1>2. cpus = CpuChanged(c, k)
  BY <1>0 DEF CpuChanged
<1>3. GoodCpu(c, k)
  BY DEF Running
<1>4. CASE k.intrs # <<>>
  <2> DEFINE s == TopList(c)
  <2>1. 1 \in DOMAIN k.intrs /\ k.intrs[1] \in Intrs /\ Head(k.intrs) = k.intrs[1]
    BY <1>1, <1>4
  <2>2. s \in Seq(IntrEvents) /\ EndsIn(s, "INTEND_EVENT") /\ c = 1
    BY <1>3, <1>4, <2>1 DEF Intrs, GoodCpu, TopList
  <2>3. Chain(k, procs) = s
    BY <1>4, <2>1 DEF Chain, TopList
  <2>4. ProcWithChain(c, cpus, procs, Tail(s)) = procs
    BY <1>4 DEF ProcWithChain
  <2>5. Head(s) \in IntrEvents
    <3> HIDE DEF s
    <3> QED BY <2>2, EndsInTail
  <2>6. WithChain(c, cpus, Tail(s)) = CpuChanged(c, WithTop(k, Tail(s)))
    BY <1>4 DEF WithChain, SetTop, WithTop, CpuChanged
  <2> QED BY <1>4, <2>1, <2>2, <2>3, <2>4, <2>5, <2>6 DEF InIntr
<1>5. CASE k.intrs = <<>> /\ k.procp # Nobody
  <2> DEFINE s == FlowList(c)
  <2>1. k.procp \in Procs
    BY <1>1, <1>5
  <2>2. s \in Seq(FlowEvents(T)) /\ EndsIn(s, "SYNTHIO_EVENT")
    BY <1>0, <2>1 DEF ProcTables, ProcRecords, Running, FlowList
  <2>3. Chain(k, procs) = s /\ WithChain(c, cpus, Tail(s)) = cpus
    BY <1>5 DEF Chain, WithChain, FlowList
  <2>4. ProcWithChain(c, cpus, procs, Tail(s)) = WithList(procs, k.procp, Tail(s))
    BY <1>5 DEF ProcWithChain, WithList
  <2>5. Head(s) \in FlowEvents(T)
    <3> HIDE DEF s
    <3> QED BY <2>2, EndsInTail
  <2> QED BY <1>2, <1>5, <2>1, <2>2, <2>3, <2>4, <2>5 DEF InProc
<1>6. CASE k.intrs = <<>> /\ k.procp = Nobody
  <2> DEFINE s == k.idleevents
  <2>1. Chain(k, procs) = s /\ s # <<>>
    BY <1>6 DEF Chain
  <2>2. Head(s) \in IdleEvents
    BY <1>1, <2>1
  <2>3. WithChain(c, cpus, Tail(s)) = CpuChanged(c, [k EXCEPT !.idleevents = Tail(s)])
    BY <1>6 DEF WithChain, CpuChanged
  <2>4. ProcWithChain(c, cpus, procs, Tail(s)) = procs
    BY <1>6 DEF ProcWithChain
  <2> QED BY <1>1, <1>6, <2>1, <2>2, <2>3, <2>4 DEF InIdle
<1> QED BY <1>4, <1>5, <1>6

\* A step leaves the configuration alone, and with it the types.
LEMMA TypedPrimed ==
  ASSUME NEW U, config' = config, {0, 1} \subseteq U, config \in Configs,
         agenda' \in Agendas(QueueEvents), cpus' \in [Cpus -> CpuRecords],
         procs' \in ProcTables(U),
         pf_dispq' \in Seq(Procs), sleepqueue' \in Seq(Procs),
         pendiolist' \in SUBSET IoRecords, doneiolist' \in SUBSET IoRecords,
         gens' \in [Procs -> GenRecords(U)], synthio_iocnt' \in 0..config.endiocnt,
         queue' \in [Devices -> [waiting : SUBSET Int, out : SUBSET Int]],
         idlereset' \in BOOLEAN, stop_sim' \in BOOLEAN, fault' \in BOOLEAN
  PROVE  Typed(U)'
<1>1. Cpus' = Cpus /\ Devices' = Devices /\ Causes' = Causes
  BY DEF Cpus, Devices, Causes
<1>2. Intrs' = Intrs
  BY <1>1 DEF Intrs
<1>3. CpuRecords' = CpuRecords
  BY <1>2 DEF CpuRecords
<1>4. QueueEvents' = QueueEvents /\ IoRecords' = IoRecords /\ GenRecords(U)' = GenRecords(U)
  BY <1>1 DEF QueueEvents, IoRecords, GenRecords, LimitEvents
<1>5. ProcRecords(U)' = ProcRecords(U)
  BY DEF ProcRecords, FlowEvents
<1> QED BY <1>1, <1>3, <1>4, <1>5 DEF Typed

\* What a handler must see to before the last part of pf_handle_cpu_event
LEMMA Resumed ==
  ASSUME NEW T, Typed(T), Running, NEW c \in Cpus, NEW k \in CpuRecords, Resumable(c, k),
         NEW U, NEW P \in ProcTables(U),
         NEW q \in Agendas(QueueEvents), OthersGood(c, q),
         NEW stops \in BOOLEAN, NEW bad \in BOOLEAN,
         Continue(c, CpuChanged(c, k), P, q, stops, bad), config' = config,
         ~stops => synthio_iocnt' < config.endiocnt /\ \A p \in Procs : EndsIn(P[p].events, "SYNTHIO_EVENT")
  PROVE  /\ Running'
         /\ agenda' \in Agendas(QueueEvents) /\ cpus' \in [Cpus -> CpuRecords]
         /\ procs' = P /\ cpus' = CpuChanged(c, Settled(k))
         /\ stop_sim' \in BOOLEAN /\ fault' \in BOOLEAN /\ (fault' <=> bad)
<1>1. Cpus' = Cpus
  BY DEF Cpus
<1>2. /\ procs' = P /\ cpus' \in [Cpus -> CpuRecords] /\ agenda' \in Agendas(QueueEvents)
      /\ cpus' = CpuChanged(c, Settled(k))
      /\ \A d \in Cpus : GoodCpu(d, cpus'[d]) /\ GoodEvent(d, cpus'[d], agenda')
      /\ stop_sim' \in BOOLEAN /\ fault' \in BOOLEAN
      /\ stop_sim' <=> (stops \/ (k.intrs = <<>> /\ k.procp # Nobody /\ P[k.procp].events = <<>>))
      /\ fault' <=> bad
  <2>1. \A d \in Cpus : GoodCpu(d, cpus[d])
    BY DEF Running
  <2>2. procs' = P /\ cpus' \in [Cpus -> CpuRecords] /\ agenda' \in Agendas(QueueEvents)
    BY <2>1, Continued
  <2>3. cpus' = CpuChanged(c, Settled(k))
    BY <2>1, Continued
  <2>4. \A d \in Cpus : GoodCpu(d, cpus'[d]) /\ GoodEvent(d, cpus'[d], agenda')
    BY <2>1, Continued
  <2>5. stop_sim' \in BOOLEAN /\ fault' \in BOOLEAN
    BY <2>1, Continued
  <2>7. fault' <=> bad
    BY <2>1, Continued, ZenonT(60)
  <2>6. stop_sim' <=> (stops \/ (k.intrs = <<>> /\ k.procp # Nobody /\ P[k.procp].events = <<>>))
    BY <2>1, Continued
  <2> QED BY <2>2, <2>3, <2>4, <2>5, <2>6, <2>7
<1>4. ~stop_sim' => synthio_iocnt' < config.endiocnt /\ \A p \in Procs : EndsIn(P[p].events, "SYNTHIO_EVENT")
  BY <1>2
<1>5. Running'
  BY <1>1, <1>2, <1>4 DEF Running, GoodCpu, GoodEvent, EndsIn, Base
<1> QED BY <1>2, <1>5

(***************************************************************************)
(* The processes.                                                           *)
(***************************************************************************)
LEMMA ProcRecordParts ==
  ASSUME NEW T, NEW r \in ProcRecords(T)
  PROVE  /\ r.events \in Seq(FlowEvents(T)) /\ r.stat \in {"PROC_SLEEP", "PROC_RUN", "PROC_ONPROC"}
         /\ r.chan \in Int /\ r = [events |-> r.events, stat |-> r.stat, chan |-> r.chan]
BY DEF ProcRecords

LEMMA ListChanged ==
  ASSUME NEW T, NEW P \in ProcTables(T), NEW p \in Procs, NEW s \in Seq(FlowEvents(T))
  PROVE  /\ WithList(P, p, s) \in ProcTables(T)
         /\ \A o \in Procs : o = p => WithList(P, p, s)[o].events = s
         /\ \A o \in Procs : WithList(P, p, s)[o].stat = P[o].stat
         /\ \A o \in Procs : WithList(P, p, s)[o].chan = P[o].chan
         /\ \A o \in Procs : o # p => WithList(P, p, s)[o] = P[o]
<1> DEFINE r == [P[p] EXCEPT !.events = s]
<1>1. P[p] \in ProcRecords(T)
  BY DEF ProcTables
<1>2. r \in ProcRecords(T) /\ r.events = s /\ r.stat = P[p].stat /\ r.chan = P[p].chan
  BY <1>1 DEF ProcRecords
<1>3. WithList(P, p, s) = [P EXCEPT ![p] = r]
  BY DEF WithList
<1> HIDE DEF r
<1>4. /\ [P EXCEPT ![p] = r] \in ProcTables(T)
      /\ [P EXCEPT ![p] = r][p] = r
      /\ \A o \in Procs : o # p => [P EXCEPT ![p] = r][o] = P[o]
  BY <1>2 DEF ProcTables
<1> QED BY <1>2, <1>3, <1>4

\* pf_dispatch changes no list and no channel.
LEMMA OnProcFacts ==
  ASSUME NEW T, NEW P \in ProcTables(T), NEW n \in Procs \cup {Nobody}
  PROVE  /\ OnProc(P, n) \in ProcTables(T)
         /\ \A p \in Procs : OnProc(P, n)[p].events = P[p].events /\ OnProc(P, n)[p].chan = P[p].chan
<1>1. CASE n = Nobody
  BY <1>1 DEF OnProc
<1>2. CASE n # Nobody
  <2> DEFINE r == [P[n] EXCEPT !.stat = "PROC_ONPROC"]
  <2>1. n \in Procs /\ P[n] \in ProcRecords(T) /\ OnProc(P, n) = [P EXCEPT ![n] = r]
    BY <1>2 DEF OnProc, ProcTables
  <2>2. r \in ProcRecords(T) /\ r.events = P[n].events /\ r.chan = P[n].chan
    BY <2>1 DEF ProcRecords
  <2> HIDE DEF r
  <2> QED BY <2>1, <2>2 DEF ProcTables
<1> QED BY <1>1, <1>2

LEMMA NextProcFacts ==
  ASSUME NEW T, Typed(T)
  PROVE  /\ NextProc \in Procs \cup {Nobody} /\ Undispatched \in Seq(Procs)
         /\ pf_dispq # <<>> => NextProc = Head(pf_dispq) /\ NextProc \in Procs
<1>1. pf_dispq \in Seq(Procs)
  BY DEF Typed
<1> QED BY <1>1 DEF NextProc, Undispatched

LEMMA ConfigFacts ==
  ASSUME config \in Configs
  PROVE  /\ 1 \in Cpus /\ 0 \in Devices
         /\ config.endiocnt \in Nat \ {0} /\ config.numdisks \in Nat \ {0} /\ config.blksperdisk \in Nat \ {0}
         /\ config.atonce \in Nat
         /\ config.classes \subseteq {"CRITICAL", "LIMITED", "NONE"}
         /\ config.thinks \subseteq Int /\ config.tmlimits \subseteq Int
         /\ config.sizes \subseteq Int /\ config.locdists \subseteq Int
         /\ config.causes \in {<<"COMPLETION">>, <<"DISCONNECT", "RECONNECT", "COMPLETION">>}
         /\ config.consttime => config.causes = <<"COMPLETION">>
<1>2. /\ ConfigurableCpus(config) /\ ConfigurableRun(config) /\ ConfigurableGenerator(config)
      /\ config.causes \in {<<"COMPLETION">>, <<"DISCONNECT", "RECONNECT", "COMPLETION">>}
      /\ config.consttime => config.causes = <<"COMPLETION">>
      /\ config.atonce \in Nat \ {0}
  BY ProcessFlowAssumption
<1>3. 1 \in Cpus
  BY <1>2 DEF ConfigurableCpus, Cpus
<1>4. /\ config.endiocnt \in Nat \ {0} /\ config.numdisks \in Nat \ {0} /\ config.blksperdisk \in Nat \ {0}
      /\ config.classes \subseteq {"CRITICAL", "LIMITED", "NONE"}
      /\ config.thinks \subseteq Int /\ config.tmlimits \subseteq Int
      /\ config.sizes \subseteq Int /\ config.locdists \subseteq Int
  BY <1>2 DEF ConfigurableRun, ConfigurableGenerator
<1>5. 0 \in Devices
  BY <1>4 DEF Devices
<1>6. config.atonce \in Nat
  BY <1>2
<1> QED BY <1>2, <1>3, <1>4, <1>5, <1>6

LEMMA ConfigParts ==
  ASSUME NEW T, Typed(T)
  PROVE  /\ 1 \in Cpus /\ 0 \in Devices
         /\ config.endiocnt \in Nat \ {0} /\ config.numdisks \in Nat \ {0} /\ config.blksperdisk \in Nat \ {0}
         /\ config.atonce \in Nat
         /\ config.classes \subseteq {"CRITICAL", "LIMITED", "NONE"}
         /\ config.thinks \subseteq Int /\ config.tmlimits \subseteq Int
         /\ config.sizes \subseteq Int /\ config.locdists \subseteq Int
         /\ config.causes \in {<<"COMPLETION">>, <<"DISCONNECT", "RECONNECT", "COMPLETION">>}
         /\ config.consttime => config.causes = <<"COMPLETION">>
<1>1. config \in Configs
  BY DEF Typed
<1> QED BY <1>1, ConfigFacts

LEMMA CpuChangedFacts ==
  ASSUME NEW T, Typed(T), NEW c \in Cpus, NEW k \in CpuRecords
  PROVE  /\ cpus \in [Cpus -> CpuRecords] /\ cpus[c] \in CpuRecords
         /\ CpuChanged(c, k) \in [Cpus -> CpuRecords]
         /\ CpuChanged(c, k)[c] = k
         /\ \A d \in Cpus : d # c => CpuChanged(c, k)[d] = cpus[d]
         /\ \A n : [CpuChanged(c, k) EXCEPT ![c] = n] = CpuChanged(c, n)
BY DEF Typed, CpuChanged

(***************************************************************************)
(* Those that wait.                                                         *)
(***************************************************************************)
Wakeup(o) == Event("WAKEUP_EVENT", 0, o)

\* The wakeup for o is on the list of an interrupt of the processor.
WakeupOn(k, o) == \E i \in DOMAIN k.intrs : \E j \in DOMAIN k.intrs[i].events : k.intrs[i].events[j] = Wakeup(o)

Awaited(o) == (\E x \in pendiolist : x.opid = o /\ x.wanted) \/ \E c \in Cpus : WakeupOn(cpus[c], o)

LEMMA WakeupComesIs ==
  ASSUME NEW T, Typed(T)
  PROVE  WakeupComes <=> \A i \in DOMAIN sleepqueue : Awaited(procs[sleepqueue[i]].chan)
<1>1. ASSUME NEW o
      PROVE  (\E c \in Cpus : WakeupOn(cpus[c], o)) <=>
                \E c \in Cpus : \E j \in DOMAIN cpus[c].intrs : Event("WAKEUP_EVENT", 0, o) \in ToSet(cpus[c].intrs[j].events)
  BY DEF WakeupOn, Wakeup, ToSet
<1> QED BY <1>1 DEF WakeupComes, Awaited

\* Everything a step keeps, but for NoFault
CoreInv == BaseInv /\ WorkIsRun /\ WakeupComes

\* Where a step can go wrong for the processes that are ready to run
LEMMA WorkKept ==
  ASSUME NEW T, Typed(T), NEW c \in Cpus, NEW k \in CpuRecords, Resumable(c, k), WorkIsRun,
         cpus' = CpuChanged(c, Settled(k)),
         pf_dispq' # <<>> => /\ pf_dispq # <<>> \/ c = 1
                             /\ k.intrs # <<>> \/ k.procp # Nobody \/ k.idleevents # <<>>
  PROVE  WorkIsRun'
<1>1. /\ Settled(k) \in CpuRecords
      /\ Settled(k).state = "CPU_IDLE" <=> (k.intrs = <<>> /\ k.procp = Nobody /\ k.idleevents = <<>>)
  BY SettledFacts
<1>2. cpus'[c] = Settled(k) /\ \A d \in Cpus : d # c => cpus'[d] = cpus[d]
  BY <1>1, CpuChangedFacts
<1>3. 1 \in Cpus
  BY ConfigParts
<1> QED BY <1>1, <1>2, <1>3 DEF WorkIsRun

\* and for those that sleep
LEMMA WakeupKept ==
  ASSUME NEW T, Typed(T), NEW U, Typed(U)', config' = config,
         NEW c \in Cpus, NEW k \in CpuRecords, Resumable(c, k), WakeupComes,
         cpus' = CpuChanged(c, Settled(k)),
         \A i \in DOMAIN sleepqueue' :
            \/ Awaited(procs[sleepqueue[i]].chan)'
            \/ \E j \in DOMAIN sleepqueue :
                  /\ procs'[sleepqueue'[i]].chan = procs[sleepqueue[j]].chan
                  /\ \A x \in pendiolist : x.opid = procs[sleepqueue[j]].chan /\ x.wanted =>
                        \/ \E y \in pendiolist' : y.opid = x.opid /\ y.wanted
                        \/ WakeupOn(k, x.opid)
                  /\ WakeupOn(cpus[c], procs[sleepqueue[j]].chan) => WakeupOn(k, procs[sleepqueue[j]].chan)
  PROVE  WakeupComes'
<1>0. Cpus' = Cpus
  BY DEF Cpus
<1>1. Settled(k) \in CpuRecords /\ Settled(k).intrs = k.intrs
  BY SettledFacts
<1>2. cpus'[c] = Settled(k) /\ \A d \in Cpus : d # c => cpus'[d] = cpus[d]
  BY <1>1, CpuChangedFacts
<1>3. \A o : WakeupOn(Settled(k), o) <=> WakeupOn(k, o)
  BY <1>1 DEF WakeupOn
<1>4. \A i \in DOMAIN sleepqueue : Awaited(procs[sleepqueue[i]].chan)
  BY WakeupComesIs
<1>5. ASSUME NEW i \in DOMAIN sleepqueue'
      PROVE  Awaited(procs[sleepqueue[i]].chan)'
  <2>1. CASE \E j \in DOMAIN sleepqueue :
                  /\ procs'[sleepqueue'[i]].chan = procs[sleepqueue[j]].chan
                  /\ \A x \in pendiolist : x.opid = procs[sleepqueue[j]].chan /\ x.wanted =>
                        \/ \E y \in pendiolist' : y.opid = x.opid /\ y.wanted
                        \/ WakeupOn(k, x.opid)
                  /\ WakeupOn(cpus[c], procs[sleepqueue[j]].chan) => WakeupOn(k, procs[sleepqueue[j]].chan)
    <3>1. PICK j \in DOMAIN sleepqueue :
                  /\ procs'[sleepqueue'[i]].chan = procs[sleepqueue[j]].chan
                  /\ \A x \in pendiolist : x.opid = procs[sleepqueue[j]].chan /\ x.wanted =>
                        \/ \E y \in pendiolist' : y.opid = x.opid /\ y.wanted
                        \/ WakeupOn(k, x.opid)
                  /\ WakeupOn(cpus[c], procs[sleepqueue[j]].chan) => WakeupOn(k, procs[sleepqueue[j]].chan)
      BY <2>1
    <3> DEFINE o == procs[sleepqueue[j]].chan
    <3>2. Awaited(o)
      BY <1>4
    <3> HIDE DEF o
    <3>3. CASE \E x \in pendiolist : x.opid = o /\ x.wanted
      <4>1. (\E y \in pendiolist' : y.opid = o /\ y.wanted) \/ WakeupOn(k, o)
        BY <3>1, <3>3 DEF o
      <4>2. (\E y \in pendiolist' : y.opid = o /\ y.wanted) \/ WakeupOn(cpus'[c], o)
        BY <1>2, <1>3, <4>1
      <4> QED BY <1>0, <3>1, <4>2, ZenonT(120) DEF Awaited, WakeupOn, Wakeup, Event, o
    <3>4. CASE \E d \in Cpus : WakeupOn(cpus[d], o)
      <4>1. \E d \in Cpus : WakeupOn(cpus'[d], o)
        BY <1>2, <1>3, <3>1, <3>4 DEF o
      <4> QED BY <1>0, <3>1, <4>1 DEF Awaited, WakeupOn, Wakeup, Event, o
    <3> QED BY <3>2, <3>3, <3>4 DEF Awaited
  <2> QED BY <1>5, <2>1
<1>6. (WakeupComes <=> \A i \in DOMAIN sleepqueue : Awaited(procs[sleepqueue[i]].chan))'
  <2>1. ASSUME NEW o
        PROVE  (\E d \in Cpus' : WakeupOn(cpus'[d], o)) <=>
                \E d \in Cpus' : \E j \in DOMAIN cpus'[d].intrs : Event("WAKEUP_EVENT", 0, o) \in ToSet(cpus'[d].intrs[j].events)
    BY DEF WakeupOn, Wakeup, ToSet
  <2> QED BY <2>1 DEF WakeupComes, Awaited, WakeupOn, Wakeup, Event
<1> QED BY <1>5, <1>6

(***************************************************************************)
(* The handlers.                                                            *)
(***************************************************************************)

\* Before the event of processor c is handled; q is the rest of the agenda.
Before(T, c, q) ==
    /\ Typed(T) /\ Running /\ WorkIsRun /\ WakeupComes /\ ~stop_sim
    /\ c \in Cpus /\ q \in Agendas(QueueEvents) /\ OthersGood(c, q)

\* After it, if no ASSERT failed
After == (\E U : Typed(U)') /\ Running' /\ WorkIsRun' /\ WakeupComes'

LEMMA TailHas ==
  ASSUME NEW S, NEW s \in Seq(S), s # <<>>, NEW j \in DOMAIN s, s[j] # Head(s)
  PROVE  \E m \in DOMAIN Tail(s) : Tail(s)[m] = s[j]
<1>1. Len(s) \in Nat /\ j \in 1..Len(s) /\ j # 1 /\ Len(Tail(s)) = Len(s) - 1 /\ DOMAIN Tail(s) = 1..Len(s) - 1
  OBVIOUS
<1>2. j - 1 \in 1..Len(s) - 1 /\ Tail(s)[j - 1] = s[j]
  BY <1>1
<1> QED BY <1>1, <1>2

LEMMA PrefixHas ==
  ASSUME NEW S, NEW u \in Seq(S), NEW s \in Seq(S)
  PROVE  /\ \A j \in DOMAIN s : \E m \in DOMAIN (u \o s) : (u \o s)[m] = s[j]
         /\ \A j \in DOMAIN u : \E m \in DOMAIN (u \o s) : (u \o s)[m] = u[j]
<1>1. /\ u \o s \in Seq(S) /\ Len(u \o s) = Len(u) + Len(s) /\ Len(u) \in Nat /\ Len(s) \in Nat
      /\ DOMAIN (u \o s) = 1..Len(u) + Len(s) /\ DOMAIN u = 1..Len(u) /\ DOMAIN s = 1..Len(s)
  OBVIOUS
<1>2. ASSUME NEW j \in DOMAIN s PROVE \E m \in DOMAIN (u \o s) : (u \o s)[m] = s[j]
  <2>1. j + Len(u) \in 1..Len(u) + Len(s) /\ (u \o s)[j + Len(u)] = s[j]
    BY <1>1
  <2> QED BY <1>1, <2>1
<1>3. ASSUME NEW j \in DOMAIN u PROVE \E m \in DOMAIN (u \o s) : (u \o s)[m] = u[j]
  <2>1. j \in 1..Len(u) + Len(s) /\ (u \o s)[j] = u[j]
    BY <1>1
  <2> QED BY <1>1, <2>1
<1> QED BY <1>2, <1>3

LEMMA NotOfTheClock ==
  ASSUME NEW c, InIntr(c), Head(TopList(c)).type # "INTEND_EVENT"
  PROVE  cpus[c].intrs[1].cause # "CLOCK" /\ cpus[c].intrs[1].cause \in Causes
<1> DEFINE s == TopList(c)
           x == cpus[c].intrs[1]
<1>1. x \in Intrs /\ s = x.events /\ s \in Seq(IntrEvents) /\ EndsIn(s, "INTEND_EVENT")
  BY DEF InIntr, TopList
<1> HIDE DEF x
<1>2. Head(s).type # "INTEND_EVENT"
  OBVIOUS
<1> HIDE DEF s
<1>3. 1 \in DOMAIN s /\ Head(s) = s[1]
  BY <1>1 DEF EndsIn
<1>4. ~OnlyIntend(s)
  BY <1>2, <1>3 DEF OnlyIntend
<1> QED BY <1>1, <1>4 DEF Intrs, x

\* The list of the last interrupt changes.
LEMMA TopChanged ==
  ASSUME NEW T, Typed(T), Running, NEW c \in Cpus, InIntr(c),
         NEW s \in Seq(IntrEvents), EndsIn(s, "INTEND_EVENT"),
         Head(TopList(c)).type # "INTEND_EVENT"
  PROVE  /\ WithTop(cpus[c], s) \in CpuRecords /\ Resumable(c, WithTop(cpus[c], s))
         /\ WithTop(cpus[c], s).intrs = SetTop(cpus[c].intrs, s) /\ WithTop(cpus[c], s).intrs # <<>>
         /\ \A o : (\E j \in DOMAIN s : s[j] = Wakeup(o)) => WakeupOn(WithTop(cpus[c], s), o)
         /\ \A o : /\ WakeupOn(cpus[c], o)
                   /\ \A j \in DOMAIN TopList(c) :
                        TopList(c)[j] = Wakeup(o) => \E m \in DOMAIN s : s[m] = Wakeup(o)
                   => WakeupOn(WithTop(cpus[c], s), o)
<1> DEFINE k == cpus[c]
           w == WithTop(k, s)
           a == SetTop(k.intrs, s)
<1>0. k \in CpuRecords /\ k.intrs # <<>> /\ k.intrs \in Seq(Intrs)
      /\ k = [state |-> k.state, procp |-> k.procp, intrs |-> k.intrs, idleevents |-> k.idleevents]
      /\ k.state \in CpuStates /\ k.procp \in Procs \cup {Nobody} /\ k.idleevents \in Seq(IdleEvents)
  BY CpuRecordParts DEF Typed, InIntr
<1>a. k.intrs[1].cause # "CLOCK"
  BY <1>0, NotOfTheClock
<1>1. /\ a \in Seq(Intrs) /\ a # <<>>
      /\ Len(a) = Len(k.intrs) /\ DOMAIN a = DOMAIN k.intrs
      /\ 1 \in DOMAIN k.intrs /\ k.intrs[1] \in Intrs
      /\ a[1] = [k.intrs[1] EXCEPT !.events = s]
      /\ \A i \in DOMAIN k.intrs : i # 1 => a[i] = k.intrs[i]
      /\ \A i \in DOMAIN k.intrs : a[i].oldstate = k.intrs[i].oldstate
  <2>1. k.intrs \in Seq(Intrs) /\ k.intrs # <<>>
    BY <1>0
  <2> QED BY <1>a, <2>1, SetTopFacts
<1>2. a[1].events = s
  BY <1>1 DEF Intrs
<1>3. GoodCpu(c, k)
  BY DEF Running
<1> HIDE DEF k, a
<1>4. w = [state |-> k.state, procp |-> k.procp, intrs |-> a, idleevents |-> k.idleevents]
  BY <1>0 DEF WithTop, a
<1>5. w \in CpuRecords
  BY <1>0, <1>1, <1>4 DEF CpuRecords
<1>6. w.intrs = a /\ w.state = k.state /\ w.procp = k.procp /\ w.idleevents = k.idleevents
  BY <1>4
<1> HIDE DEF w
<1>7. Base(w) = Base(k)
  BY <1>6 DEF Base
<1>8. \A i \in DOMAIN a : EndsIn(a[i].events, "INTEND_EVENT")
  BY <1>1, <1>2, <1>3 DEF GoodCpu
<1>9. Resumable(c, w)
  BY <1>0, <1>1, <1>3, <1>6, <1>7, <1>8 DEF Resumable, GoodCpu
<1>10. ASSUME NEW o, \E j \in DOMAIN s : s[j] = Wakeup(o)
       PROVE  WakeupOn(w, o)
  <2>1. 1 \in DOMAIN w.intrs /\ w.intrs[1].events = s
    BY <1>1, <1>2, <1>6
  <2>2. PICK j \in DOMAIN s : s[j] = Wakeup(o)
    BY <1>10
  <2>3. j \in DOMAIN w.intrs[1].events /\ w.intrs[1].events[j] = Wakeup(o)
    BY <2>1, <2>2
  <2> QED BY <2>1, <2>3 DEF WakeupOn
<1>11. ASSUME NEW o, WakeupOn(k, o),
              \A j \in DOMAIN TopList(c) :
                 TopList(c)[j] = Wakeup(o) => \E m \in DOMAIN s : s[m] = Wakeup(o)
       PROVE  WakeupOn(w, o)
  <2>1. PICK i \in DOMAIN k.intrs : \E j \in DOMAIN k.intrs[i].events : k.intrs[i].events[j] = Wakeup(o)
    BY <1>11 DEF WakeupOn
  <2>2. CASE i = 1
    BY <1>10, <1>11, <2>1, <2>2 DEF TopList, k
  <2>3. CASE i # 1
    BY <1>1, <1>6, <2>1, <2>3 DEF WakeupOn
  <2> QED BY <2>2, <2>3
<1> QED BY <1>1, <1>5, <1>6, <1>9, <1>10, <1>11 DEF k, w, a

LEMMA BeforeParts ==
  ASSUME NEW T, NEW c, NEW q, Before(T, c, q)
  PROVE  /\ Typed(T) /\ Running /\ ~stop_sim /\ c \in Cpus /\ q \in Agendas(QueueEvents) /\ OthersGood(c, q)
         /\ WorkIsRun /\ WakeupComes
         /\ synthio_iocnt < config.endiocnt /\ \A p \in Procs : EndsIn(procs[p].events, "SYNTHIO_EVENT")
         /\ cpus[c] \in CpuRecords /\ GoodCpu(c, cpus[c])
BY DEF Before, Running, Typed

\* What the last part leaves of the event queue when an event is put in it first
LEMMA OthersGoodPut ==
  ASSUME NEW c \in Cpus, NEW q \in Agendas(QueueEvents), OthersGood(c, q),
         NEW e \in QueueEvents, NEW delay, \A d \in Cpus : e # CpuEvent(d)
  PROVE  Put(q, e, delay) \in Agendas(QueueEvents) /\ OthersGood(c, Put(q, e, delay))
<1> DEFINE a == Put(q, e, delay)
<1>1. /\ a \in Agendas(QueueEvents)
      /\ \A x : Pending(a, x) <=> (x = e \/ Pending(q, x))
      /\ \A x : AtMostOnce(q, x) /\ (x # e \/ ~Pending(q, x)) => AtMostOnce(a, x)
      /\ a.later \subseteq q.later \cup {e}
  BY PutFacts
<1> HIDE DEF a
<1>2. ASSUME NEW d \in Cpus, d # c
      PROVE  GoodEvent(d, cpus[d], a)
  <2> DEFINE k == cpus[d]
  <2> HIDE DEF k
  <2>1. GoodEvent(d, k, q) /\ CpuEvent(d) # e
    BY <1>2 DEF OthersGood, k
  <2>2. GoodEvent(d, k, a)
    BY <1>1, <2>1 DEF GoodEvent
  <2> QED BY <2>2 DEF k
<1>3. ~Pending(a, CpuEvent(c)) /\ AtMostOnce(a, CpuEvent(c))
  BY <1>1 DEF OthersGood
<1> QED BY <1>1, <1>2, <1>3 DEF OthersGood, a

LEMMA InterruptIsEvent ==
  ASSUME NEW o \in Int, NEW cause \in Causes
  PROVE  Interrupt(o, cause) \in QueueEvents /\ \A d \in Cpus : Interrupt(o, cause) # CpuEvent(d)
BY DEF Interrupt, QueueEvents, CpuEvent

\* The sleep queue stays as it is, and so does what is on the lists.
LEMMA SleepersKept ==
  ASSUME NEW T, Typed(T), NEW U, Typed(U)', config' = config,
         NEW c \in Cpus, NEW k \in CpuRecords, Resumable(c, k), WakeupComes,
         cpus' = CpuChanged(c, Settled(k)), sleepqueue' = sleepqueue,
         \A p \in Procs : procs'[p].chan = procs[p].chan,
         \A x \in pendiolist : x.wanted =>
                \/ \E y \in pendiolist' : y.opid = x.opid /\ y.wanted
                \/ WakeupOn(k, x.opid),
         \A o : WakeupOn(cpus[c], o) => WakeupOn(k, o)
  PROVE  WakeupComes'
<1>1. ASSUME NEW i \in DOMAIN sleepqueue'
      PROVE  \E j \in DOMAIN sleepqueue :
                  /\ procs'[sleepqueue'[i]].chan = procs[sleepqueue[j]].chan
                  /\ \A x \in pendiolist : x.opid = procs[sleepqueue[j]].chan /\ x.wanted =>
                        \/ \E y \in pendiolist' : y.opid = x.opid /\ y.wanted
                        \/ WakeupOn(k, x.opid)
                  /\ WakeupOn(cpus[c], procs[sleepqueue[j]].chan) => WakeupOn(k, procs[sleepqueue[j]].chan)
  <2>1. i \in DOMAIN sleepqueue /\ sleepqueue[i] \in Procs
    BY DEF Typed
  <2> DEFINE p == sleepqueue[i]
  <2>2. procs'[p].chan = procs[p].chan
    BY <2>1
  <2>3. procs'[sleepqueue'[i]].chan = procs[sleepqueue[i]].chan
    BY <2>2
  <2> QED BY <2>1, <2>3
<1> QED BY <1>1, WakeupKept

\* The first event of the interrupt is taken and the list goes on.
LEMMA TopTaken ==
  ASSUME NEW T, Typed(T), Running, NEW c \in Cpus, InIntr(c),
         Head(TopList(c)).type # "INTEND_EVENT",
         NEW s, s = Tail(TopList(c))
  PROVE  /\ s \in Seq(IntrEvents) /\ EndsIn(s, "INTEND_EVENT")
         /\ WithTop(cpus[c], s) \in CpuRecords /\ Resumable(c, WithTop(cpus[c], s))
         /\ WithTop(cpus[c], s).intrs # <<>> /\ WithTop(cpus[c], s).intrs = SetTop(cpus[c].intrs, s)
         /\ \A o : Head(TopList(c)) # Wakeup(o) /\ WakeupOn(cpus[c], o) => WakeupOn(WithTop(cpus[c], s), o)
<1> DEFINE l == TopList(c)
           w == WithTop(cpus[c], s)
<1>1. l \in Seq(IntrEvents) /\ EndsIn(l, "INTEND_EVENT") /\ Head(l).type # "INTEND_EVENT" /\ s = Tail(l) /\ l # <<>>
  BY DEF InIntr, EndsIn
<1> HIDE DEF l
<1>a. Tail(l) \in Seq(IntrEvents) /\ EndsIn(Tail(l), "INTEND_EVENT")
  BY <1>1, EndsInTail
<1>2. s \in Seq(IntrEvents) /\ EndsIn(s, "INTEND_EVENT")
  BY <1>1, <1>a
<1>3. /\ w \in CpuRecords /\ Resumable(c, w) /\ w.intrs # <<>> /\ w.intrs = SetTop(cpus[c].intrs, s)
      /\ \A o : /\ WakeupOn(cpus[c], o)
                /\ \A j \in DOMAIN l : l[j] = Wakeup(o) => \E m \in DOMAIN s : s[m] = Wakeup(o)
                => WakeupOn(w, o)
  BY <1>2, TopChanged DEF l
<1>4. \A o : Head(l) # Wakeup(o) =>
         \A j \in DOMAIN l : l[j] = Wakeup(o) => \E m \in DOMAIN s : s[m] = Wakeup(o)
  <2> SUFFICES ASSUME NEW o, Head(l) # Wakeup(o), NEW j \in DOMAIN l, l[j] = Wakeup(o)
               PROVE  \E m \in DOMAIN s : s[m] = Wakeup(o)
    OBVIOUS
  <2>1. l[j] # Head(l)
    OBVIOUS
  <2>2. \E m \in DOMAIN Tail(l) : Tail(l)[m] = l[j]
    BY <1>1, <2>1, TailHas
  <2> QED BY <1>1, <2>2
<1> HIDE DEF w
<1>5. \A o : Head(l) # Wakeup(o) /\ WakeupOn(cpus[c], o) => WakeupOn(w, o)
  BY <1>3, <1>4
<1> QED BY <1>2, <1>3, <1>5 DEF l, w

\* What is left of the list of the process
LEMMA FlowTail ==
  ASSUME NEW T, NEW c, InProc(c, T)
  PROVE  /\ Tail(FlowList(c)) \in Seq(FlowEvents(T))
         /\ Head(FlowList(c)).type # "SYNTHIO_EVENT" => EndsIn(Tail(FlowList(c)), "SYNTHIO_EVENT")
<1> DEFINE l == FlowList(c)
<1>1. l \in Seq(FlowEvents(T)) /\ EndsIn(l, "SYNTHIO_EVENT")
  BY DEF InProc
<1> HIDE DEF l
<1>2. /\ Tail(l) \in Seq(FlowEvents(T))
      /\ Head(l).type # "SYNTHIO_EVENT" => EndsIn(Tail(l), "SYNTHIO_EVENT")
  BY <1>1, EndsInTail
<1> QED BY <1>2 DEF l

\* The list of the process changes.
LEMMA ListGoesOn ==
  ASSUME NEW T, Typed(T), Running, ~stop_sim, NEW c \in Cpus, InProc(c, T),
         NEW s \in Seq(FlowEvents(T)), EndsIn(s, "SYNTHIO_EVENT")
  PROVE  /\ WithList(procs, cpus[c].procp, s) \in ProcTables(T)
         /\ \A p \in Procs : EndsIn(WithList(procs, cpus[c].procp, s)[p].events, "SYNTHIO_EVENT")
         /\ \A p \in Procs : WithList(procs, cpus[c].procp, s)[p].chan = procs[p].chan
         /\ \A p \in Procs : p = cpus[c].procp => WithList(procs, cpus[c].procp, s)[p].events = s
         /\ \A p \in Procs : p # cpus[c].procp => WithList(procs, cpus[c].procp, s)[p] = procs[p]
<1> DEFINE n == cpus[c].procp
           P == WithList(procs, n, s)
<1>1. n \in Procs
  BY DEF InProc
<1>2. procs \in ProcTables(T) /\ \A p \in Procs : EndsIn(procs[p].events, "SYNTHIO_EVENT")
  BY DEF Typed, Running
<1> HIDE DEF n
<1>3. /\ P \in ProcTables(T) /\ \A o \in Procs : o = n => P[o].events = s
      /\ \A o \in Procs : P[o].chan = procs[o].chan
      /\ \A o \in Procs : o # n => P[o] = procs[o]
  BY <1>1, <1>2, ListChanged
<1> HIDE DEF P
<1>4. \A p \in Procs : EndsIn(P[p].events, "SYNTHIO_EVENT")
  BY <1>2, <1>3
<1> QED BY <1>3, <1>4 DEF n, P

\* A processor that keeps its process is as good as before.
LEMMA ProcStays ==
  ASSUME NEW T, Typed(T), Running, NEW c \in Cpus, InProc(c, T)
  PROVE  cpus[c] \in CpuRecords /\ Resumable(c, cpus[c])
<1>1. cpus[c].procp # Nobody /\ cpus[c].intrs = <<>>
  BY DEF InProc
<1>2. cpus[c] \in CpuRecords /\ GoodCpu(c, cpus[c])
  BY DEF Typed, Running
<1> QED BY <1>1, <1>2 DEF Resumable, GoodCpu, Base

\* A handler that only takes its event and puts one of a device in the queue
LEMMA PlainKeeps ==
  ASSUME NEW T, NEW c, NEW q, Before(T, c, q), config' = config, UNCHANGED Untouched,
         Chain(cpus[c], procs) # <<>>,
         Head(Chain(cpus[c], procs)).type \in {"IO_ACCESS_ARRIVE", "IO_RESPOND_TO_DEVICE"},
         NEW r \in Agendas(QueueEvents), OthersGood(c, r),
         Continue(c, WithChain(c, cpus, Tail(Chain(cpus[c], procs))),
                  ProcWithChain(c, cpus, procs, Tail(Chain(cpus[c], procs))), r, FALSE, FALSE)
  PROVE  After /\ ~fault'
<1> DEFINE k == cpus[c]
           chain == Chain(k, procs)
           ev == Head(chain)
<1>0. /\ Typed(T) /\ Running /\ ~stop_sim /\ c \in Cpus /\ q \in Agendas(QueueEvents) /\ OthersGood(c, q)
      /\ WorkIsRun /\ WakeupComes
      /\ synthio_iocnt < config.endiocnt /\ \A p \in Procs : EndsIn(procs[p].events, "SYNTHIO_EVENT")
      /\ cpus[c] \in CpuRecords /\ GoodCpu(c, cpus[c])
  BY BeforeParts
<1>1. /\ pf_dispq' = pf_dispq /\ sleepqueue' = sleepqueue /\ pendiolist' = pendiolist /\ doneiolist' = doneiolist
      /\ gens' = gens /\ synthio_iocnt' = synthio_iocnt /\ queue' = queue /\ idlereset' = idlereset
  BY DEF Untouched
<1>2. InIntr(c) \/ InProc(c, T) \/ InIdle(c)
  BY <1>0, Modes
<1>3. procs \in ProcTables(T)
  BY <1>0 DEF Typed
<1>4. PICK w \in CpuRecords, P \in ProcTables(T) :
         /\ Resumable(c, w) /\ Continue(c, CpuChanged(c, w), P, r, FALSE, FALSE)
         /\ \A p \in Procs : EndsIn(P[p].events, "SYNTHIO_EVENT") /\ P[p].chan = procs[p].chan
         /\ w.intrs # <<>> \/ w.procp # Nobody
         /\ c = 1 \/ w.intrs = <<>>
         /\ \A o : WakeupOn(k, o) => WakeupOn(w, o)
  <2>1. CASE InIntr(c)
    <3> DEFINE s == Tail(TopList(c))
               w == WithTop(k, s)
    <3>1. /\ chain = TopList(c) /\ c = 1
          /\ WithChain(c, cpus, s) = CpuChanged(c, w)
          /\ ProcWithChain(c, cpus, procs, s) = procs
      BY <2>1 DEF InIntr
    <3>2. Continue(c, CpuChanged(c, w), procs, r, FALSE, FALSE)
      BY <3>1
    <3>3. ev.type # "INTEND_EVENT" /\ \A o : ev # Wakeup(o)
      BY DEF Wakeup, Event
    <3>4. /\ w \in CpuRecords /\ Resumable(c, w) /\ w.intrs # <<>>
          /\ \A o : Head(TopList(c)) # Wakeup(o) /\ WakeupOn(k, o) => WakeupOn(w, o)
      BY <1>0, <2>1, <3>1, <3>3, TopTaken
    <3>5. \A o : WakeupOn(k, o) => WakeupOn(w, o)
      BY <3>1, <3>3, <3>4
    <3> HIDE DEF w
    <3> QED BY <1>0, <1>3, <3>1, <3>2, <3>4, <3>5
  <2>2. CASE InProc(c, T)
    <3> DEFINE s == Tail(FlowList(c))
               P == WithList(procs, k.procp, s)
    <3>1. /\ chain = FlowList(c)
          /\ WithChain(c, cpus, s) = CpuChanged(c, k)
          /\ ProcWithChain(c, cpus, procs, s) = P
          /\ k.intrs = <<>> /\ k.procp \in Procs /\ k.procp # Nobody
      BY <2>2 DEF InProc
    <3>2. Continue(c, CpuChanged(c, k), P, r, FALSE, FALSE)
      BY <3>1
    <3>3. Head(FlowList(c)).type # "SYNTHIO_EVENT"
      BY <3>1
    <3>4. /\ P \in ProcTables(T) /\ Resumable(c, k)
          /\ \A p \in Procs : EndsIn(P[p].events, "SYNTHIO_EVENT")
          /\ \A p \in Procs : P[p].chan = procs[p].chan
      <4>1. s \in Seq(FlowEvents(T)) /\ EndsIn(s, "SYNTHIO_EVENT")
        BY <2>2, <3>3, FlowTail
      <4> HIDE DEF s
      <4>2. Resumable(c, k)
        BY <1>0, <2>2, ProcStays
      <4> QED BY <1>0, <2>2, <4>1, <4>2, ListGoesOn
    <3> HIDE DEF P
    <3> QED BY <1>0, <3>1, <3>2, <3>4
  <2>3. CASE InIdle(c)
    BY <2>3 DEF InIdle, IdleEvents
  <2> QED BY <1>2, <2>1, <2>2, <2>3
<1>5. /\ Running'
      /\ agenda' \in Agendas(QueueEvents) /\ cpus' \in [Cpus -> CpuRecords]
      /\ procs' = P /\ cpus' = CpuChanged(c, Settled(w))
      /\ stop_sim' \in BOOLEAN /\ fault' \in BOOLEAN /\ (fault' <=> FALSE)
  BY <1>0, <1>1, <1>4, Resumed
<1>6. Typed(T)'
  BY <1>0, <1>1, <1>5, TypedPrimed DEF Typed
<1>7. WorkIsRun'
  BY <1>0, <1>1, <1>4, <1>5, WorkKept DEF WorkIsRun
<1>8. WakeupComes'
  BY <1>0, <1>1, <1>4, <1>5, <1>6, SleepersKept
<1> QED BY <1>5, <1>6, <1>7, <1>8 DEF After


\* The variables that the last part of pf_handle_cpu_event leaves to the handler
HandlersTyped(U) ==
    /\ pf_dispq' \in Seq(Procs) /\ sleepqueue' \in Seq(Procs)
    /\ pendiolist' \in SUBSET IoRecords /\ doneiolist' \in SUBSET IoRecords
    /\ gens' \in [Procs -> GenRecords(U)] /\ synthio_iocnt' \in 0..config.endiocnt
    /\ queue' \in [Devices -> [waiting : SUBSET Int, out : SUBSET Int]]
    /\ idlereset' \in BOOLEAN

\* What a handler has to see to, but for those that sleep
LEMMA Finished ==
  ASSUME NEW T, NEW c, NEW q, Before(T, c, q), config' = config,
         NEW U, {0, 1} \subseteq U, HandlersTyped(U),
         NEW w \in CpuRecords, Resumable(c, w), NEW P \in ProcTables(U),
         NEW r \in Agendas(QueueEvents), OthersGood(c, r),
         NEW stops \in BOOLEAN, NEW bad \in BOOLEAN,
         Continue(c, CpuChanged(c, w), P, r, stops, bad),
         ~stops => synthio_iocnt' < config.endiocnt /\ \A p \in Procs : EndsIn(P[p].events, "SYNTHIO_EVENT"),
         pf_dispq' # <<>> => /\ pf_dispq # <<>> \/ c = 1
                             /\ w.intrs # <<>> \/ w.procp # Nobody \/ w.idleevents # <<>>
  PROVE  /\ Typed(U)' /\ Running' /\ WorkIsRun'
         /\ procs' = P /\ cpus' = CpuChanged(c, Settled(w)) /\ (fault' <=> bad)
<1>1. /\ Typed(T) /\ Running /\ c \in Cpus /\ WorkIsRun /\ config \in Configs
  BY DEF Before, Typed
<1>2. /\ Running'
      /\ agenda' \in Agendas(QueueEvents) /\ cpus' \in [Cpus -> CpuRecords]
      /\ procs' = P /\ cpus' = CpuChanged(c, Settled(w))
      /\ stop_sim' \in BOOLEAN /\ fault' \in BOOLEAN /\ (fault' <=> bad)
  BY <1>1, Resumed
<1>3. Typed(U)'
  BY <1>1, <1>2, TypedPrimed DEF HandlersTyped
<1>4. WorkIsRun'
  BY <1>1, <1>2, WorkKept
<1> QED BY <1>2, <1>3, <1>4

\* What was typed stays typed when the step leaves it alone.
LEMMA UntouchedTyped ==
  ASSUME NEW T, Typed(T)
  PROVE  /\ pf_dispq' = pf_dispq => pf_dispq' \in Seq(Procs)
         /\ sleepqueue' = sleepqueue => sleepqueue' \in Seq(Procs)
         /\ pendiolist' = pendiolist => pendiolist' \in SUBSET IoRecords
         /\ doneiolist' = doneiolist => doneiolist' \in SUBSET IoRecords
         /\ gens' = gens => gens' \in [Procs -> GenRecords(T)]
         /\ synthio_iocnt' = synthio_iocnt => synthio_iocnt' \in 0..config.endiocnt
         /\ queue' = queue => queue' \in [Devices -> [waiting : SUBSET Int, out : SUBSET Int]]
         /\ idlereset' = idlereset => idlereset' \in BOOLEAN
         /\ {0, 1} \subseteq T
BY DEF Typed

\* An event of a process that is not its last
LEMMA FlowTaken ==
  ASSUME NEW T, NEW c, NEW q, Before(T, c, q), InProc(c, T), Head(FlowList(c)).type # "SYNTHIO_EVENT"
  PROVE  /\ WithChain(c, cpus, Tail(Chain(cpus[c], procs))) = CpuChanged(c, cpus[c])
         /\ ProcWithChain(c, cpus, procs, Tail(Chain(cpus[c], procs)))
               = WithList(procs, cpus[c].procp, Tail(FlowList(c)))
         /\ WithList(procs, cpus[c].procp, Tail(FlowList(c))) \in ProcTables(T)
         /\ \A p \in Procs : EndsIn(WithList(procs, cpus[c].procp, Tail(FlowList(c)))[p].events, "SYNTHIO_EVENT")
         /\ \A p \in Procs : WithList(procs, cpus[c].procp, Tail(FlowList(c)))[p].chan = procs[p].chan
         /\ cpus[c] \in CpuRecords /\ Resumable(c, cpus[c])
<1> DEFINE s == Tail(FlowList(c))
<1>1. /\ Typed(T) /\ Running /\ ~stop_sim /\ c \in Cpus
  BY BeforeParts
<1>2. s \in Seq(FlowEvents(T)) /\ EndsIn(s, "SYNTHIO_EVENT")
  BY FlowTail
<1>3. cpus[c] \in CpuRecords /\ Resumable(c, cpus[c])
  BY <1>1, ProcStays
<1>4. /\ WithChain(c, cpus, Tail(Chain(cpus[c], procs))) = CpuChanged(c, cpus[c])
      /\ ProcWithChain(c, cpus, procs, Tail(Chain(cpus[c], procs))) = WithList(procs, cpus[c].procp, s)
  BY DEF InProc
<1> HIDE DEF s
<1>5. /\ WithList(procs, cpus[c].procp, s) \in ProcTables(T)
      /\ \A p \in Procs : EndsIn(WithList(procs, cpus[c].procp, s)[p].events, "SYNTHIO_EVENT")
      /\ \A p \in Procs : WithList(procs, cpus[c].procp, s)[p].chan = procs[p].chan
  BY <1>1, <1>2, ListGoesOn
<1> QED BY <1>3, <1>4, <1>5 DEF s


\* The processor turns to a, which may be nobody, with the list i of its idle loop.
Switched(k, a, i) ==
    [state |-> IF a # Nobody THEN "CPU_PROCESS" ELSE "CPU_IDLE", procp |-> a, intrs |-> k.intrs, idleevents |-> i]

LEMMA SwitchedFacts ==
  ASSUME NEW c, NEW k \in CpuRecords, k.intrs = <<>>,
         NEW a \in Procs \cup {Nobody}, NEW i \in Seq(IdleEvents)
  PROVE  /\ Switched(k, a, i) \in CpuRecords /\ Resumable(c, Switched(k, a, i))
         /\ Switched(k, a, i).procp = a /\ Switched(k, a, i).idleevents = i /\ Switched(k, a, i).intrs = k.intrs
<1> DEFINE w == Switched(k, a, i)
<1>1. w.intrs = k.intrs /\ w.procp = a /\ w.idleevents = i
      /\ w.state = IF a # Nobody THEN "CPU_PROCESS" ELSE "CPU_IDLE"
  BY DEF Switched
<1>2. w \in CpuRecords
  BY CpuRecordParts DEF CpuRecords, CpuStates, Switched
<1> HIDE DEF w
<1>3. DOMAIN w.intrs = {}
  BY <1>1
<1>4. Resumable(c, w)
  BY <1>1, <1>3 DEF Resumable
<1> QED BY <1>1, <1>2, <1>4 DEF w

\* as pf_handle_cswitch_event does it
Turned(C, c, a, i) ==
    [[C EXCEPT ![c].procp = a, ![c].state = IF a # Nobody THEN "CPU_PROCESS" ELSE "CPU_IDLE"]
        EXCEPT ![c].idleevents = i]

LEMMA SwitchedIs ==
  ASSUME NEW c \in Cpus, NEW k \in CpuRecords, cpus \in [Cpus -> CpuRecords], NEW a, NEW i
  PROVE  Turned(CpuChanged(c, k), c, a, i) = CpuChanged(c, Switched(k, a, i))
<1> DEFINE st == IF a # Nobody THEN "CPU_PROCESS" ELSE "CPU_IDLE"
           k1 == [k EXCEPT !.procp = a]
           k2 == [k1 EXCEPT !.state = st]
           k3 == [k2 EXCEPT !.idleevents = i]
<1>1. k = [state |-> k.state, procp |-> k.procp, intrs |-> k.intrs, idleevents |-> k.idleevents]
  BY CpuRecordParts
<1>a. k1 = [state |-> k.state, procp |-> a, intrs |-> k.intrs, idleevents |-> k.idleevents]
  BY <1>1
<1> HIDE DEF st, k1
<1>2. k2 = [state |-> st, procp |-> a, intrs |-> k.intrs, idleevents |-> k.idleevents]
  BY <1>a
<1> HIDE DEF k2
<1>3. k3 = [state |-> st, procp |-> a, intrs |-> k.intrs, idleevents |-> i]
  BY <1>2
<1>4. DOMAIN cpus = Cpus
  OBVIOUS
<1>5. [CpuChanged(c, k) EXCEPT ![c].procp = a, ![c].state = st] = CpuChanged(c, k2)
  BY <1>4 DEF CpuChanged, k1, k2
<1>6. [CpuChanged(c, k2) EXCEPT ![c].idleevents = i] = CpuChanged(c, k3)
  BY <1>4 DEF CpuChanged
<1> HIDE DEF k3
<1>7. k3 = Switched(k, a, i)
  BY <1>3 DEF Switched, st
<1> QED BY <1>5, <1>6, <1>7 DEF Turned, st

LEMMA CSwitchIsEvent ==
  ASSUME NEW p \in Procs \cup {Nobody}
  PROVE  <<CSwitch(p)>> \in Seq(IdleEvents) /\ CSwitch(p) \in IdleEvents
BY DEF CSwitch, Event, IdleEvents

\* The idle loop with the events i0 gets a switch to the next process.
Dispatching(i0, P, i, R) ==
    /\ pf_dispq # <<>> /\ pf_dispq' = Undispatched
    /\ i = <<CSwitch(NextProc)>> \o i0 /\ R = OnProc(P, NextProc)

SwitchTaken(k, P, a, i, R) ==
    \/ a = Nobody /\ Dispatching(k.idleevents, P, i, R)
    \/ i = <<>> /\ R = P /\ pf_dispq' = pf_dispq

\* How pf_handle_cswitch_event goes on: the processor takes process ev.arg, or
\* has the list i of its idle loop
SwitchGoesOn(T, c, q, k, P, ev) ==
    \E i \in Seq(IdleEvents), R \in ProcTables(T) :
       /\ Continue(c, CpuChanged(c, Switched(k, ev.arg, i)), R, q, FALSE, FALSE)
       /\ \A p \in Procs : EndsIn(R[p].events, "SYNTHIO_EVENT") /\ R[p].chan = procs[p].chan
                         /\ R[p].events = P[p].events
       /\ pf_dispq' \in Seq(Procs)
       /\ pf_dispq' # <<>> => pf_dispq # <<>> /\ (ev.arg # Nobody \/ i # <<>>)
       /\ SwitchTaken(k, P, ev.arg, i, R)

LEMMA CSwitchGoesOn ==
  ASSUME NEW T, NEW c, NEW q, Before(T, c, q), config' = config,
         NEW k \in CpuRecords, k.intrs = <<>>, cpus[c].intrs = <<>>, NEW P \in ProcTables(T),
         \A p \in Procs : EndsIn(P[p].events, "SYNTHIO_EVENT"),
         \A p \in Procs : P[p].chan = procs[p].chan,
         NEW ev, ev.arg \in Procs \cup {Nobody},
         HandleCSwitch(c, CpuChanged(c, k), P, q, ev)
  PROVE  SwitchGoesOn(T, c, q, k, P, ev)
<1> DEFINE a == ev.arg
           next == NextProc
<1> SUFFICES \E i \in Seq(IdleEvents), R \in ProcTables(T) :
              /\ Continue(c, CpuChanged(c, Switched(k, ev.arg, i)), R, q, FALSE, FALSE)
              /\ \A p \in Procs : EndsIn(R[p].events, "SYNTHIO_EVENT") /\ R[p].chan = procs[p].chan
                                /\ R[p].events = P[p].events
              /\ pf_dispq' \in Seq(Procs)
              /\ pf_dispq' # <<>> => pf_dispq # <<>> /\ (ev.arg # Nobody \/ i # <<>>)
              /\ SwitchTaken(k, P, ev.arg, i, R)
  BY DEF SwitchGoesOn
<1>0. /\ Typed(T) /\ Running /\ c \in Cpus /\ q \in Agendas(QueueEvents) /\ OthersGood(c, q)
      /\ WorkIsRun /\ WakeupComes /\ ~stop_sim
      /\ synthio_iocnt < config.endiocnt
  BY BeforeParts
<1>1. cpus \in [Cpus -> CpuRecords] /\ k.idleevents \in Seq(IdleEvents) /\ CpuChanged(c, k) \in [Cpus -> CpuRecords]
      /\ CpuChanged(c, k)[c] = k
  BY <1>0, CpuRecordParts, CpuChangedFacts
<1>2. /\ next \in Procs \cup {Nobody} /\ Undispatched \in Seq(Procs)
      /\ pf_dispq # <<>> => next \in Procs
  BY <1>0, NextProcFacts
<1> DEFINE C == CpuChanged(c, k)
           st == IF a # Nobody THEN "CPU_PROCESS" ELSE "CPU_IDLE"
           switched == [C EXCEPT ![c].procp = a, ![c].state = st]
<1>3. switched[c].idleevents = k.idleevents
  BY <1>0, <1>1, CpuRecordParts DEF CpuChanged, CpuRecords
<1>4. \A j : Turned(C, c, a, j) = CpuChanged(c, Switched(k, a, j))
  BY <1>0, <1>1, SwitchedIs
<1>5. CASE a = Nobody /\ pf_dispq # <<>>
  <2> DEFINE i == <<CSwitch(next)>> \o k.idleevents
             R == OnProc(P, next)
  <2>1. /\ Continue(c, [switched EXCEPT ![c].idleevents = <<CSwitch(NextProc)>> \o @], R, q, FALSE, FALSE)
        /\ pf_dispq' = Undispatched
    BY <1>5 DEF HandleCSwitch
  <2>2. [switched EXCEPT ![c].idleevents = <<CSwitch(NextProc)>> \o @] = CpuChanged(c, Switched(k, a, i))
    <3>1. [switched EXCEPT ![c].idleevents = <<CSwitch(NextProc)>> \o @] = Turned(C, c, a, i)
      BY <1>3 DEF Turned
    <3> QED BY <1>4, <3>1
  <2>3. i \in Seq(IdleEvents) /\ i # <<>>
    <3>1. <<CSwitch(next)>> \in Seq(IdleEvents)
      BY <1>2, CSwitchIsEvent
    <3> QED BY <1>1, <3>1
  <2>4. /\ R \in ProcTables(T)
        /\ \A p \in Procs : R[p].events = P[p].events /\ R[p].chan = P[p].chan
    BY <1>2, OnProcFacts
  <2>7. SwitchTaken(k, P, ev.arg, i, R)
    BY <1>5, <2>1 DEF SwitchTaken, Dispatching
  <2> HIDE DEF i, R, switched
  <2>5. Continue(c, CpuChanged(c, Switched(k, a, i)), R, q, FALSE, FALSE)
    BY <2>1, <2>2
  <2>6. \A p \in Procs : EndsIn(R[p].events, "SYNTHIO_EVENT") /\ R[p].chan = procs[p].chan /\ R[p].events = P[p].events
    BY <2>4
  <2> QED BY <1>2, <1>5, <2>1, <2>3, <2>4, <2>5, <2>6, <2>7
<1>6. CASE ~(a = Nobody /\ pf_dispq # <<>>)
  <2>1. /\ Continue(c, [switched EXCEPT ![c].idleevents = <<>>], P, q, FALSE, FALSE)
        /\ pf_dispq' = pf_dispq
    BY <1>6 DEF HandleCSwitch
  <2>2. [switched EXCEPT ![c].idleevents = <<>>] = CpuChanged(c, Switched(k, a, <<>>))
    BY <1>4 DEF Turned
  <2>3. pf_dispq \in Seq(Procs) /\ <<>> \in Seq(IdleEvents)
    BY <1>0 DEF Typed
  <2>4. SwitchTaken(k, P, ev.arg, <<>>, P)
    BY <2>1 DEF SwitchTaken
  <2> HIDE DEF switched
  <2> QED BY <1>6, <2>1, <2>2, <2>3, <2>4
<1> QED BY <1>5, <1>6

\* The part of pf_handle_cswitch_event that the list of the processor makes no
\* difference to
LEMMA CSwitchKeepsFrom ==
  ASSUME NEW T, NEW c, NEW q, Before(T, c, q), config' = config,
         NEW k \in CpuRecords, k.intrs = <<>>, cpus[c].intrs = <<>>, NEW P \in ProcTables(T),
         \A p \in Procs : EndsIn(P[p].events, "SYNTHIO_EVENT"),
         \A p \in Procs : P[p].chan = procs[p].chan,
         NEW ev, ev.arg \in Procs \cup {Nobody},
         HandleCSwitch(c, CpuChanged(c, k), P, q, ev)
  PROVE  After /\ ~fault'
<1>9. SwitchGoesOn(T, c, q, k, P, ev)
  BY CSwitchGoesOn
<1>2. PICK i \in Seq(IdleEvents), R \in ProcTables(T) :
         /\ Continue(c, CpuChanged(c, Switched(k, ev.arg, i)), R, q, FALSE, FALSE)
         /\ \A p \in Procs : EndsIn(R[p].events, "SYNTHIO_EVENT") /\ R[p].chan = procs[p].chan
                            /\ R[p].events = P[p].events
         /\ pf_dispq' \in Seq(Procs)
         /\ pf_dispq' # <<>> => pf_dispq # <<>> /\ (ev.arg # Nobody \/ i # <<>>)
  BY <1>9 DEF SwitchGoesOn
<1> DEFINE a == ev.arg
<1>0. /\ Typed(T) /\ Running /\ c \in Cpus /\ q \in Agendas(QueueEvents) /\ OthersGood(c, q)
      /\ WorkIsRun /\ WakeupComes /\ ~stop_sim
      /\ synthio_iocnt < config.endiocnt
  BY BeforeParts
<1>1. /\ sleepqueue' = sleepqueue /\ pendiolist' = pendiolist /\ doneiolist' = doneiolist /\ gens' = gens
      /\ synthio_iocnt' = synthio_iocnt /\ queue' = queue
      /\ idlereset' = (~idlereset /\ a = Nobody)
  BY DEF HandleCSwitch
<1> DEFINE w == Switched(k, a, i)
<1>3. w \in CpuRecords /\ Resumable(c, w) /\ w.procp = a /\ w.idleevents = i /\ w.intrs = k.intrs
  <2>1. a \in Procs \cup {Nobody}
    OBVIOUS
  <2> HIDE DEF a
  <2> HIDE DEF w
  <2>3. Switched(k, a, i) \in CpuRecords
    BY <2>1, SwitchedFacts
  <2>4. Resumable(c, Switched(k, a, i))
    BY <2>1, SwitchedFacts
  <2>5. Switched(k, a, i).procp = a
    BY <2>1, SwitchedFacts
  <2>6. Switched(k, a, i).idleevents = i
    BY <2>1, SwitchedFacts
  <2>7. Switched(k, a, i).intrs = k.intrs
    BY <2>1, SwitchedFacts, ZenonT(60)
  <2> QED BY <2>3, <2>4, <2>5, <2>6, <2>7 DEF w
<1> HIDE DEF w, a
<1>4. HandlersTyped(T) /\ {0, 1} \subseteq T
  <2>1. idlereset' \in BOOLEAN
    BY <1>1
  <2> QED BY <1>0, <1>1, <1>2, <2>1, UntouchedTyped DEF HandlersTyped
<1>5. /\ Typed(T)' /\ Running' /\ WorkIsRun'
      /\ procs' = R /\ cpus' = CpuChanged(c, Settled(w)) /\ (fault' <=> FALSE)
  <2>1. Continue(c, CpuChanged(c, w), R, q, FALSE, FALSE)
    BY <1>2 DEF w, a
  <2>2. synthio_iocnt' < config.endiocnt
    BY <1>0, <1>1
  <2>3. pf_dispq' # <<>> => /\ pf_dispq # <<>> \/ c = 1
                            /\ w.intrs # <<>> \/ w.procp # Nobody \/ w.idleevents # <<>>
    BY <1>2, <1>3 DEF a
  <2> QED BY <1>0, <1>2, <1>3, <1>4, <2>1, <2>2, <2>3, Finished
<1>6. \A o : WakeupOn(cpus[c], o) => WakeupOn(w, o)
  BY DEF WakeupOn
<1>7. WakeupComes'
  BY <1>0, <1>1, <1>2, <1>3, <1>5, <1>6, SleepersKept
<1> QED BY <1>5, <1>7 DEF After


\* pf_handle_cswitch_event
LEMMA CSwitchKeeps ==
  ASSUME NEW T, NEW c, NEW q, Before(T, c, q), Handled(c, q, "CSWITCH_EVENT", HandleCSwitch)
  PROVE  After /\ ~fault'
<1> DEFINE k == cpus[c]
           chain == Chain(k, procs)
<1>0. /\ Typed(T) /\ Running /\ ~stop_sim /\ c \in Cpus
      /\ \A p \in Procs : EndsIn(procs[p].events, "SYNTHIO_EVENT")
  BY BeforeParts
<1>1. /\ chain # <<>> /\ Head(chain).type = "CSWITCH_EVENT" /\ config' = config
      /\ HandleCSwitch(c, WithChain(c, cpus, Tail(chain)), ProcWithChain(c, cpus, procs, Tail(chain)),
                       q, Head(chain))
  BY DEF Handled
<1>2. InIntr(c) \/ InProc(c, T) \/ InIdle(c)
  BY <1>0, <1>1, Modes
<1>3. CASE InIntr(c)
  BY <1>1, <1>3 DEF InIntr, IntrEvents, IntrTypes
<1>4. CASE InProc(c, T)
  <2> DEFINE P == WithList(procs, k.procp, Tail(FlowList(c)))
  <2>1. chain = FlowList(c) /\ k.intrs = <<>> /\ Head(chain) \in FlowEvents(T)
    BY <1>4 DEF InProc
  <2>2. Head(chain).arg \in Procs \cup {Nobody}
    BY <1>1, <2>1 DEF FlowEvents
  <2>3. /\ WithChain(c, cpus, Tail(chain)) = CpuChanged(c, k) /\ ProcWithChain(c, cpus, procs, Tail(chain)) = P
        /\ P \in ProcTables(T)
        /\ \A p \in Procs : EndsIn(P[p].events, "SYNTHIO_EVENT")
        /\ \A p \in Procs : P[p].chan = procs[p].chan
        /\ k \in CpuRecords
    BY <1>1, <1>4, <2>1, FlowTaken
  <2>4. HandleCSwitch(c, CpuChanged(c, k), P, q, Head(chain))
    BY <1>1, <2>3
  <2> HIDE DEF P, chain
  <2> QED BY <1>1, <2>1, <2>2, <2>3, <2>4, CSwitchKeepsFrom
<1>5. CASE InIdle(c)
  <2> DEFINE n == [k EXCEPT !.idleevents = Tail(k.idleevents)]
  <2>1. /\ chain = k.idleevents /\ k.intrs = <<>> /\ Head(chain) \in IdleEvents
        /\ WithChain(c, cpus, Tail(chain)) = CpuChanged(c, n) /\ ProcWithChain(c, cpus, procs, Tail(chain)) = procs
        /\ k.idleevents \in Seq(IdleEvents) /\ k.idleevents # <<>>
    BY <1>5 DEF InIdle
  <2>2. Head(chain).arg \in Procs \cup {Nobody}
    BY <2>1 DEF IdleEvents
  <2>3. k \in CpuRecords /\ procs \in ProcTables(T)
    BY <1>0 DEF Typed
  <2>4. Tail(k.idleevents) \in Seq(IdleEvents)
    BY <2>1
  <2>5. n \in CpuRecords /\ n.intrs = <<>>
    BY <2>1, <2>3, <2>4 DEF CpuRecords
  <2>6. HandleCSwitch(c, CpuChanged(c, n), procs, q, Head(chain))
    BY <1>1, <2>1
  <2> HIDE DEF n, chain
  <2> QED BY <1>0, <1>1, <2>1, <2>2, <2>3, <2>5, <2>6, CSwitchKeepsFrom
<1> QED BY <1>2, <1>3, <1>4, <1>5

\* An event that only the list of a process can have
LEMMA FlowOnly ==
  ASSUME NEW T, NEW c, NEW q, Before(T, c, q), NEW type \in {"SLEEP_EVENT", "SYNTHIO_EVENT", "IOREQ_EVENT"},
         Chain(cpus[c], procs) # <<>>, Head(Chain(cpus[c], procs)).type = type
  PROVE  InProc(c, T) /\ Chain(cpus[c], procs) = FlowList(c) /\ Head(FlowList(c)).type = type
         /\ Head(FlowList(c)).arg \in Int /\ Head(FlowList(c)) \in FlowEvents(T)
         /\ cpus[c].intrs = <<>> /\ cpus[c].procp \in Procs /\ cpus[c].procp # Nobody
<1>0. /\ Typed(T) /\ Running /\ ~stop_sim /\ c \in Cpus
  BY BeforeParts
<1>1. InIntr(c) \/ InProc(c, T) \/ InIdle(c)
  BY <1>0, Modes
<1>2. ~InIntr(c)
  BY DEF InIntr, IntrEvents, IntrTypes
<1>3. ~InIdle(c)
  BY DEF InIdle, IdleEvents
<1>4. InProc(c, T)
  BY <1>1, <1>2, <1>3
<1> QED BY <1>4 DEF InProc, FlowEvents

\* An event that only the list of an interrupt can have
LEMMA IntrOnly ==
  ASSUME NEW T, NEW c, NEW q, Before(T, c, q),
         NEW type \in {"WAKEUP_EVENT", "IO_RESPOND_TO_DEVICE", "IO_ACCESS_COMPLETE", "INTEND_EVENT"},
         Chain(cpus[c], procs) # <<>>, Head(Chain(cpus[c], procs)).type = type
  PROVE  InIntr(c) /\ Chain(cpus[c], procs) = TopList(c) /\ Head(TopList(c)).type = type
         /\ Head(TopList(c)) \in IntrEvents /\ Head(TopList(c)).arg \in Int /\ c = 1
<1>0. /\ Typed(T) /\ Running /\ ~stop_sim /\ c \in Cpus
  BY BeforeParts
<1>1. InIntr(c) \/ InProc(c, T) \/ InIdle(c)
  BY <1>0, Modes
<1>2. ~InProc(c, T)
  BY DEF InProc, FlowEvents, FlowTypes
<1>3. ~InIdle(c)
  BY DEF InIdle, IdleEvents
<1>4. InIntr(c)
  BY <1>1, <1>2, <1>3
<1> QED BY <1>4 DEF InIntr, IntrEvents


LEMMA ProcsAreNumbers == Procs \subseteq Nat \ {0} /\ IsFiniteSet(Procs) /\ Cardinality(Procs) \in Nat
                         /\ Procs = 1..Cardinality(Procs)
BY ProcessFlowAssumption, FS_CardinalityType

\* The list of a process and the channel it sleeps on change.
Sleeper(P, p, chan, n) ==
    [P EXCEPT ![p].stat = "PROC_SLEEP", ![p].chan = chan, ![p].events = <<CSwitch(n)>> \o @]

LEMMA SleeperFacts ==
  ASSUME NEW T, 0 \in T, NEW P \in ProcTables(T), NEW p \in Procs, NEW chan \in Int, NEW n \in Procs \cup {Nobody},
         \A o \in Procs : EndsIn(P[o].events, "SYNTHIO_EVENT")
  PROVE  /\ Sleeper(P, p, chan, n) \in ProcTables(T)
         /\ \A o \in Procs : EndsIn(Sleeper(P, p, chan, n)[o].events, "SYNTHIO_EVENT")
         /\ \A o \in Procs : Sleeper(P, p, chan, n)[o].chan = chan
                               \/ (o # p /\ Sleeper(P, p, chan, n)[o].chan = P[o].chan)
         /\ \A o \in Procs : o = p => Sleeper(P, p, chan, n)[o].chan = chan
         /\ \A o \in Procs : o = p => Sleeper(P, p, chan, n)[o].events = <<CSwitch(n)>> \o P[o].events
         /\ \A o \in Procs : o # p => Sleeper(P, p, chan, n)[o].events = P[o].events
<1> DEFINE R == Sleeper(P, p, chan, n)
           s == P[p].events
           e == CSwitch(n)
           r == [events |-> <<e>> \o s, stat |-> "PROC_SLEEP", chan |-> chan]
<1>1. P[p] \in ProcRecords(T)
  BY DEF ProcTables
<1>2. s \in Seq(FlowEvents(T)) /\ P[p] = [events |-> s, stat |-> P[p].stat, chan |-> P[p].chan]
  BY <1>1, ProcRecordParts
<1>3. e \in FlowEvents(T) /\ e.type # "SYNTHIO_EVENT"
  <2>1. n \in Int
    BY ProcsAreNumbers DEF Nobody
  <2>2. CSwitch(n) = [type |-> "CSWITCH_EVENT", time |-> 0, arg |-> n]
    BY DEF CSwitch, Event
  <2> QED BY <2>1, <2>2 DEF FlowEvents, FlowTypes
<1>4. DOMAIN P = Procs
  BY DEF ProcTables
<1> HIDE DEF e
<1>5. R = [P EXCEPT ![p] = r]
  <2>1. CSwitch(n) = e
    BY DEF e
  <2> HIDE DEF s
  <2> DEFINE P1 == [P EXCEPT ![p].stat = "PROC_SLEEP"]
             r1 == [events |-> s, stat |-> "PROC_SLEEP", chan |-> P[p].chan]
             P2 == [P1 EXCEPT ![p].chan = chan]
             r2 == [events |-> s, stat |-> "PROC_SLEEP", chan |-> chan]
  <2>a. [P[p] EXCEPT !.stat = "PROC_SLEEP"] = r1
    BY <1>2
  <2>2. P1 = [P EXCEPT ![p] = r1]
    BY <2>a
  <2>3. P1[p] = r1 /\ DOMAIN P1 = Procs
    BY <1>4, <2>2
  <2>b. [r1 EXCEPT !.chan = chan] = r2
    OBVIOUS
  <2>c. P2 = [P1 EXCEPT ![p] = r2]
    BY <2>b, <2>3
  <2> HIDE DEF P1, P2, r1, r2
  <2>4. P2 = [P EXCEPT ![p] = r2]
    BY <1>4, <2>2, <2>c
  <2>5. P2[p] = r2 /\ DOMAIN P2 = Procs
    BY <1>4, <2>4
  <2>6. R = [P2 EXCEPT ![p].events = <<e>> \o @]
    BY <2>1 DEF Sleeper, P1, P2
  <2>d. r2.events = s
    BY DEF r2
  <2>7. [r2 EXCEPT !.events = <<e>> \o @] = r
    <3> DEFINE u == <<e>> \o s
    <3> HIDE DEF u
    <3>1. [r2 EXCEPT !.events = u] = [events |-> u, stat |-> "PROC_SLEEP", chan |-> chan]
      BY DEF r2
    <3> QED BY <2>d, <3>1 DEF u
  <2>8. R = [P2 EXCEPT ![p] = r]
    BY <2>5, <2>6, <2>7
  <2> HIDE DEF r, R
  <2> QED BY <1>4, <2>4, <2>5, <2>8
<1>6. <<e>> \o s \in Seq(FlowEvents(T)) /\ EndsIn(<<e>> \o s, "SYNTHIO_EVENT")
  <2> DEFINE u == <<e>>
  <2>1. u \in Seq(FlowEvents(T)) /\ \A i \in DOMAIN u : u[i].type # "SYNTHIO_EVENT"
    BY <1>3
  <2>2. EndsIn(s, "SYNTHIO_EVENT")
    OBVIOUS
  <2> HIDE DEF u, s
  <2> QED BY <1>2, <2>1, <2>2, EndsInPrefix DEF u
<1>7. r \in ProcRecords(T) /\ r.chan = chan /\ r.events = <<e>> \o s
  BY <1>6 DEF ProcRecords
<1> HIDE DEF r, s, R
<1>8. /\ R \in ProcTables(T) /\ R[p] = r
      /\ \A o \in Procs : o # p => R[o] = P[o]
  BY <1>5, <1>7 DEF ProcTables
<1>9. \A o \in Procs : o = p => R[o].events = <<CSwitch(n)>> \o P[o].events
  BY <1>7, <1>8 DEF s, e
<1> QED BY <1>6, <1>7, <1>8, <1>9 DEF R

LEMMA WantedFacts ==
  ASSUME pendiolist \in SUBSET IoRecords, NEW a \in Int
  PROVE  /\ Wanted(a) \in SUBSET IoRecords
         /\ (\E x \in pendiolist : x.opid = a) => \E y \in Wanted(a) : y.opid = a /\ y.wanted
         /\ \A x \in pendiolist : x.wanted => \E y \in Wanted(a) : y.opid = x.opid /\ y.wanted
<1> DEFINE m(x) == [x EXCEPT !.wanted = @ \/ x.opid = a]
<1>1. ASSUME NEW x \in pendiolist
      PROVE  /\ m(x) \in IoRecords /\ m(x).opid = x.opid
             /\ x.opid = a => m(x).wanted
             /\ x.wanted => m(x).wanted
  <2> DEFINE b == (x.wanted \/ x.opid = a)
  <2>1. x \in IoRecords /\ b \in BOOLEAN /\ (x.opid = a => b) /\ (x.wanted => b)
    BY DEF IoRecords
  <2> HIDE DEF b
  <2>2. /\ [x EXCEPT !.wanted = b] \in IoRecords /\ [x EXCEPT !.wanted = b].opid = x.opid
        /\ [x EXCEPT !.wanted = b].wanted = b
    BY <2>1 DEF IoRecords
  <2> QED BY <2>1, <2>2 DEF b
<1>2. Wanted(a) = {m(x) : x \in pendiolist}
  BY DEF Wanted
<1> HIDE DEF m
<1>3. \A x \in pendiolist : m(x) \in Wanted(a)
  BY <1>2
<1> QED BY <1>1, <1>2, <1>3


LEMMA AsleepFacts ==
  ASSUME NEW T, Typed(T), NEW P \in ProcTables(T), NEW p \in Procs, NEW chan \in Int,
         \A o \in Procs : EndsIn(P[o].events, "SYNTHIO_EVENT")
  PROVE  /\ Asleep(P, p, chan) \in ProcTables(T)
         /\ \A o \in Procs : EndsIn(Asleep(P, p, chan)[o].events, "SYNTHIO_EVENT")
         /\ \A o \in Procs : Asleep(P, p, chan)[o].chan = chan
                               \/ (o # p /\ Asleep(P, p, chan)[o].chan = P[o].chan)
         /\ \A o \in Procs : o = p => Asleep(P, p, chan)[o].chan = chan
         /\ \A o \in Procs : o = p => Asleep(P, p, chan)[o].events = <<CSwitch(NextProc)>> \o P[o].events
         /\ \A o \in Procs : o # p => Asleep(P, p, chan)[o].events = P[o].events
<1> DEFINE R == Sleeper(P, p, chan, NextProc)
<1>1. NextProc \in Procs \cup {Nobody} /\ 0 \in T
  BY NextProcFacts DEF Typed
<1>2. /\ R \in ProcTables(T)
      /\ \A o \in Procs : EndsIn(R[o].events, "SYNTHIO_EVENT")
      /\ \A o \in Procs : R[o].chan = chan \/ (o # p /\ R[o].chan = P[o].chan)
      /\ \A o \in Procs : o = p => R[o].chan = chan
      /\ \A o \in Procs : o = p => R[o].events = <<CSwitch(NextProc)>> \o P[o].events
      /\ \A o \in Procs : o # p => R[o].events = P[o].events
  BY <1>1, SleeperFacts
<1>3. Asleep(P, p, chan) = OnProc(R, NextProc)
  BY DEF Asleep, Sleeper
<1> HIDE DEF R
<1>4. /\ OnProc(R, NextProc) \in ProcTables(T)
      /\ \A o \in Procs : OnProc(R, NextProc)[o].events = R[o].events /\ OnProc(R, NextProc)[o].chan = R[o].chan
  BY <1>1, <1>2, OnProcFacts
<1> QED BY <1>2, <1>3, <1>4

LEMMA AwaitedNow ==
  ASSUME NEW T, Typed(T), Typed(T)', NEW o, NEW i \in DOMAIN sleepqueue', procs'[sleepqueue'[i]].chan = o,
         \E y \in pendiolist' : y.opid = o /\ y.wanted
  PROVE  Awaited(procs[sleepqueue[i]].chan)'
BY DEF Awaited

LEMMA PutFirst ==
  ASSUME NEW S, NEW s \in Seq(S), NEW p \in S
  PROVE  /\ <<p>> \o s \in Seq(S) /\ \A i \in DOMAIN (<<p>> \o s) : (<<p>> \o s)[i] \in S
         /\ \A i \in DOMAIN (<<p>> \o s) : (<<p>> \o s)[i] = p \/ \E j \in DOMAIN s : (<<p>> \o s)[i] = s[j]
<1> DEFINE a == <<p>> \o s
<1>1. a \in Seq(S) /\ Len(a) = Len(s) + 1 /\ Len(s) \in Nat /\ DOMAIN a = 1..Len(s) + 1 /\ DOMAIN s = 1..Len(s)
      /\ a[1] = p /\ \A i \in 2..Len(s) + 1 : a[i] = s[i - 1]
  OBVIOUS
<1> HIDE DEF a
<1>2. ASSUME NEW i \in DOMAIN a PROVE a[i] = p \/ \E j \in DOMAIN s : a[i] = s[j]
  <2>1. CASE i = 1
    BY <1>1, <2>1
  <2>2. CASE i # 1
    <3>1. i \in 2..Len(s) + 1 /\ i - 1 \in DOMAIN s
      BY <1>1, <2>2
    <3> QED BY <1>1, <3>1
  <2> QED BY <2>1, <2>2
<1>3. \A i \in DOMAIN a : a[i] \in S
  BY <1>1
<1> QED BY <1>1, <1>2, <1>3 DEF a

\* pf_handle_sleep_event
LEMMA SleepKeeps ==
  ASSUME NEW T, NEW c, NEW q, Before(T, c, q), Handled(c, q, "SLEEP_EVENT", HandleSleep)
  PROVE  After /\ ~fault'
<1> DEFINE k == cpus[c]
           chain == Chain(k, procs)
           P == WithList(procs, k.procp, Tail(FlowList(c)))
           ev == Head(chain)
           p == k.procp
<1>0. /\ Typed(T) /\ Running /\ ~stop_sim /\ c \in Cpus /\ q \in Agendas(QueueEvents) /\ OthersGood(c, q)
      /\ WorkIsRun /\ WakeupComes /\ synthio_iocnt < config.endiocnt
  BY BeforeParts
<1>1. /\ chain # <<>> /\ Head(chain).type = "SLEEP_EVENT" /\ config' = config
      /\ HandleSleep(c, WithChain(c, cpus, Tail(chain)), ProcWithChain(c, cpus, procs, Tail(chain)), q, ev)
  BY DEF Handled
<1>2. /\ InProc(c, T) /\ chain = FlowList(c) /\ ev.arg \in Int /\ k.intrs = <<>> /\ p \in Procs /\ p # Nobody
      /\ Head(FlowList(c)).type # "SYNTHIO_EVENT"
  BY <1>1, FlowOnly
<1>3. /\ WithChain(c, cpus, Tail(chain)) = CpuChanged(c, k) /\ ProcWithChain(c, cpus, procs, Tail(chain)) = P
      /\ P \in ProcTables(T)
      /\ \A o \in Procs : EndsIn(P[o].events, "SYNTHIO_EVENT")
      /\ \A o \in Procs : P[o].chan = procs[o].chan
      /\ k \in CpuRecords /\ Resumable(c, k)
  BY <1>2, FlowTaken
<1>4. HandleSleep(c, CpuChanged(c, k), P, q, ev) /\ CpuChanged(c, k)[c] = k
  BY <1>0, <1>1, <1>3, CpuChangedFacts
<1>5. sleepqueue \in Seq(Procs) /\ pendiolist \in SUBSET IoRecords /\ doneiolist \in SUBSET IoRecords
  BY <1>0 DEF Typed
<1> HIDE DEF P, ev, chain
<1>6. /\ gens' = gens /\ synthio_iocnt' = synthio_iocnt /\ queue' = queue /\ idlereset' = idlereset
  BY <1>4 DEF HandleSleep
<1>7. CASE \E x \in pendiolist : x.opid = ev.arg
  <2> DEFINE R == Asleep(P, p, ev.arg)
  <2>1. /\ pendiolist' = Wanted(ev.arg) /\ sleepqueue' = <<p>> \o sleepqueue /\ pf_dispq' = Undispatched
        /\ Continue(c, CpuChanged(c, k), R, q, FALSE, FALSE) /\ doneiolist' = doneiolist
    BY <1>4, <1>7 DEF HandleSleep, PutOnSleepQueue
  <2>2. /\ R \in ProcTables(T) /\ \A o \in Procs : EndsIn(R[o].events, "SYNTHIO_EVENT")
        /\ \A o \in Procs : R[o].chan = ev.arg \/ (o # p /\ R[o].chan = P[o].chan)
        /\ \A o \in Procs : o = p => R[o].chan = ev.arg
    BY <1>0, <1>2, <1>3, AsleepFacts
  <2>3. /\ Wanted(ev.arg) \in SUBSET IoRecords /\ \E y \in Wanted(ev.arg) : y.opid = ev.arg /\ y.wanted
        /\ \A x \in pendiolist : x.wanted => \E y \in Wanted(ev.arg) : y.opid = x.opid /\ y.wanted
    BY <1>2, <1>5, <1>7, WantedFacts
  <2>4. Undispatched \in Seq(Procs) /\ (Undispatched # <<>> => pf_dispq # <<>>)
    BY <1>0, NextProcFacts DEF Undispatched
  <2>5. /\ sleepqueue' \in Seq(Procs) /\ \A i \in DOMAIN sleepqueue' : sleepqueue'[i] \in Procs
        /\ \A i \in DOMAIN sleepqueue' : sleepqueue'[i] = p \/ \E j \in DOMAIN sleepqueue : sleepqueue'[i] = sleepqueue[j]
    BY <1>2, <1>5, <2>1, PutFirst
  <2> HIDE DEF R
  <2>6. HandlersTyped(T) /\ {0, 1} \subseteq T
    BY <1>0, <1>6, <2>1, <2>3, <2>4, <2>5, UntouchedTyped DEF HandlersTyped
  <2>7. /\ Typed(T)' /\ Running' /\ WorkIsRun'
        /\ procs' = R /\ cpus' = CpuChanged(c, Settled(k)) /\ (fault' <=> FALSE)
    <3>1. pf_dispq' # <<>> => /\ pf_dispq # <<>> \/ c = 1
                              /\ k.intrs # <<>> \/ k.procp # Nobody \/ k.idleevents # <<>>
      BY <1>2, <2>1, <2>4
    <3>2. synthio_iocnt' < config.endiocnt
      BY <1>0, <1>6
    <3> QED BY <1>0, <1>1, <1>3, <2>1, <2>2, <2>6, <3>1, <3>2, Finished
  <2>8. ASSUME NEW i \in DOMAIN sleepqueue'
        PROVE  \/ Awaited(procs[sleepqueue[i]].chan)'
               \/ \E j \in DOMAIN sleepqueue :
                  /\ procs'[sleepqueue'[i]].chan = procs[sleepqueue[j]].chan
                  /\ \A x \in pendiolist : x.opid = procs[sleepqueue[j]].chan /\ x.wanted =>
                        \/ \E y \in pendiolist' : y.opid = x.opid /\ y.wanted
                        \/ WakeupOn(k, x.opid)
                  /\ WakeupOn(cpus[c], procs[sleepqueue[j]].chan) => WakeupOn(k, procs[sleepqueue[j]].chan)
    <3> DEFINE o == sleepqueue'[i]
    <3>1. o \in Procs /\ (o = p \/ \E j \in DOMAIN sleepqueue : o = sleepqueue[j])
      BY <2>5
    <3>2. CASE procs'[o].chan = ev.arg
      <4>1. \E y \in pendiolist' : y.opid = ev.arg /\ y.wanted
        BY <2>1, <2>3
      <4>2. procs'[sleepqueue'[i]].chan = ev.arg
        BY <3>2
      <4> HIDE DEF o
      <4> QED BY <1>0, <2>7, <4>1, <4>2, AwaitedNow
    <3>3. CASE procs'[o].chan # ev.arg
      <4>1. o # p /\ procs'[o].chan = procs[o].chan
        BY <1>3, <2>2, <2>7, <3>1, <3>3
      <4>2. PICK j \in DOMAIN sleepqueue : o = sleepqueue[j]
        BY <3>1, <4>1
      <4>3. procs'[sleepqueue'[i]].chan = procs[sleepqueue[j]].chan
        BY <4>1, <4>2
      <4> HIDE DEF o
      <4>4. \A x \in pendiolist : x.wanted => \E y \in pendiolist' : y.opid = x.opid /\ y.wanted
        BY <2>1, <2>3
      <4> QED BY <4>3, <4>4
    <3> QED BY <3>2, <3>3
  <2>9. WakeupComes'
    BY <1>0, <1>1, <1>3, <2>7, <2>8, WakeupKept
  <2> QED BY <2>7, <2>9 DEF After
<1>8. CASE ~\E x \in pendiolist : x.opid = ev.arg
  <2>1. /\ doneiolist' = {x \in doneiolist : x.opid # ev.arg}
        /\ Continue(c, CpuChanged(c, k), P, q, FALSE, FALSE)
        /\ pendiolist' = pendiolist /\ sleepqueue' = sleepqueue /\ pf_dispq' = pf_dispq
    BY <1>4, <1>8 DEF HandleSleep
  <2>2. HandlersTyped(T) /\ {0, 1} \subseteq T
    BY <1>0, <1>5, <1>6, <2>1, UntouchedTyped DEF HandlersTyped
  <2>3. /\ Typed(T)' /\ Running' /\ WorkIsRun'
        /\ procs' = P /\ cpus' = CpuChanged(c, Settled(k)) /\ (fault' <=> FALSE)
    <3>1. pf_dispq' # <<>> => /\ pf_dispq # <<>> \/ c = 1
                              /\ k.intrs # <<>> \/ k.procp # Nobody \/ k.idleevents # <<>>
      BY <1>2, <2>1
    <3>2. synthio_iocnt' < config.endiocnt
      BY <1>0, <1>6
    <3>3. /\ Before(T, c, q) /\ config' = config /\ Continue(c, CpuChanged(c, k), P, q, FALSE, FALSE)
          /\ q \in Agendas(QueueEvents) /\ OthersGood(c, q)
          /\ P \in ProcTables(T) /\ \A o \in Procs : EndsIn(P[o].events, "SYNTHIO_EVENT")
          /\ k \in CpuRecords /\ Resumable(c, k)
      BY <1>0, <1>1, <1>3, <2>1
    <3> QED BY <2>2, <3>1, <3>2, <3>3, Finished
  <2>4. \A x \in pendiolist : x.wanted => \E y \in pendiolist' : y.opid = x.opid /\ y.wanted
    BY <2>1
  <2>5. WakeupComes'
    BY <1>0, <1>1, <1>3, <2>1, <2>3, <2>4, SleepersKept
  <2> QED BY <2>3, <2>5 DEF After
<1> QED BY <1>7, <1>8


\* An event of an interrupt that is not its last
LEMMA IntrTaken ==
  ASSUME NEW T, NEW c, NEW q, Before(T, c, q), InIntr(c), Head(TopList(c)).type # "INTEND_EVENT"
  PROVE  /\ WithChain(c, cpus, Tail(Chain(cpus[c], procs))) = CpuChanged(c, WithTop(cpus[c], Tail(TopList(c))))
         /\ ProcWithChain(c, cpus, procs, Tail(Chain(cpus[c], procs))) = procs
         /\ procs \in ProcTables(T)
         /\ Tail(TopList(c)) \in Seq(IntrEvents) /\ EndsIn(Tail(TopList(c)), "INTEND_EVENT")
         /\ WithTop(cpus[c], Tail(TopList(c))) \in CpuRecords /\ Resumable(c, WithTop(cpus[c], Tail(TopList(c))))
         /\ WithTop(cpus[c], Tail(TopList(c))).intrs # <<>>
         /\ WithTop(cpus[c], Tail(TopList(c))).intrs = SetTop(cpus[c].intrs, Tail(TopList(c)))
         /\ \A o : Head(TopList(c)) # Wakeup(o) /\ WakeupOn(cpus[c], o)
                      => WakeupOn(WithTop(cpus[c], Tail(TopList(c))), o)
<1> DEFINE s == Tail(TopList(c))
<1>1. /\ Typed(T) /\ Running /\ ~stop_sim /\ c \in Cpus
  BY BeforeParts
<1>2. /\ WithChain(c, cpus, Tail(Chain(cpus[c], procs))) = CpuChanged(c, WithTop(cpus[c], s))
      /\ ProcWithChain(c, cpus, procs, Tail(Chain(cpus[c], procs))) = procs
  BY DEF InIntr
<1>3. procs \in ProcTables(T)
  BY <1>1 DEF Typed
<1>4. /\ s \in Seq(IntrEvents) /\ EndsIn(s, "INTEND_EVENT")
      /\ WithTop(cpus[c], s) \in CpuRecords /\ Resumable(c, WithTop(cpus[c], s))
      /\ WithTop(cpus[c], s).intrs # <<>> /\ WithTop(cpus[c], s).intrs = SetTop(cpus[c].intrs, s)
      /\ \A o : Head(TopList(c)) # Wakeup(o) /\ WakeupOn(cpus[c], o) => WakeupOn(WithTop(cpus[c], s), o)
  BY <1>1, TopTaken
<1> HIDE DEF s
<1> QED BY <1>2, <1>3, <1>4 DEF s

LEMMA WokenFacts ==
  ASSUME NEW T, NEW P \in ProcTables(T), NEW s \in Seq(Procs)
  PROVE  /\ Woken(P, s) \in ProcTables(T)
         /\ \A o \in Procs : Woken(P, s)[o].events = P[o].events
         /\ \A o \in Procs : Woken(P, s)[o].chan = P[o].chan
<1>1. ASSUME NEW o \in Procs
      PROVE  /\ Woken(P, s)[o] \in ProcRecords(T) /\ Woken(P, s)[o].events = P[o].events
             /\ Woken(P, s)[o].chan = P[o].chan
  <2>1. P[o] \in ProcRecords(T)
    BY DEF ProcTables
  <2> DEFINE r == [P[o] EXCEPT !.stat = "PROC_RUN"]
  <2>2. r \in ProcRecords(T) /\ r.events = P[o].events /\ r.chan = P[o].chan
    BY <2>1 DEF ProcRecords
  <2>3. Woken(P, s)[o] = r \/ Woken(P, s)[o] = P[o]
    BY DEF Woken
  <2> HIDE DEF r
  <2> QED BY <2>1, <2>2, <2>3
<1>2. Woken(P, s) = [o \in Procs |-> Woken(P, s)[o]]
  BY DEF Woken
<1>3. Woken(P, s) \in [Procs -> ProcRecords(T)]
  BY <1>1, <1>2
<1> QED BY <1>1, <1>3 DEF ProcTables

\* pf_handle_wakeup_event
LEMMA WakeupKeeps ==
  ASSUME NEW T, NEW c, NEW q, Before(T, c, q), Handled(c, q, "WAKEUP_EVENT", HandleWakeup)
  PROVE  After /\ ~fault'
<1> DEFINE k == cpus[c]
           chain == Chain(k, procs)
           ev == Head(chain)
           w == WithTop(k, Tail(TopList(c)))
           sleepers == SleepersOn(procs, ev.arg)
           woken == Selected(sleepqueue, sleepers)
           R == Woken(procs, woken)
<1>0. /\ Typed(T) /\ Running /\ ~stop_sim /\ c \in Cpus /\ q \in Agendas(QueueEvents) /\ OthersGood(c, q)
      /\ WorkIsRun /\ WakeupComes /\ synthio_iocnt < config.endiocnt
      /\ \A p \in Procs : EndsIn(procs[p].events, "SYNTHIO_EVENT")
  BY BeforeParts
<1>1. /\ chain # <<>> /\ Head(chain).type = "WAKEUP_EVENT" /\ config' = config
      /\ HandleWakeup(c, WithChain(c, cpus, Tail(chain)), ProcWithChain(c, cpus, procs, Tail(chain)), q, ev)
  BY DEF Handled
<1>2. /\ InIntr(c) /\ chain = TopList(c) /\ ev.arg \in Int /\ c = 1 /\ Head(TopList(c)).type = "WAKEUP_EVENT"
      /\ Head(TopList(c)) = ev
  BY <1>1, IntrOnly
<1>3. /\ WithChain(c, cpus, Tail(chain)) = CpuChanged(c, w) /\ ProcWithChain(c, cpus, procs, Tail(chain)) = procs
      /\ procs \in ProcTables(T)
      /\ w \in CpuRecords /\ Resumable(c, w) /\ w.intrs # <<>>
      /\ \A o : Head(TopList(c)) # Wakeup(o) /\ WakeupOn(k, o) => WakeupOn(w, o)
  BY <1>2, IntrTaken
<1>4. HandleWakeup(c, CpuChanged(c, w), procs, q, ev)
  BY <1>1, <1>3
<1>5. \A o : o # ev.arg /\ WakeupOn(k, o) => WakeupOn(w, o)
  <2>1. \A o : o # ev.arg => ev # Wakeup(o)
    BY DEF Wakeup, Event
  <2> HIDE DEF ev, w, k
  <2> QED BY <1>2, <1>3, <2>1
<1>6. sleepqueue \in Seq(Procs) /\ pf_dispq \in Seq(Procs)
  BY <1>0 DEF Typed
<1>7. sleepers \in SUBSET DOMAIN sleepqueue /\ \A j \in DOMAIN sleepqueue : j \notin sleepers =>
                                                    procs[sleepqueue[j]].chan # ev.arg
  BY DEF SleepersOn
<1> DEFINE rest == DOMAIN sleepqueue \ sleepers
<1> HIDE DEF sleepers, ev, chain, w
<1>8. woken \in Seq(Procs)
  BY <1>6, <1>7, SelectedFacts
<1>9. rest \in SUBSET DOMAIN sleepqueue
  OBVIOUS
<1> HIDE DEF rest
<1>10. /\ Selected(sleepqueue, rest) \in Seq(Procs)
       /\ \A i \in DOMAIN Selected(sleepqueue, rest) : \E j \in rest : Selected(sleepqueue, rest)[i] = sleepqueue[j]
  BY <1>6, <1>9, SelectedFacts
<1>11. /\ sleepqueue' = Selected(sleepqueue, rest)
       /\ pf_dispq' = pf_dispq \o woken
       /\ Continue(c, CpuChanged(c, w), R, q, FALSE, FALSE)
       /\ pendiolist' = pendiolist /\ doneiolist' = doneiolist /\ gens' = gens
       /\ synthio_iocnt' = synthio_iocnt /\ queue' = queue /\ idlereset' = idlereset
  BY <1>4 DEF HandleWakeup, PutAtEnd, sleepers, rest
<1> HIDE DEF woken
<1>12. /\ R \in ProcTables(T) /\ \A o \in Procs : R[o].events = procs[o].events
       /\ \A o \in Procs : R[o].chan = procs[o].chan
  BY <1>3, <1>8, WokenFacts
<1>13. pf_dispq' \in Seq(Procs)
  BY <1>6, <1>8, <1>11
<1> HIDE DEF R
<1>14. HandlersTyped(T) /\ {0, 1} \subseteq T
  BY <1>0, <1>10, <1>11, <1>13, UntouchedTyped DEF HandlersTyped
<1>15. /\ Typed(T)' /\ Running' /\ WorkIsRun'
       /\ procs' = R /\ cpus' = CpuChanged(c, Settled(w)) /\ (fault' <=> FALSE)
  <2>1. synthio_iocnt' < config.endiocnt /\ \A p \in Procs : EndsIn(R[p].events, "SYNTHIO_EVENT")
    BY <1>0, <1>11, <1>12
  <2>2. pf_dispq' # <<>> => /\ pf_dispq # <<>> \/ c = 1
                            /\ w.intrs # <<>> \/ w.procp # Nobody \/ w.idleevents # <<>>
    BY <1>2, <1>3
  <2> QED BY <1>0, <1>1, <1>3, <1>11, <1>12, <1>14, <2>1, <2>2, Finished
<1>16. ASSUME NEW i \in DOMAIN sleepqueue'
       PROVE  \E j \in DOMAIN sleepqueue :
                  /\ procs'[sleepqueue'[i]].chan = procs[sleepqueue[j]].chan
                  /\ \A x \in pendiolist : x.opid = procs[sleepqueue[j]].chan /\ x.wanted =>
                        \/ \E y \in pendiolist' : y.opid = x.opid /\ y.wanted
                        \/ WakeupOn(w, x.opid)
                  /\ WakeupOn(cpus[c], procs[sleepqueue[j]].chan) => WakeupOn(w, procs[sleepqueue[j]].chan)
  <2>1. PICK j \in rest : sleepqueue'[i] = sleepqueue[j]
    BY <1>10, <1>11, <1>16
  <2>2. j \in DOMAIN sleepqueue /\ sleepqueue[j] \in Procs /\ procs[sleepqueue[j]].chan # ev.arg
    BY <1>6, <1>7 DEF rest
  <2> DEFINE p == sleepqueue[j]
  <2>3. procs'[p].chan = procs[p].chan
    BY <1>12, <1>15, <2>2
  <2>4. procs'[sleepqueue'[i]].chan = procs[sleepqueue[j]].chan
    BY <2>1, <2>3
  <2>5. \A x \in pendiolist : x.wanted => \E y \in pendiolist' : y.opid = x.opid /\ y.wanted
    BY <1>11
  <2>6. WakeupOn(cpus[c], procs[sleepqueue[j]].chan) => WakeupOn(w, procs[sleepqueue[j]].chan)
    BY <1>5, <2>2
  <2> QED BY <2>2, <2>4, <2>5, <2>6
<1>17. WakeupComes'
  BY <1>0, <1>1, <1>3, <1>15, <1>16, WakeupKept
<1> QED BY <1>15, <1>17 DEF After


\* pf_handle_io_internal_event
LEMMA AccessKeeps ==
  ASSUME NEW T, NEW c, NEW q, Before(T, c, q), Handled(c, q, "IO_ACCESS_ARRIVE", HandleAccess)
  PROVE  After /\ ~fault'
<1> DEFINE k == cpus[c]
           chain == Chain(k, procs)
           ev == Head(chain)
           e == Interrupt(ev.arg, Head(config.causes))
<1>0. /\ Typed(T) /\ Running /\ ~stop_sim /\ c \in Cpus /\ q \in Agendas(QueueEvents) /\ OthersGood(c, q)
  BY BeforeParts
<1>1. /\ chain # <<>> /\ Head(chain).type = "IO_ACCESS_ARRIVE" /\ config' = config
      /\ HandleAccess(c, WithChain(c, cpus, Tail(chain)), ProcWithChain(c, cpus, procs, Tail(chain)), q, ev)
  BY DEF Handled
<1>2. InIntr(c) \/ InProc(c, T) \/ InIdle(c)
  BY <1>0, <1>1, Modes
<1>3. ev.arg \in Int
  BY <1>1, <1>2 DEF InIntr, InProc, InIdle, IntrEvents, FlowEvents, IdleEvents
<1>4. Head(config.causes) \in Causes
  <2>1. config.causes \in {<<"COMPLETION">>, <<"DISCONNECT", "RECONNECT", "COMPLETION">>}
    BY <1>0, ConfigParts
  <2> QED BY <2>1 DEF Causes
<1>5. e \in QueueEvents /\ \A d \in Cpus : e # CpuEvent(d)
  BY <1>3, <1>4, InterruptIsEvent
<1> HIDE DEF e
<1>6. Put(q, e, 1) \in Agendas(QueueEvents) /\ OthersGood(c, Put(q, e, 1))
  BY <1>0, <1>5, OthersGoodPut
<1>7. /\ UNCHANGED Untouched
      /\ Continue(c, WithChain(c, cpus, Tail(chain)), ProcWithChain(c, cpus, procs, Tail(chain)), Put(q, e, 1),
                  FALSE, FALSE)
  BY <1>1 DEF HandleAccess, Scheduled, Untouched, e
<1> QED BY <1>1, <1>6, <1>7, PlainKeeps

\* The interrupt after one that is not the completion
NextCause(cause) == config.causes[(CHOOSE j \in DOMAIN config.causes : config.causes[j] = cause) + 1]

LEMMA NextCauseFacts ==
  ASSUME NEW T, Typed(T), NEW cause \in Causes, cause # "COMPLETION"
  PROVE  NextCause(cause) \in Causes
<1> DEFINE i == CHOOSE j \in DOMAIN config.causes : config.causes[j] = cause
<1>1. /\ config.causes \in {<<"COMPLETION">>, <<"DISCONNECT", "RECONNECT", "COMPLETION">>}
      /\ \E j \in DOMAIN config.causes : config.causes[j] = cause
  BY ConfigParts DEF Causes
<1>2. i \in DOMAIN config.causes /\ config.causes[i] = cause
  BY <1>1
<1> HIDE DEF i
<1>3. config.causes[i + 1] \in Causes
  <2>1. CASE config.causes = <<"COMPLETION">>
    BY <1>2, <2>1
  <2>2. CASE config.causes = <<"DISCONNECT", "RECONNECT", "COMPLETION">>
    <3> DEFINE s == <<"DISCONNECT", "RECONNECT", "COMPLETION">>
    <3>1. DOMAIN s = 1..3 /\ s[3] = "COMPLETION"
      OBVIOUS
    <3>2. i \in 1..2
      BY <1>2, <2>2, <3>1
    <3>3. i + 1 \in DOMAIN config.causes
      BY <2>2, <3>1, <3>2
    <3> QED BY <3>3 DEF Causes
  <2> QED BY <1>1, <2>1, <2>2
<1> QED BY <1>3 DEF NextCause, i

\* The cause of the interrupt whose event is taken
LEMMA TopCause ==
  ASSUME NEW T, NEW c, NEW q, Before(T, c, q), InIntr(c), Head(TopList(c)).type # "INTEND_EVENT"
  PROVE  /\ Head(WithChain(c, cpus, Tail(Chain(cpus[c], procs)))[c].intrs).cause = cpus[1].intrs[1].cause
         /\ cpus[1].intrs[1].cause \in Causes
<1> DEFINE k == cpus[c]
           C == WithChain(c, cpus, Tail(Chain(k, procs)))
           w == WithTop(k, Tail(TopList(c)))
           s == Tail(TopList(c))
<1>0. /\ Typed(T) /\ c \in Cpus /\ c = 1
  BY BeforeParts DEF InIntr
<1>1. /\ C = CpuChanged(c, w) /\ w \in CpuRecords /\ w.intrs = SetTop(k.intrs, s) /\ w.intrs # <<>>
      /\ s \in Seq(IntrEvents)
  BY IntrTaken
<1> HIDE DEF w, C
<1>2. C[c] = w
  BY <1>0, <1>1, CpuChangedFacts
<1>3. k.intrs[1].cause # "CLOCK" /\ k.intrs[1].cause \in Causes
  BY NotOfTheClock
<1>4. k.intrs \in Seq(Intrs) /\ k.intrs # <<>> /\ 1 \in DOMAIN k.intrs
  BY <1>0, CpuRecordParts DEF InIntr, Typed
<1> DEFINE a == k.intrs
<1> HIDE DEF a, s, k
<1>5. Head(SetTop(a, s)) = SetTop(a, s)[1] /\ \A j \in DOMAIN a : SetTop(a, s)[j].cause = a[j].cause
  BY <1>1, <1>3, <1>4, SetTopFacts DEF a
<1>6. Head(C[c].intrs).cause = k.intrs[1].cause
  BY <1>1, <1>2, <1>4, <1>5 DEF a
<1> QED BY <1>0, <1>3, <1>6 DEF k, C

\* iodriver_respond_to_device
LEMMA RespondKeeps ==
  ASSUME NEW T, NEW c, NEW q, Before(T, c, q), Handled(c, q, "IO_RESPOND_TO_DEVICE", HandleRespond)
  PROVE  After /\ ~fault'
<1> DEFINE k == cpus[c]
           chain == Chain(k, procs)
           ev == Head(chain)
           C == WithChain(c, cpus, Tail(chain))
           cause == Head(C[c].intrs).cause
           e == Interrupt(ev.arg, NextCause(cause))
           next == IF config.consttime \/ cause = "COMPLETION" THEN q ELSE Put(q, e, 1)
<1>0. /\ Typed(T) /\ c \in Cpus /\ q \in Agendas(QueueEvents) /\ OthersGood(c, q)
  BY BeforeParts
<1>1. /\ chain # <<>> /\ Head(chain).type = "IO_RESPOND_TO_DEVICE" /\ config' = config
      /\ HandleRespond(c, C, ProcWithChain(c, cpus, procs, Tail(chain)), q, ev)
  BY DEF Handled
<1>2. /\ InIntr(c) /\ chain = TopList(c) /\ ev.arg \in Int /\ c = 1
      /\ Head(TopList(c)).type # "INTEND_EVENT"
  BY <1>1, IntrOnly
<1>3. /\ UNCHANGED Untouched
      /\ Continue(c, C, ProcWithChain(c, cpus, procs, Tail(chain)), next, FALSE, FALSE)
  BY <1>1 DEF HandleRespond, Untouched, NextCause
<1>4. cause \in Causes
  BY <1>2, TopCause
<1>5. next \in Agendas(QueueEvents) /\ OthersGood(c, next)
  <2>1. CASE config.consttime \/ cause = "COMPLETION"
    BY <1>0, <2>1
  <2>2. CASE ~(config.consttime \/ cause = "COMPLETION")
    <3> HIDE DEF cause
    <3>1. NextCause(cause) \in Causes
      BY <1>0, <1>4, <2>2, NextCauseFacts
    <3>2. e \in QueueEvents /\ \A d \in Cpus : e # CpuEvent(d)
      BY <1>2, <3>1, InterruptIsEvent
    <3> HIDE DEF e
    <3>3. Put(q, e, 1) \in Agendas(QueueEvents) /\ OthersGood(c, Put(q, e, 1))
      BY <1>0, <3>2, OthersGoodPut
    <3> QED BY <2>2, <3>3
  <2> QED BY <2>1, <2>2
<1> HIDE DEF next
<1> QED BY <1>1, <1>3, <1>5, PlainKeeps


(***************************************************************************)
(* The generators.                                                          *)
(***************************************************************************)

\* More times may occur.
LEMMA Wider ==
  ASSUME NEW T, NEW U, T \subseteq U
  PROVE  /\ Seq(FlowEvents(T)) \subseteq Seq(FlowEvents(U))
         /\ Seq(LimitEvents(T)) \subseteq Seq(LimitEvents(U))
         /\ ProcTables(T) \subseteq ProcTables(U)
         /\ GenRecords(T) \subseteq GenRecords(U)
<1>1. FlowEvents(T) \subseteq FlowEvents(U) /\ LimitEvents(T) \subseteq LimitEvents(U)
  BY DEF FlowEvents, LimitEvents
<1>2. \A A, B : A \subseteq B => Seq(A) \subseteq Seq(B)
  OBVIOUS
<1>3. Seq(FlowEvents(T)) \subseteq Seq(FlowEvents(U)) /\ Seq(LimitEvents(T)) \subseteq Seq(LimitEvents(U))
  BY <1>1, <1>2
<1> DEFINE A == Seq(FlowEvents(T))
           B == Seq(FlowEvents(U))
           A1 == Seq(LimitEvents(T))
           B1 == Seq(LimitEvents(U))
<1> HIDE DEF A, B, A1, B1
<1>4. A \subseteq B /\ A1 \subseteq B1
  BY <1>3 DEF A, B, A1, B1
<1>5. ProcRecords(T) \subseteq ProcRecords(U)
  <2>1. /\ ProcRecords(T) = [events : A, stat : {"PROC_SLEEP", "PROC_RUN", "PROC_ONPROC"}, chan : Int]
        /\ ProcRecords(U) = [events : B, stat : {"PROC_SLEEP", "PROC_RUN", "PROC_ONPROC"}, chan : Int]
    BY DEF ProcRecords, A, B
  <2> QED BY <1>4, <2>1
<1>6. ProcTables(T) \subseteq ProcTables(U)
  BY <1>5 DEF ProcTables
<1>7. GenRecords(T) \subseteq GenRecords(U)
  <2>1. /\ GenRecords(T) = [blkno : Int, bcount : Int, devno : Devices, class : {"CRITICAL", "LIMITED", "NONE"}, limits : A1]
        /\ GenRecords(U) = [blkno : Int, bcount : Int, devno : Devices, class : {"CRITICAL", "LIMITED", "NONE"}, limits : B1]
    BY DEF GenRecords, A1, B1
  <2> QED BY <1>4, <2>1
<1> QED BY <1>3, <1>6, <1>7

LEMMA TypedWider ==
  ASSUME NEW T, NEW U, T \subseteq U, Typed(T)
  PROVE  Typed(U)
<1>1. ProcTables(T) \subseteq ProcTables(U) /\ GenRecords(T) \subseteq GenRecords(U)
  BY Wider
<1>2. /\ procs \in ProcTables(U) /\ gens \in [Procs -> GenRecords(U)] /\ {0, 1} \subseteq U
  BY <1>1 DEF Typed
<1> QED BY <1>2 DEF Typed

LEMMA SubSeqParts ==
  ASSUME NEW S, NEW s \in Seq(S), NEW n \in 0..Len(s)
  PROVE  /\ SubSeq(s, 1, n) \in Seq(S) /\ SubSeq(s, n + 1, Len(s)) \in Seq(S)
<1>1. Len(s) \in Nat /\ n \in Int /\ n + 1 \in Int /\ 1 \in Int
  OBVIOUS
<1>2. \A i \in 1..n : s[i] \in S
  OBVIOUS
<1>3. \A i \in n + 1..Len(s) : s[i] \in S
  OBVIOUS
<1>4. SubSeq(s, 1, n) \in Seq(S)
  BY <1>1, <1>2, SubSeqProperties
<1>5. SubSeq(s, n + 1, Len(s)) \in Seq(S)
  BY <1>1, <1>3, SubSeqProperties
<1> QED BY <1>4, <1>5

\* How many of the elements of a sequence
LEMMA CountOfPlaces ==
  ASSUME NEW S, NEW s \in Seq(S), NEW K \in SUBSET DOMAIN s
  PROVE  Cardinality(K) \in 0..Len(s)
<1>1. Len(s) \in Nat /\ DOMAIN s = 1..Len(s)
  OBVIOUS
<1>2. IsFiniteSet(1..Len(s)) /\ Cardinality(1..Len(s)) = Len(s)
  <2> DEFINE m == Len(s)
  <2>1. m \in Nat
    BY <1>1
  <2> HIDE DEF m
  <2>2. IsFiniteSet(1..m) /\ Cardinality(1..m) = IF 1 > m THEN 0 ELSE m - 1 + 1
    BY <2>1, FS_Interval
  <2>3. Cardinality(1..m) = m
    BY <2>1, <2>2
  <2> QED BY <2>2, <2>3 DEF m
<1>3. Cardinality(K) <= Len(s) /\ IsFiniteSet(K)
  BY <1>1, <1>2, FS_Subset
<1>4. Cardinality(K) \in Nat
  BY <1>3, FS_CardinalityType
<1> QED BY <1>1, <1>3, <1>4

\* synthio_appendio puts a sleep in the list, and no other times than these.
LEMMA InsertLimitFacts ==
  ASSUME NEW T, NEW limits \in Seq(LimitEvents(T)), NEW t, NEW o \in Int
  PROVE  \E U : T \subseteq U /\ InsertLimit(limits, Event("SLEEP_EVENT", t, o)) \in Seq(LimitEvents(U))
<1> DEFINE sleep == Event("SLEEP_EVENT", t, o)
           K    == {i \in DOMAIN limits : When(limits, i) <= sleep.time}
           n    == Cardinality(K)
           here == Later(sleep, When(limits, n))
           rest == SubSeq(limits, n + 1, Len(limits))
           next == Later(Head(rest), here.time)
           U    == T \cup {here.time, next.time}
<1>0. K \in SUBSET DOMAIN limits
  OBVIOUS
<1> HIDE DEF K
<1>1. n \in 0..Len(limits)
  BY <1>0, CountOfPlaces
<1> HIDE DEF n
<1>2. SubSeq(limits, 1, n) \in Seq(LimitEvents(T)) /\ rest \in Seq(LimitEvents(T))
  BY <1>1, SubSeqParts
<1> HIDE DEF rest
<1>3. here = [type |-> "SLEEP_EVENT", time |-> here.time, arg |-> o]
  BY DEF Later, Event
<1> HIDE DEF here
<1>4. rest # <<>> => /\ next = [type |-> "SLEEP_EVENT", time |-> next.time, arg |-> Head(rest).arg]
                     /\ Head(rest).arg \in Int /\ Tail(rest) \in Seq(LimitEvents(T))
  <2> SUFFICES ASSUME rest # <<>>
               PROVE  /\ next = [type |-> "SLEEP_EVENT", time |-> next.time, arg |-> Head(rest).arg]
                      /\ Head(rest).arg \in Int /\ Tail(rest) \in Seq(LimitEvents(T))
    OBVIOUS
  <2>1. Head(rest) \in LimitEvents(T) /\ Tail(rest) \in Seq(LimitEvents(T))
    BY <1>2
  <2> DEFINE h == Head(rest)
  <2> HIDE DEF h
  <2>2. h \in LimitEvents(T)
    BY <2>1 DEF h
  <2>3. Later(h, here.time) = [type |-> "SLEEP_EVENT", time |-> Later(h, here.time).time, arg |-> h.arg]
        /\ h.arg \in Int
    BY <2>2 DEF Later, LimitEvents
  <2> QED BY <2>1, <2>3 DEF h
<1> HIDE DEF next
<1>5. here \in LimitEvents(U) /\ (rest # <<>> => next \in LimitEvents(U)) /\ T \subseteq U
  BY <1>3, <1>4 DEF LimitEvents
<1> HIDE DEF U
<1>6. Seq(LimitEvents(T)) \subseteq Seq(LimitEvents(U))
  BY <1>5, Wider
<1> DEFINE tail == IF rest = <<>> THEN <<>> ELSE <<next>> \o Tail(rest)
<1>7. tail \in Seq(LimitEvents(U))
  BY <1>4, <1>5, <1>6
<1> HIDE DEF tail
<1>8. InsertLimit(limits, sleep) = SubSeq(limits, 1, n) \o <<here>> \o tail
  BY DEF InsertLimit, n, K, here, rest, next, tail
<1>9. InsertLimit(limits, sleep) \in Seq(LimitEvents(U))
  <2> DEFINE A == SubSeq(limits, 1, n)
  <2> HIDE DEF A
  <2>0. A \in Seq(LimitEvents(U))
    BY <1>2, <1>6 DEF A
  <2>1. <<here>> \in Seq(LimitEvents(U))
    BY <1>5
  <2>2. A \o <<here>> \o tail \in Seq(LimitEvents(U))
    BY <1>7, <2>0, <2>1
  <2> QED BY <1>8, <2>2 DEF A
<1> QED BY <1>5, <1>9


LEMMA ListedFacts ==
  ASSUME NEW T, NEW limits \in Seq(LimitEvents(T)), NEW o \in Int, NEW think, NEW class, NEW limit
  PROVE  \E U : T \subseteq U /\ Listed(limits, o, think, class, limit) \in Seq(LimitEvents(U))
<1>1. CASE class = "LIMITED"
  <2> DEFINE t == limit + think
  <2>1. Listed(limits, o, think, class, limit) = InsertLimit(limits, Event("SLEEP_EVENT", t, o))
    BY <1>1 DEF Listed
  <2> HIDE DEF t
  <2>2. \E U : T \subseteq U /\ InsertLimit(limits, Event("SLEEP_EVENT", t, o)) \in Seq(LimitEvents(U))
    BY InsertLimitFacts
  <2> QED BY <2>1, <2>2
<1>2. CASE class # "LIMITED"
  BY <1>2 DEF Listed
<1> QED BY <1>1, <1>2

LEMMA OverFacts ==
  ASSUME NEW T, NEW listed \in Seq(LimitEvents(T)), NEW think
  PROVE  Over(listed, think) \in 0..Len(listed)
BY CountOfPlaces DEF Over

\* synthio_appendio: a list with the request is as good as before.
LEMMA AppendedFacts ==
  ASSUME NEW T, 0 \in T, NEW events \in Seq(FlowEvents(T)), EndsIn(events, "SYNTHIO_EVENT"),
         NEW listed \in Seq(LimitEvents(T)), NEW over \in 0..Len(listed), NEW o \in Int,
         NEW think, NEW class, think - When(listed, over) \in T
  PROVE  /\ Appended(events, listed, over, o, think, class) \in Seq(FlowEvents(T))
         /\ EndsIn(Appended(events, listed, over, o, think, class), "SYNTHIO_EVENT")
<1> DEFINE first == SubSeq(listed, 1, over)
           req   == Event("IOREQ_EVENT", think - When(listed, over), o)
           sleep == IF class = "CRITICAL" THEN <<Event("SLEEP_EVENT", 0, o)>> ELSE <<>>
           E     == {e \in FlowEvents(T) : e.type # "SYNTHIO_EVENT"}
<1>1. first \in Seq(E)
  <2>1. first \in Seq(LimitEvents(T))
    BY SubSeqParts
  <2>2. LimitEvents(T) \subseteq E
    BY DEF LimitEvents, FlowEvents, FlowTypes
  <2> HIDE DEF first, E
  <2> QED BY <2>1, <2>2
<1>2. req \in E
  BY DEF Event, FlowEvents, FlowTypes
<1>3. sleep \in Seq(E)
  <2>1. Event("SLEEP_EVENT", 0, o) \in E
    BY DEF Event, FlowEvents, FlowTypes
  <2> DEFINE x == Event("SLEEP_EVENT", 0, o)
  <2> HIDE DEF x, E
  <2> QED BY <2>1 DEF x
<1>4. E \subseteq FlowEvents(T) /\ \A e \in E : e.type # "SYNTHIO_EVENT"
  OBVIOUS
<1>5. Appended(events, listed, over, o, think, class) = first \o <<req>> \o sleep \o events
  BY DEF Appended
<1> HIDE DEF first, req, sleep, E
<1> DEFINE u == first \o <<req>> \o sleep
<1>6. u \in Seq(E)
  BY <1>1, <1>2, <1>3
<1> HIDE DEF u
<1>7. u \in Seq(FlowEvents(T)) /\ \A i \in DOMAIN u : u[i].type # "SYNTHIO_EVENT"
  <2>1. \A i \in DOMAIN u : u[i] \in E
    BY <1>6
  <2>2. u \in Seq(FlowEvents(T))
    BY <1>4, <1>6
  <2> QED BY <1>4, <2>1, <2>2
<1>8. u \o events \in Seq(FlowEvents(T)) /\ EndsIn(u \o events, "SYNTHIO_EVENT")
  BY <1>7, EndsInPrefix
<1>9. Appended(events, listed, over, o, think, class) = u \o events
  BY <1>5 DEF u
<1> QED BY <1>8, <1>9

LEMMA DrawnFacts ==
  ASSUME NEW T, Typed(T), NEW p \in Procs, NEW x \in Drawn(gens[p])
  PROVE  x.blkno \in Int /\ x.bcount \in Int /\ x.devno \in Devices
<1> DEFINE g == gens[p]
<1>1. g.blkno \in Int /\ g.bcount \in Int /\ g.devno \in Devices
  BY DEF Typed, GenRecords
<1>2. /\ config.sizes \subseteq Int /\ config.locdists \subseteq Int /\ config.blksperdisk \in Nat \ {0}
  BY ConfigParts
<1> HIDE DEF g
<1>3. /\ [blkno |-> g.blkno + g.bcount, bcount |-> g.bcount, devno |-> g.devno].blkno \in Int
      /\ \A d \in config.locdists : g.blkno + d \in Int
  BY <1>1, <1>2
<1>4. \A y \in General : y.blkno \in Int /\ y.bcount \in Int /\ y.devno \in Devices
  BY <1>2 DEF General
<1>5. x \in General \/ x = [blkno |-> g.blkno + g.bcount, bcount |-> g.bcount, devno |-> g.devno]
        \/ \E d \in config.locdists, n \in config.sizes : x = [blkno |-> g.blkno + d, bcount |-> n, devno |-> g.devno]
  BY DEF Drawn, g
<1> QED BY <1>1, <1>2, <1>3, <1>4, <1>5

LEMMA DrawsFacts ==
  ASSUME NEW T, Typed(T), NEW draw \in Draws
  PROVE  draw[1] \in Int /\ draw[2] \in {"CRITICAL", "LIMITED", "NONE"} /\ draw[3] \in Int
BY ConfigParts DEF Draws, Values

LEMMA OpidIsNumber ==
  ASSUME NEW T, Typed(T), NEW p \in Procs, NEW n \in Nat
  PROVE  Opid(p, n) \in Int
<1>1. p \in Nat /\ config.endiocnt \in Nat
  BY ProcsAreNumbers, ConfigParts
<1> DEFINE b == config.endiocnt
           a == b * (p - 1)
<1> HIDE DEF b
<1>2. a \in Int
  BY <1>1 DEF b
<1> HIDE DEF a
<1>3. a + n \in Int
  BY <1>2
<1> QED BY <1>3 DEF Opid, a, b


LEMMA ListChangedAgain ==
  ASSUME NEW T, NEW P \in ProcTables(T), NEW p \in Procs, NEW s, NEW u
  PROVE  /\ [WithList(P, p, s) EXCEPT ![p].events = u] = WithList(P, p, u)
         /\ WithList(P, p, s)[p].events = s
<1>1. P[p] \in ProcRecords(T) /\ DOMAIN P = Procs
  BY DEF ProcTables
<1>2. P[p] = [events |-> P[p].events, stat |-> P[p].stat, chan |-> P[p].chan]
  BY <1>1, ProcRecordParts
<1> DEFINE r == [events |-> s, stat |-> P[p].stat, chan |-> P[p].chan]
           v == [events |-> u, stat |-> P[p].stat, chan |-> P[p].chan]
<1>3. [P[p] EXCEPT !.events = s] = r /\ [P[p] EXCEPT !.events = u] = v
  BY <1>2
<1>4. [r EXCEPT !.events = u] = v /\ r.events = s
  OBVIOUS
<1> HIDE DEF r, v
<1>5. WithList(P, p, s) = [P EXCEPT ![p] = r] /\ WithList(P, p, u) = [P EXCEPT ![p] = v]
  BY <1>3 DEF WithList
<1> DEFINE P1 == [P EXCEPT ![p] = r]
<1>6. P1[p] = r /\ DOMAIN P1 = Procs
  BY <1>1
<1>7. [P1 EXCEPT ![p].events = u] = [P1 EXCEPT ![p] = v]
  BY <1>4, <1>6
<1>8. [P1 EXCEPT ![p] = v] = [P EXCEPT ![p] = v]
  BY <1>1
<1> QED BY <1>4, <1>5, <1>6, <1>7, <1>8

\* The end of a handler that only gives the process the list s
LEMMA FlowStepKeeps ==
  ASSUME NEW T, NEW c, NEW q, Before(T, c, q), InProc(c, T), config' = config,
         NEW s \in Seq(FlowEvents(T)), EndsIn(s, "SYNTHIO_EVENT"), NEW stops \in BOOLEAN,
         HandlersTyped(T), pf_dispq' = pf_dispq, sleepqueue' = sleepqueue,
         ~stops => synthio_iocnt' < config.endiocnt,
         \A x \in pendiolist : x.wanted => \E y \in pendiolist' : y.opid = x.opid /\ y.wanted,
         Continue(c, CpuChanged(c, cpus[c]), WithList(procs, cpus[c].procp, s), q, stops, FALSE)
  PROVE  After /\ ~fault'
<1> DEFINE k == cpus[c]
           R == WithList(procs, k.procp, s)
<1>0. /\ Typed(T) /\ Running /\ ~stop_sim /\ c \in Cpus /\ q \in Agendas(QueueEvents) /\ OthersGood(c, q)
      /\ WorkIsRun /\ WakeupComes /\ {0, 1} \subseteq T
  BY BeforeParts, UntouchedTyped
<1>1. /\ R \in ProcTables(T) /\ \A p \in Procs : EndsIn(R[p].events, "SYNTHIO_EVENT")
      /\ \A p \in Procs : R[p].chan = procs[p].chan
  BY <1>0, ListGoesOn
<1>2. k \in CpuRecords /\ Resumable(c, k)
  BY <1>0, ProcStays
<1>3. k.procp # Nobody
  BY DEF InProc
<1>4. Continue(c, CpuChanged(c, k), R, q, stops, FALSE)
  OBVIOUS
<1> HIDE DEF R
<1>5. /\ Typed(T)' /\ Running' /\ WorkIsRun'
      /\ procs' = R /\ cpus' = CpuChanged(c, Settled(k)) /\ (fault' <=> FALSE)
  <2>1. pf_dispq' # <<>> => /\ pf_dispq # <<>> \/ c = 1
                            /\ k.intrs # <<>> \/ k.procp # Nobody \/ k.idleevents # <<>>
    BY <1>3
  <2>2. CASE stops = TRUE
    <3>1. Continue(c, CpuChanged(c, k), R, q, TRUE, FALSE)
      BY <1>4, <2>2
    <3> QED BY <1>0, <1>1, <1>2, <2>1, <3>1, Finished
  <2>3. CASE stops = FALSE
    <3>1. Continue(c, CpuChanged(c, k), R, q, FALSE, FALSE) /\ synthio_iocnt' < config.endiocnt
      BY <1>4, <2>3
    <3> QED BY <1>0, <1>1, <1>2, <2>1, <3>1, Finished
  <2> QED BY <2>2, <2>3
<1>6. WakeupComes'
  BY <1>0, <1>1, <1>2, <1>5, SleepersKept
<1> QED BY <1>5, <1>6 DEF After

\* pf_handle_synthio_event: the process has the list s, with the next request
\* before the event of its generator unless that was the last.
GeneratesOn(c, q) ==
    \E U, s, stops :
       /\ stops \in BOOLEAN /\ Before(U, c, q) /\ InProc(c, U)
       /\ s \in Seq(FlowEvents(U)) /\ EndsIn(s, "SYNTHIO_EVENT")
       /\ HandlersTyped(U) /\ config' = config
       /\ UNCHANGED <<pf_dispq, sleepqueue, pendiolist, queue>> /\ synthio_iocnt' = synthio_iocnt + 1
       /\ ~stops => synthio_iocnt' < config.endiocnt
       /\ Continue(c, CpuChanged(c, cpus[c]), WithList(procs, cpus[c].procp, s), q, stops, FALSE)
       /\ \/ s = <<Synthio>>
          \/ /\ ~stops
             /\ \E listed, over, think, class :
                   /\ listed \in Seq(LimitEvents(U)) /\ over \in 0..Len(listed)
                   /\ s = Appended(<<Synthio>>, listed, over, Opid(cpus[c].procp, synthio_iocnt + 1), think, class)

LEMMA GeneratorGoesOn ==
  ASSUME NEW T, NEW c, NEW q, Before(T, c, q), Handled(c, q, "SYNTHIO_EVENT", HandleSynthio)
  PROVE  GeneratesOn(c, q)
<1> DEFINE k == cpus[c]
           chain == Chain(k, procs)
           p == k.procp
           P == WithList(procs, p, <<>>)
           n == synthio_iocnt + 1
           GoesOn(U, s, stops) ==
              /\ stops \in BOOLEAN /\ Before(U, c, q) /\ InProc(c, U)
              /\ s \in Seq(FlowEvents(U)) /\ EndsIn(s, "SYNTHIO_EVENT")
              /\ HandlersTyped(U) /\ config' = config
              /\ UNCHANGED <<pf_dispq, sleepqueue, pendiolist, queue>> /\ synthio_iocnt' = synthio_iocnt + 1
              /\ ~stops => synthio_iocnt' < config.endiocnt
              /\ Continue(c, CpuChanged(c, cpus[c]), WithList(procs, cpus[c].procp, s), q, stops, FALSE)
              /\ \/ s = <<Synthio>>
                 \/ /\ ~stops
                    /\ \E listed, over, think, class :
                          /\ listed \in Seq(LimitEvents(U)) /\ over \in 0..Len(listed)
                          /\ s = Appended(<<Synthio>>, listed, over, Opid(cpus[c].procp, synthio_iocnt + 1), think, class)
<1>0. /\ Typed(T) /\ Running /\ ~stop_sim /\ c \in Cpus /\ q \in Agendas(QueueEvents) /\ OthersGood(c, q)
      /\ synthio_iocnt < config.endiocnt /\ {0, 1} \subseteq T
  BY BeforeParts, UntouchedTyped
<1>1. /\ chain # <<>> /\ Head(chain).type = "SYNTHIO_EVENT" /\ config' = config
      /\ HandleSynthio(c, WithChain(c, cpus, Tail(chain)), ProcWithChain(c, cpus, procs, Tail(chain)), q, Head(chain))
  BY DEF Handled
<1>2. /\ InProc(c, T) /\ chain = FlowList(c) /\ k.intrs = <<>> /\ p \in Procs /\ p # Nobody
      /\ Head(FlowList(c)).type = "SYNTHIO_EVENT"
  BY <1>1, FlowOnly
<1>3. Tail(chain) = <<>>
  <2> DEFINE l == FlowList(c)
  <2>1. l \in Seq(FlowEvents(T)) /\ EndsIn(l, "SYNTHIO_EVENT") /\ Head(l).type = "SYNTHIO_EVENT"
    BY <1>2 DEF InProc
  <2> HIDE DEF l
  <2>2. Tail(l) = <<>>
    BY <2>1, EndsInTail
  <2> QED BY <1>2, <2>2 DEF l
<1>4. WithChain(c, cpus, Tail(chain)) = CpuChanged(c, k) /\ ProcWithChain(c, cpus, procs, Tail(chain)) = P
  BY <1>2, <1>3 DEF InProc
<1>5. HandleSynthio(c, CpuChanged(c, k), P, q, Head(chain)) /\ CpuChanged(c, k)[c] = k
  <2>1. k \in CpuRecords
    BY <1>0 DEF Typed
  <2> QED BY <1>0, <1>1, <1>4, <2>1, CpuChangedFacts
<1>6. procs \in ProcTables(T) /\ gens \in [Procs -> GenRecords(T)] /\ synthio_iocnt \in Nat /\ config.endiocnt \in Nat
  BY <1>0, ConfigParts DEF Typed
<1>7. /\ \A u : [P EXCEPT ![p].events = u] = WithList(procs, p, u)
      /\ P[p].events = <<>>
  BY <1>2, <1>6, ListChangedAgain
<1>8. Synthio \in FlowEvents(T) /\ Synthio.type = "SYNTHIO_EVENT"
  BY <1>0 DEF Synthio, Event, FlowEvents, FlowTypes
<1>9. <<Synthio>> \o P[p].events = <<Synthio>>
  <2> DEFINE e == <<Synthio>>
  <2>1. e \in Seq({Synthio})
    OBVIOUS
  <2> HIDE DEF e
  <2>2. e \o <<>> = e
    BY <2>1, ConcatEmptySeq
  <2> QED BY <1>7, <2>2 DEF e
<1> HIDE DEF P, chain
<1>10. \A A : Synthio \in A => <<Synthio>> \in Seq(A) /\ EndsIn(<<Synthio>>, "SYNTHIO_EVENT")
  BY <1>8 DEF EndsIn
<1>11. synthio_iocnt' = n /\ UNCHANGED <<pf_dispq, sleepqueue, pendiolist, doneiolist, queue, idlereset>>
  BY <1>5 DEF HandleSynthio
<1>12. synthio_iocnt' \in 0..config.endiocnt
  BY <1>0, <1>6, <1>11
<1>14. CASE MoreToMake(n)
  <2>0. PICK x \in Drawn(gens[p]), draw \in Draws : \E listed, over :
           /\ listed = Listed(gens[p].limits, Opid(p, n), draw[1], draw[2], draw[3])
           /\ over = Over(listed, draw[1])
           /\ gens' = [gens EXCEPT ![p] =
                          [blkno |-> x.blkno, bcount |-> x.bcount, devno |-> x.devno, class |-> draw[2],
                           limits |-> SubSeq(listed, over + 1, Len(listed))]]
           /\ Continue(c, CpuChanged(c, k),
                       [P EXCEPT ![p].events =
                           Appended(<<Synthio>> \o @, listed, over, Opid(p, n), draw[1], draw[2])],
                       q, FALSE, FALSE)
    BY <1>5, <1>14 DEF HandleSynthio
  <2>1. PICK listed, over :
           /\ listed = Listed(gens[p].limits, Opid(p, n), draw[1], draw[2], draw[3])
           /\ over = Over(listed, draw[1])
           /\ gens' = [gens EXCEPT ![p] =
                          [blkno |-> x.blkno, bcount |-> x.bcount, devno |-> x.devno, class |-> draw[2],
                           limits |-> SubSeq(listed, over + 1, Len(listed))]]
           /\ Continue(c, CpuChanged(c, k),
                       [P EXCEPT ![p].events =
                           Appended(<<Synthio>> \o @, listed, over, Opid(p, n), draw[1], draw[2])],
                       q, FALSE, FALSE)
    BY <2>0
  <2> DEFINE s == Appended(<<Synthio>>, listed, over, Opid(p, n), draw[1], draw[2])
  <2>2. Continue(c, CpuChanged(c, k), WithList(procs, p, s), q, FALSE, FALSE)
    BY <1>7, <1>9, <2>1
  <2>3. Opid(p, n) \in Int
    BY <1>0, <1>2, <1>6, OpidIsNumber
  <2>4. PICK V : T \subseteq V /\ listed \in Seq(LimitEvents(V))
    <3> DEFINE l == gens[p].limits
    <3>1. l \in Seq(LimitEvents(T))
      BY <1>2, <1>6 DEF GenRecords
    <3> HIDE DEF l
    <3>2. \E V : T \subseteq V /\ Listed(l, Opid(p, n), draw[1], draw[2], draw[3]) \in Seq(LimitEvents(V))
      BY <2>3, <3>1, ListedFacts
    <3> QED BY <2>1, <3>2 DEF l
  <2> DEFINE late == draw[1] - When(listed, over)
             U == V \cup {late}
  <2>5. T \subseteq U /\ V \subseteq U /\ late \in U /\ 0 \in U
    BY <1>0, <2>4
  <2> HIDE DEF U
  <2>6. listed \in Seq(LimitEvents(U))
    <3>1. Seq(LimitEvents(V)) \subseteq Seq(LimitEvents(U))
      BY <2>5, Wider
    <3> QED BY <2>4, <3>1
  <2>7. over \in 0..Len(listed)
    BY <2>1, <2>6, OverFacts
  <2>8. SubSeq(listed, over + 1, Len(listed)) \in Seq(LimitEvents(U))
    BY <2>6, <2>7, SubSeqParts
  <2>9. Before(U, c, q)
    BY <1>0, <2>5, TypedWider DEF Before
  <2>10. InProc(c, U)
    BY <1>1, <1>2, <2>9, FlowOnly DEF chain
  <2>11. s \in Seq(FlowEvents(U)) /\ EndsIn(s, "SYNTHIO_EVENT")
    <3>1. Synthio \in FlowEvents(U)
      BY <2>5 DEF Synthio, Event, FlowEvents, FlowTypes
    <3> DEFINE e == <<Synthio>>
    <3>2. e \in Seq(FlowEvents(U)) /\ EndsIn(e, "SYNTHIO_EVENT")
      BY <1>10, <3>1
    <3>3. draw[1] - When(listed, over) \in U
      BY <2>5
    <3> HIDE DEF e
    <3> QED BY <2>3, <2>5, <2>6, <2>7, <3>2, <3>3, AppendedFacts DEF e
  <2>12. gens' \in [Procs -> GenRecords(U)]
    <3> DEFINE rest == SubSeq(listed, over + 1, Len(listed))
               r == [blkno |-> x.blkno, bcount |-> x.bcount, devno |-> x.devno, class |-> draw[2], limits |-> rest]
    <3>1. gens' = [gens EXCEPT ![p] = r]
      BY <2>1
    <3>2. rest \in Seq(LimitEvents(U))
      BY <2>8
    <3> HIDE DEF rest
    <3>3. x.blkno \in Int /\ x.bcount \in Int /\ x.devno \in Devices
      BY <1>0, <1>2, DrawnFacts
    <3>4. draw[2] \in {"CRITICAL", "LIMITED", "NONE"}
      BY <1>0, DrawsFacts
    <3>5. r \in GenRecords(U)
      BY <3>2, <3>3, <3>4 DEF GenRecords
    <3>6. gens \in [Procs -> GenRecords(U)]
      BY <2>9 DEF Before, Typed
    <3> HIDE DEF r
    <3> QED BY <3>1, <3>5, <3>6
  <2>13. synthio_iocnt' < config.endiocnt
    BY <1>11, <1>14 DEF MoreToMake
  <2> HIDE DEF s
  <2>14. HandlersTyped(U)
    <3>1. Typed(U)
      BY <2>9, BeforeParts
    <3> QED BY <1>11, <1>12, <2>12, <3>1, UntouchedTyped DEF HandlersTyped
  <2>15. s = <<Synthio>> \/ \E l, m, think, class :
             /\ l \in Seq(LimitEvents(U)) /\ m \in 0..Len(l)
             /\ s = Appended(<<Synthio>>, l, m, Opid(p, n), think, class)
    BY <2>6, <2>7 DEF s
  <2>16. \E U0, s0, stops : GoesOn(U0, s0, stops)
    <3>1. GoesOn(U, s, FALSE)
      BY <1>1, <1>11, <2>2, <2>9, <2>10, <2>11, <2>13, <2>14, <2>15
    <3> HIDE DEF GoesOn
    <3> QED BY <3>1
  <2> QED BY <2>16, Zenon DEF GeneratesOn
<1>15. CASE ~MoreToMake(n)
  <2> DEFINE s == <<Synthio>>
  <2>1. Continue(c, CpuChanged(c, k), [P EXCEPT ![p].events = <<Synthio>> \o @], q, TRUE, FALSE) /\ gens' = gens
    BY <1>5, <1>15 DEF HandleSynthio
  <2>2. Continue(c, CpuChanged(c, k), WithList(procs, p, s), q, TRUE, FALSE)
    BY <1>7, <1>9, <2>1
  <2>3. s \in Seq(FlowEvents(T)) /\ EndsIn(s, "SYNTHIO_EVENT")
    BY <1>8, <1>10
  <2>4. gens' \in [Procs -> GenRecords(T)]
    BY <1>6, <2>1
  <2> HIDE DEF s
  <2>5. HandlersTyped(T)
    BY <1>0, <1>11, <1>12, <2>4, UntouchedTyped DEF HandlersTyped
  <2>6. \E U0, s0, stops : GoesOn(U0, s0, stops)
    <3>1. GoesOn(T, s, TRUE)
      BY <1>1, <1>2, <1>11, <2>2, <2>3, <2>5 DEF s
    <3> HIDE DEF GoesOn
    <3> QED BY <3>1
  <2> QED BY <2>6, Zenon DEF GeneratesOn
<1> QED BY <1>14, <1>15


\* check_send_out_request

LEMMA SynthioKeeps ==
  ASSUME NEW T, NEW c, NEW q, Before(T, c, q), Handled(c, q, "SYNTHIO_EVENT", HandleSynthio)
  PROVE  After /\ ~fault'
<1>1. GeneratesOn(c, q)
  BY GeneratorGoesOn
<1>2. PICK U, s, stops :
       /\ stops \in BOOLEAN /\ Before(U, c, q) /\ InProc(c, U)
       /\ s \in Seq(FlowEvents(U)) /\ EndsIn(s, "SYNTHIO_EVENT")
       /\ HandlersTyped(U) /\ config' = config
       /\ UNCHANGED <<pf_dispq, sleepqueue, pendiolist, queue>>
       /\ ~stops => synthio_iocnt' < config.endiocnt
       /\ Continue(c, CpuChanged(c, cpus[c]), WithList(procs, cpus[c].procp, s), q, stops, FALSE)
  BY <1>1, Zenon DEF GeneratesOn
<1>3. \A x \in pendiolist : x.wanted => \E y \in pendiolist' : y.opid = x.opid /\ y.wanted
  BY <1>2
<1> QED BY <1>2, <1>3, FlowStepKeeps

LEMMA HandedOutFacts ==
  ASSUME NEW T, Typed(T), NEW d \in Devices, NEW W \in SUBSET Int, NEW h \in HandedOut(d, W)
  PROVE  /\ h[1] \in [waiting : SUBSET Int, out : SUBSET Int]
         /\ h[2] = <<>> \/ \E o \in W : h[2] = <<Access(o)>>
<1>1. queue[d] \in [waiting : SUBSET Int, out : SUBSET Int]
  BY DEF Typed
<1>2. CASE queue[d].out = {} /\ W # {}
  BY <1>2 DEF HandedOut
<1>3. CASE ~(queue[d].out = {} /\ W # {})
  <2> DEFINE r == [queue[d] EXCEPT !.waiting = W]
  <2>1. h = <<r, <<>>>>
    BY <1>3 DEF HandedOut
  <2>2. r \in [waiting : SUBSET Int, out : SUBSET Int]
    BY <1>1
  <2> QED BY <2>1, <2>2
<1> QED BY <1>2, <1>3

LEMMA PendFacts ==
  ASSUME NEW T, Typed(T), NEW p \in Procs, NEW o \in Int
  PROVE  Pend(p, o) \in IoRecords /\ gens[p].devno \in Devices
<1>1. gens[p] \in GenRecords(T)
  BY DEF Typed
<1>2. gens[p].devno \in Devices
  BY <1>1 DEF GenRecords
<1> QED BY <1>2 DEF Pend, IoRecords

\* pf_handle_ioreq_event
LEMMA IoreqKeeps ==
  ASSUME NEW T, NEW c, NEW q, Before(T, c, q), Handled(c, q, "IOREQ_EVENT", HandleIoreq)
  PROVE  After /\ ~fault'
<1> DEFINE k == cpus[c]
           chain == Chain(k, procs)
           ev == Head(chain)
           p == k.procp
           l == Tail(FlowList(c))
           P == WithList(procs, p, l)
           d == gens[p].devno
           W == queue[d].waiting \cup {ev.arg}
<1>0. /\ Typed(T) /\ Running /\ ~stop_sim /\ c \in Cpus /\ q \in Agendas(QueueEvents) /\ OthersGood(c, q)
      /\ synthio_iocnt < config.endiocnt /\ 0 \in T
  BY BeforeParts, UntouchedTyped
<1>1. /\ chain # <<>> /\ Head(chain).type = "IOREQ_EVENT" /\ config' = config
      /\ HandleIoreq(c, WithChain(c, cpus, Tail(chain)), ProcWithChain(c, cpus, procs, Tail(chain)), q, ev)
  BY DEF Handled
<1>2. /\ InProc(c, T) /\ chain = FlowList(c) /\ ev.arg \in Int /\ p \in Procs /\ p # Nobody
      /\ Head(FlowList(c)).type # "SYNTHIO_EVENT"
  BY <1>1, FlowOnly
<1>3. l \in Seq(FlowEvents(T)) /\ EndsIn(l, "SYNTHIO_EVENT")
  BY <1>2, FlowTail
<1>4. /\ WithChain(c, cpus, Tail(chain)) = CpuChanged(c, k) /\ ProcWithChain(c, cpus, procs, Tail(chain)) = P
      /\ k \in CpuRecords /\ CpuChanged(c, k)[c] = k
  <2>1. k \in CpuRecords
    BY <1>0 DEF Typed
  <2> QED BY <1>0, <1>2, <2>1, CpuChangedFacts DEF InProc
<1>5. HandleIoreq(c, CpuChanged(c, k), P, q, ev) /\ CpuChanged(c, k)[c].procp = p
  BY <1>1, <1>4
<1>6. procs \in ProcTables(T) /\ queue \in [Devices -> [waiting : SUBSET Int, out : SUBSET Int]]
      /\ pendiolist \in SUBSET IoRecords
  BY <1>0 DEF Typed
<1>7. d \in Devices /\ Pend(p, ev.arg) \in IoRecords
  BY <1>0, <1>2, PendFacts
<1> HIDE DEF l, chain, ev
<1>8. /\ \A u : [P EXCEPT ![p].events = u] = WithList(procs, p, u)
      /\ P[p].events = l
  BY <1>2, <1>6, ListChangedAgain
<1> HIDE DEF P
<1>9. PICK h \in HandedOut(d, W) :
         /\ queue' = [queue EXCEPT ![d] = h[1]]
         /\ Continue(c, CpuChanged(c, k), [P EXCEPT ![p].events = h[2] \o @], q, FALSE, FALSE)
  BY <1>5 DEF HandleIoreq
<1>10. /\ pendiolist' = pendiolist \cup {Pend(p, ev.arg)}
       /\ pf_dispq' = pf_dispq /\ sleepqueue' = sleepqueue /\ doneiolist' = doneiolist /\ gens' = gens
       /\ synthio_iocnt' = synthio_iocnt /\ idlereset' = idlereset
  BY <1>5 DEF HandleIoreq
<1>11. W \in SUBSET Int
  BY <1>2, <1>6, <1>7
<1> HIDE DEF W, d
<1>12. /\ h[1] \in [waiting : SUBSET Int, out : SUBSET Int]
       /\ h[2] = <<>> \/ \E o \in W : h[2] = <<Access(o)>>
  BY <1>0, <1>7, <1>11, HandedOutFacts
<1> DEFINE u == h[2]
           s == u \o l
<1>13. u \in Seq(FlowEvents(T)) /\ \A i \in DOMAIN u : u[i].type # "SYNTHIO_EVENT"
  <2>1. \A o \in W : Access(o) \in FlowEvents(T) /\ Access(o).type # "SYNTHIO_EVENT"
    BY <1>0, <1>11 DEF Access, Event, FlowEvents, FlowTypes
  <2>2. CASE u = <<>>
    BY <2>2
  <2>3. CASE \E o \in W : u = <<Access(o)>>
    <3>1. PICK o \in W : u = <<Access(o)>>
      BY <2>3
    <3> DEFINE e == Access(o)
    <3>2. e \in FlowEvents(T) /\ e.type # "SYNTHIO_EVENT"
      BY <2>1
    <3> HIDE DEF e
    <3>3. u = <<e>>
      BY <3>1 DEF e
    <3> HIDE DEF u
    <3> QED BY <3>2, <3>3
  <2> QED BY <1>12, <2>2, <2>3
<1> HIDE DEF u
<1>14. s \in Seq(FlowEvents(T)) /\ EndsIn(s, "SYNTHIO_EVENT")
  BY <1>3, <1>13, EndsInPrefix
<1>15. Continue(c, CpuChanged(c, k), WithList(procs, p, s), q, FALSE, FALSE)
  BY <1>8, <1>9 DEF u
<1> HIDE DEF s
<1>16. /\ queue' \in [Devices -> [waiting : SUBSET Int, out : SUBSET Int]]
       /\ pendiolist' \in SUBSET IoRecords
  BY <1>6, <1>7, <1>9, <1>10, <1>12
<1>17. HandlersTyped(T)
  BY <1>0, <1>10, <1>16, UntouchedTyped DEF HandlersTyped
<1>18. \A x \in pendiolist : x.wanted => \E y \in pendiolist' : y.opid = x.opid /\ y.wanted
  BY <1>10
<1> QED BY <1>0, <1>1, <1>2, <1>10, <1>14, <1>15, <1>17, <1>18, FlowStepKeeps


\* The list of the last interrupt is given once more.
LEMMA TopAgain ==
  ASSUME NEW T, Typed(T), NEW c \in Cpus, cpus[c].intrs # <<>>,
         NEW l \in Seq(IntrEvents), cpus[c].intrs[1].cause # "CLOCK", NEW s, NEW P
  PROVE  /\ Chain(CpuChanged(c, WithTop(cpus[c], l))[c], P) = l
         /\ WithChain(c, CpuChanged(c, WithTop(cpus[c], l)), s) = CpuChanged(c, WithTop(cpus[c], s))
<1> DEFINE k == cpus[c]
           a == k.intrs
           w == WithTop(k, l)
           C == CpuChanged(c, w)
<1>0. k \in CpuRecords /\ a \in Seq(Intrs) /\ a # <<>> /\ DOMAIN cpus = Cpus
      /\ k = [state |-> k.state, procp |-> k.procp, intrs |-> k.intrs, idleevents |-> k.idleevents]
  BY CpuRecordParts DEF Typed
<1>1. /\ SetTop(a, l) # <<>> /\ 1 \in DOMAIN a /\ a[1] \in Intrs
      /\ Head(SetTop(a, l)) = SetTop(a, l)[1] /\ SetTop(a, l)[1] = [a[1] EXCEPT !.events = l]
  <2>1. a[1].cause # "CLOCK"
    OBVIOUS
  <2> HIDE DEF a
  <2> QED BY <1>0, <2>1, SetTopFacts
<1>2. C[c] = w /\ w.intrs = SetTop(a, l)
  <2>1. CpuChanged(c, w)[c] = w
    BY <1>0 DEF CpuChanged
  <2>2. w = [state |-> k.state, procp |-> k.procp, intrs |-> SetTop(a, l), idleevents |-> k.idleevents]
    BY <1>0 DEF WithTop
  <2> QED BY <2>1, <2>2
<1>3. [a[1] EXCEPT !.events = l].events = l
  BY <1>1 DEF Intrs
<1>4. Chain(C[c], P) = l
  BY <1>1, <1>2, <1>3 DEF Chain
<1>5. WithChain(c, C, s) = [C EXCEPT ![c].intrs[1].events = s]
  BY <1>1, <1>2 DEF WithChain
<1> DEFINE b  == SetTop(a, l)
           b2 == [b EXCEPT ![1] = [@ EXCEPT !.events = s]]
           w2 == [w EXCEPT !.intrs = b2]
<1>6. [C EXCEPT ![c].intrs[1].events = s] = [C EXCEPT ![c] = w2]
  BY <1>2
<1>7. b2 = SetTop(a, s)
  <2> DEFINE x == a[1]
             y == [x EXCEPT !.events = l]
             z == [x EXCEPT !.events = s]
  <2>1. [y EXCEPT !.events = s] = z
    OBVIOUS
  <2>2. b[1] = y /\ DOMAIN b = DOMAIN a
    BY <1>1 DEF SetTop
  <2> HIDE DEF y, z, x
  <2>3. b = [a EXCEPT ![1] = y]
    BY DEF SetTop, y, x
  <2> HIDE DEF b
  <2>4. b2 = [b EXCEPT ![1] = z]
    BY <2>1, <2>2
  <2>5. b2 = [a EXCEPT ![1] = z]
    BY <2>3, <2>4
  <2> QED BY <2>5 DEF SetTop, z, x
<1>8. w2 = WithTop(k, s)
  <2> HIDE DEF b, b2
  <2>1. w = [k EXCEPT !.intrs = b]
    BY DEF WithTop, b
  <2>2. w2 = [k EXCEPT !.intrs = b2]
    BY <2>1
  <2> QED BY <1>7, <2>2 DEF WithTop
<1> HIDE DEF w2
<1>9. [C EXCEPT ![c] = w2] = CpuChanged(c, w2)
  BY DEF CpuChanged
<1> QED BY <1>4, <1>5, <1>6, <1>8, <1>9

\* iodriver_add_to_intrp_eventlist
LEMMA RelistedFacts ==
  ASSUME NEW W \in SUBSET Int, NEW next \in NextOut(W), NEW wakeup \in Seq(IntrEvents),
         \A i \in DOMAIN wakeup : wakeup[i].type # "INTEND_EVENT",
         NEW l \in Seq(IntrEvents), EndsIn(l, "INTEND_EVENT")
  PROVE  /\ Relisted(next, wakeup, l) \in Seq(IntrEvents) /\ EndsIn(Relisted(next, wakeup, l), "INTEND_EVENT")
         /\ \A j \in DOMAIN l : \E m \in DOMAIN Relisted(next, wakeup, l) : Relisted(next, wakeup, l)[m] = l[j]
         /\ \A j \in DOMAIN wakeup : \E m \in DOMAIN Relisted(next, wakeup, l) : Relisted(next, wakeup, l)[m] = wakeup[j]
         /\ ToSet(next) \subseteq Int
<1> DEFINE first == [i \in DOMAIN next |-> Access(next[i])]
           u == first \o wakeup
<1>1. next \in Seq(Int)
  <2>1. CASE W = {}
    BY <2>1 DEF NextOut
  <2>2. CASE W # {}
    <3>1. PICK o \in W : next = <<o>>
      BY <2>2 DEF NextOut
    <3> QED BY <3>1
  <2> QED BY <2>1, <2>2
<1>2. first \in Seq(IntrEvents) /\ \A i \in DOMAIN first : first[i].type # "INTEND_EVENT"
  <2>1. DOMAIN next = 1..Len(next) /\ Len(next) \in Nat /\ \A i \in DOMAIN next : next[i] \in Int
    BY <1>1
  <2>2. \A i \in DOMAIN next : Access(next[i]) \in IntrEvents /\ Access(next[i]).type # "INTEND_EVENT"
    BY <2>1 DEF Access, Event, IntrEvents, IntrTypes
  <2>3. first \in [1..Len(next) -> IntrEvents]
    BY <2>1, <2>2
  <2>4. first \in Seq(IntrEvents)
    BY <2>1, <2>3
  <2> QED BY <2>2, <2>4
<1> HIDE DEF first
<1>3. u \in Seq(IntrEvents) /\ \A i \in DOMAIN u : u[i].type # "INTEND_EVENT"
  <2> DEFINE E == {e \in IntrEvents : e.type # "INTEND_EVENT"}
  <2>1. first \in Seq(E) /\ wakeup \in Seq(E)
    BY <1>2
  <2>2. u \in Seq(E)
    BY <2>1
  <2>3. \A i \in DOMAIN u : u[i] \in E
    BY <2>2
  <2> QED BY <2>2, <2>3
<1>4. Relisted(next, wakeup, l) = u \o l
  BY DEF Relisted, first
<1>5. \A j \in DOMAIN wakeup : \E m \in DOMAIN u : u[m] = wakeup[j]
  BY <1>2, PrefixHas, SMTT(40)
<1> HIDE DEF u
<1>6. /\ \A j \in DOMAIN l : \E m \in DOMAIN (u \o l) : (u \o l)[m] = l[j]
      /\ \A j \in DOMAIN u : \E m \in DOMAIN (u \o l) : (u \o l)[m] = u[j]
  <2>1. u \in Seq(IntrEvents)
    BY <1>3
  <2>2. \A j \in DOMAIN l : \E m \in DOMAIN (u \o l) : (u \o l)[m] = l[j]
    BY <2>1, PrefixHas, SMTT(40)
  <2>3. \A j \in DOMAIN u : \E m \in DOMAIN (u \o l) : (u \o l)[m] = u[j]
    BY <2>1, PrefixHas, SMTT(40)
  <2> QED BY <2>2, <2>3
<1>7. u \o l \in Seq(IntrEvents) /\ EndsIn(u \o l, "INTEND_EVENT")
  BY <1>3, EndsInPrefix
<1>8. \A j \in DOMAIN wakeup : \E m \in DOMAIN (u \o l) : (u \o l)[m] = wakeup[j]
  BY <1>5, <1>6
<1>9. ToSet(next) \subseteq Int
  BY <1>1 DEF ToSet
<1> QED BY <1>4, <1>6, <1>7, <1>8, <1>9


\* pf_handle_io_internal_event: iodriver_access_complete and pf_io_done_notify
Answered(o) == {x \in pendiolist : x.opid = o}
WakeupFor(o) == IF \E x \in Answered(o) : x.wanted THEN <<Event("WAKEUP_EVENT", 0, o)>> ELSE <<>>

CompletesOn(c, q, o, l) ==
    \E next \in NextOut(UNION {queue[x.devno].waiting : x \in Answered(o)}) :
       /\ pendiolist' = pendiolist \ Answered(o)
       /\ doneiolist' = doneiolist \cup {x \in Answered(o) : x.limited /\ ~x.wanted}
       /\ queue' = [d \in Devices |-> IF \E x \in Answered(o) : x.devno = d
                       THEN [waiting |-> queue[d].waiting \ ToSet(next),
                             out |-> (queue[d].out \ {o}) \cup ToSet(next)]
                       ELSE queue[d]]
       /\ Continue(c, CpuChanged(c, WithTop(cpus[c], Relisted(next, WakeupFor(o), l))), procs, q,
                   FALSE, Answered(o) = {})
       /\ UNCHANGED <<pf_dispq, sleepqueue, gens, synthio_iocnt, idlereset>>

LEMMA CompletionGoesOn ==
  ASSUME NEW T, NEW c, NEW q, Before(T, c, q), Handled(c, q, "IO_ACCESS_COMPLETE", HandleAccessComplete),
         NEW l, l = Tail(TopList(c)), NEW o, o = Head(TopList(c)).arg
  PROVE  /\ InIntr(c) /\ c = 1 /\ Head(TopList(c)).type = "IO_ACCESS_COMPLETE" /\ o \in Int
         /\ cpus[c].intrs # <<>> /\ cpus[c].intrs[1].cause # "CLOCK"
         /\ l \in Seq(IntrEvents) /\ EndsIn(l, "INTEND_EVENT")
         /\ config' = config /\ CompletesOn(c, q, o, l)
<1> DEFINE k == cpus[c]
           chain == Chain(k, procs)
           ev == Head(chain)
           C == CpuChanged(c, WithTop(k, l))
           X == Answered(o)
<1>0. /\ Typed(T) /\ c \in Cpus
  BY BeforeParts
<1>1. /\ chain # <<>> /\ Head(chain).type = "IO_ACCESS_COMPLETE" /\ config' = config
      /\ HandleAccessComplete(c, WithChain(c, cpus, Tail(chain)), ProcWithChain(c, cpus, procs, Tail(chain)), q, ev)
  BY DEF Handled
<1>2. /\ InIntr(c) /\ chain = TopList(c) /\ o \in Int /\ c = 1 /\ Head(TopList(c)).type = "IO_ACCESS_COMPLETE"
      /\ ev.arg = o
  BY <1>1, IntrOnly
<1>3. /\ WithChain(c, cpus, Tail(chain)) = C /\ ProcWithChain(c, cpus, procs, Tail(chain)) = procs
      /\ l \in Seq(IntrEvents) /\ EndsIn(l, "INTEND_EVENT")
  BY <1>2, IntrTaken
<1>4. HandleAccessComplete(c, C, procs, q, ev)
  BY <1>1, <1>3
<1>5. /\ k.intrs # <<>> /\ k.intrs[1].cause # "CLOCK"
  BY <1>2, NotOfTheClock DEF InIntr
<1>6. /\ Chain(C[c], procs) = l
      /\ \A s : WithChain(c, C, s) = CpuChanged(c, WithTop(k, s))
  <2>1. \A s : /\ Chain(CpuChanged(c, WithTop(cpus[c], l))[c], procs) = l
               /\ WithChain(c, CpuChanged(c, WithTop(cpus[c], l)), s) = CpuChanged(c, WithTop(cpus[c], s))
    BY <1>0, <1>3, <1>5, TopAgain
  <2> QED BY <2>1
<1> HIDE DEF C, ev, chain
<1>7. PICK next \in NextOut(UNION {queue[x.devno].waiting : x \in X}) :
         /\ pendiolist' = pendiolist \ X
         /\ doneiolist' = doneiolist \cup {x \in X : x.limited /\ ~x.wanted}
         /\ queue' = [d \in Devices |-> IF \E x \in X : x.devno = d
                           THEN [waiting |-> queue[d].waiting \ ToSet(next),
                                 out |-> (queue[d].out \ {o}) \cup ToSet(next)]
                           ELSE queue[d]]
         /\ Continue(c, WithChain(c, C, Relisted(next, WakeupFor(o), Chain(C[c], procs))), procs, q, FALSE, X = {})
         /\ UNCHANGED <<pf_dispq, sleepqueue, gens, synthio_iocnt, idlereset>>
  <2> DEFINE With(Y, r) ==
           \E next \in NextOut(UNION {queue[x.devno].waiting : x \in Y}) :
           LET wake == IF \E x \in Y : x.wanted THEN <<Event("WAKEUP_EVENT", 0, r)>> ELSE <<>>
           IN /\ pendiolist' = pendiolist \ Y
              /\ doneiolist' = doneiolist \cup {x \in Y : x.limited /\ ~x.wanted}
              /\ queue' = [d \in Devices |-> IF \E x \in Y : x.devno = d
                              THEN [waiting |-> queue[d].waiting \ ToSet(next),
                                    out |-> (queue[d].out \ {r}) \cup ToSet(next)]
                              ELSE queue[d]]
              /\ Continue(c, WithChain(c, C, Relisted(next, wake, Chain(C[c], procs))), procs, q, FALSE, Y = {})
              /\ UNCHANGED <<pf_dispq, sleepqueue, gens, synthio_iocnt, idlereset>>
           Z == {x \in pendiolist : x.opid = ev.arg}
  <2>1. \E Y \in {Z} : With(Y, ev.arg)
    BY <1>4, Zenon DEF HandleAccessComplete
  <2>2. Z = X
    BY <1>2 DEF Answered
  <2> HIDE DEF X, With, Z
  <2>3. With(X, o)
    BY <1>2, <2>1, <2>2
  <2> DEFINE Wake == IF \E x \in X : x.wanted THEN <<Event("WAKEUP_EVENT", 0, o)>> ELSE <<>>
  <2>4. WakeupFor(o) = Wake
    BY DEF WakeupFor, X
  <2> HIDE DEF Wake
  <2>5. \E next \in NextOut(UNION {queue[x.devno].waiting : x \in X}) :
          /\ pendiolist' = pendiolist \ X
          /\ doneiolist' = doneiolist \cup {x \in X : x.limited /\ ~x.wanted}
          /\ queue' = [d \in Devices |-> IF \E x \in X : x.devno = d
                           THEN [waiting |-> queue[d].waiting \ ToSet(next),
                                 out |-> (queue[d].out \ {o}) \cup ToSet(next)]
                           ELSE queue[d]]
          /\ Continue(c, WithChain(c, C, Relisted(next, Wake, Chain(C[c], procs))), procs, q, FALSE, X = {})
          /\ UNCHANGED <<pf_dispq, sleepqueue, gens, synthio_iocnt, idlereset>>
    BY <2>3, Zenon DEF With, Wake
  <2> QED BY <2>4, <2>5, Zenon
<1>8. Continue(c, CpuChanged(c, WithTop(cpus[c], Relisted(next, WakeupFor(o), l))), procs, q, FALSE, X = {})
  BY <1>6, <1>7
<1> HIDE DEF X
<1>9. CompletesOn(c, q, o, l)
  BY <1>7, <1>8, Zenon DEF CompletesOn, X
<1> QED BY <1>1, <1>2, <1>3, <1>5, <1>9

LEMMA AccessCompleteKeeps ==
  ASSUME NEW T, NEW c, NEW q, Before(T, c, q), Handled(c, q, "IO_ACCESS_COMPLETE", HandleAccessComplete)
  PROVE  After /\ (fault' => ~\E x \in pendiolist : x.opid = Head(TopList(c)).arg)
<1> DEFINE k == cpus[c]
           o1 == Head(TopList(c)).arg
           l == Tail(TopList(c))
           X == Answered(o1)
           wakeup == WakeupFor(o1)
           W == UNION {queue[x.devno].waiting : x \in X}
<1>0. /\ Typed(T) /\ Running /\ ~stop_sim /\ c \in Cpus /\ q \in Agendas(QueueEvents) /\ OthersGood(c, q)
      /\ WorkIsRun /\ WakeupComes /\ synthio_iocnt < config.endiocnt
      /\ \A p \in Procs : EndsIn(procs[p].events, "SYNTHIO_EVENT")
  BY BeforeParts
<1>2. /\ InIntr(c) /\ c = 1 /\ Head(TopList(c)).type = "IO_ACCESS_COMPLETE" /\ o1 \in Int
      /\ k.intrs # <<>> /\ k.intrs[1].cause # "CLOCK"
      /\ l \in Seq(IntrEvents) /\ EndsIn(l, "INTEND_EVENT")
      /\ config' = config /\ CompletesOn(c, q, o1, l)
  BY CompletionGoesOn
<1>7. /\ queue \in [Devices -> [waiting : SUBSET Int, out : SUBSET Int]] /\ procs \in ProcTables(T)
      /\ pendiolist \in SUBSET IoRecords /\ doneiolist \in SUBSET IoRecords
  BY <1>0 DEF Typed
<1>8. W \in SUBSET Int
  BY <1>7 DEF IoRecords, Answered
<1> HIDE DEF l, o1
<1>9. PICK next \in NextOut(W) :
         /\ pendiolist' = pendiolist \ X
         /\ doneiolist' = doneiolist \cup {x \in X : x.limited /\ ~x.wanted}
         /\ queue' = [d \in Devices |-> IF \E x \in X : x.devno = d
                           THEN [waiting |-> queue[d].waiting \ ToSet(next),
                                 out |-> (queue[d].out \ {o1}) \cup ToSet(next)]
                           ELSE queue[d]]
         /\ Continue(c, CpuChanged(c, WithTop(k, Relisted(next, wakeup, l))), procs, q, FALSE, X = {})
         /\ UNCHANGED <<pf_dispq, sleepqueue, gens, synthio_iocnt, idlereset>>
  BY <1>2, Zenon DEF CompletesOn
<1> DEFINE s == Relisted(next, wakeup, l)
           w == WithTop(k, s)
<1>10. Continue(c, CpuChanged(c, w), procs, q, FALSE, X = {})
  BY <1>9
<1>11. /\ wakeup \in Seq(IntrEvents) /\ \A i \in DOMAIN wakeup : wakeup[i].type # "INTEND_EVENT"
       /\ (\E x \in X : x.wanted) => 1 \in DOMAIN wakeup /\ wakeup[1] = Wakeup(o1)
  <2> DEFINE e == Event("WAKEUP_EVENT", 0, o1)
  <2>1. e \in IntrEvents /\ e.type # "INTEND_EVENT" /\ e = Wakeup(o1)
    BY <1>2 DEF Event, IntrEvents, IntrTypes, Wakeup
  <2> HIDE DEF e
  <2>2. CASE \E x \in X : x.wanted
    <3>1. wakeup = <<e>>
      BY <2>2 DEF e, WakeupFor
    <3> HIDE DEF wakeup
    <3> QED BY <2>1, <2>2, <3>1
  <2>3. CASE ~\E x \in X : x.wanted
    BY <2>3 DEF WakeupFor
  <2> QED BY <2>2, <2>3
<1> HIDE DEF wakeup, X, W
<1>12. /\ s \in Seq(IntrEvents) /\ EndsIn(s, "INTEND_EVENT")
       /\ \A j \in DOMAIN l : \E m \in DOMAIN s : s[m] = l[j]
       /\ \A j \in DOMAIN wakeup : \E m \in DOMAIN s : s[m] = wakeup[j]
       /\ ToSet(next) \subseteq Int
  BY <1>2, <1>8, <1>11, RelistedFacts
<1> HIDE DEF s
<1>13. /\ w \in CpuRecords /\ Resumable(c, w) /\ w.intrs # <<>>
       /\ \A o : (\E j \in DOMAIN s : s[j] = Wakeup(o)) => WakeupOn(w, o)
       /\ \A o : /\ WakeupOn(cpus[c], o)
                 /\ \A j \in DOMAIN TopList(c) :
                      TopList(c)[j] = Wakeup(o) => \E m \in DOMAIN s : s[m] = Wakeup(o)
                 => WakeupOn(w, o)
  <2>1. Head(TopList(c)).type # "INTEND_EVENT"
    BY <1>2
  <2> HIDE DEF k
  <2> QED BY <1>0, <1>2, <1>12, <2>1, TopChanged DEF k
<1> HIDE DEF w
<1>14. \A o : \A j \in DOMAIN TopList(c) : TopList(c)[j] = Wakeup(o) => \E m \in DOMAIN s : s[m] = Wakeup(o)
  <2> SUFFICES ASSUME NEW o, NEW j \in DOMAIN TopList(c), TopList(c)[j] = Wakeup(o)
               PROVE  \E m \in DOMAIN s : s[m] = Wakeup(o)
    OBVIOUS
  <2> DEFINE t == TopList(c)
  <2>1. t \in Seq(IntrEvents) /\ t # <<>>
    BY <1>2 DEF InIntr, EndsIn
  <2>2. t[j] # Head(t)
    BY <1>2 DEF Wakeup, Event
  <2> HIDE DEF t
  <2>3. \E m \in DOMAIN Tail(t) : Tail(t)[m] = t[j]
    <3>1. j \in DOMAIN t
      BY DEF t
    <3> QED BY <2>1, <2>2, <3>1, TailHas
  <2>4. \E m \in DOMAIN l : l[m] = Wakeup(o)
    BY <2>3 DEF t, l
  <2> QED BY <1>12, <2>4
<1>15. \A o : WakeupOn(cpus[c], o) => WakeupOn(w, o)
  BY <1>13, <1>14
<1>16. /\ pendiolist' \in SUBSET IoRecords /\ doneiolist' \in SUBSET IoRecords
       /\ queue' \in [Devices -> [waiting : SUBSET Int, out : SUBSET Int]]
  BY <1>7, <1>9, <1>12 DEF X, Answered
<1>17. HandlersTyped(T) /\ {0, 1} \subseteq T
  BY <1>0, <1>9, <1>16, UntouchedTyped DEF HandlersTyped
<1>18. /\ Typed(T)' /\ Running' /\ WorkIsRun'
       /\ procs' = procs /\ cpus' = CpuChanged(c, Settled(w)) /\ (fault' <=> X = {})
  <2>1. pf_dispq' # <<>> => /\ pf_dispq # <<>> \/ c = 1
                            /\ w.intrs # <<>> \/ w.procp # Nobody \/ w.idleevents # <<>>
    BY <1>2, <1>13
  <2>2. synthio_iocnt' < config.endiocnt
    BY <1>0, <1>9
  <2>3. CASE X = {}
    <3>1. Continue(c, CpuChanged(c, w), procs, q, FALSE, TRUE)
      BY <1>10, <2>3
    <3> QED BY <1>0, <1>2, <1>7, <1>13, <1>17, <2>1, <2>2, <2>3, <3>1, Finished
  <2>4. CASE X # {}
    <3>1. Continue(c, CpuChanged(c, w), procs, q, FALSE, FALSE)
      BY <1>10, <2>4
    <3> QED BY <1>0, <1>2, <1>7, <1>13, <1>17, <2>1, <2>2, <2>4, <3>1, Finished
  <2> QED BY <2>3, <2>4
<1>19. \A x \in pendiolist : x.wanted =>
                \/ \E y \in pendiolist' : y.opid = x.opid /\ y.wanted
                \/ WakeupOn(w, x.opid)
  <2> SUFFICES ASSUME NEW x \in pendiolist, x.wanted
               PROVE  (\E y \in pendiolist' : y.opid = x.opid /\ y.wanted) \/ WakeupOn(w, x.opid)
    OBVIOUS
  <2>1. CASE x \notin X
    BY <1>9, <2>1
  <2>2. CASE x \in X
    <3>1. x.opid = o1 /\ 1 \in DOMAIN wakeup /\ wakeup[1] = Wakeup(o1)
      BY <1>11, <2>2 DEF X, Answered
    <3>2. \E m \in DOMAIN s : s[m] = Wakeup(x.opid)
      BY <1>12, <3>1
    <3> QED BY <1>13, <3>2
  <2> QED BY <2>1, <2>2
<1>20. WakeupComes'
  <2>1. sleepqueue' = sleepqueue /\ \A p \in Procs : procs'[p].chan = procs[p].chan
    BY <1>9, <1>18
  <2> QED BY <1>0, <1>2, <1>13, <1>15, <1>18, <1>19, <2>1, SleepersKept
<1>21. fault' => ~\E x \in pendiolist : x.opid = Head(TopList(c)).arg
  BY <1>18 DEF X, Answered, o1
<1> QED BY <1>18, <1>20, <1>21 DEF After


\* The processor after the last interrupt, with the list i of its idle loop
Returned(k, i) ==
    [state |-> k.intrs[1].oldstate, procp |-> k.procp, intrs |-> Tail(k.intrs), idleevents |-> i]

LEMMA ReturnedFacts ==
  ASSUME NEW T, Typed(T), Running, NEW c \in Cpus, InIntr(c), Head(TopList(c)).type = "INTEND_EVENT",
         NEW i \in Seq(IdleEvents),
         i = cpus[c].idleevents \/ (Tail(cpus[c].intrs) = <<>> /\ cpus[c].procp = Nobody)
  PROVE  /\ Returned(cpus[c], i) \in CpuRecords /\ Resumable(c, Returned(cpus[c], i))
         /\ Returned(cpus[c], i).intrs = Tail(cpus[c].intrs) /\ Returned(cpus[c], i).procp = cpus[c].procp
         /\ Returned(cpus[c], i).idleevents = i
         /\ \A o : WakeupOn(cpus[c], o) => WakeupOn(Returned(cpus[c], i), o)
<1> DEFINE k == cpus[c]
           a == k.intrs
           n == Len(a)
           b == Tail(a)
           w == Returned(k, i)
<1>1. k \in CpuRecords /\ GoodCpu(c, k) /\ a # <<>> /\ a \in Seq(Intrs) /\ k.procp \in Procs \cup {Nobody}
  BY CpuRecordParts DEF Typed, Running, InIntr
<1>2. /\ n \in Nat /\ n >= 1 /\ DOMAIN a = 1..n /\ 1 \in DOMAIN a
      /\ b \in Seq(Intrs) /\ Len(b) = n - 1 /\ DOMAIN b = 1..n - 1
      /\ \A j \in 1..n - 1 : b[j] = a[j + 1] /\ j + 1 \in DOMAIN a
      /\ b = <<>> <=> n = 1
  <2> HIDE DEF k
  <2>1. n \in Nat /\ n >= 1 /\ DOMAIN a = 1..n /\ 1 \in DOMAIN a
    BY <1>1
  <2>2. b \in Seq(Intrs) /\ Len(b) = n - 1 /\ DOMAIN b = 1..n - 1 /\ \A j \in 1..n - 1 : b[j] = a[j + 1] /\ j + 1 \in DOMAIN a
    BY <1>1, <2>1
  <2> HIDE DEF b, n
  <2>3. b = <<>> => n = 1
    BY <2>1, <2>2
  <2>4. n = 1 => b = <<>>
    BY <2>1, <2>2
  <2> QED BY <2>1, <2>2, <2>3, <2>4
<1>3. /\ c = 1 /\ \A j \in DOMAIN a : a[j].oldstate = IF j < n THEN "CPU_INTR" ELSE Base(k)
      /\ \A j \in DOMAIN a : EndsIn(a[j].events, "INTEND_EVENT")
  BY <1>1 DEF GoodCpu
<1>4. a[1] \in Intrs /\ a[1].oldstate \in CpuStates
  BY <1>1, <1>2 DEF Intrs
<1>5. w.state = a[1].oldstate /\ w.procp = k.procp /\ w.intrs = b /\ w.idleevents = i
  BY DEF Returned
<1>6. w \in CpuRecords
  <2> HIDE DEF b, a
  <2>1. w = [state |-> a[1].oldstate, procp |-> k.procp, intrs |-> b, idleevents |-> i]
    BY DEF Returned, a, b
  <2> HIDE DEF w, k
  <2> QED BY <1>1, <1>2, <1>4, <2>1 DEF CpuRecords
<1>7. \A o : WakeupOn(k, o) => WakeupOn(w, o)
  <2> SUFFICES ASSUME NEW o, WakeupOn(k, o) PROVE WakeupOn(w, o)
    OBVIOUS
  <2>1. PICK x \in DOMAIN a : \E y \in DOMAIN a[x].events : a[x].events[y] = Wakeup(o)
    BY DEF WakeupOn
  <2>2. CASE x = 1
    <3> DEFINE l == TopList(c)
    <3>1. l \in Seq(IntrEvents) /\ EndsIn(l, "INTEND_EVENT") /\ Head(l).type = "INTEND_EVENT" /\ l = a[1].events
      BY DEF InIntr, TopList
    <3> HIDE DEF l, a
    <3>2. Tail(l) = <<>> /\ Head(l) = l[1]
      BY <3>1, EndsInTail, SMTT(40)
    <3>3. DOMAIN l = {1}
      BY <3>1, <3>2 DEF EndsIn
    <3>4. \A y \in DOMAIN l : l[y] # Wakeup(o)
      BY <3>1, <3>2, <3>3 DEF Wakeup, Event
    <3> QED BY <2>1, <2>2, <3>1, <3>4
  <2>3. CASE x # 1
    <3>1. x - 1 \in DOMAIN b /\ b[x - 1] = a[x]
      <4> HIDE DEF a, b, n
      <4>1. x \in 1..n /\ x - 1 \in 1..n - 1 /\ (x - 1) + 1 = x
        BY <1>2, <2>3
      <4> QED BY <1>2, <4>1
    <3> HIDE DEF a, b, w
    <3> QED BY <1>5, <2>1, <3>1 DEF WakeupOn
  <2> QED BY <2>2, <2>3
<1>8. Resumable(c, w)
  <2> HIDE DEF w, a, b, n
  <2>1. \A j \in DOMAIN b : EndsIn(b[j].events, "INTEND_EVENT")
    BY <1>2, <1>3
  <2>2. CASE b = <<>>
    <3>1. n = 1 /\ a[1].oldstate = Base(k)
      BY <1>2, <1>3, <2>2
    <3>2. w.procp # Nobody => w.state = "CPU_PROCESS"
      BY <1>5, <3>1 DEF Base
    <3> QED BY <1>5, <2>1, <2>2, <3>2 DEF Resumable
  <2>3. CASE b # <<>>
    <3>1. n > 1 /\ a[1].oldstate = "CPU_INTR"
      BY <1>2, <1>3, <2>3
    <3>2. i = k.idleevents
      BY <2>3 DEF a, b
    <3>3. Base(w) = Base(k)
      BY <1>5, <3>2 DEF Base
    <3>4. \A j \in DOMAIN b : b[j].oldstate = IF j < Len(b) THEN "CPU_INTR" ELSE Base(w)
      <4> SUFFICES ASSUME NEW j \in 1..n - 1
                   PROVE  b[j].oldstate = IF j < n - 1 THEN "CPU_INTR" ELSE Base(w)
        BY <1>2
      <4>1. b[j] = a[j + 1] /\ j + 1 \in DOMAIN a /\ (j + 1 < n <=> j < n - 1)
        BY <1>2
      <4> QED BY <1>3, <3>3, <4>1
    <3> QED BY <1>3, <1>5, <2>1, <2>3, <3>1, <3>4 DEF Resumable
  <2> QED BY <2>2, <2>3
<1> QED BY <1>5, <1>6, <1>7, <1>8

\* pf_handle_intend_event on the processors
LEMMA BackIs ==
  ASSUME NEW T, Typed(T), NEW c \in Cpus, InIntr(c), NEW l \in Seq(IntrEvents), OnlyIntend(l), NEW i
  PROVE  /\ Back(c, CpuChanged(c, WithTop(cpus[c], l))) = CpuChanged(c, Returned(cpus[c], cpus[c].idleevents))
         /\ [CpuChanged(c, Returned(cpus[c], cpus[c].idleevents)) EXCEPT ![c].idleevents = i]
               = CpuChanged(c, Returned(cpus[c], i))
         /\ CpuChanged(c, Returned(cpus[c], cpus[c].idleevents))[c].idleevents = cpus[c].idleevents
         /\ Tail(CpuChanged(c, WithTop(cpus[c], l))[c].intrs) = Tail(cpus[c].intrs)
         /\ CpuChanged(c, WithTop(cpus[c], l))[c].procp = cpus[c].procp
<1> DEFINE k == cpus[c]
           a == k.intrs
           d == SetTop(a, l)
           w == WithTop(k, l)
           C == CpuChanged(c, w)
<1>0. k \in CpuRecords /\ a \in Seq(Intrs) /\ a # <<>> /\ DOMAIN cpus = Cpus
      /\ k = [state |-> k.state, procp |-> k.procp, intrs |-> k.intrs, idleevents |-> k.idleevents]
  BY CpuRecordParts DEF Typed, InIntr
<1>1. /\ d \in Seq(Intrs) /\ d # <<>> /\ Len(d) = Len(a) /\ Head(d) = d[1] /\ 1 \in DOMAIN a
      /\ \A j \in DOMAIN a : j # 1 => d[j] = a[j]
      /\ \A j \in DOMAIN a : d[j].oldstate = a[j].oldstate
  <2> HIDE DEF a
  <2> QED BY <1>0, SetTopFacts
<1>2. Tail(d) = Tail(a)
  <2> HIDE DEF a, d
  <2>1. Tail(d) \in Seq(Intrs) /\ Tail(a) \in Seq(Intrs) /\ Len(Tail(d)) = Len(a) - 1 /\ Len(Tail(a)) = Len(a) - 1
        /\ Len(a) \in Nat /\ DOMAIN a = 1..Len(a)
    BY <1>0, <1>1
  <2>2. \A j \in 1..Len(a) - 1 : Tail(d)[j] = d[j + 1] /\ Tail(a)[j] = a[j + 1] /\ j + 1 \in DOMAIN a /\ j + 1 # 1
    BY <1>0, <1>1, <2>1
  <2>3. \A j \in 1..Len(a) - 1 : Tail(d)[j] = Tail(a)[j]
    BY <1>1, <2>2
  <2> DEFINE td == Tail(d)
             ta == Tail(a)
  <2> HIDE DEF td, ta
  <2>4. td \in Seq(Intrs) /\ ta \in Seq(Intrs) /\ Len(td) = Len(ta) /\ \A j \in 1..Len(td) : td[j] = ta[j]
    BY <2>1, <2>3 DEF td, ta
  <2>5. td = ta
    BY <2>4, SeqEqual
  <2> QED BY <2>5 DEF td, ta
<1>3. w = [state |-> k.state, procp |-> k.procp, intrs |-> d, idleevents |-> k.idleevents]
  BY <1>0 DEF WithTop
<1>4. C[c] = w /\ DOMAIN C = Cpus
  BY <1>0 DEF CpuChanged
<1> HIDE DEF d
<1>5. w.intrs = d /\ w.procp = k.procp /\ w.idleevents = k.idleevents
  BY <1>3
<1> DEFINE w1 == [w EXCEPT !.intrs = Tail(a)]
           w2 == [w1 EXCEPT !.state = a[1].oldstate]
<1>6. w2 = Returned(k, k.idleevents)
  <2> DEFINE s0 == k.state
             p0 == k.procp
             i0 == k.idleevents
             tl == Tail(a)
             st == a[1].oldstate
  <2> HIDE DEF s0, p0, i0, tl, st, w
  <2>1. w = [state |-> s0, procp |-> p0, intrs |-> d, idleevents |-> i0]
    BY <1>3 DEF s0, p0, i0
  <2>2. \A v : [w EXCEPT !.intrs = v] = [state |-> s0, procp |-> p0, intrs |-> v, idleevents |-> i0]
    BY <2>1
  <2>3. w1 = [state |-> s0, procp |-> p0, intrs |-> tl, idleevents |-> i0]
    BY <2>2 DEF tl
  <2> HIDE DEF w1
  <2>4. \A v : [w1 EXCEPT !.state = v] = [state |-> v, procp |-> p0, intrs |-> tl, idleevents |-> i0]
    BY <2>3
  <2>5. w2 = [state |-> st, procp |-> p0, intrs |-> tl, idleevents |-> i0]
    BY <2>4 DEF st
  <2> QED BY <2>5 DEF Returned, st, p0, tl, i0
<1>7. Back(c, C) = CpuChanged(c, w2)
  <2> HIDE DEF w
  <2>1. Head(C[c].intrs).oldstate = a[1].oldstate /\ Tail(C[c].intrs) = Tail(a)
    BY <1>1, <1>2, <1>4, <1>5
  <2>2. Back(c, C) = [C EXCEPT ![c].intrs = Tail(a), ![c].state = a[1].oldstate]
    BY <2>1 DEF Back
  <2> DEFINE st == a[1].oldstate
             tl == Tail(a)
  <2> HIDE DEF st, tl
  <2>3. [C EXCEPT ![c].intrs = tl, ![c].state = st] = [C EXCEPT ![c] = [[w EXCEPT !.intrs = tl] EXCEPT !.state = st]]
    BY <1>4
  <2>4. Back(c, C) = [C EXCEPT ![c] = w2]
    BY <2>2, <2>3 DEF st, tl
  <2> HIDE DEF w2
  <2> QED BY <2>4 DEF CpuChanged
<1> DEFINE w3 == Returned(k, k.idleevents)
<1>8. [w3 EXCEPT !.idleevents = i] = Returned(k, i) /\ w3.idleevents = k.idleevents
  <2> DEFINE p0 == k.procp
             i0 == k.idleevents
             tl == Tail(a)
             st == a[1].oldstate
  <2>1. w3 = [state |-> st, procp |-> p0, intrs |-> tl, idleevents |-> i0]
        /\ Returned(k, i) = [state |-> st, procp |-> p0, intrs |-> tl, idleevents |-> i]
    BY DEF Returned
  <2> HIDE DEF w3, p0, i0, tl, st, a, k
  <2>2. \A v : [w3 EXCEPT !.idleevents = v] = [state |-> st, procp |-> p0, intrs |-> tl, idleevents |-> v]
    BY <2>1
  <2>3. [w3 EXCEPT !.idleevents = i] = [state |-> st, procp |-> p0, intrs |-> tl, idleevents |-> i]
    BY <2>2
  <2> QED BY <2>1, <2>3 DEF i0
<1> HIDE DEF w3, w2, w1, w
<1>9. [CpuChanged(c, w3) EXCEPT ![c].idleevents = i] = CpuChanged(c, Returned(k, i))
      /\ CpuChanged(c, w3)[c] = w3
  BY <1>0, <1>8 DEF CpuChanged
<1> QED BY <1>2, <1>4, <1>5, <1>6, <1>7, <1>8, <1>9 DEF w3, w

\* How pf_handle_intend_event goes on: the processor goes back to what it did,
\* with the list i of its idle loop.
IntendTaken(k, i, R) ==
    \/ Tail(k.intrs) = <<>> /\ k.procp = Nobody /\ Dispatching(k.idleevents, procs, i, R)
    \/ i = k.idleevents /\ R = procs /\ pf_dispq' = pf_dispq

IntendsOn(T, c, q) ==
    \E i \in Seq(IdleEvents), R \in ProcTables(T), stops \in BOOLEAN :
       /\ Continue(c, CpuChanged(c, Returned(cpus[c], i)), R, q, stops, FALSE)
       /\ i = cpus[c].idleevents \/ (Tail(cpus[c].intrs) = <<>> /\ cpus[c].procp = Nobody)
       /\ \A p \in Procs : EndsIn(R[p].events, "SYNTHIO_EVENT") /\ R[p].chan = procs[p].chan
                         /\ R[p].events = procs[p].events
       /\ pf_dispq' \in Seq(Procs)
       /\ pf_dispq' # <<>> => ~(Tail(cpus[c].intrs) = <<>> /\ cpus[c].procp = Nobody) \/ i # <<>>
       /\ IntendTaken(cpus[c], i, R)

LEMMA IntendGoesOn ==
  ASSUME NEW T, NEW c, NEW q, Before(T, c, q), Handled(c, q, "INTEND_EVENT", HandleIntend)
  PROVE  IntendsOn(T, c, q)
<1> SUFFICES \E i \in Seq(IdleEvents), R \in ProcTables(T), stops \in BOOLEAN :
              /\ Continue(c, CpuChanged(c, Returned(cpus[c], i)), R, q, stops, FALSE)
              /\ i = cpus[c].idleevents \/ (Tail(cpus[c].intrs) = <<>> /\ cpus[c].procp = Nobody)
              /\ \A p \in Procs : EndsIn(R[p].events, "SYNTHIO_EVENT") /\ R[p].chan = procs[p].chan
                                /\ R[p].events = procs[p].events
              /\ pf_dispq' \in Seq(Procs)
              /\ pf_dispq' # <<>> => ~(Tail(cpus[c].intrs) = <<>> /\ cpus[c].procp = Nobody) \/ i # <<>>
              /\ IntendTaken(cpus[c], i, R)
  BY DEF IntendsOn
<1> DEFINE k == cpus[c]
           chain == Chain(k, procs)
           ev == Head(chain)
           l == Tail(TopList(c))
           C == CpuChanged(c, WithTop(k, l))
           i0 == k.idleevents
           B == CpuChanged(c, Returned(k, i0))
           Goal(i, R, stops) ==
              /\ Continue(c, CpuChanged(c, Returned(cpus[c], i)), R, q, stops, FALSE)
              /\ i = cpus[c].idleevents \/ (Tail(cpus[c].intrs) = <<>> /\ cpus[c].procp = Nobody)
              /\ \A p \in Procs : EndsIn(R[p].events, "SYNTHIO_EVENT") /\ R[p].chan = procs[p].chan
                                /\ R[p].events = procs[p].events
              /\ pf_dispq' \in Seq(Procs)
              /\ pf_dispq' # <<>> => ~(Tail(cpus[c].intrs) = <<>> /\ cpus[c].procp = Nobody) \/ i # <<>>
              /\ IntendTaken(cpus[c], i, R)
<1>0. /\ Typed(T) /\ Running /\ ~stop_sim /\ c \in Cpus /\ q \in Agendas(QueueEvents) /\ OthersGood(c, q)
      /\ WorkIsRun /\ WakeupComes /\ synthio_iocnt < config.endiocnt
      /\ \A p \in Procs : EndsIn(procs[p].events, "SYNTHIO_EVENT")
      /\ k \in CpuRecords
  BY BeforeParts
<1>1. /\ chain # <<>> /\ Head(chain).type = "INTEND_EVENT" /\ config' = config
      /\ HandleIntend(c, WithChain(c, cpus, Tail(chain)), ProcWithChain(c, cpus, procs, Tail(chain)), q, ev)
  BY DEF Handled
<1>2. /\ InIntr(c) /\ chain = TopList(c) /\ c = 1 /\ Head(TopList(c)).type = "INTEND_EVENT"
  BY <1>1, IntrOnly
<1>3. WithChain(c, cpus, Tail(chain)) = C /\ ProcWithChain(c, cpus, procs, Tail(chain)) = procs
  BY <1>2 DEF InIntr
<1>4. l = <<>> /\ l \in Seq(IntrEvents) /\ OnlyIntend(l)
  <2> DEFINE s == TopList(c)
  <2>1. s \in Seq(IntrEvents) /\ EndsIn(s, "INTEND_EVENT") /\ Head(s).type = "INTEND_EVENT"
    BY <1>2 DEF InIntr
  <2> HIDE DEF s
  <2>2. Tail(s) = <<>>
    BY <2>1, EndsInTail
  <2>3. l = <<>>
    BY <2>2 DEF s
  <2>4. <<>> \in Seq(IntrEvents) /\ OnlyIntend(<<>>)
    BY DEF OnlyIntend
  <2> HIDE DEF l
  <2> QED BY <2>3, <2>4
<1>5. HandleIntend(c, C, procs, q, ev)
  BY <1>1, <1>3
<1>6. /\ i0 \in Seq(IdleEvents) /\ procs \in ProcTables(T) /\ pf_dispq \in Seq(Procs)
      /\ NextProc \in Procs \cup {Nobody} /\ Undispatched \in Seq(Procs)
      /\ <<CSwitch(NextProc)>> \in Seq(IdleEvents)
  BY <1>0, CpuRecordParts, NextProcFacts, CSwitchIsEvent DEF Typed
<1> HIDE DEF l
<1>7. /\ Back(c, C) = B
      /\ \A i : [B EXCEPT ![c].idleevents = i] = CpuChanged(c, Returned(k, i))
      /\ B[c].idleevents = i0
      /\ Tail(C[c].intrs) = Tail(k.intrs) /\ C[c].procp = k.procp
  BY <1>0, <1>2, <1>4, BackIs
<1> DEFINE free == Tail(k.intrs) = <<>> /\ k.procp = Nobody
<1>8. Free(C[c]) <=> free
  BY <1>7 DEF Free
<1> HIDE DEF ev, chain
<1>9. CASE free /\ pf_dispq # <<>>
  <2> DEFINE i == <<CSwitch(NextProc)>> \o i0
             R == OnProc(procs, NextProc)
  <2>1. /\ Continue(c, [Back(c, C) EXCEPT ![c].idleevents = <<CSwitch(NextProc)>> \o @], R, q, FALSE, FALSE)
        /\ pf_dispq' = Undispatched
    BY <1>5, <1>8, <1>9 DEF HandleIntend
  <2>9. IntendTaken(cpus[c], i, R)
    BY <1>9, <2>1 DEF IntendTaken, Dispatching
  <2> HIDE DEF B, C, free
  <2>2. [Back(c, C) EXCEPT ![c].idleevents = <<CSwitch(NextProc)>> \o @] = [B EXCEPT ![c].idleevents = i]
    BY <1>7
  <2> HIDE DEF i0
  <2>3. i \in Seq(IdleEvents) /\ i # <<>>
    BY <1>6
  <2>4. /\ R \in ProcTables(T)
        /\ \A p \in Procs : R[p].events = procs[p].events /\ R[p].chan = procs[p].chan
    BY <1>6, OnProcFacts
  <2> HIDE DEF i, R
  <2>5. Continue(c, CpuChanged(c, Returned(k, i)), R, q, FALSE, FALSE)
    BY <1>7, <2>1, <2>2
  <2>6. \A p \in Procs : EndsIn(R[p].events, "SYNTHIO_EVENT") /\ R[p].chan = procs[p].chan /\ R[p].events = procs[p].events
    BY <1>0, <2>4
  <2>7. Goal(i, R, FALSE)
    <3>1. Tail(cpus[c].intrs) = <<>> /\ cpus[c].procp = Nobody
      BY <1>9 DEF free
    <3>2. pf_dispq' \in Seq(Procs)
      BY <1>6, <2>1
    <3> QED BY <2>3, <2>5, <2>6, <2>9, <3>1, <3>2
  <2> HIDE DEF Goal
  <2>8. \E j \in Seq(IdleEvents), S \in ProcTables(T), stops \in BOOLEAN : Goal(j, S, stops)
    BY <2>3, <2>4, <2>7
  <2> QED BY <2>8 DEF Goal
<1>10. CASE ~(free /\ pf_dispq # <<>>)
  <2>1. pf_dispq' = pf_dispq /\ \E toolong \in BOOLEAN : Continue(c, Back(c, C), procs, q, toolong, FALSE)
    BY <1>5, <1>8, <1>10 DEF HandleIntend
  <2>2. PICK toolong \in BOOLEAN : Continue(c, Back(c, C), procs, q, toolong, FALSE)
    BY <2>1
  <2> HIDE DEF C, free
  <2>3. Continue(c, CpuChanged(c, Returned(k, i0)), procs, q, toolong, FALSE)
    BY <1>7, <2>2
  <2> HIDE DEF i0
  <2>4. pf_dispq' # <<>> => ~free
    BY <1>10, <2>1
  <2>5. Goal(i0, procs, toolong)
    <3>1. pf_dispq' # <<>> => ~(Tail(cpus[c].intrs) = <<>> /\ cpus[c].procp = Nobody)
      BY <2>4 DEF free
    <3>2. pf_dispq' \in Seq(Procs) /\ i0 = cpus[c].idleevents
      BY <1>6, <2>1 DEF i0
    <3>3. IntendTaken(cpus[c], i0, procs)
      BY <2>1 DEF IntendTaken, i0
    <3> QED BY <1>0, <2>3, <3>1, <3>2, <3>3
  <2> HIDE DEF Goal
  <2>6. \E j \in Seq(IdleEvents), S \in ProcTables(T), stops \in BOOLEAN : Goal(j, S, stops)
    BY <1>6, <2>2, <2>5
  <2> QED BY <2>6 DEF Goal
<1> QED BY <1>9, <1>10

LEMMA IntendKeeps ==
  ASSUME NEW T, NEW c, NEW q, Before(T, c, q), Handled(c, q, "INTEND_EVENT", HandleIntend)
  PROVE  After /\ ~fault'
<1>14. IntendsOn(T, c, q)
  BY IntendGoesOn
<1>4. PICK i \in Seq(IdleEvents), R \in ProcTables(T), stops \in BOOLEAN :
          /\ Continue(c, CpuChanged(c, Returned(cpus[c], i)), R, q, stops, FALSE)
          /\ i = cpus[c].idleevents \/ (Tail(cpus[c].intrs) = <<>> /\ cpus[c].procp = Nobody)
          /\ \A p \in Procs : EndsIn(R[p].events, "SYNTHIO_EVENT") /\ R[p].chan = procs[p].chan
                            /\ R[p].events = procs[p].events
          /\ pf_dispq' \in Seq(Procs)
          /\ pf_dispq' # <<>> => ~(Tail(cpus[c].intrs) = <<>> /\ cpus[c].procp = Nobody) \/ i # <<>>
  BY <1>14 DEF IntendsOn
<1> DEFINE k == cpus[c]
           chain == Chain(k, procs)
           ev == Head(chain)
           free == Tail(k.intrs) = <<>> /\ k.procp = Nobody
<1>0. /\ Typed(T) /\ Running /\ ~stop_sim /\ c \in Cpus /\ q \in Agendas(QueueEvents) /\ OthersGood(c, q)
      /\ WorkIsRun /\ WakeupComes /\ synthio_iocnt < config.endiocnt
      /\ \A p \in Procs : EndsIn(procs[p].events, "SYNTHIO_EVENT")
      /\ k \in CpuRecords
  BY BeforeParts
<1>1. /\ chain # <<>> /\ Head(chain).type = "INTEND_EVENT" /\ config' = config
      /\ HandleIntend(c, WithChain(c, cpus, Tail(chain)), ProcWithChain(c, cpus, procs, Tail(chain)), q, ev)
  BY DEF Handled
<1>2. /\ InIntr(c) /\ chain = TopList(c) /\ c = 1 /\ Head(TopList(c)).type = "INTEND_EVENT"
  BY <1>1, IntrOnly
<1>3. /\ sleepqueue' = sleepqueue /\ pendiolist' = pendiolist /\ doneiolist' = doneiolist /\ gens' = gens
      /\ synthio_iocnt' = synthio_iocnt /\ queue' = queue /\ idlereset' = idlereset
  BY <1>1 DEF HandleIntend
<1> HIDE DEF ev, chain
<1> DEFINE w == Returned(k, i)
<1>5. /\ w \in CpuRecords /\ Resumable(c, w)
      /\ w.intrs = Tail(k.intrs) /\ w.procp = k.procp /\ w.idleevents = i
      /\ \A o : WakeupOn(cpus[c], o) => WakeupOn(w, o)
  <2>1. Head(TopList(c)).type = "INTEND_EVENT" /\ (i = k.idleevents \/ (Tail(k.intrs) = <<>> /\ k.procp = Nobody))
    BY <1>2, <1>4
  <2> QED BY <1>0, <1>2, <2>1, ReturnedFacts
<1>6. pf_dispq' # <<>> => /\ pf_dispq # <<>> \/ c = 1
                          /\ w.intrs # <<>> \/ w.procp # Nobody \/ w.idleevents # <<>>
  <2> HIDE DEF w
  <2> QED BY <1>2, <1>4, <1>5
<1> HIDE DEF w
<1>7. HandlersTyped(T) /\ {0, 1} \subseteq T
  BY <1>0, <1>3, <1>4, UntouchedTyped DEF HandlersTyped
<1>8. Continue(c, CpuChanged(c, w), R, q, stops, FALSE)
  BY <1>4 DEF w
<1>9. synthio_iocnt' < config.endiocnt /\ \A p \in Procs : EndsIn(R[p].events, "SYNTHIO_EVENT")
  BY <1>0, <1>3, <1>4
<1>10. /\ Typed(T)' /\ Running' /\ WorkIsRun'
       /\ procs' = R /\ cpus' = CpuChanged(c, Settled(w)) /\ (fault' <=> FALSE)
  <2>0. /\ config' = config /\ c \in Cpus /\ q \in Agendas(QueueEvents) /\ OthersGood(c, q)
        /\ w \in CpuRecords /\ Resumable(c, w) /\ R \in ProcTables(T)
    BY <1>0, <1>1, <1>4, <1>5
  <2>1. CASE stops = TRUE
    <3>1. Continue(c, CpuChanged(c, w), R, q, TRUE, FALSE)
      BY <1>8, <2>1
    <3> QED BY <1>6, <1>7, <1>9, <2>0, <3>1, Finished
  <2>2. CASE stops = FALSE
    <3>1. Continue(c, CpuChanged(c, w), R, q, FALSE, FALSE)
      BY <1>8, <2>2
    <3> QED BY <1>6, <1>7, <1>9, <2>0, <3>1, Finished
  <2> QED BY <2>1, <2>2
<1>11. \A x \in pendiolist : x.wanted => \E y \in pendiolist' : y.opid = x.opid /\ y.wanted
  BY <1>3
<1>12. \A p \in Procs : procs'[p].chan = procs[p].chan
  BY <1>4, <1>10
<1>13. WakeupComes'
  BY <1>0, <1>1, <1>3, <1>5, <1>10, <1>11, <1>12, SleepersKept
<1> QED BY <1>10, <1>13 DEF After

(***************************************************************************)
(* The interrupts.                                                          *)
(***************************************************************************)

\* The list of processor 1 with what is left of the delay of its event
Kept(q) ==
    LET s == Chain(cpus[1], procs)
    IN IF cpus[1].state # "CPU_IDLE" /\ s # <<>> THEN [s EXCEPT ![1].time = TimeLeft(q, CpuEvent(1))] ELSE s

\* The processor with the list i of its idle loop
Idling(k, i) == [state |-> k.state, procp |-> k.procp, intrs |-> k.intrs, idleevents |-> i]

LEMMA BusyHasList ==
  ASSUME NEW T, Typed(T), Running, ~stop_sim
  PROVE  /\ cpus[1].state # "CPU_IDLE" => Chain(cpus[1], procs) # <<>>
         /\ cpus[1].state = "CPU_IDLE" =>
               /\ cpus[1].intrs = <<>> /\ cpus[1].procp = Nobody /\ cpus[1].idleevents = <<>>
               /\ Chain(cpus[1], procs) = <<>>
<1> DEFINE k == cpus[1]
<1>1. 1 \in Cpus
  BY ConfigParts
<1>2. k \in CpuRecords /\ GoodCpu(1, k)
  BY <1>1 DEF Typed, Running
<1>3. k.procp \in Procs \cup {Nobody} /\ k.intrs \in Seq(Intrs)
  BY <1>2, CpuRecordParts
<1>4. \A p \in Procs : procs[p].events # <<>>
  BY DEF Running, EndsIn
<1> HIDE DEF k
<1>5. CASE k.intrs # <<>>
  <2>1. 1 \in DOMAIN k.intrs /\ Head(k.intrs) = k.intrs[1] /\ k.state = "CPU_INTR"
    BY <1>2, <1>3, <1>5 DEF GoodCpu
  <2>2. k.intrs[1].events # <<>>
    BY <1>2, <2>1 DEF GoodCpu, EndsIn
  <2> QED BY <1>5, <2>1, <2>2 DEF Chain, k
<1>6. CASE k.intrs = <<>> /\ k.procp # Nobody
  BY <1>2, <1>3, <1>4, <1>6 DEF Chain, GoodCpu, Base, k
<1>7. CASE k.intrs = <<>> /\ k.procp = Nobody
  BY <1>2, <1>7 DEF Chain, GoodCpu, Base, k
<1> QED BY <1>5, <1>6, <1>7

\* Nothing but the time of the first event changes.
TimeChanged(s, l) == l = s \/ (s # <<>> /\ \E t : l = [s EXCEPT ![1] = [s[1] EXCEPT !.time = t]])
SameEvents(P) == \A p \in Procs : TimeChanged(procs[p].events, P[p].events)

LEMMA KeptFacts ==
  ASSUME NEW T, Typed(T), Running, ~stop_sim, NEW q,
         cpus[1].intrs # <<>> => CpuEvent(1) \notin q.later
  PROVE  \E i \in Seq(IdleEvents), P \in ProcTables(T) :
            /\ WithChain(1, cpus, Kept(q)) = CpuChanged(1, Idling(cpus[1], i))
            /\ ProcWithChain(1, cpus, procs, Kept(q)) = P
            /\ i = <<>> <=> cpus[1].idleevents = <<>>
            /\ \A p \in Procs : EndsIn(P[p].events, "SYNTHIO_EVENT") /\ P[p].chan = procs[p].chan
            /\ SameEvents(P)
<1> DEFINE k == cpus[1]
           s == Chain(k, procs)
           t == TimeLeft(q, CpuEvent(1))
           Goal(i, P) == /\ WithChain(1, cpus, Kept(q)) = CpuChanged(1, Idling(k, i))
                         /\ ProcWithChain(1, cpus, procs, Kept(q)) = P
                         /\ i = <<>> <=> k.idleevents = <<>>
                         /\ \A p \in Procs : EndsIn(P[p].events, "SYNTHIO_EVENT") /\ P[p].chan = procs[p].chan
                         /\ SameEvents(P)
<1>0. SameEvents(procs)
  BY DEF SameEvents, TimeChanged
<1>1. /\ 1 \in Cpus /\ DOMAIN cpus = Cpus /\ k \in CpuRecords /\ procs \in ProcTables(T) /\ {0, 1} \subseteq T
      /\ \A p \in Procs : EndsIn(procs[p].events, "SYNTHIO_EVENT")
  BY ConfigParts DEF Typed, Running
<1>2. /\ k.state # "CPU_IDLE" => s # <<>>
      /\ k.state = "CPU_IDLE" => k.intrs = <<>> /\ k.procp = Nobody /\ k.idleevents = <<>> /\ s = <<>>
  BY BusyHasList
<1>3. Idling(k, k.idleevents) = k /\ k.idleevents \in Seq(IdleEvents) /\ cpus = CpuChanged(1, k)
  <2>1. cpus = CpuChanged(1, k)
    BY <1>1 DEF CpuChanged, Typed
  <2> HIDE DEF k
  <2>2. Idling(k, k.idleevents) = k /\ k.idleevents \in Seq(IdleEvents)
    BY <1>1, CpuRecordParts DEF Idling
  <2> QED BY <2>1, <2>2
<1>4. t \in {0, 1} /\ (k.intrs # <<>> => t = 0)
  BY DEF TimeLeft
<1>5. CASE s = <<>>
  <2>1. Kept(q) = <<>> /\ k.intrs = <<>> /\ k.procp = Nobody /\ k.idleevents = <<>>
    BY <1>2, <1>5 DEF Kept
  <2>2. ProcWithChain(1, cpus, procs, Kept(q)) = procs
    BY <2>1 DEF ProcWithChain
  <2>3. WithChain(1, cpus, Kept(q)) = [cpus EXCEPT ![1].idleevents = <<>>]
    BY <2>1 DEF WithChain
  <2>4. [k EXCEPT !.idleevents = <<>>] = k
    BY <1>3, <2>1 DEF Idling
  <2>5. [cpus EXCEPT ![1].idleevents = <<>>] = CpuChanged(1, k)
    BY <2>4 DEF CpuChanged
  <2>6. Goal(k.idleevents, procs)
    BY <1>0, <1>1, <1>3, <2>2, <2>3, <2>5
  <2> QED BY <1>1, <1>3, <2>6
<1>6. CASE s # <<>>
  <2>1. InIntr(1) \/ InProc(1, T) \/ InIdle(1)
    BY <1>1, <1>6, Modes
  <2>2. Kept(q) = [s EXCEPT ![1].time = t]
    BY <1>2, <1>6 DEF Kept
  <2>3. CASE InIntr(1)
    <3> DEFINE l == TopList(1)
               a == k.intrs
    <3>1. /\ a # <<>> /\ a[1] \in Intrs /\ 1 \in DOMAIN a /\ s = l /\ l \in Seq(IntrEvents)
          /\ EndsIn(l, "INTEND_EVENT") /\ l = a[1].events
      BY <2>3 DEF InIntr, TopList
    <3>2. 1 \in DOMAIN l /\ l[1] \in IntrEvents
      <4> HIDE DEF l
      <4> QED BY <3>1 DEF EndsIn
    <3>3. l[1].time = 0 /\ t = 0
      BY <1>4, <3>1, <3>2 DEF IntrEvents
    <3>4. Kept(q) = l
      <4> HIDE DEF l, s, t
      <4>1. [l[1] EXCEPT !.time = 0] = l[1]
        BY <3>2, <3>3 DEF IntrEvents
      <4>2. [l EXCEPT ![1] = [l[1] EXCEPT !.time = 0]] = l
        BY <3>1, <4>1
      <4> QED BY <2>2, <3>1, <3>3, <4>2
    <3>5. WithChain(1, cpus, l) = [cpus EXCEPT ![1].intrs[1].events = l]
      BY <3>1 DEF WithChain
    <3>6. [a[1] EXCEPT !.events = l] = a[1]
      BY <3>1 DEF Intrs
    <3>7. a \in Seq(Intrs) /\ [a EXCEPT ![1] = a[1]] = a
      BY <1>1, CpuRecordParts
    <3>8. [k EXCEPT !.intrs = a] = k
      BY <1>1, CpuRecordParts
    <3>9. [cpus EXCEPT ![1].intrs[1].events = l] = [cpus EXCEPT ![1] = [k EXCEPT !.intrs = [a EXCEPT ![1] = [a[1] EXCEPT !.events = l]]]]
      BY <1>1
    <3>10. WithChain(1, cpus, l) = CpuChanged(1, k)
      BY <3>5, <3>6, <3>7, <3>8, <3>9 DEF CpuChanged
    <3>11. ProcWithChain(1, cpus, procs, Kept(q)) = procs
      BY <3>1 DEF ProcWithChain
    <3>12. Goal(k.idleevents, procs)
      BY <1>0, <1>1, <1>3, <3>4, <3>10, <3>11
    <3> QED BY <1>1, <1>3, <3>12
  <2>4. CASE InProc(1, T)
    <3> DEFINE l == FlowList(1)
               P == WithList(procs, k.procp, Kept(q))
    <3>1. k.intrs = <<>> /\ k.procp # Nobody /\ k.procp \in Procs /\ s = l /\ l \in Seq(FlowEvents(T))
          /\ EndsIn(l, "SYNTHIO_EVENT")
      BY <2>4 DEF InProc
    <3>2. [l[1] EXCEPT !.time = t] \in FlowEvents(T) /\ [l[1] EXCEPT !.time = t].type = l[1].type
      <4> HIDE DEF l, t
      <4>1. l[1] \in FlowEvents(T)
        BY <3>1, EndsInTail
      <4> QED BY <1>1, <1>4, <4>1 DEF FlowEvents
    <3>3. Kept(q) \in Seq(FlowEvents(T)) /\ EndsIn(Kept(q), "SYNTHIO_EVENT")
      <4> HIDE DEF l, t
      <4>1. [l EXCEPT ![1].time = t] \in Seq(FlowEvents(T)) /\ EndsIn([l EXCEPT ![1].time = t], "SYNTHIO_EVENT")
        BY <3>1, <3>2, EndsInTime
      <4> QED BY <2>2, <3>1, <4>1
    <3>4. WithChain(1, cpus, Kept(q)) = CpuChanged(1, k)
      BY <1>3, <3>1 DEF WithChain
    <3>5. ProcWithChain(1, cpus, procs, Kept(q)) = P
      BY <3>1 DEF ProcWithChain, WithList
    <3>6. P \in ProcTables(T) /\ \A p \in Procs : EndsIn(P[p].events, "SYNTHIO_EVENT") /\ P[p].chan = procs[p].chan
      BY <1>1, <2>4, <3>3, ListGoesOn
    <3>7. SameEvents(P)
      <4>1. TimeChanged(l, Kept(q))
        <5>1. l # <<>> /\ Kept(q) = [l EXCEPT ![1] = [l[1] EXCEPT !.time = t]]
          <6> HIDE DEF l, t
          <6> QED BY <2>2, <3>1 DEF EndsIn
        <5> QED BY <5>1 DEF TimeChanged
      <4>2. /\ \A p \in Procs : p = k.procp => P[p].events = Kept(q)
            /\ \A p \in Procs : p # k.procp => P[p] = procs[p]
        BY <1>1, <3>1, <3>3, ListChanged
      <4> HIDE DEF P
      <4>3. \A p \in Procs : p = k.procp => procs[p].events = l
        BY DEF FlowList
      <4> HIDE DEF l
      <4> QED BY <4>1, <4>2, <4>3 DEF SameEvents, TimeChanged
    <3> HIDE DEF P
    <3>8. Goal(k.idleevents, P)
      BY <1>3, <3>4, <3>5, <3>6, <3>7
    <3> QED BY <1>3, <3>6, <3>8
  <2>5. CASE InIdle(1)
    <3> DEFINE l == k.idleevents
               i == Kept(q)
    <3>1. k.intrs = <<>> /\ k.procp = Nobody /\ s = l /\ l \in Seq(IdleEvents) /\ l # <<>>
      BY <2>5 DEF InIdle
    <3>2. i \in Seq(IdleEvents) /\ i # <<>>
      <4> HIDE DEF l, t, s
      <4>1. l[1] \in IdleEvents /\ 1 \in DOMAIN l
        BY <3>1
      <4>2. [l[1] EXCEPT !.time = t] \in IdleEvents
        BY <1>4, <4>1 DEF IdleEvents
      <4> DEFINE u == [l[1] EXCEPT !.time = t]
      <4>3. i = [l EXCEPT ![1] = u]
        BY <2>2, <3>1
      <4> HIDE DEF u, i
      <4>4. u \in IdleEvents
        BY <4>2 DEF u
      <4> QED BY <3>1, <4>1, <4>3, <4>4
    <3>3. WithChain(1, cpus, i) = [cpus EXCEPT ![1].idleevents = i]
      BY <3>1 DEF WithChain
    <3>4. ProcWithChain(1, cpus, procs, i) = procs
      BY <3>1 DEF ProcWithChain
    <3> HIDE DEF i
    <3>5. \A v : [k EXCEPT !.idleevents = v] = Idling(k, v)
      BY <1>1, CpuRecordParts DEF Idling
    <3>6. [cpus EXCEPT ![1].idleevents = i] = CpuChanged(1, Idling(k, i))
      BY <1>1, <3>5 DEF CpuChanged
    <3>7. Goal(i, procs)
      BY <1>0, <1>1, <3>1, <3>2, <3>3, <3>4, <3>6 DEF i
    <3> QED BY <1>1, <3>2, <3>7
  <2> QED BY <2>1, <2>3, <2>4, <2>5
<1> QED BY <1>5, <1>6

\* The agenda without the event of processor 1
Quieted(q) == IF cpus[1].state # "CPU_IDLE" THEN Cancel(q, CpuEvent(1)) ELSE q

LEMMA QuietedFacts ==
  ASSUME NEW T, Typed(T), NEW q \in Agendas(QueueEvents), \A d \in Cpus : GoodEvent(d, cpus[d], q)
  PROVE  Quieted(q) \in Agendas(QueueEvents) /\ OthersGood(1, Quieted(q))
<1> DEFINE e == CpuEvent(1)
           a == Quieted(q)
           k == cpus[1]
<1>1. GoodEvent(1, k, q)
  BY ConfigParts
<1> HIDE DEF k
<1>2. Pending(q, e) <=> k.state # "CPU_IDLE"
  BY <1>1 DEF GoodEvent
<1>3. AtMostOnce(q, e)
  BY <1>1 DEF GoodEvent
<1> HIDE DEF e
<1>4. /\ a \in Agendas(QueueEvents) /\ ~Pending(a, e)
      /\ \A x : x # e => (Pending(a, x) <=> Pending(q, x))
      /\ \A x : AtMostOnce(q, x) => AtMostOnce(a, x)
      /\ a.later \subseteq q.later
  <2>1. CASE k.state # "CPU_IDLE"
    <3>1. a = Cancel(q, e)
      BY <2>1 DEF Quieted, k, e
    <3>2. /\ Cancel(q, e) \in Agendas(QueueEvents)
          /\ \A x : Pending(Cancel(q, e), x) <=> (x # e /\ Pending(q, x))
          /\ \A x : AtMostOnce(q, x) => AtMostOnce(Cancel(q, e), x)
          /\ Cancel(q, e).later = q.later \ {e}
      BY <1>2, <1>3, <2>1, CancelFacts
    <3> HIDE DEF a
    <3> QED BY <3>1, <3>2
  <2>2. CASE k.state = "CPU_IDLE"
    <3>1. a = q
      BY <2>2 DEF Quieted, k
    <3> HIDE DEF a
    <3> QED BY <1>2, <2>2, <3>1
  <2> QED BY <2>1, <2>2
<1> HIDE DEF a
<1>5. ASSUME NEW d \in Cpus, d # 1
      PROVE  GoodEvent(d, cpus[d], a)
  <2> DEFINE m == cpus[d]
  <2>1. GoodEvent(d, m, q) /\ CpuEvent(d) # e
    BY <1>5 DEF CpuEvent, e
  <2> HIDE DEF m
  <2>2. GoodEvent(d, m, a)
    BY <1>4, <2>1 DEF GoodEvent
  <2> QED BY <2>2 DEF m
<1>6. AtMostOnce(a, e)
  BY <1>3, <1>4
<1> QED BY <1>4, <1>5, <1>6 DEF OthersGood, e, a

\* The processor in the interrupt
Taken(k, i, intr) ==
    [state |-> "CPU_INTR", procp |-> k.procp,
     intrs |-> <<[intr EXCEPT !.oldstate = k.state]>> \o k.intrs, idleevents |-> i]

LEMMA TakenFacts ==
  ASSUME NEW k \in CpuRecords, GoodCpu(1, k), NEW i \in Seq(IdleEvents), i = <<>> <=> k.idleevents = <<>>,
         NEW intr \in Intrs, EndsIn(intr.events, "INTEND_EVENT")
  PROVE  /\ Taken(k, i, intr) \in CpuRecords /\ Resumable(1, Taken(k, i, intr))
         /\ Taken(k, i, intr).intrs # <<>> /\ Taken(k, i, intr).state = "CPU_INTR"
         /\ \A o : WakeupOn(k, o) => WakeupOn(Taken(k, i, intr), o)
         /\ \A P : Chain(Taken(k, i, intr), P) = intr.events
         /\ intr.events # <<>> /\ Head(intr.events).time = 0
<1> DEFINE x == [intr EXCEPT !.oldstate = k.state]
           a == k.intrs
           n == Len(a)
           b == <<x>> \o a
           w == Taken(k, i, intr)
<1>1. k.state \in CpuStates /\ k.procp \in Procs \cup {Nobody} /\ a \in Seq(Intrs)
  BY CpuRecordParts
<1>2. x \in Intrs /\ x.oldstate = k.state /\ x.events = intr.events
  BY <1>1 DEF Intrs
<1> HIDE DEF x, a
<1>3. /\ n \in Nat /\ DOMAIN a = 1..n
      /\ b \in Seq(Intrs) /\ b # <<>> /\ Len(b) = n + 1 /\ DOMAIN b = 1..n + 1
      /\ b[1] = x /\ Head(b) = x /\ \A j \in 1..n : b[j + 1] = a[j]
      /\ \A j \in 2..n + 1 : b[j] = a[j - 1] /\ j - 1 \in DOMAIN a
  <2>1. <<x>> \in Seq(Intrs) /\ Len(<<x>>) = 1 /\ <<x>>[1] = x
    BY <1>2
  <2>2. n \in Nat /\ DOMAIN a = 1..n
    BY <1>1
  <2>3. b \in Seq(Intrs) /\ Len(b) = n + 1 /\ DOMAIN b = 1..n + 1
        /\ \A j \in 1..n + 1 : b[j] = IF j <= 1 THEN <<x>>[j] ELSE a[j - 1]
    BY <1>1, <2>1, <2>2
  <2> HIDE DEF b, n
  <2>4. b # <<>> /\ Head(b) = b[1] /\ b[1] = x
    BY <2>1, <2>2, <2>3
  <2>5. \A j \in 2..n + 1 : b[j] = a[j - 1] /\ j - 1 \in DOMAIN a
    BY <2>2, <2>3
  <2>6. ASSUME NEW j \in 1..n PROVE b[j + 1] = a[j]
    <3>1. j + 1 \in 1..n + 1 /\ ~(j + 1 <= 1) /\ (j + 1) - 1 = j
      BY <2>2
    <3> QED BY <2>3, <3>1
  <2> QED BY <2>2, <2>3, <2>4, <2>5, <2>6
<1>4. w = [state |-> "CPU_INTR", procp |-> k.procp, intrs |-> b, idleevents |-> i]
  BY DEF Taken, x, a
<1> HIDE DEF b, n, w
<1>5. w \in CpuRecords
  BY <1>1, <1>3, <1>4 DEF CpuRecords, CpuStates
<1>6. w.state = "CPU_INTR" /\ w.procp = k.procp /\ w.intrs = b /\ w.idleevents = i
  BY <1>4
<1>7. Base(w) = Base(k)
  BY <1>6 DEF Base
<1>8. /\ a = <<>> => k.state = Base(k)
      /\ a # <<>> => k.state = "CPU_INTR"
      /\ \A j \in DOMAIN a : a[j].oldstate = IF j < n THEN "CPU_INTR" ELSE Base(k)
      /\ \A j \in DOMAIN a : EndsIn(a[j].events, "INTEND_EVENT")
  <2>1. a = <<>> => DOMAIN a = {}
    OBVIOUS
  <2> QED BY <2>1 DEF GoodCpu, a, n
<1>9. (a = <<>> => n = 0) /\ (n = 0 => a = <<>>)
  BY <1>1, <1>3 DEF n
<1>10. ASSUME NEW j \in DOMAIN b
       PROVE  /\ b[j].oldstate = IF j < Len(b) THEN "CPU_INTR" ELSE Base(w)
              /\ EndsIn(b[j].events, "INTEND_EVENT")
  <2>1. CASE j = 1
    <3>1. b[j].oldstate = k.state /\ b[j].events = intr.events
      BY <1>2, <1>3, <2>1
    <3>2. (j < Len(b) <=> n # 0)
      BY <1>3, <2>1
    <3> QED BY <1>7, <1>8, <1>9, <3>1, <3>2
  <2>2. CASE j # 1
    <3>1. j \in 2..n + 1 /\ (j - 1 < n <=> j < Len(b))
      BY <1>3, <2>2
    <3>2. b[j] = a[j - 1] /\ j - 1 \in DOMAIN a
      BY <1>3, <3>1
    <3> QED BY <1>7, <1>8, <3>1, <3>2
  <2> QED BY <2>1, <2>2
<1>11. Resumable(1, w)
  BY <1>3, <1>6, <1>10 DEF Resumable
<1>12. ASSUME NEW o, WakeupOn(k, o)
       PROVE  WakeupOn(w, o)
  <2>1. PICK j \in DOMAIN a : \E m \in DOMAIN a[j].events : a[j].events[m] = Wakeup(o)
    BY <1>12 DEF WakeupOn, a
  <2>2. j + 1 \in DOMAIN b /\ b[j + 1] = a[j]
    BY <1>3
  <2> QED BY <1>6, <2>1, <2>2 DEF WakeupOn
<1>13. \A P : Chain(w, P) = intr.events
  BY <1>2, <1>3, <1>6 DEF Chain
<1>14. intr.events # <<>> /\ Head(intr.events).time = 0
  <2> DEFINE l == intr.events
  <2>1. l \in Seq(IntrEvents) /\ EndsIn(l, "INTEND_EVENT")
    BY DEF Intrs
  <2> HIDE DEF l
  <2>2. l # <<>> /\ Head(l) \in IntrEvents
    BY <2>1, EndsInTail
  <2> QED BY <2>2 DEF IntrEvents, l
<1> QED BY <1>3, <1>5, <1>6, <1>11, <1>12, <1>13, <1>14 DEF w

\* pf_handle_intr_event ends as the last part of pf_handle_cpu_event does.
LEMMA ContinueMade ==
  ASSUME NEW T, Typed(T), NEW c \in Cpus, NEW w \in CpuRecords, w.intrs # <<>>,
         NEW P, NEW r, Chain(w, P) # <<>>, Head(Chain(w, P)).time = 0,
         procs' = P, cpus' = CpuChanged(c, w), agenda' = Put(r, CpuEvent(c), 0),
         stop_sim' = FALSE, fault' = FALSE
  PROVE  Continue(c, CpuChanged(c, w), P, r, FALSE, FALSE)
<1> DEFINE next == Chain(w, P)
           idle == w.intrs = <<>> /\ w.procp = Nobody
           C == CpuChanged(c, w)
           Ends(k, R) == LET n == Chain(k, R)
                             i == k.intrs = <<>> /\ k.procp = Nobody
                         IN /\ procs' = R
                            /\ cpus' = [cpus EXCEPT ![c] = IF ~i THEN k
                                           ELSE [k EXCEPT !.state = IF n = <<>> THEN "CPU_IDLE" ELSE "CPU_IDLE_WORK"]]
                            /\ agenda' = IF i /\ n = <<>> THEN r ELSE Put(r, CpuEvent(c), NextDelay(n))
                            /\ stop_sim' = (FALSE \/ (k.intrs = <<>> /\ k.procp # Nobody /\ n = <<>>))
                            /\ fault' = (FALSE \/ (k.intrs # <<>> /\ n = <<>>))
<1>1. C[c] = w
  BY CpuChangedFacts
<1>2. ~idle /\ NextDelay(next) = 0 /\ next # <<>>
  BY DEF NextDelay
<1>3. Ends(w, P)
  <2> HIDE DEF next, idle, C
  <2>1. /\ cpus' = [cpus EXCEPT ![c] = IF ~idle THEN w
                                           ELSE [w EXCEPT !.state = IF next = <<>> THEN "CPU_IDLE" ELSE "CPU_IDLE_WORK"]]
        /\ agenda' = IF idle /\ next = <<>> THEN r ELSE Put(r, CpuEvent(c), NextDelay(next))
    BY <1>2 DEF CpuChanged
  <2>2. stop_sim' = (FALSE \/ (w.intrs = <<>> /\ w.procp # Nobody /\ next = <<>>))
    BY <1>2
  <2>3. fault' = (FALSE \/ (w.intrs # <<>> /\ next = <<>>))
    BY <1>2
  <2> QED BY <2>1, <2>2, <2>3 DEF next, idle
<1>4. \E k \in {C[c]}, R \in {P} : Ends(k, R)
  <2> HIDE DEF Ends, C
  <2> QED BY <1>1, <1>3
<1> QED BY <1>4 DEF Continue

\* The agenda without that event, and with the next clock interrupt
Rearmed(q, more) == IF more = {} THEN Quieted(q) ELSE Put(Quieted(q), ClockInterrupt, 1)

\* How an interrupt goes on: as the last part of pf_handle_cpu_event would with
\* the interrupt on top, i the events of the idle loop and P the processes
InterruptedTo(T, q, intr, more, i, P) ==
    LET w == Taken(cpus[1], i, intr)
        r == Rearmed(q, more)
    IN /\ P \in ProcTables(T) /\ SameEvents(P)
       /\ P = ProcWithChain(1, cpus, procs, Kept(q)) /\ (i = <<>> <=> cpus[1].idleevents = <<>>)
       /\ \A p \in Procs : EndsIn(P[p].events, "SYNTHIO_EVENT") /\ P[p].chan = procs[p].chan
       /\ w \in CpuRecords /\ Resumable(1, w) /\ w.intrs # <<>>
       /\ \A o : WakeupOn(cpus[1], o) => WakeupOn(w, o)
       /\ r \in Agendas(QueueEvents) /\ OthersGood(1, r)
       /\ Continue(1, CpuChanged(1, w), P, r, FALSE, FALSE)
       /\ config' = config /\ pf_dispq' = pf_dispq /\ sleepqueue' = sleepqueue
       /\ pendiolist' = pendiolist /\ doneiolist' = doneiolist
       /\ gens' = gens /\ synthio_iocnt' = synthio_iocnt /\ queue' = queue /\ idlereset' = idlereset

InterruptsOn(T, q, intr, more) == \E i, P : InterruptedTo(T, q, intr, more, i, P)

\* An interrupt arrives.
LEMMA InterruptGoesOn ==
  ASSUME NEW T, Typed(T), Running, ~stop_sim,
         NEW q \in Agendas(QueueEvents), \A d \in Cpus : GoodEvent(d, cpus[d], q),
         NEW intr \in Intrs, EndsIn(intr.events, "INTEND_EVENT"), NEW more,
         Interrupted(q, intr, more)
  PROVE  InterruptsOn(T, q, intr, more)
<1> DEFINE k == cpus[1]
           r == Rearmed(q, more)
           rec == [intr EXCEPT !.oldstate = k.state]
           C == WithChain(1, cpus, Kept(q))
<1>0. /\ 1 \in Cpus /\ k \in CpuRecords /\ GoodCpu(1, k) /\ GoodEvent(1, k, q) /\ DOMAIN cpus = Cpus
      /\ synthio_iocnt < config.endiocnt
  BY ConfigParts DEF Typed, Running
<1>1. /\ procs' = ProcWithChain(1, cpus, procs, Kept(q))
      /\ cpus' = [C EXCEPT ![1].state = "CPU_INTR", ![1].intrs = <<rec>> \o @]
      /\ agenda' = Put(r, CpuEvent(1), 0)
      /\ fault' = ~(k.state = "CPU_IDLE" \/ (Pending(q, CpuEvent(1)) /\ Chain(k, procs) # <<>>))
      /\ config' = config /\ stop_sim' = stop_sim
      /\ pf_dispq' = pf_dispq /\ sleepqueue' = sleepqueue /\ pendiolist' = pendiolist /\ doneiolist' = doneiolist
      /\ gens' = gens /\ synthio_iocnt' = synthio_iocnt /\ queue' = queue /\ idlereset' = idlereset
  BY DEF Interrupted, Kept, Quieted, Rearmed, Untouched
<1>2. fault' = FALSE /\ stop_sim' = FALSE
  <2>1. k.state # "CPU_IDLE" => Pending(q, CpuEvent(1)) /\ Chain(k, procs) # <<>>
    BY <1>0, BusyHasList DEF GoodEvent
  <2>2. stop_sim \in BOOLEAN
    BY DEF Typed
  <2> QED BY <1>1, <2>1, <2>2
<1>3. k.intrs # <<>> => CpuEvent(1) \notin q.later
  BY <1>0 DEF GoodEvent
<1>4. PICK i \in Seq(IdleEvents), P \in ProcTables(T) :
            /\ WithChain(1, cpus, Kept(q)) = CpuChanged(1, Idling(cpus[1], i))
            /\ ProcWithChain(1, cpus, procs, Kept(q)) = P
            /\ i = <<>> <=> cpus[1].idleevents = <<>>
            /\ \A p \in Procs : EndsIn(P[p].events, "SYNTHIO_EVENT") /\ P[p].chan = procs[p].chan
            /\ SameEvents(P)
  BY <1>3, KeptFacts
<1> DEFINE w == Taken(k, i, intr)
<1>5. /\ w \in CpuRecords /\ Resumable(1, w) /\ w.intrs # <<>> /\ w.state = "CPU_INTR"
      /\ \A o : WakeupOn(k, o) => WakeupOn(w, o)
      /\ Chain(w, P) = intr.events
      /\ intr.events # <<>> /\ Head(intr.events).time = 0
  <2> HIDE DEF w
  <2> HIDE DEF k
  <2>1. i = <<>> <=> k.idleevents = <<>>
    BY <1>4 DEF k
  <2>2. /\ Taken(k, i, intr) \in CpuRecords /\ Resumable(1, Taken(k, i, intr))
        /\ Taken(k, i, intr).intrs # <<>> /\ Taken(k, i, intr).state = "CPU_INTR"
        /\ \A o : WakeupOn(k, o) => WakeupOn(Taken(k, i, intr), o)
        /\ \A R : Chain(Taken(k, i, intr), R) = intr.events
        /\ intr.events # <<>> /\ Head(intr.events).time = 0
    BY <1>0, <2>1, TakenFacts
  <2> QED BY <2>2 DEF w
<1>6. cpus' = CpuChanged(1, w)
  <2> DEFINE m == Idling(k, i)
             st == "CPU_INTR"
             m1 == [m EXCEPT !.state = st]
             m2 == [m1 EXCEPT !.intrs = <<rec>> \o m.intrs]
  <2>1. C = CpuChanged(1, m)
    BY <1>4
  <2>2. m = [state |-> k.state, procp |-> k.procp, intrs |-> k.intrs, idleevents |-> i]
    BY DEF Idling
  <2> HIDE DEF rec, m, C
  <2>3. m1 = [state |-> st, procp |-> k.procp, intrs |-> k.intrs, idleevents |-> i]
    BY <2>2
  <2> HIDE DEF m1
  <2>4. m2 = [state |-> st, procp |-> k.procp, intrs |-> <<rec>> \o k.intrs, idleevents |-> i]
    <3>1. \A v : [m1 EXCEPT !.intrs = v] = [state |-> st, procp |-> k.procp, intrs |-> v, idleevents |-> i]
      BY <2>3
    <3>2. m.intrs = k.intrs
      BY <2>2
    <3> QED BY <3>1, <3>2
  <2>5. m2 = w
    BY <2>4 DEF Taken, rec
  <2>6. [CpuChanged(1, m) EXCEPT ![1].state = st] = CpuChanged(1, m1)
    BY <1>0 DEF CpuChanged, m1
  <2>7. m1.intrs = m.intrs
    BY <2>2, <2>3
  <2>8. [CpuChanged(1, m1) EXCEPT ![1].intrs = <<rec>> \o @] = CpuChanged(1, m2)
    BY <1>0, <2>7 DEF CpuChanged
  <2>9. cpus' = [[C EXCEPT ![1].state = st] EXCEPT ![1].intrs = <<rec>> \o @]
    BY <1>1
  <2> HIDE DEF m2
  <2> QED BY <2>1, <2>5, <2>6, <2>8, <2>9
<1>7. r \in Agendas(QueueEvents) /\ OthersGood(1, r)
  <2>1. Quieted(q) \in Agendas(QueueEvents) /\ OthersGood(1, Quieted(q))
    BY QuietedFacts
  <2>2. ClockInterrupt \in QueueEvents /\ \A d \in Cpus : ClockInterrupt # CpuEvent(d)
    BY DEF QueueEvents, ClockInterrupt, CpuEvent
  <2>3. Put(Quieted(q), ClockInterrupt, 1) \in Agendas(QueueEvents) /\ OthersGood(1, Put(Quieted(q), ClockInterrupt, 1))
    BY <1>0, <2>1, <2>2, OthersGoodPut
  <2> QED BY <2>1, <2>3 DEF Rearmed
<1> HIDE DEF w, r, rec, C
<1>8. Continue(1, CpuChanged(1, w), P, r, FALSE, FALSE)
  <2>1. Chain(w, P) # <<>> /\ Head(Chain(w, P)).time = 0
    BY <1>5
  <2>2. procs' = P
    BY <1>1, <1>4
  <2> QED BY <1>0, <1>1, <1>2, <1>5, <1>6, <2>1, <2>2, ContinueMade
<1>9. \A o : WakeupOn(cpus[1], o) => WakeupOn(w, o)
  BY <1>5
<1>10. InterruptedTo(T, q, intr, more, i, P)
  BY <1>1, <1>4, <1>5, <1>7, <1>8, <1>9 DEF InterruptedTo, w, r
<1> QED BY <1>10 DEF InterruptsOn

LEMMA InterruptedKeeps ==
  ASSUME NEW T, Typed(T), Running, WorkIsRun, WakeupComes, ~stop_sim,
         NEW q \in Agendas(QueueEvents), \A d \in Cpus : GoodEvent(d, cpus[d], q),
         NEW intr \in Intrs, EndsIn(intr.events, "INTEND_EVENT"), NEW more,
         Interrupted(q, intr, more)
  PROVE  After /\ ~fault'
<1> DEFINE k == cpus[1]
           r == Rearmed(q, more)
<1>0. /\ 1 \in Cpus /\ k \in CpuRecords /\ synthio_iocnt < config.endiocnt
  BY ConfigParts DEF Typed, Running
<1>1. PICK i, P : InterruptedTo(T, q, intr, more, i, P)
  BY InterruptGoesOn DEF InterruptsOn
<1> DEFINE w == Taken(k, i, intr)
<1>2. /\ P \in ProcTables(T)
      /\ \A p \in Procs : EndsIn(P[p].events, "SYNTHIO_EVENT") /\ P[p].chan = procs[p].chan
      /\ w \in CpuRecords /\ Resumable(1, w) /\ w.intrs # <<>>
      /\ \A o : WakeupOn(k, o) => WakeupOn(w, o)
      /\ r \in Agendas(QueueEvents) /\ OthersGood(1, r)
      /\ Continue(1, CpuChanged(1, w), P, r, FALSE, FALSE)
      /\ config' = config /\ pf_dispq' = pf_dispq /\ sleepqueue' = sleepqueue
      /\ pendiolist' = pendiolist /\ doneiolist' = doneiolist
      /\ gens' = gens /\ synthio_iocnt' = synthio_iocnt /\ queue' = queue /\ idlereset' = idlereset
  BY <1>1 DEF InterruptedTo
<1> HIDE DEF w, r
<1>3. Before(T, 1, r)
  BY <1>0, <1>2 DEF Before
<1>4. HandlersTyped(T) /\ {0, 1} \subseteq T
  <2>1. pf_dispq' \in Seq(Procs) /\ sleepqueue' \in Seq(Procs)
    BY <1>2, UntouchedTyped
  <2> QED BY <1>2, <2>1, UntouchedTyped DEF HandlersTyped
<1>5. /\ Typed(T)' /\ Running' /\ WorkIsRun'
      /\ procs' = P /\ cpus' = CpuChanged(1, Settled(w)) /\ (fault' <=> FALSE)
  <2>1. synthio_iocnt' < config.endiocnt /\ \A p \in Procs : EndsIn(P[p].events, "SYNTHIO_EVENT")
    BY <1>0, <1>2
  <2>2. pf_dispq' # <<>> => /\ pf_dispq # <<>> \/ 1 = 1
                            /\ w.intrs # <<>> \/ w.procp # Nobody \/ w.idleevents # <<>>
    BY <1>2
  <2> QED BY <1>2, <1>3, <1>4, <2>1, <2>2, Finished
<1>6. \A x \in pendiolist : x.wanted => \E y \in pendiolist' : y.opid = x.opid /\ y.wanted
  BY <1>2
<1>7. \A p \in Procs : procs'[p].chan = procs[p].chan
  BY <1>2, <1>5
<1>8. WakeupComes'
  BY <1>0, <1>2, <1>5, <1>6, <1>7, SleepersKept
<1> QED BY <1>5, <1>8 DEF After

(***************************************************************************)
(* The main loop.                                                           *)
(***************************************************************************)

\* What iodriver_interrupt_arrive and pf_handle_clock_intr_arrive push
LEMMA IoIntrIsIntr ==
  ASSUME NEW T, Typed(T), NEW e, e.arg \in Int, e.cause \in Causes
  PROVE  /\ Intr(e.cause, IoIntrEvents(e)) \in Intrs
         /\ EndsIn(Intr(e.cause, IoIntrEvents(e)).events, "INTEND_EVENT")
<1> DEFINE a == Event("IO_RESPOND_TO_DEVICE", 0, e.arg)
           b == Event("IO_ACCESS_COMPLETE", 0, e.arg)
           s == IoIntrEvents(e)
<1>1. {a, b, Intend} \subseteq IntrEvents /\ a.type # "INTEND_EVENT" /\ b.type # "INTEND_EVENT"
      /\ Intend.type = "INTEND_EVENT"
  BY DEF Event, Intend, IntrEvents, IntrTypes
<1>2. s = (<<a>> \o <<b>>) \o <<Intend>> \/ s = (<<a>> \o <<>>) \o <<Intend>>
  BY DEF IoIntrEvents
<1>3. e.cause # "CLOCK"
  <2>1. config.causes \in {<<"COMPLETION">>, <<"DISCONNECT", "RECONNECT", "COMPLETION">>}
    BY ConfigParts
  <2> QED BY <2>1 DEF Causes
<1> HIDE DEF a, b, s
<1>4. s \in Seq(IntrEvents) /\ EndsIn(s, "INTEND_EVENT")
  <2> DEFINE u == <<a>> \o <<b>>
             v == <<a>> \o <<>>
             l == <<Intend>>
  <2>1. <<a>> \in Seq(IntrEvents) /\ <<b>> \in Seq(IntrEvents) /\ <<>> \in Seq(IntrEvents)
        /\ Len(<<a>>) = 1 /\ Len(<<b>>) = 1 /\ <<a>>[1] = a /\ <<b>>[1] = b
    BY <1>1
  <2>2. /\ u \in Seq(IntrEvents) /\ DOMAIN u = 1..2 /\ u[1] = a /\ u[2] = b
        /\ v \in Seq(IntrEvents) /\ DOMAIN v = 1..1 /\ v[1] = a
    BY <2>1
  <2>3. l \in Seq(IntrEvents) /\ EndsIn(l, "INTEND_EVENT")
    BY <1>1 DEF EndsIn
  <2> HIDE DEF u, v, l
  <2>4. /\ \A i \in DOMAIN u : u[i].type # "INTEND_EVENT"
        /\ \A i \in DOMAIN v : v[i].type # "INTEND_EVENT"
    BY <1>1, <2>2
  <2>5. u \o l \in Seq(IntrEvents) /\ EndsIn(u \o l, "INTEND_EVENT")
    BY <2>2, <2>3, <2>4, EndsInPrefix
  <2>6. v \o l \in Seq(IntrEvents) /\ EndsIn(v \o l, "INTEND_EVENT")
    BY <2>2, <2>3, <2>4, EndsInPrefix
  <2> QED BY <1>2, <2>5, <2>6 DEF u, v, l
<1>5. Intr(e.cause, s) \in Intrs /\ Intr(e.cause, s).events = s
  BY <1>3, <1>4 DEF Intr, Intrs, CpuStates
<1> QED BY <1>4, <1>5 DEF s

LEMMA ClockIntrIsIntr ==
  /\ Intr("CLOCK", <<Intend>>) \in Intrs
  /\ EndsIn(Intr("CLOCK", <<Intend>>).events, "INTEND_EVENT")
<1> DEFINE s == <<Intend>>
<1>1. Intend \in IntrEvents /\ Intend.type = "INTEND_EVENT"
  BY DEF Event, Intend, IntrEvents, IntrTypes
<1>2. s \in Seq(IntrEvents) /\ EndsIn(s, "INTEND_EVENT") /\ OnlyIntend(s)
  BY <1>1 DEF EndsIn, OnlyIntend
<1> HIDE DEF s
<1>3. Intr("CLOCK", s) \in Intrs /\ Intr("CLOCK", s).events = s
  BY <1>2 DEF Intr, Intrs, CpuStates
<1> QED BY <1>2, <1>3 DEF s

\* The agenda when its first event is taken
LEMMA TakenFromAgenda ==
  ASSUME NEW T, Typed(T), Running, NEW t \in Turns(agenda, config.atonce)
  PROVE  /\ Head(t.soon) \in QueueEvents /\ Rest(t) \in Agendas(QueueEvents)
         /\ \A d \in Cpus : CpuEvent(d) # Head(t.soon) => GoodEvent(d, cpus[d], Rest(t))
         /\ \A c \in Cpus : CpuEvent(c) = Head(t.soon) => OthersGood(c, Rest(t))
<1> DEFINE e == Head(t.soon)
           q == Rest(t)
<1>1. agenda \in Agendas(QueueEvents) /\ config.atonce \in Nat
  BY ConfigParts DEF Typed
<1>2. /\ t \in Agendas(QueueEvents) /\ t.soon # <<>>
      /\ \A x : Pending(t, x) <=> Pending(agenda, x)
      /\ \A x : AtMostOnce(agenda, x) => AtMostOnce(t, x)
      /\ t.later \subseteq agenda.later
  BY <1>1, TurnFacts
<1>3. /\ e \in QueueEvents /\ q \in Agendas(QueueEvents)
      /\ \A x : Pending(q, x) => Pending(t, x)
      /\ \A x : Pending(t, x) /\ x # e => Pending(q, x)
      /\ AtMostOnce(t, e) => ~Pending(q, e)
      /\ \A x : AtMostOnce(t, x) => AtMostOnce(q, x)
      /\ q.later = t.later
  BY <1>2, RestFacts
<1> HIDE DEF e, q
<1>4. ASSUME NEW d \in Cpus, CpuEvent(d) # e
      PROVE  GoodEvent(d, cpus[d], q)
  <2> DEFINE k == cpus[d]
  <2>1. GoodEvent(d, k, agenda)
    BY DEF Running
  <2> HIDE DEF k
  <2>2. GoodEvent(d, k, q)
    BY <1>2, <1>3, <1>4, <2>1 DEF GoodEvent
  <2> QED BY <2>2 DEF k
<1>5. ASSUME NEW c \in Cpus, CpuEvent(c) = e
      PROVE  OthersGood(c, q)
  <2>1. AtMostOnce(agenda, CpuEvent(c))
    BY DEF Running, GoodEvent
  <2>2. ~Pending(q, CpuEvent(c)) /\ AtMostOnce(q, CpuEvent(c))
    BY <1>2, <1>3, <1>5, <2>1
  <2>3. \A d \in Cpus : d # c => CpuEvent(d) # e
    BY <1>5 DEF CpuEvent
  <2> QED BY <1>4, <2>2, <2>3 DEF OthersGood
<1> QED BY <1>3, <1>4, <1>5 DEF e, q

\* disksim_simulate_event
LEMMA TurnKeeps ==
  ASSUME NEW T, Typed(T), Running, WorkIsRun, WakeupComes, NEW events, Turn(events)
  PROVE  After
<1>1. PICK t \in Turns(agenda, config.atonce) : Simulate(Head(t.soon), Rest(t))
  BY DEF Turn
<1> DEFINE e == Head(t.soon)
           q == Rest(t)
<1>2. /\ e \in QueueEvents /\ q \in Agendas(QueueEvents)
      /\ \A d \in Cpus : CpuEvent(d) # e => GoodEvent(d, cpus[d], q)
      /\ \A c \in Cpus : CpuEvent(c) = e => OthersGood(c, q)
  BY TakenFromAgenda
<1>3. ~stop_sim
  BY DEF Turn
<1> HIDE DEF e, q
<1>4. Simulate(e, q)
  BY <1>1 DEF e, q
<1>5. CASE e.type = "CPU_EVENT" /\ ProcessorEvent(e.arg, q)
  <2>0. e.type = "CPU_EVENT" /\ ClockInterrupt.type = "CLOCK_INTERRUPT"
    BY <1>5 DEF ClockInterrupt
  <2>1. PICK c \in Cpus : e = CpuEvent(c)
    BY <1>2, <2>0 DEF QueueEvents
  <2>2. Before(T, c, q)
    BY <1>2, <1>3, <2>1 DEF Before
  <2>3. ProcessorEvent(c, q)
    BY <1>5, <2>1 DEF CpuEvent
  <2>4. CASE Handled(c, q, "CSWITCH_EVENT", HandleCSwitch)
    BY <2>2, <2>4, CSwitchKeeps
  <2>5. CASE Handled(c, q, "SLEEP_EVENT", HandleSleep)
    BY <2>2, <2>5, SleepKeeps
  <2>6. CASE Handled(c, q, "WAKEUP_EVENT", HandleWakeup)
    BY <2>2, <2>6, WakeupKeeps
  <2>7. CASE Handled(c, q, "SYNTHIO_EVENT", HandleSynthio)
    BY <2>2, <2>7, SynthioKeeps
  <2>8. CASE Handled(c, q, "IOREQ_EVENT", HandleIoreq)
    BY <2>2, <2>8, IoreqKeeps
  <2>9. CASE Handled(c, q, "IO_ACCESS_ARRIVE", HandleAccess)
    BY <2>2, <2>9, AccessKeeps
  <2>10. CASE Handled(c, q, "IO_RESPOND_TO_DEVICE", HandleRespond)
    BY <2>2, <2>10, RespondKeeps
  <2>11. CASE Handled(c, q, "IO_ACCESS_COMPLETE", HandleAccessComplete)
    BY <2>2, <2>11, AccessCompleteKeeps
  <2>12. CASE Handled(c, q, "INTEND_EVENT", HandleIntend)
    BY <2>2, <2>12, IntendKeeps
  <2> QED BY <2>3, <2>4, <2>5, <2>6, <2>7, <2>8, <2>9, <2>10, <2>11, <2>12 DEF ProcessorEvent
<1>6. CASE e.type = "IO_INTERRUPT" /\ IoIntr(e, q)
  <2>0. /\ e.type = "IO_INTERRUPT" /\ ClockInterrupt.type = "CLOCK_INTERRUPT"
        /\ \A d \in Cpus : CpuEvent(d).type = "CPU_EVENT"
    BY <1>6 DEF ClockInterrupt, CpuEvent
  <2>1. e.arg \in Int /\ e.cause \in Causes
    BY <1>2, <2>0 DEF QueueEvents
  <2>a. \A d \in Cpus : CpuEvent(d) # e
    BY <2>0
  <2>2. \A d \in Cpus : GoodEvent(d, cpus[d], q)
    BY <1>2, <2>a
  <2> DEFINE intr == Intr(e.cause, IoIntrEvents(e))
  <2>3. intr \in Intrs /\ EndsIn(intr.events, "INTEND_EVENT")
    BY <2>1, IoIntrIsIntr
  <2>4. Interrupted(q, intr, {})
    BY <1>6 DEF IoIntr
  <2> HIDE DEF intr
  <2> QED BY <1>2, <1>3, <2>2, <2>3, <2>4, InterruptedKeeps
<1>7. CASE e.type = "CLOCK_INTERRUPT" /\ ClockIntr(q)
  <2>0. e.type = "CLOCK_INTERRUPT" /\ \A d \in Cpus : CpuEvent(d).type = "CPU_EVENT"
    BY <1>7 DEF CpuEvent
  <2>1. \A d \in Cpus : CpuEvent(d) # e
    BY <2>0
  <2>2. \A d \in Cpus : GoodEvent(d, cpus[d], q)
    BY <1>2, <2>1
  <2> DEFINE intr == Intr("CLOCK", <<Intend>>)
             more == {ClockInterrupt}
  <2>3. intr \in Intrs /\ EndsIn(intr.events, "INTEND_EVENT")
    BY ClockIntrIsIntr
  <2>4. Interrupted(q, intr, more)
    BY <1>7 DEF ClockIntr
  <2> HIDE DEF intr, more
  <2> QED BY <1>2, <1>3, <2>2, <2>3, <2>4, InterruptedKeeps
<1> QED BY <1>4, <1>5, <1>6, <1>7 DEF Simulate

\* Every step keeps the invariant.
LEMMA StepKeeps ==
  ASSUME CoreInv, [Next]_vars
  PROVE  CoreInv'
<1>1. PICK T : Typed(T)
  BY DEF CoreInv, BaseInv
<1>2. Running /\ WorkIsRun /\ WakeupComes
  BY DEF CoreInv, BaseInv
<1>3. CASE Next
  <2>1. \E events : Turn(events)
    BY <1>3 DEF Next, Progress, Tick
  <2>2. PICK events : Turn(events)
    BY <2>1
  <2>3. After
    BY <1>1, <1>2, <2>2, TurnKeeps
  <2> QED BY <2>3 DEF After, CoreInv, BaseInv
<1>4. CASE UNCHANGED vars
  <2>1. Cpus' = Cpus /\ Devices' = Devices /\ Causes' = Causes
    BY <1>4 DEF vars, Cpus, Devices, Causes
  <2>2. Typed(T)'
    <3>1. config \in Configs /\ {0, 1} \subseteq T
      BY <1>1 DEF Typed
    <3> QED BY <1>1, <1>4, <3>1, TypedPrimed DEF vars, Typed
  <2>3. Running'
    BY <1>2, <1>4, <2>1 DEF vars, Running, GoodCpu, GoodEvent, EndsIn, Base
  <2>4. WorkIsRun' /\ WakeupComes'
    BY <1>2, <1>4, <2>1 DEF vars, WorkIsRun, WakeupComes
  <2> QED BY <2>2, <2>3, <2>4 DEF CoreInv, BaseInv
<1> QED BY <1>3, <1>4

(***************************************************************************)
(* The beginning.                                                           *)
(***************************************************************************)
LEMMA DispatchedFacts ==
  ASSUME config \in Configs
  PROVE  /\ StartOrder \in Seq(Procs)
         /\ \A c \in Cpus : Dispatched(c) \in Procs \cup {Nobody}
         /\ SubSeq(StartOrder, config.numcpus + 1, Cardinality(Procs)) \in Seq(Procs)
         /\ SubSeq(StartOrder, config.numcpus + 1, Cardinality(Procs)) # <<>> => Dispatched(1) # Nobody
<1> DEFINE N == Cardinality(Procs)
           m == config.numcpus
<1>1. N \in Nat /\ Procs = 1..N
  BY ProcsAreNumbers
<1>2. m \in 1..19
  BY ProcessFlowAssumption DEF ConfigurableCpus
<1>3. DOMAIN StartOrder = 1..N /\ \A i \in 1..N : StartOrder[i] = N + 1 - i
  BY DEF StartOrder
<1> HIDE DEF N, m
<1>4. \A i \in 1..N : N + 1 - i \in 1..N
  BY <1>1
<1>5. StartOrder \in Seq(Procs)
  <2>1. StartOrder = [i \in 1..N |-> StartOrder[i]]
    BY <1>3 DEF StartOrder, N
  <2>2. \A i \in 1..N : StartOrder[i] \in Procs
    BY <1>1, <1>3, <1>4
  <2> DEFINE s == StartOrder
  <2> HIDE DEF s
  <2>3. s = [i \in 1..N |-> s[i]] /\ \A i \in 1..N : s[i] \in Procs
    BY <2>1, <2>2 DEF s
  <2>4. s \in [1..N -> Procs]
    BY <2>3
  <2>5. s \in Seq(Procs)
    BY <1>1, <2>4
  <2> QED BY <2>5 DEF s
<1>6. \A c \in Cpus : Dispatched(c) \in Procs \cup {Nobody}
  BY <1>1, <1>3, <1>4 DEF Dispatched
<1> DEFINE rest == SubSeq(StartOrder, m + 1, N)
<1>7. \A i \in m + 1..N : StartOrder[i] \in Procs
  BY <1>1, <1>2, <1>3, <1>4
<1>8. rest \in Seq(Procs) /\ Len(rest) = IF m + 1 <= N THEN N - (m + 1) + 1 ELSE 0
  <2>1. m + 1 \in Int /\ N \in Int
    BY <1>1, <1>2
  <2> QED BY <1>7, <2>1, SubSeqProperties
<1> HIDE DEF rest
<1>9. rest # <<>> => Dispatched(1) # Nobody
  <2> SUFFICES ASSUME rest # <<>> PROVE Dispatched(1) # Nobody
    OBVIOUS
  <2>1. m + 1 <= N
    BY <1>1, <1>2, <1>8
  <2>2. 1 \in 1..N /\ N + 1 - 1 = N /\ N # 0
    BY <1>1, <1>2, <2>1
  <2> QED BY <1>3, <2>2 DEF Dispatched, Nobody
<1> QED BY <1>5, <1>6, <1>8, <1>9 DEF rest, m, N

\* The first list of a process: its request and what is to follow
FirstTyped(listed, over, draw) ==
    \E T : /\ {0, 1} \subseteq T
           /\ \A p \in Procs :
                /\ listed[p] \in Seq(LimitEvents(T)) /\ over[p] \in 0..Len(listed[p])
                /\ Appended(<<Synthio>>, listed[p], over[p], Opid(p, 0), draw[p][1], draw[p][2]) \in Seq(FlowEvents(T))
                /\ EndsIn(Appended(<<Synthio>>, listed[p], over[p], Opid(p, 0), draw[p][1], draw[p][2]), "SYNTHIO_EVENT")
                /\ SubSeq(listed[p], over[p] + 1, Len(listed[p])) \in Seq(LimitEvents(T))

LEMMA FirstLists ==
  ASSUME config \in Configs, NEW draw \in [Procs -> Draws], NEW listed, NEW over,
         listed = [p \in Procs |-> Listed(<<>>, Opid(p, 0), draw[p][1], draw[p][2], draw[p][3])],
         over = [p \in Procs |-> Over(listed[p], draw[p][1])]
  PROVE  FirstTyped(listed, over, draw)
<1> DEFINE Lim(p) == CHOOSE U : listed[p] \in Seq(LimitEvents(U))
           delay(p) == draw[p][1] - When(listed[p], over[p])
           A == UNION {Lim(p) : p \in Procs}
           B == {delay(p) : p \in Procs}
           T == {0, 1} \cup A \cup B
           Good(U) == \A p \in Procs :
                        /\ listed[p] \in Seq(LimitEvents(U)) /\ over[p] \in 0..Len(listed[p])
                        /\ Appended(<<Synthio>>, listed[p], over[p], Opid(p, 0), draw[p][1], draw[p][2]) \in Seq(FlowEvents(U))
                        /\ EndsIn(Appended(<<Synthio>>, listed[p], over[p], Opid(p, 0), draw[p][1], draw[p][2]), "SYNTHIO_EVENT")
                        /\ SubSeq(listed[p], over[p] + 1, Len(listed[p])) \in Seq(LimitEvents(U))
<1>1. \A p \in Procs : Opid(p, 0) \in Int
  <2> SUFFICES ASSUME NEW p \in Procs PROVE Opid(p, 0) \in Int
    OBVIOUS
  <2>1. p \in Nat /\ config.endiocnt \in Nat
    BY ProcsAreNumbers, ConfigFacts
  <2> DEFINE b == config.endiocnt
  <2> HIDE DEF b
  <2>2. (b * (p - 1)) + 0 \in Int
    BY <2>1 DEF b
  <2> QED BY <2>2 DEF Opid, b
<1>2. \A p \in Procs : listed[p] \in Seq(LimitEvents(Lim(p)))
  <2> SUFFICES ASSUME NEW p \in Procs PROVE listed[p] \in Seq(LimitEvents(Lim(p)))
    OBVIOUS
  <2>1. listed[p] = Listed(<<>>, Opid(p, 0), draw[p][1], draw[p][2], draw[p][3])
    OBVIOUS
  <2> DEFINE o == Opid(p, 0)
  <2> HIDE DEF o
  <2>2. o \in Int /\ <<>> \in Seq(LimitEvents({}))
    BY <1>1 DEF o
  <2>3. \E U : {} \subseteq U /\ Listed(<<>>, o, draw[p][1], draw[p][2], draw[p][3]) \in Seq(LimitEvents(U))
    BY <2>2, ListedFacts
  <2>4. \E U : listed[p] \in Seq(LimitEvents(U))
    BY <2>1, <2>3 DEF o
  <2> QED BY <2>4
<1>3. /\ {0, 1} \subseteq T
      /\ \A p \in Procs : Lim(p) \subseteq T /\ delay(p) \in T
  <2> HIDE DEF Lim, delay
  <2>1. \A p \in Procs : Lim(p) \subseteq A
    OBVIOUS
  <2>2. \A p \in Procs : delay(p) \in B
    OBVIOUS
  <2> HIDE DEF A, B
  <2> QED BY <2>1, <2>2
<1>4. ASSUME NEW p \in Procs
      PROVE  /\ listed[p] \in Seq(LimitEvents(T)) /\ over[p] \in 0..Len(listed[p])
             /\ Appended(<<Synthio>>, listed[p], over[p], Opid(p, 0), draw[p][1], draw[p][2]) \in Seq(FlowEvents(T))
             /\ EndsIn(Appended(<<Synthio>>, listed[p], over[p], Opid(p, 0), draw[p][1], draw[p][2]), "SYNTHIO_EVENT")
             /\ SubSeq(listed[p], over[p] + 1, Len(listed[p])) \in Seq(LimitEvents(T))
  <2> DEFINE l == listed[p]
             n == over[p]
             think == draw[p][1]
             class == draw[p][2]
             L == Lim(p)
             o == Opid(p, 0)
             e == <<Synthio>>
  <2>1. L \subseteq T /\ l \in Seq(LimitEvents(L)) /\ think - When(l, n) \in T /\ 0 \in T /\ o \in Int
    BY <1>1, <1>2, <1>3
  <2>2. n = Over(l, think)
    OBVIOUS
  <2> HIDE DEF L, T
  <2>3. Seq(LimitEvents(L)) \subseteq Seq(LimitEvents(T))
    BY <2>1, Wider
  <2>4. l \in Seq(LimitEvents(T))
    BY <2>1, <2>3
  <2> HIDE DEF l, n, think, class, o
  <2>5. n \in 0..Len(l)
    BY <2>2, <2>4, OverFacts
  <2>6. e \in Seq(FlowEvents(T)) /\ EndsIn(e, "SYNTHIO_EVENT")
    <3>1. Synthio \in FlowEvents(T) /\ Synthio.type = "SYNTHIO_EVENT"
      BY <2>1 DEF Synthio, Event, FlowEvents, FlowTypes
    <3> QED BY <3>1 DEF EndsIn
  <2> HIDE DEF e
  <2>7. Appended(e, l, n, o, think, class) \in Seq(FlowEvents(T))
        /\ EndsIn(Appended(e, l, n, o, think, class), "SYNTHIO_EVENT")
    BY <2>1, <2>4, <2>5, <2>6, AppendedFacts
  <2>8. SubSeq(l, n + 1, Len(l)) \in Seq(LimitEvents(T))
    BY <2>4, <2>5, SubSeqParts
  <2> QED BY <2>4, <2>5, <2>7, <2>8 DEF l, n, o, think, class, e
<1> HIDE DEF T
<1>5. {0, 1} \subseteq T
  BY <1>3
<1>6. Good(T)
  BY <1>4
<1> HIDE DEF Good
<1>7. \E U : {0, 1} \subseteq U /\ Good(U)
  BY <1>5, <1>6
<1> QED BY <1>7 DEF Good, FirstTyped

LEMMA FirstAgenda ==
  ASSUME config \in Configs, NEW delay, NEW K \in SUBSET Cpus, NEW q,
         q = PutAll(Put(EmptyAgenda, ClockInterrupt, 1), [c \in Cpus |-> CpuEvent(c)], K, delay)
  PROVE  /\ q \in Agendas(QueueEvents)
         /\ \A c \in Cpus : (Pending(q, CpuEvent(c)) <=> c \in K) /\ AtMostOnce(q, CpuEvent(c))
         /\ \A x : Pending(q, x) => x = ClockInterrupt \/ \E c \in Cpus : x = CpuEvent(c)
<1> DEFINE e == ClockInterrupt
           q0 == EmptyAgenda
           q1 == Put(q0, e, 1)
           s == [c \in Cpus |-> CpuEvent(c)]
<1>1. q0 \in Agendas(QueueEvents) /\ (\A x : ~Pending(q0, x)) /\ \A x : AtMostOnce(q0, x)
  <2>1. IsFiniteSet({})
    BY FS_EmptySet
  <2> QED BY <2>1 DEF EmptyAgenda, Agendas, Pending, AtMostOnce
<1>2. e \in QueueEvents /\ \A c \in Cpus : e # CpuEvent(c) /\ CpuEvent(c) \in QueueEvents
  BY DEF QueueEvents, ClockInterrupt, CpuEvent
<1> HIDE DEF e, q0
<1>3. /\ q1 \in Agendas(QueueEvents)
      /\ \A x : Pending(q1, x) <=> x = e
      /\ \A x : AtMostOnce(q1, x)
  <2>1. /\ Put(q0, e, 1) \in Agendas(QueueEvents)
        /\ \A x : Pending(Put(q0, e, 1), x) <=> (x = e \/ Pending(q0, x))
        /\ \A x : AtMostOnce(q0, x) /\ (x # e \/ ~Pending(q0, x)) => AtMostOnce(Put(q0, e, 1), x)
    BY <1>1, <1>2, PutFacts
  <2> HIDE DEF q1
  <2> QED BY <1>1, <2>1 DEF q1
<1>4. s \in Seq(QueueEvents) /\ DOMAIN s = Cpus /\ \A c \in Cpus : s[c] = CpuEvent(c)
  <2>1. config.numcpus \in Nat
    BY ProcessFlowAssumption DEF ConfigurableCpus
  <2>2. s \in [1..config.numcpus -> QueueEvents]
    BY <1>2 DEF Cpus
  <2>3. DOMAIN s = Cpus /\ \A c \in Cpus : s[c] = CpuEvent(c)
    OBVIOUS
  <2> HIDE DEF s
  <2> QED BY <2>1, <2>2, <2>3
<1> HIDE DEF q1, s
<1>5. \A i, j \in Cpus : CpuEvent(i) = CpuEvent(j) => i = j
  BY DEF CpuEvent
<1>6. K \in SUBSET DOMAIN s /\ \A i, j \in K : s[i] = s[j] => i = j
  BY <1>4, <1>5
<1>7. /\ PutAll(q1, s, K, delay) \in Agendas(QueueEvents)
      /\ \A x : Pending(PutAll(q1, s, K, delay), x) <=> (Pending(q1, x) \/ \E i \in K : s[i] = x)
      /\ \A x : AtMostOnce(q1, x) /\ (~Pending(q1, x) \/ \A i \in K : s[i] # x)
                   => AtMostOnce(PutAll(q1, s, K, delay), x)
  BY <1>3, <1>4, <1>6, PutAllFacts
<1>8. q = PutAll(q1, s, K, delay)
  BY DEF q1, s, q0, e
<1>9. ASSUME NEW c \in Cpus
      PROVE  (Pending(q, CpuEvent(c)) <=> c \in K) /\ AtMostOnce(q, CpuEvent(c))
  <2>1. ~Pending(q1, CpuEvent(c))
    BY <1>2, <1>3
  <2>2. (\E i \in K : s[i] = CpuEvent(c)) <=> c \in K
    BY <1>4, <1>5
  <2>3. Pending(q, CpuEvent(c)) <=> c \in K
    BY <1>7, <1>8, <2>1, <2>2
  <2>4. AtMostOnce(q, CpuEvent(c))
    BY <1>3, <1>7, <1>8, <2>1
  <2> QED BY <2>3, <2>4
<1>10. ASSUME NEW x, Pending(q, x)
       PROVE  x = ClockInterrupt \/ \E c \in Cpus : x = CpuEvent(c)
  <2>1. x = e \/ \E i \in K : s[i] = x
    BY <1>3, <1>7, <1>8, <1>10
  <2> QED BY <1>4, <2>1 DEF e
<1> QED BY <1>7, <1>8, <1>9, <1>10

\* At the start each process has one request to issue, and no interrupt is under
\* way.
FirstRequests ==
    /\ \A x : Pending(agenda, x) => x = ClockInterrupt \/ \E c \in Cpus : x = CpuEvent(c)
    /\ \E T : \A p \in Procs : \E listed, over, think, class :
          /\ listed \in Seq(LimitEvents(T)) /\ over \in 0..Len(listed)
          /\ procs[p].events = Appended(<<Synthio>>, listed, over, Opid(p, 0), think, class)

LEMMA InitGives == Init => CoreInv /\ FirstRequests
<1> SUFFICES ASSUME Init PROVE CoreInv /\ FirstRequests
  OBVIOUS
<1>0. /\ config \in Configs /\ 1 \in Cpus /\ config.endiocnt \in Nat \ {0}
      /\ config.sizes \subseteq Int /\ config.blksperdisk \in Nat \ {0}
      /\ config.classes \subseteq {"CRITICAL", "LIMITED", "NONE"}
  BY ConfigFacts DEF Init
<1>1. PICK first \in [Procs -> First], draw \in [Procs -> Draws] :
         LET listed == [p \in Procs |-> Listed(<<>>, Opid(p, 0), draw[p][1], draw[p][2], draw[p][3])]
             over   == [p \in Procs |-> Over(listed[p], draw[p][1])]
             events == [p \in Procs |->
                          Appended(<<Synthio>>, listed[p], over[p], Opid(p, 0), draw[p][1], draw[p][2])]
         IN /\ gens = [p \in Procs |-> [blkno |-> first[p].blkno, bcount |-> first[p].bcount,
                          devno |-> first[p].devno, class |-> draw[p][2],
                          limits |-> SubSeq(listed[p], over[p] + 1, Len(listed[p]))]]
            /\ procs = [p \in Procs |-> Process(events[p],
                          IF \E c \in Cpus : Dispatched(c) = p THEN "PROC_ONPROC" ELSE "PROC_RUN")]
            /\ agenda = PutAll(Put(EmptyAgenda, ClockInterrupt, 1), [c \in Cpus |-> CpuEvent(c)],
                               {c \in Cpus : Dispatched(c) # Nobody},
                               [c \in Cpus |-> Head(events[Dispatched(c)]).time])
  BY DEF Init
<1> DEFINE listed == [p \in Procs |-> Listed(<<>>, Opid(p, 0), draw[p][1], draw[p][2], draw[p][3])]
           over   == [p \in Procs |-> Over(listed[p], draw[p][1])]
           s(p)   == Appended(<<Synthio>>, listed[p], over[p], Opid(p, 0), draw[p][1], draw[p][2])
           l(p)   == SubSeq(listed[p], over[p] + 1, Len(listed[p]))
           stat(p) == IF \E c \in Cpus : Dispatched(c) = p THEN "PROC_ONPROC" ELSE "PROC_RUN"
           K      == {c \in Cpus : Dispatched(c) # Nobody}
           delay  == [c \in Cpus |-> Head([p \in Procs |-> s(p)][Dispatched(c)]).time]
<1>2. /\ gens = [p \in Procs |-> [blkno |-> first[p].blkno, bcount |-> first[p].bcount,
                          devno |-> first[p].devno, class |-> draw[p][2], limits |-> l(p)]]
      /\ procs = [p \in Procs |-> [events |-> s(p), stat |-> stat(p), chan |-> 0]]
      /\ agenda = PutAll(Put(EmptyAgenda, ClockInterrupt, 1), [c \in Cpus |-> CpuEvent(c)], K, delay)
  BY <1>1 DEF Process
<1>3. PICK T : /\ {0, 1} \subseteq T
               /\ \A p \in Procs : /\ s(p) \in Seq(FlowEvents(T)) /\ EndsIn(s(p), "SYNTHIO_EVENT")
                                   /\ l(p) \in Seq(LimitEvents(T))
                                   /\ listed[p] \in Seq(LimitEvents(T)) /\ over[p] \in 0..Len(listed[p])
  <2> HIDE DEF listed, over
  <2> DEFINE A == listed
             B == over
  <2>1. /\ A = [p \in Procs |-> Listed(<<>>, Opid(p, 0), draw[p][1], draw[p][2], draw[p][3])]
        /\ B = [p \in Procs |-> Over(A[p], draw[p][1])]
    BY DEF listed, over
  <2> HIDE DEF A, B
  <2>0. config \in Configs
    BY <1>0
  <2>3. FirstTyped(A, B, draw)
    BY <2>0, <2>1, FirstLists
  <2>2. \E T : /\ {0, 1} \subseteq T
                /\ \A p \in Procs :
                     /\ A[p] \in Seq(LimitEvents(T)) /\ B[p] \in 0..Len(A[p])
                     /\ Appended(<<Synthio>>, A[p], B[p], Opid(p, 0), draw[p][1], draw[p][2]) \in Seq(FlowEvents(T))
                     /\ EndsIn(Appended(<<Synthio>>, A[p], B[p], Opid(p, 0), draw[p][1], draw[p][2]), "SYNTHIO_EVENT")
                     /\ SubSeq(A[p], B[p] + 1, Len(A[p])) \in Seq(LimitEvents(T))
    BY <2>3 DEF FirstTyped
  <2> QED BY <2>2 DEF A, B
<1>4. \A p \in Procs : /\ first[p].blkno \in Int /\ first[p].bcount \in Int /\ first[p].devno \in Devices
                       /\ draw[p][2] \in {"CRITICAL", "LIMITED", "NONE"}
  <2>1. \A x \in First : x.blkno \in Int /\ x.bcount \in Int /\ x.devno \in Devices
    BY <1>0 DEF First, General
  <2>2. \A x \in Draws : x[2] \in {"CRITICAL", "LIMITED", "NONE"}
    BY <1>0 DEF Draws
  <2> QED BY <2>1, <2>2
<1> HIDE DEF listed, over, s, l, delay
<1>5. /\ agenda \in Agendas(QueueEvents)
      /\ \A c \in Cpus : (Pending(agenda, CpuEvent(c)) <=> c \in K) /\ AtMostOnce(agenda, CpuEvent(c))
      /\ \A x : Pending(agenda, x) => x = ClockInterrupt \/ \E c \in Cpus : x = CpuEvent(c)
  <2> DEFINE M == K
  <2>1. M \in SUBSET Cpus
    OBVIOUS
  <2> HIDE DEF M
  <2>2. agenda = PutAll(Put(EmptyAgenda, ClockInterrupt, 1), [c \in Cpus |-> CpuEvent(c)], M, delay)
    BY <1>2 DEF M
  <2>3. /\ agenda \in Agendas(QueueEvents)
        /\ \A c \in Cpus : (Pending(agenda, CpuEvent(c)) <=> c \in M) /\ AtMostOnce(agenda, CpuEvent(c))
        /\ \A x : Pending(agenda, x) => x = ClockInterrupt \/ \E c \in Cpus : x = CpuEvent(c)
    <3>1. config \in Configs
      BY <1>0
    <3>2. agenda \in Agendas(QueueEvents)
      BY <2>1, <2>2, <3>1, FirstAgenda
    <3>3. \A c \in Cpus : (Pending(agenda, CpuEvent(c)) <=> c \in M) /\ AtMostOnce(agenda, CpuEvent(c))
      BY <2>1, <2>2, <3>1, FirstAgenda
    <3>4. \A x : Pending(agenda, x) => x = ClockInterrupt \/ \E c \in Cpus : x = CpuEvent(c)
      BY <2>1, <2>2, <3>1, FirstAgenda
    <3> QED BY <3>2, <3>3, <3>4
  <2> QED BY <2>3 DEF M
<1>6. procs \in ProcTables(T) /\ \A p \in Procs : procs[p].events = s(p)
  <2>1. \A p \in Procs : stat(p) \in {"PROC_SLEEP", "PROC_RUN", "PROC_ONPROC"}
    OBVIOUS
  <2> HIDE DEF stat
  <2>2. \A p \in Procs : [events |-> s(p), stat |-> stat(p), chan |-> 0] \in ProcRecords(T)
    BY <1>3, <2>1 DEF ProcRecords
  <2> QED BY <1>2, <2>2 DEF ProcTables
<1>7. gens \in [Procs -> GenRecords(T)]
  <2>1. \A p \in Procs : [blkno |-> first[p].blkno, bcount |-> first[p].bcount,
                          devno |-> first[p].devno, class |-> draw[p][2], limits |-> l(p)] \in GenRecords(T)
    BY <1>3, <1>4 DEF GenRecords
  <2> QED BY <1>2, <2>1
<1>8. /\ \A c \in Cpus : Dispatched(c) \in Procs \cup {Nobody}
      /\ pf_dispq \in Seq(Procs)
      /\ pf_dispq # <<>> => Dispatched(1) # Nobody
  BY <1>0, DispatchedFacts DEF Init
<1>9. \A c \in Cpus : cpus[c] = [state |-> IF Dispatched(c) = Nobody THEN "CPU_IDLE" ELSE "CPU_PROCESS",
                                 procp |-> Dispatched(c), intrs |-> <<>>, idleevents |-> <<>>]
  BY DEF Init
<1>10. \A c \in Cpus : /\ cpus[c].state = IF Dispatched(c) = Nobody THEN "CPU_IDLE" ELSE "CPU_PROCESS"
                       /\ cpus[c].procp = Dispatched(c) /\ cpus[c].intrs = <<>> /\ cpus[c].idleevents = <<>>
  <2> SUFFICES ASSUME NEW c \in Cpus
               PROVE  /\ cpus[c].state = IF Dispatched(c) = Nobody THEN "CPU_IDLE" ELSE "CPU_PROCESS"
                      /\ cpus[c].procp = Dispatched(c) /\ cpus[c].intrs = <<>> /\ cpus[c].idleevents = <<>>
    OBVIOUS
  <2> DEFINE st == IF Dispatched(c) = Nobody THEN "CPU_IDLE" ELSE "CPU_PROCESS"
             k == cpus[c]
  <2>1. k = [state |-> st, procp |-> Dispatched(c), intrs |-> <<>>, idleevents |-> <<>>]
    BY <1>9
  <2> HIDE DEF st, k
  <2>2. k.state = st /\ k.procp = Dispatched(c) /\ k.intrs = <<>> /\ k.idleevents = <<>>
    BY <2>1
  <2> QED BY <2>2 DEF st, k
<1>11. cpus \in [Cpus -> CpuRecords]
  <2>1. \A c \in Cpus : [state |-> IF Dispatched(c) = Nobody THEN "CPU_IDLE" ELSE "CPU_PROCESS",
                         procp |-> Dispatched(c), intrs |-> <<>>, idleevents |-> <<>>] \in CpuRecords
    BY <1>8 DEF CpuRecords, CpuStates
  <2> QED BY <2>1 DEF Init
<1>12. /\ sleepqueue = <<>> /\ pendiolist = {} /\ doneiolist = {} /\ synthio_iocnt = 0
       /\ queue = [d \in Devices |-> [waiting |-> {}, out |-> {}]]
       /\ idlereset = FALSE /\ stop_sim = FALSE /\ fault = FALSE
  BY DEF Init
<1>13. queue \in [Devices -> [waiting : SUBSET Int, out : SUBSET Int]]
  BY <1>12
<1>14. Typed(T)
  <2>1. sleepqueue \in Seq(Procs) /\ synthio_iocnt \in 0..config.endiocnt
    BY <1>0, <1>12
  <2>2. /\ pendiolist \in SUBSET IoRecords /\ doneiolist \in SUBSET IoRecords
        /\ idlereset \in BOOLEAN /\ stop_sim \in BOOLEAN /\ fault \in BOOLEAN
    BY <1>12
  <2> QED BY <1>0, <1>3, <1>5, <1>6, <1>7, <1>8, <1>11, <1>13, <2>1, <2>2 DEF Typed
<1>15. Running
  <2>1. ASSUME NEW c \in Cpus
        PROVE  GoodCpu(c, cpus[c]) /\ GoodEvent(c, cpus[c], agenda)
    <3> DEFINE k == cpus[c]
    <3>1. /\ k.state = IF Dispatched(c) = Nobody THEN "CPU_IDLE" ELSE "CPU_PROCESS"
          /\ k.procp = Dispatched(c) /\ k.intrs = <<>> /\ k.idleevents = <<>>
      BY <1>10
    <3> HIDE DEF k
    <3>2. GoodCpu(c, k)
      BY <3>1 DEF GoodCpu, Base
    <3>3. c \in K <=> k.state # "CPU_IDLE"
      BY <3>1
    <3> HIDE DEF K
    <3>4. GoodEvent(c, k, agenda)
      BY <1>5, <3>1, <3>3 DEF GoodEvent
    <3> QED BY <3>2, <3>4 DEF k
  <2>2. synthio_iocnt < config.endiocnt /\ \A p \in Procs : EndsIn(procs[p].events, "SYNTHIO_EVENT")
    BY <1>0, <1>3, <1>6, <1>12
  <2> QED BY <2>1, <2>2 DEF Running
<1>16. WorkIsRun
  BY <1>0, <1>8, <1>10 DEF WorkIsRun
<1>17. WakeupComes
  BY <1>12 DEF WakeupComes
<1>18. FirstRequests
  <2>1. ASSUME NEW p \in Procs
        PROVE  \E n, m, think, class :
                  /\ n \in Seq(LimitEvents(T)) /\ m \in 0..Len(n)
                  /\ procs[p].events = Appended(<<Synthio>>, n, m, Opid(p, 0), think, class)
    <3>1. procs[p].events = Appended(<<Synthio>>, listed[p], over[p], Opid(p, 0), draw[p][1], draw[p][2])
      BY <1>6 DEF s
    <3>2. listed[p] \in Seq(LimitEvents(T)) /\ over[p] \in 0..Len(listed[p])
      BY <1>3
    <3> QED BY <3>1, <3>2
  <2>2. \E U : \A p \in Procs : \E n, m, think, class :
          /\ n \in Seq(LimitEvents(U)) /\ m \in 0..Len(n)
          /\ procs[p].events = Appended(<<Synthio>>, n, m, Opid(p, 0), think, class)
    BY <2>1
  <2>3. \A x : Pending(agenda, x) => x = ClockInterrupt \/ \E c \in Cpus : x = CpuEvent(c)
    BY <1>5
  <2> QED BY <2>2, <2>3, Zenon DEF FirstRequests
<1> QED BY <1>14, <1>15, <1>16, <1>17, <1>18 DEF CoreInv, BaseInv

LEMMA InitCore == Init => CoreInv
BY InitGives

(***************************************************************************)
(* The theorems.                                                            *)
(***************************************************************************)

\* A processor runs what its state says, its event is in the queue as long as
\* it is busy, and every list ends as it must.
THEOREM ProcessorsRun == Spec => []CoreInv
<1>1. Init => CoreInv
  BY InitCore
<1>2. CoreInv /\ [Next]_vars => CoreInv'
  BY StepKeeps
<1> QED BY <1>1, <1>2, PTL DEF Spec

\* The processor that takes the interrupts is not idle while a process waits for
\* it (pf_handle_intend_event, pf_handle_cswitch_event).
THEOREM WaitingWorkIsRun == Spec => []WorkIsRun
<1>1. CoreInv => WorkIsRun
  BY DEF CoreInv
<1> QED BY <1>1, ProcessorsRun, PTL

\* A process that sleeps on a request is woken: the request is pending and
\* marked, or its wakeup is on the list of an interrupt (pf_iowait,
\* pf_io_done_notify, pf_handle_wakeup_event).
THEOREM SleepersAreWoken == Spec => []WakeupComes
<1>1. CoreInv => WakeupComes
  BY DEF CoreInv
<1> QED BY <1>1, ProcessorsRun, PTL
=============================================================================
