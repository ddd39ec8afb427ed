---------------------------- MODULE IoQueueProofs ----------------------------
(***************************************************************************)
(* The request queue, whatever its disciplines and schemes, implements a    *)
(* request pool, keeps its lists in order and serves them in order; where   *)
(* no chain moves between subqueues its counters agree with its lists; and  *)
(* it does not fault where the flags of a request lead to its subqueue.     *)
(***************************************************************************)
EXTENDS IoQueueProperties, ListProofs

(***************************************************************************)
(* iobufs: they stand for one or more requests, in the order of their       *)
(* blocks, on the device.                                                   *)
(***************************************************************************)
Bufs == {b \in IobufSet :
            /\ b.iolist # <<>>
            /\ TotalSize(b) \in Nat \ {0}
            /\ BufBlkno(b) + TotalSize(b) <= numblocks}

ConfigOk == config \in Configs

LEMMA ConfigFacts ==
  ASSUME ConfigOk
  PROVE  /\ blkno \in [Reqs -> Nat] /\ bcount \in [Reqs -> Nat \ {0}] /\ numblocks \in Nat \ {0}
         /\ \A r \in Reqs : blkno[r] + bcount[r] <= numblocks
         /\ Reads \subseteq Reqs /\ concatmax \in Nat /\ vscan_cyls \in Nat
         /\ alg \in [SubQs -> SchedAlgs] /\ ArrivalFlags \in [Reqs -> SUBSET Flags]
         /\ to_time \in Nat /\ MaxTime \in Nat /\ MaxOutstanding \in Nat
         /\ pri_scheme \in {"ALLEQUAL", "TWOQUEUE"}
         /\ to_scheme \in {"NOTIMEOUT", "BASETIMEOUT", "HALFTIMEOUT"}
         /\ comboverlaps \in 0..2 /\ idlework \in BOOLEAN
<1>1. Configurable(config)
  BY IoQueueAssumption DEF ConfigOk
<1>2. SubQueueConfigurable(config)
  BY <1>1 DEF Configurable
<1>3. /\ blkno \in [Reqs -> Nat] /\ bcount \in [Reqs -> Nat \ {0}] /\ numblocks \in Nat \ {0}
      /\ \A r \in Reqs : blkno[r] + bcount[r] <= numblocks
      /\ Reads \subseteq Reqs /\ concatmax \in Nat /\ vscan_cyls \in Nat
  BY <1>2 DEF SubQueueConfigurable, blkno, bcount, numblocks, Reads, concatmax, vscan_cyls
<1>4. /\ alg \in [SubQs -> SchedAlgs] /\ ArrivalFlags \in [Reqs -> SUBSET Flags]
      /\ to_time \in Nat /\ MaxTime \in Nat /\ MaxOutstanding \in Nat
      /\ pri_scheme \in {"ALLEQUAL", "TWOQUEUE"}
      /\ to_scheme \in {"NOTIMEOUT", "BASETIMEOUT", "HALFTIMEOUT"}
      /\ comboverlaps \in 0..2 /\ idlework \in BOOLEAN
  BY <1>1 DEF Configurable, alg, ArrivalFlags, to_time, MaxTime, MaxOutstanding, pri_scheme, to_scheme,
     comboverlaps, idlework
<1> QED BY <1>3, <1>4

\* The size of an iobuf is that of its requests together.
LEMMA SizeIsTotal ==
  \A b : TotalSize(b) = Total(bcount, b.iolist)
BY DEF TotalSize, Total

LEMMA SameConfigSameBufs == config' = config => Bufs' = Bufs
<1>0. (\A b : TotalSize(b) = Total(bcount, b.iolist))'
  BY SizeIsTotal, PTL
<1>1. ASSUME config' = config, NEW b PROVE TotalSize(b)' = TotalSize(b)
  <2>1. TotalSize(b)' = Total(bcount', b.iolist)
    BY <1>0
  <2>2. bcount' = bcount
    BY <1>1 DEF bcount
  <2> QED BY <2>1, <2>2, SizeIsTotal
<1> QED BY <1>1 DEF Bufs, IobufSet, BufBlkno, numblocks, MaxWait, MaxTime, to_time, blkno

LEMMA BufFacts ==
  ASSUME ConfigOk, NEW b \in Bufs
  PROVE  /\ b \in IobufSet /\ b.iolist \in Seq(Reqs) /\ Len(b.iolist) \in Nat \ {0}
         /\ Head(b.iolist) = b.iolist[1] /\ Head(b.iolist) \in Reqs
         /\ BufBlkno(b) \in Nat /\ TotalSize(b) \in Nat \ {0}
         /\ BufBlkno(b) + TotalSize(b) <= numblocks
         /\ Chained(b) \in SUBSET Reqs /\ Chained(b) # {} /\ Head(b.iolist) \in Chained(b)
         /\ b.state \in {"WAITING", "PENDING"} /\ ReqCnt(b) \in Nat \ {0}
<1>1. b \in IobufSet /\ b.iolist \in Seq(Reqs) /\ b.iolist # <<>> /\ b.state \in {"WAITING", "PENDING"}
  BY DEF Bufs, IobufSet
<1>2. /\ Len(b.iolist) \in Nat \ {0} /\ DOMAIN b.iolist = 1..Len(b.iolist)
      /\ Head(b.iolist) = b.iolist[1] /\ Head(b.iolist) \in Reqs
  BY <1>1
<1>3. BufBlkno(b) \in Nat
  BY <1>2, ConfigFacts DEF BufBlkno
<1>4. Chained(b) \in SUBSET Reqs /\ Head(b.iolist) \in Chained(b)
  <2>1. \A i \in DOMAIN b.iolist : b.iolist[i] \in Reqs
    BY <1>1
  <2>2. 1 \in DOMAIN b.iolist
    BY <1>2
  <2> QED BY <1>2, <2>1, <2>2 DEF Chained
<1> QED BY <1>1, <1>2, <1>3, <1>4 DEF Bufs, ReqCnt

\* An iobuf made of two stands for the requests of both.
LEMMA ConcatenatedFacts ==
  ASSUME ConfigOk, NEW b \in Bufs, NEW c \in Bufs, Concatenable(b, c)
  PROVE  /\ Concatenated(b, c) \in Bufs
         /\ Chained(Concatenated(b, c)) = Chained(b) \cup Chained(c)
         /\ ReadyToGo(b) /\ ReadyToGo(c) /\ ReadyToGo(Concatenated(b, c))
         /\ BufBlkno(Concatenated(b, c)) = BufBlkno(b)
         /\ BufBlkno(b) < BufBlkno(c)
         /\ ReqCnt(Concatenated(b, c)) = ReqCnt(b) + ReqCnt(c)
<1> DEFINE d == Concatenated(b, c)
           l == b.iolist
           m == c.iolist
<1>1. ReadyToGo(b) /\ ReadyToGo(c) /\ BufBlkno(b) + TotalSize(b) = BufBlkno(c)
  BY DEF Concatenable
<1>2. /\ l \in Seq(Reqs) /\ Len(l) \in Nat \ {0} /\ m \in Seq(Reqs) /\ Len(m) \in Nat \ {0}
      /\ BufBlkno(b) \in Nat /\ TotalSize(b) \in Nat \ {0} /\ TotalSize(c) \in Nat \ {0}
      /\ BufBlkno(c) \in Nat /\ BufBlkno(c) + TotalSize(c) <= numblocks /\ numblocks \in Nat
      /\ b \in IobufSet /\ c \in IobufSet
  BY BufFacts, ConfigFacts
<1>3. d.iolist = l \o m /\ d.state = b.state /\ d \in IobufSet
  <2>1. l \o m \in Seq(Reqs)
    BY <1>2
  <2> QED BY <1>2, <2>1 DEF Concatenated, IobufSet
<1> HIDE DEF d, l, m
<1>4. /\ l \o m \in Seq(Reqs) /\ Len(l \o m) = Len(l) + Len(m)
      /\ \A i \in 1..(Len(l) + Len(m)) : (l \o m)[i] = IF i <= Len(l) THEN l[i] ELSE m[i - Len(l)]
  BY <1>2, ConcatProperties
<1>5. Chained(d) = Chained(b) \cup Chained(c)
  <2>0. /\ DOMAIN l = 1..Len(l) /\ DOMAIN m = 1..Len(m) /\ DOMAIN (l \o m) = 1..(Len(l) + Len(m))
    BY <1>2, <1>4
  <2>1. ASSUME NEW r \in Chained(b) PROVE r \in Chained(d)
    <3>1. PICK i \in 1..Len(l) : r = l[i]
      BY <2>0, <2>1 DEF Chained, l
    <3>2. i \in 1..(Len(l) + Len(m)) /\ (l \o m)[i] = r
      BY <1>2, <1>4, <3>1
    <3> QED BY <1>3, <2>0, <3>2 DEF Chained
  <2>2. ASSUME NEW r \in Chained(c) PROVE r \in Chained(d)
    <3>1. PICK i \in 1..Len(m) : r = m[i]
      BY <2>0, <2>2 DEF Chained, m
    <3>2. /\ i + Len(l) \in 1..(Len(l) + Len(m)) /\ ~(i + Len(l) <= Len(l))
          /\ (i + Len(l)) - Len(l) = i
      BY <1>2, <3>1
    <3>3. (l \o m)[i + Len(l)] = r
      BY <1>4, <3>1, <3>2
    <3> QED BY <1>3, <2>0, <3>2, <3>3 DEF Chained
  <2>3. ASSUME NEW r \in Chained(d) PROVE r \in Chained(b) \cup Chained(c)
    <3>1. PICK i \in 1..(Len(l) + Len(m)) : r = (l \o m)[i]
      BY <1>3, <2>0, <2>3 DEF Chained
    <3>2. CASE i <= Len(l)
      <4>1. i \in 1..Len(l) /\ r = l[i]
        BY <1>2, <1>4, <3>1, <3>2
      <4> QED BY <2>0, <4>1 DEF Chained, l
    <3>3. CASE ~(i <= Len(l))
      <4>1. i - Len(l) \in 1..Len(m) /\ r = m[i - Len(l)]
        BY <1>2, <1>4, <3>1, <3>3
      <4> QED BY <2>0, <4>1 DEF Chained, m
    <3> QED BY <3>2, <3>3
  <2> QED BY <2>1, <2>2, <2>3
<1>6. TotalSize(d) = TotalSize(b) + TotalSize(c)
  <2>1. bcount \in [Reqs -> Nat]
    BY ConfigFacts
  <2>2. Total(bcount, l \o m) = Total(bcount, l) + Total(bcount, m)
    BY <1>2, <2>1, TotalFacts
  <2> QED BY <1>3, <2>2, SizeIsTotal DEF l, m
<1>7. Head(d.iolist) = Head(l) /\ d.iolist # <<>>
  <2>0. 1 \in 1..(Len(l) + Len(m)) /\ 1 <= Len(l) /\ Len(l) + Len(m) # 0
    BY <1>2
  <2>1. (l \o m)[1] = l[1] /\ Len(l \o m) # 0
    BY <1>4, <2>0
  <2> QED BY <1>2, <1>3, <1>4, <2>1
<1>8. BufBlkno(d) = BufBlkno(b)
  BY <1>7 DEF BufBlkno, l
<1>9. d \in Bufs
  <2>1. TotalSize(d) \in Nat \ {0} /\ BufBlkno(d) + TotalSize(d) <= numblocks
    BY <1>1, <1>2, <1>6, <1>8
  <2> QED BY <1>3, <1>7, <2>1 DEF Bufs
<1>10. BufBlkno(b) < BufBlkno(c)
  BY <1>1, <1>2
<1>11. ReadyToGo(d)
  BY <1>1, <1>3 DEF ReadyToGo
<1>12. ReqCnt(d) = ReqCnt(b) + ReqCnt(c)
  BY <1>3, <1>4 DEF ReqCnt, l, m
<1> QED BY <1>1, <1>5, <1>8, <1>9, <1>10, <1>11, <1>12 DEF d

(***************************************************************************)
(* What a list of iobufs stands for: the requests that wait, and those that  *)
(* are out, by their chains.                                                *)
(***************************************************************************)
WaitsAt(l, J) == UNION {Chained(l[i]) : i \in {j \in J : ReadyToGo(l[j])}}
OutsAt(l, J)  == {Chained(l[i]) : i \in {j \in J : ~ReadyToGo(l[j])}}
AllAt(l, J)   == UNION {Chained(l[i]) : i \in J}
ApartAt(l, J) == \A i, j \in J : i # j => Chained(l[i]) \cap Chained(l[j]) = {}

\* The list l is sound, its requests W wait and the batches O are out.
StandsFor(l, W, O) ==
    /\ l \in Seq(Bufs) /\ ApartAt(l, DOMAIN l)
    /\ W = WaitsAt(l, DOMAIN l) /\ O = OutsAt(l, DOMAIN l)

LEMMA AllIsWaitsAndOuts ==
  ASSUME NEW l, NEW J
  PROVE  AllAt(l, J) = WaitsAt(l, J) \cup (UNION OutsAt(l, J))
BY DEF AllAt, WaitsAt, OutsAt

LEMMA RenumberedFacts ==
  ASSUME NEW m, NEW K, NEW l, NEW J, NEW h, Renumbers(h, m, K, l, J)
  PROVE  /\ WaitsAt(m, K) = WaitsAt(l, J) /\ OutsAt(m, K) = OutsAt(l, J)
         /\ AllAt(m, K) = AllAt(l, J)
         /\ ApartAt(l, J) => ApartAt(m, K)
<1>1. \A k \in K : h[k] \in J /\ m[k] = l[h[k]]
  BY DEF Renumbers
<1>2. \A j \in J : \E k \in K : h[k] = j /\ m[k] = l[j]
  BY DEF Renumbers
<1>3. WaitsAt(m, K) = WaitsAt(l, J)
  <2>1. \A r \in WaitsAt(m, K) : r \in WaitsAt(l, J)
    BY <1>1 DEF WaitsAt
  <2>2. \A r \in WaitsAt(l, J) : r \in WaitsAt(m, K)
    BY <1>2 DEF WaitsAt
  <2> QED BY <2>1, <2>2
<1>4. OutsAt(m, K) = OutsAt(l, J)
  <2>1. \A r \in OutsAt(m, K) : r \in OutsAt(l, J)
    BY <1>1 DEF OutsAt
  <2>2. \A r \in OutsAt(l, J) : r \in OutsAt(m, K)
    BY <1>2 DEF OutsAt
  <2> QED BY <2>1, <2>2
<1>5. AllAt(m, K) = AllAt(l, J)
  BY <1>3, <1>4, AllIsWaitsAndOuts
<1>6. ApartAt(l, J) => ApartAt(m, K)
  BY <1>1 DEF ApartAt, Renumbers
<1> QED BY <1>3, <1>4, <1>5, <1>6

\* What the iobuf at place i adds to what the places J stand for
Adds(l, J, i) ==
    /\ ReadyToGo(l[i]) => /\ WaitsAt(l, J \cup {i}) = WaitsAt(l, J) \cup Chained(l[i])
                          /\ OutsAt(l, J \cup {i}) = OutsAt(l, J)
    /\ ~ReadyToGo(l[i]) => /\ WaitsAt(l, J \cup {i}) = WaitsAt(l, J)
                           /\ OutsAt(l, J \cup {i}) = OutsAt(l, J) \cup {Chained(l[i])}
    /\ AllAt(l, J \cup {i}) = AllAt(l, J) \cup Chained(l[i])
    /\ ApartAt(l, J \cup {i}) <=> ApartAt(l, J) /\ Chained(l[i]) \cap AllAt(l, J) = {}

LEMMA OneMore == ASSUME NEW l, NEW J, NEW i, i \notin J PROVE Adds(l, J, i)
<1>1. /\ ReadyToGo(l[i]) => /\ WaitsAt(l, J \cup {i}) = WaitsAt(l, J) \cup Chained(l[i])
                            /\ OutsAt(l, J \cup {i}) = OutsAt(l, J)
      /\ ~ReadyToGo(l[i]) => /\ WaitsAt(l, J \cup {i}) = WaitsAt(l, J)
                             /\ OutsAt(l, J \cup {i}) = OutsAt(l, J) \cup {Chained(l[i])}
  BY DEF WaitsAt, OutsAt
<1>2. AllAt(l, J \cup {i}) = AllAt(l, J) \cup Chained(l[i])
  BY DEF AllAt
<1>3. ApartAt(l, J \cup {i}) <=> ApartAt(l, J) /\ Chained(l[i]) \cap AllAt(l, J) = {}
  BY DEF AllAt, ApartAt
<1> QED BY <1>1, <1>2, <1>3 DEF Adds

\* What a list stands for without the iobuf at one place
LEMMA WithoutPlace ==
  ASSUME ConfigOk, NEW l, NEW W, NEW O, StandsFor(l, W, O), NEW p \in DOMAIN l,
         NEW K, K = DOMAIN l \ {p}
  PROVE  /\ ApartAt(l, K) /\ Chained(l[p]) \cap AllAt(l, K) = {}
         /\ l[p] \in Bufs /\ AllAt(l, DOMAIN l) = W \cup (UNION O)
         /\ ReadyToGo(l[p]) => /\ W = WaitsAt(l, K) \cup Chained(l[p]) /\ O = OutsAt(l, K)
                               /\ WaitsAt(l, K) = W \ Chained(l[p])
         /\ ~ReadyToGo(l[p]) => /\ W = WaitsAt(l, K) /\ O = OutsAt(l, K) \cup {Chained(l[p])}
                                /\ OutsAt(l, K) = O \ {Chained(l[p])}
<1> DEFINE C == Chained(l[p])
<1>1. p \notin K /\ DOMAIN l = K \cup {p}
  OBVIOUS
<1>2. /\ W = WaitsAt(l, K \cup {p}) /\ O = OutsAt(l, K \cup {p}) /\ ApartAt(l, K \cup {p})
      /\ l[p] \in Bufs
  <2>1. l \in Seq(Bufs) /\ ApartAt(l, DOMAIN l) /\ W = WaitsAt(l, DOMAIN l) /\ O = OutsAt(l, DOMAIN l)
    BY DEF StandsFor
  <2>2. l[p] \in Bufs
    BY <2>1
  <2> QED BY <1>1, <2>1, <2>2
<1>21. Adds(l, K, p)
  <2>1. p \notin K
    BY <1>1
  <2> QED BY <2>1, OneMore
<1>3. ApartAt(l, K) /\ C \cap AllAt(l, K) = {}
  BY <1>2, <1>21 DEF Adds
<1>4. AllAt(l, DOMAIN l) = W \cup (UNION O)
  BY <1>1, <1>2, AllIsWaitsAndOuts
<1>5. AllAt(l, K) = WaitsAt(l, K) \cup (UNION OutsAt(l, K))
  BY AllIsWaitsAndOuts
<1>6. C # {}
  BY <1>2, BufFacts
<1>7. ASSUME ReadyToGo(l[p])
      PROVE  W = WaitsAt(l, K) \cup C /\ O = OutsAt(l, K) /\ WaitsAt(l, K) = W \ C
  <2>1. W = WaitsAt(l, K) \cup C /\ O = OutsAt(l, K)
    BY <1>2, <1>21, <1>7 DEF Adds
  <2> QED BY <1>3, <1>5, <2>1
<1>8. ASSUME ~ReadyToGo(l[p])
      PROVE  W = WaitsAt(l, K) /\ O = OutsAt(l, K) \cup {C} /\ OutsAt(l, K) = O \ {C}
  <2>1. W = WaitsAt(l, K) /\ O = OutsAt(l, K) \cup {C}
    BY <1>2, <1>21, <1>8 DEF Adds
  <2>2. C \notin OutsAt(l, K)
    BY <1>3, <1>5, <1>6
  <2> QED BY <2>1, <2>2
<1> QED BY <1>2, <1>3, <1>4, <1>7, <1>8

\* An iobuf is inserted.
LEMMA InsertStands ==
  ASSUME ConfigOk, NEW l, NEW W, NEW O, StandsFor(l, W, O), NEW b \in Bufs, ReadyToGo(b),
         Chained(b) \cap (W \cup (UNION O)) = {}, NEW p \in 1..(Len(l) + 1)
  PROVE  /\ StandsFor(InsertAt(l, p, b), W \cup Chained(b), O)
         /\ Len(InsertAt(l, p, b)) = Len(l) + 1 /\ InsertAt(l, p, b)[p] = b
<1> DEFINE m == InsertAt(l, p, b)
           n == Len(l)
           K == DOMAIN m \ {p}
<1>1. l \in Seq(Bufs) /\ n \in Nat /\ DOMAIN l = 1..n /\ p \in Nat /\ p >= 1 /\ p <= n + 1
  BY DEF StandsFor
<1>2. /\ m \in Seq(Bufs) /\ Len(m) = n + 1 /\ m[p] = b
      /\ \A k \in 1..(p - 1) : m[k] = l[k]
      /\ \A k \in p..n : m[k + 1] = l[k]
  <2>1. l \in Seq(Bufs)
    BY <1>1
  <2>2. /\ InsertAt(l, p, b) \in Seq(Bufs)
        /\ Len(InsertAt(l, p, b)) = Len(l) + 1
        /\ \A k \in 1..(p - 1) : InsertAt(l, p, b)[k] = l[k]
        /\ InsertAt(l, p, b)[p] = b
        /\ \A k \in p..Len(l) : InsertAt(l, p, b)[k + 1] = l[k]
    BY <2>1, InsertAtFacts
  <2> QED BY <2>2
<1>3. DOMAIN m = K \cup {p} /\ p \notin K
  <2>1. DOMAIN m = 1..(n + 1)
    BY <1>2
  <2> QED BY <1>1, <2>1
<1>4. PICK h : Renumbers(h, m, K, l, 1..n)
  <2>1. l \in Seq(Bufs) /\ K = DOMAIN InsertAt(l, p, b) \ {p}
    BY <1>1
  <2> HIDE DEF K
  <2>2. Renumbered(InsertAt(l, p, b), K, l, DOMAIN l)
    BY <2>1, InsertRenumbers
  <2> QED BY <1>1, <2>2 DEF Renumbered
<1> HIDE DEF m, n
<1> HIDE DEF K
<1>5. ApartAt(l, 1..n) /\ W = WaitsAt(l, 1..n) /\ O = OutsAt(l, 1..n)
  BY <1>1 DEF StandsFor
<1>6. ApartAt(m, K) /\ W = WaitsAt(m, K) /\ O = OutsAt(m, K)
  BY <1>4, <1>5, RenumberedFacts
<1>7. AllAt(m, K) = W \cup (UNION O)
  BY <1>6, AllIsWaitsAndOuts
<1>8. /\ WaitsAt(m, K \cup {p}) = W \cup Chained(b) /\ OutsAt(m, K \cup {p}) = O
      /\ ApartAt(m, K \cup {p})
  <2>1. Adds(m, K, p)
    BY <1>3, OneMore
  <2> QED BY <1>2, <1>6, <1>7, <2>1 DEF Adds
<1> QED BY <1>2, <1>3, <1>8 DEF StandsFor, m, n

\* An iobuf is removed.
LEMMA RemoveStands ==
  ASSUME ConfigOk, NEW l, NEW W, NEW O, StandsFor(l, W, O), NEW p \in DOMAIN l
  PROVE  /\ ReadyToGo(l[p]) => StandsFor(RemoveAt(l, p), W \ Chained(l[p]), O)
         /\ ~ReadyToGo(l[p]) => StandsFor(RemoveAt(l, p), W, O \ {Chained(l[p])})
         /\ Len(RemoveAt(l, p)) = Len(l) - 1
<1> DEFINE m == RemoveAt(l, p)
           n == Len(l)
           K == 1..(n - 1)
           J == DOMAIN l \ {p}
<1>1. l \in Seq(Bufs) /\ n \in Nat /\ DOMAIN l = 1..n /\ p \in Nat /\ p >= 1 /\ p <= n
  BY DEF StandsFor
<1>2. /\ m \in Seq(Bufs) /\ Len(m) = n - 1
      /\ \A k \in 1..(p - 1) : m[k] = l[k]
      /\ \A k \in (p + 1)..n : m[k - 1] = l[k]
  BY <1>1, RemoveAtFacts
<1>3. DOMAIN m = K
  BY <1>2
<1>4. PICK h : Renumbers(h, m, K, l, J)
  <2>1. l \in Seq(Bufs) /\ J = DOMAIN l \ {p}
    BY <1>1
  <2> HIDE DEF J
  <2>2. Renumbered(RemoveAt(l, p), DOMAIN RemoveAt(l, p), l, J)
    BY <2>1, RemoveRenumbers
  <2> QED BY <1>3, <2>2 DEF Renumbered
<1>5. J = DOMAIN l \ {p}
  OBVIOUS
<1> HIDE DEF m, n, K, J
<1>6. /\ ApartAt(l, J)
      /\ ReadyToGo(l[p]) => WaitsAt(l, J) = W \ Chained(l[p]) /\ O = OutsAt(l, J)
      /\ ~ReadyToGo(l[p]) => W = WaitsAt(l, J) /\ OutsAt(l, J) = O \ {Chained(l[p])}
  BY <1>5, WithoutPlace
<1>7. ApartAt(m, K) /\ WaitsAt(m, K) = WaitsAt(l, J) /\ OutsAt(m, K) = OutsAt(l, J)
  BY <1>4, <1>6, RenumberedFacts
<1> QED BY <1>2, <1>3, <1>6, <1>7 DEF StandsFor, m, n

\* What l stands for when e takes the place of the iobuf at p
Exchanged(l, m, p, e, W, O) ==
    /\ ReadyToGo(l[p]) /\ ReadyToGo(e) => StandsFor(m, (W \ Chained(l[p])) \cup Chained(e), O)
    /\ ReadyToGo(l[p]) /\ ~ReadyToGo(e) => StandsFor(m, W \ Chained(l[p]), O \cup {Chained(e)})
    /\ ~ReadyToGo(l[p]) /\ ~ReadyToGo(e) => StandsFor(m, W, (O \ {Chained(l[p])}) \cup {Chained(e)})
    /\ Len(m) = Len(l)

\* The iobuf at a place is exchanged for another of the same requests.
LEMMA ReplaceStands ==
  ASSUME ConfigOk, NEW l, NEW W, NEW O, StandsFor(l, W, O), NEW p \in DOMAIN l,
         NEW e \in Bufs, Chained(e) \cap ((W \cup (UNION O)) \ Chained(l[p])) = {},
         NEW m, m = [l EXCEPT ![p] = e]
  PROVE  Exchanged(l, m, p, e, W, O)
<1> DEFINE K == DOMAIN l \ {p}
<1>1. m \in Seq(Bufs) /\ Len(m) = Len(l) /\ DOMAIN m = DOMAIN l /\ m[p] = e
      /\ \A k \in K : m[k] = l[k]
  BY DEF StandsFor
<1>2. /\ ApartAt(l, K) /\ Chained(l[p]) \cap AllAt(l, K) = {}
      /\ AllAt(l, DOMAIN l) = W \cup (UNION O)
      /\ ReadyToGo(l[p]) => O = OutsAt(l, K) /\ WaitsAt(l, K) = W \ Chained(l[p])
      /\ ~ReadyToGo(l[p]) => W = WaitsAt(l, K) /\ OutsAt(l, K) = O \ {Chained(l[p])}
  BY WithoutPlace
<1>3. PICK h : Renumbers(h, m, K, l, K)
  <2>1. K = DOMAIN l \ {p}
    OBVIOUS
  <2> HIDE DEF K
  <2>2. Renumbered(m, K, l, K)
    BY <2>1, ReplaceRenumbers
  <2> QED BY <2>2 DEF Renumbered
<1>4. /\ ApartAt(m, K) /\ WaitsAt(m, K) = WaitsAt(l, K) /\ OutsAt(m, K) = OutsAt(l, K)
      /\ AllAt(m, K) = AllAt(l, K)
  BY <1>2, <1>3, RenumberedFacts
<1>5. Chained(e) \cap AllAt(m, K) = {}
  <2>1. AllAt(l, K) \in SUBSET AllAt(l, DOMAIN l)
    BY DEF AllAt
  <2> QED BY <1>2, <1>4, <2>1
<1>6. p \notin K /\ DOMAIN m = K \cup {p}
  BY <1>1
<1> HIDE DEF K
<1>7. /\ ReadyToGo(e) => /\ WaitsAt(m, K \cup {p}) = WaitsAt(m, K) \cup Chained(e)
                         /\ OutsAt(m, K \cup {p}) = OutsAt(m, K)
      /\ ~ReadyToGo(e) => /\ WaitsAt(m, K \cup {p}) = WaitsAt(m, K)
                          /\ OutsAt(m, K \cup {p}) = OutsAt(m, K) \cup {Chained(e)}
      /\ ApartAt(m, K \cup {p})
  <2>1. p \notin K
    BY <1>6
  <2>2. Adds(m, K, p)
    BY <2>1, OneMore
  <2>3. m[p] = e
    BY <1>1
  <2> QED BY <1>4, <1>5, <2>2, <2>3 DEF Adds
<1> QED BY <1>1, <1>2, <1>4, <1>6, <1>7 DEF StandsFor, Exchanged

(***************************************************************************)
(* Subqueues.                                                               *)
(***************************************************************************)
Subqueues ==
    [list : Seq(Bufs), listlen : Int, iobufcnt : Int, reqoutstanding : Int, numoutstanding : Int,
     lastblkno : 0..(numblocks - 1), dir : {"ASC", "DESC"}, sstfupdown : 0..1]

\* The neighbours at i and i + 1 become one, or nothing changes.
LEMMA CheckConcatStands ==
  ASSUME ConfigOk, NEW l, NEW W, NEW O, StandsFor(l, W, O), NEW i \in Int
  PROVE  /\ StandsFor(CheckConcat(l, i), W, O)
         /\ \/ CheckConcat(l, i) = l
            \/ i \in 1..(Len(l) - 1) /\ Len(CheckConcat(l, i)) = Len(l) - 1
<1> DEFINE joined == i >= 1 /\ i < Len(l) /\ Concatenable(l[i], l[i + 1])
           b == l[i]
           c == l[i + 1]
           rest == RemoveAt(l, i + 1)
           d == Concatenated(b, c)
           m == [rest EXCEPT ![i] = d]
<1>1. CASE ~joined
  BY <1>1 DEF CheckConcat
<1>2. CASE joined
  <2>0. /\ CheckConcat(l, i) = m
    BY <1>2 DEF CheckConcat, ReplaceAt
  <2>1. /\ l \in Seq(Bufs) /\ DOMAIN l = 1..Len(l) /\ Len(l) \in Nat /\ i \in 1..Len(l)
        /\ i + 1 \in 1..Len(l)
    BY <1>2 DEF StandsFor
  <2>2. b \in Bufs /\ c \in Bufs /\ Concatenable(b, c)
    BY <1>2, <2>1
  <2> HIDE DEF b, c
  <2>3. /\ d \in Bufs /\ Chained(d) = Chained(b) \cup Chained(c)
        /\ ReadyToGo(b) /\ ReadyToGo(c) /\ ReadyToGo(d)
    BY <2>2, ConcatenatedFacts
  <2> HIDE DEF d
  <2>4. StandsFor(rest, W \ Chained(c), O) /\ Len(rest) = Len(l) - 1
    BY <2>1, <2>3, RemoveStands DEF c
  <2>5. rest[i] = b
    <3>1. \A k \in 1..((i + 1) - 1) : rest[k] = l[k]
      BY <2>1, RemoveAtFacts
    <3> QED BY <2>1, <3>1 DEF b
  <2>6. i \in DOMAIN rest
    <3>1. DOMAIN rest = 1..Len(rest)
      BY <2>4 DEF StandsFor
    <3> HIDE DEF rest
    <3> QED BY <1>2, <2>1, <2>4, <3>1
  \* the chains of b and c are in W, and meet nothing else
  <2>7. Chained(b) \in SUBSET W /\ Chained(c) \in SUBSET W /\ Chained(c) \cap (UNION O) = {}
        /\ Chained(b) \cap (UNION O) = {} /\ Chained(b) \cap Chained(c) = {}
    <3>1. /\ W = WaitsAt(l, DOMAIN l \ {i}) \cup Chained(l[i]) /\ O = OutsAt(l, DOMAIN l \ {i})
          /\ Chained(l[i]) \cap AllAt(l, DOMAIN l \ {i}) = {}
      BY <2>1, <2>3, WithoutPlace DEF b
    <3>2. /\ W = WaitsAt(l, DOMAIN l \ {i + 1}) \cup Chained(l[i + 1])
          /\ O = OutsAt(l, DOMAIN l \ {i + 1})
          /\ Chained(l[i + 1]) \cap AllAt(l, DOMAIN l \ {i + 1}) = {}
      <4> DEFINE j == i + 1
      <4>1. j \in DOMAIN l /\ ReadyToGo(l[j])
        BY <2>1, <2>3 DEF c
      <4> HIDE DEF j
      <4>2. /\ W = WaitsAt(l, DOMAIN l \ {j}) \cup Chained(l[j])
            /\ O = OutsAt(l, DOMAIN l \ {j})
            /\ Chained(l[j]) \cap AllAt(l, DOMAIN l \ {j}) = {}
        BY <4>1, WithoutPlace
      <4> QED BY <4>2 DEF j
    <3>3. /\ AllAt(l, DOMAIN l \ {i}) = WaitsAt(l, DOMAIN l \ {i}) \cup (UNION OutsAt(l, DOMAIN l \ {i}))
          /\ AllAt(l, DOMAIN l \ {i + 1}) =
                WaitsAt(l, DOMAIN l \ {i + 1}) \cup (UNION OutsAt(l, DOMAIN l \ {i + 1}))
      BY AllIsWaitsAndOuts
    <3>4. Chained(l[i]) \cap Chained(l[i + 1]) = {}
      <4>1. ApartAt(l, DOMAIN l)
        BY DEF StandsFor
      <4> QED BY <2>1, <4>1 DEF ApartAt
    <3> QED BY <3>1, <3>2, <3>3, <3>4 DEF b, c
  <2> HIDE DEF rest
  <2>8. Chained(d) \cap (((W \ Chained(c)) \cup (UNION O)) \ Chained(rest[i])) = {}
    BY <2>3, <2>5, <2>7
  <2>9. /\ StandsFor(m, ((W \ Chained(c)) \ Chained(rest[i])) \cup Chained(d), O)
        /\ Len(m) = Len(rest)
    <3>1. ReadyToGo(rest[i])
      BY <2>3, <2>5
    <3> HIDE DEF m
    <3> DEFINE V == W \ Chained(c)
    <3>2. m = [rest EXCEPT ![i] = d]
      BY DEF m
    <3>3. StandsFor(rest, V, O) /\ Chained(d) \cap ((V \cup (UNION O)) \ Chained(rest[i])) = {}
      BY <2>4, <2>8
    <3> HIDE DEF V
    <3>4. Exchanged(rest, m, i, d, V, O)
      BY <2>3, <2>6, <3>2, <3>3, ReplaceStands
    <3>5. StandsFor(m, (V \ Chained(rest[i])) \cup Chained(d), O) /\ Len(m) = Len(rest)
      BY <2>3, <3>1, <3>4 DEF Exchanged
    <3> QED BY <3>5 DEF V
  <2>10. ((W \ Chained(c)) \ Chained(rest[i])) \cup Chained(d) = W
    BY <2>3, <2>5, <2>7
  <2>11. i \in 1..(Len(l) - 1)
    BY <1>2, <2>1
  <2> QED BY <2>0, <2>4, <2>9, <2>10, <2>11
<1> QED BY <1>1, <1>2

LEMMA InsertPositionInRange ==
  ASSUME NEW a, NEW l \in Seq(Bufs), NEW b
  PROVE  InsertPosition(a, l, b) \in 1..(Len(l) + 1)
<1> DEFINE S == {i \in DOMAIN l : BufBlkno(l[i]) <= BufBlkno(b)}
<1>1. Len(l) \in Nat /\ DOMAIN l = 1..Len(l)
  OBVIOUS
<1>2. IsFiniteSet(1..Len(l)) /\ Cardinality(1..Len(l)) = Len(l)
  <2> DEFINE n == Len(l)
  <2>1. n \in Nat
    BY <1>1
  <2> HIDE DEF n
  <2>2. IsFiniteSet(1..n) /\ Cardinality(1..n) = n
    <3>1. 1 \in Int /\ n \in Int
      BY <2>1
    <3>2. IsFiniteSet(1..n) /\ Cardinality(1..n) = IF 1 > n THEN 0 ELSE n - 1 + 1
      BY <3>1, FS_Interval
    <3> QED BY <2>1, <3>2
  <2> QED BY <2>2 DEF n
<1>3. S \in SUBSET (1..Len(l))
  BY <1>1
<1>4. IsFiniteSet(S) /\ Cardinality(S) <= Len(l)
  BY <1>2, <1>3, FS_Subset
<1>5. Cardinality(S) \in Nat
  BY <1>4, FS_CardinalityType
<1> HIDE DEF S
<1>6. Len(l) + 1 \in 1..(Len(l) + 1) /\ Cardinality(S) + 1 \in 1..(Len(l) + 1)
  BY <1>1, <1>4, <1>5
<1> QED BY <1>6 DEF InsertPosition, S

\* What the subqueue sq stands for once b has been put in it
TakesIn(ins, sq, b, W, O) ==
    /\ ins.sq \in Subqueues /\ StandsFor(ins.sq.list, W \cup Chained(b), O)
    /\ ins.at \in DOMAIN ins.sq.list /\ ins.absorbed \in BOOLEAN
    /\ ins.sq = [sq EXCEPT !.list = ins.sq.list, !.iobufcnt = ins.sq.iobufcnt, !.listlen = sq.listlen + 1]
    /\ ins.sq.iobufcnt = sq.iobufcnt + Len(ins.sq.list) - Len(sq.list)

LEMMA InsertNewStands ==
  ASSUME ConfigOk, NEW a, NEW sq \in Subqueues, NEW W, NEW O, StandsFor(sq.list, W, O),
         NEW b \in Bufs, ReadyToGo(b), Chained(b) \cap (W \cup (UNION O)) = {}
  PROVE  TakesIn(InsertNewRequest(a, sq, b), sq, b, W, O)
<1> DEFINE l == sq.list
           pos == InsertPosition(a, l, b)
           n == Len(l)
           m1 == InsertAt(l, pos, b)
           m2 == CheckConcat(m1, pos - 1)
           absorbed == Len(m2) = Len(l)
           at == IF absorbed THEN pos - 1 ELSE pos
           m3 == CheckConcat(m2, at)
           new == [sq EXCEPT !.list = m3, !.iobufcnt = @ + Len(m3) - Len(sq.list), !.listlen = @ + 1]
           V == W \cup Chained(b)
<1>1. l \in Seq(Bufs) /\ n \in Nat /\ pos \in 1..(n + 1)
  BY InsertPositionInRange DEF Subqueues
<1>2. StandsFor(m1, V, O) /\ Len(m1) = n + 1
  <2> HIDE DEF pos
  <2> QED BY <1>1, InsertStands
<1>3. InsertNewRequest(a, sq, b) = [sq |-> new, absorbed |-> absorbed, at |-> at]
  BY DEF InsertNewRequest, InsertAtPosition, Inserted
<1> HIDE DEF pos, m1, V
<1>4. /\ StandsFor(m2, V, O)
      /\ m2 = m1 \/ (pos - 1 \in 1..(Len(m1) - 1) /\ Len(m2) = Len(m1) - 1)
  <2>1. pos - 1 \in Int
    BY <1>1
  <2> QED BY <1>2, <2>1, CheckConcatStands
<1> HIDE DEF m2
<1>5. at \in 1..Len(m2) /\ at \in Int /\ Len(m2) \in Nat
  <2> HIDE DEF n, l
  <2>1. Len(m2) \in Nat
    BY <1>4 DEF StandsFor
  <2>2. CASE m2 = m1
    <3>1. Len(m2) = n + 1 /\ ~absorbed
      BY <1>1, <1>2, <2>2 DEF n
    <3> QED BY <1>1, <2>1, <3>1
  <2>3. CASE pos - 1 \in 1..(Len(m1) - 1) /\ Len(m2) = Len(m1) - 1
    <3>1. Len(m2) = n /\ absorbed /\ pos - 1 \in 1..n
      BY <1>1, <1>2, <2>3 DEF n
    <3> QED BY <1>1, <2>1, <3>1
  <2> QED BY <1>4, <2>2, <2>3
<1> HIDE DEF at, absorbed
<1>6. /\ StandsFor(m3, V, O)
      /\ m3 = m2 \/ (at \in 1..(Len(m2) - 1) /\ Len(m3) = Len(m2) - 1)
  BY <1>4, <1>5, CheckConcatStands
<1> HIDE DEF m3
<1>7. at \in DOMAIN m3 /\ m3 \in Seq(Bufs) /\ Len(m3) \in Nat
  <2>1. m3 \in Seq(Bufs) /\ DOMAIN m3 = 1..Len(m3) /\ Len(m3) \in Nat
    BY <1>6 DEF StandsFor
  <2> QED BY <1>5, <1>6, <2>1
<1>8. new \in Subqueues /\ new.list = m3 /\ new.iobufcnt = sq.iobufcnt + Len(m3) - Len(sq.list)
      /\ new = [sq EXCEPT !.list = new.list, !.iobufcnt = new.iobufcnt, !.listlen = sq.listlen + 1]
  <2>1. Len(sq.list) \in Int /\ Len(m3) \in Int
    BY <1>1, <1>7
  <2>2. new.list = m3 /\ new.iobufcnt = sq.iobufcnt + Len(m3) - Len(sq.list)
    BY DEF Subqueues
  <2>3. new \in Subqueues
    <3> DEFINE cnt == sq.iobufcnt + Len(m3) - Len(sq.list)
               len == sq.listlen + 1
    <3>1. cnt \in Int /\ len \in Int /\ m3 \in Seq(Bufs)
      BY <1>7, <2>1 DEF Subqueues
    <3>2. new = [sq EXCEPT !.list = m3, !.iobufcnt = cnt, !.listlen = len]
      OBVIOUS
    <3> HIDE DEF new, cnt, len
    <3> QED BY <3>1, <3>2 DEF Subqueues
  <2>4. new = [sq EXCEPT !.list = m3, !.iobufcnt = sq.iobufcnt + Len(m3) - Len(sq.list),
                         !.listlen = sq.listlen + 1]
    OBVIOUS
  <2> HIDE DEF new
  <2> QED BY <2>2, <2>3, <2>4
<1> HIDE DEF new
<1>9. absorbed \in BOOLEAN
  BY DEF absorbed
<1> DEFINE ins == InsertNewRequest(a, sq, b)
<1>10. ins.sq = new /\ ins.absorbed = absorbed /\ ins.at = at
  BY <1>3
<1> HIDE DEF ins
<1>11. TakesIn(ins, sq, b, W, O)
  BY <1>6, <1>7, <1>8, <1>9, <1>10 DEF TakesIn, V
<1> QED BY <1>11 DEF ins

(***************************************************************************)
(* The queue: its subqueues, and what they stand for together.              *)
(***************************************************************************)
WaitsOf(sq) == WaitsAt(sq.list, DOMAIN sq.list)
OutsOf(sq)  == OutsAt(sq.list, DOMAIN sq.list)
HeldBy(sq)  == WaitsOf(sq) \cup (UNION OutsOf(sq))

WaitsIn(q) == UNION {WaitsOf(q[s]) : s \in SubQs}
OutsIn(q)  == UNION {OutsOf(q[s]) : s \in SubQs}

\* Every subqueue is sound, and no two of them hold the same request.
Sound(q) ==
    /\ q \in [SubQs -> Subqueues]
    /\ \A s \in SubQs : StandsFor(q[s].list, WaitsOf(q[s]), OutsOf(q[s]))
    /\ \A s, t \in SubQs : s # t => HeldBy(q[s]) \cap HeldBy(q[t]) = {}

\* q2 is q but for subqueue s, which stands for W and O instead.
Changed(q, q2, s, W, O) ==
    /\ Sound(q2) /\ WaitsOf(q2[s]) = W /\ OutsOf(q2[s]) = O
    /\ WaitsIn(q2) = (WaitsIn(q) \ WaitsOf(q[s])) \cup W
    /\ OutsIn(q2) = (OutsIn(q) \ OutsOf(q[s])) \cup O

\* W and O have nothing in common with the subqueues other than s.
Foreign(q, s, W, O) == \A t \in SubQs : t # s => (W \cup (UNION O)) \cap HeldBy(q[t]) = {}

LEMMA StandsForItself ==
  ASSUME NEW sq, NEW W, NEW O, StandsFor(sq.list, W, O)
  PROVE  W = WaitsOf(sq) /\ O = OutsOf(sq)
BY DEF StandsFor, WaitsOf, OutsOf

LEMMA BatchesNotEmpty ==
  ASSUME ConfigOk, NEW sq, StandsFor(sq.list, WaitsOf(sq), OutsOf(sq))
  PROVE  /\ {} \notin OutsOf(sq) /\ HeldBy(sq) \in SUBSET Reqs
         /\ \A i \in DOMAIN sq.list : Chained(sq.list[i]) \in SUBSET Reqs
<1>1. \A i \in DOMAIN sq.list : sq.list[i] \in Bufs
  BY DEF StandsFor
<1>2. \A i \in DOMAIN sq.list : Chained(sq.list[i]) # {} /\ Chained(sq.list[i]) \in SUBSET Reqs
  BY <1>1, BufFacts
<1> QED BY <1>2 DEF HeldBy, WaitsOf, OutsOf, WaitsAt, OutsAt

LEMMA ChangedSubqueue ==
  ASSUME ConfigOk, NEW q, Sound(q), NEW s \in SubQs, NEW sq \in Subqueues, NEW W, NEW O,
         StandsFor(sq.list, W, O), Foreign(q, s, W, O), NEW q2, q2 = [q EXCEPT ![s] = sq]
  PROVE  Changed(q, q2, s, W, O)
<1>1. /\ q2 \in [SubQs -> Subqueues] /\ q2[s] = sq /\ \A t \in SubQs \ {s} : q2[t] = q[t]
  BY DEF Sound
<1>2. W = WaitsOf(sq) /\ O = OutsOf(sq)
  BY StandsForItself
<1>3. HeldBy(sq) = W \cup (UNION O)
  BY <1>2 DEF HeldBy
<1>4. Sound(q2)
  <2>1. ASSUME NEW t \in SubQs PROVE StandsFor(q2[t].list, WaitsOf(q2[t]), OutsOf(q2[t]))
    BY <1>1, <1>2 DEF Sound
  <2>2. ASSUME NEW t \in SubQs, NEW u \in SubQs, t # u PROVE HeldBy(q2[t]) \cap HeldBy(q2[u]) = {}
    BY <1>1, <1>3, <2>2 DEF Sound, Foreign
  <2> QED BY <1>1, <2>1, <2>2 DEF Sound
<1>5. \A t \in SubQs \ {s} : WaitsOf(q[t]) \cap WaitsOf(q[s]) = {}
  BY DEF Sound, HeldBy
<1>6. WaitsIn(q2) = (WaitsIn(q) \ WaitsOf(q[s])) \cup W
  BY <1>1, <1>2, <1>5 DEF WaitsIn
<1>7. \A t \in SubQs \ {s} : OutsOf(q[t]) \cap OutsOf(q[s]) = {}
  <2> TAKE t \in SubQs \ {s}
  <2>1. {} \notin OutsOf(q[t])
    BY BatchesNotEmpty DEF Sound
  <2>2. HeldBy(q[t]) \cap HeldBy(q[s]) = {}
    BY DEF Sound
  <2> QED BY <2>1, <2>2 DEF HeldBy
<1>8. OutsIn(q2) = (OutsIn(q) \ OutsOf(q[s])) \cup O
  BY <1>1, <1>2, <1>7 DEF OutsIn
<1> QED BY <1>1, <1>2, <1>4, <1>6, <1>8 DEF Changed

\* A subqueue that still holds only what it held meets no other.
LEMMA FewerIsForeign ==
  ASSUME NEW q, Sound(q), NEW s \in SubQs, NEW W, NEW O,
         (W \cup (UNION O)) \in SUBSET HeldBy(q[s])
  PROVE  Foreign(q, s, W, O)
BY DEF Foreign, Sound

\* What the pool sees of the queue
LEMMA PoolView ==
  /\ \A s \in SubQs : Waiting(s) = WaitsOf(queue[s])
  /\ UNION {Waiting(s) : s \in SubQs} = WaitsIn(queue)
  /\ UNION {{Chained(b) : b \in {c \in Iobufs(s) : ~ReadyToGo(c)}} : s \in SubQs} = OutsIn(queue)
<1>1. \A s \in SubQs : Waiting(s) = WaitsOf(queue[s])
  BY DEF Waiting, Iobufs, WaitsOf, WaitsAt
<1>2. \A s \in SubQs : {Chained(b) : b \in {c \in Iobufs(s) : ~ReadyToGo(c)}} = OutsOf(queue[s])
  BY DEF Iobufs, OutsOf, OutsAt
<1> QED BY <1>1, <1>2 DEF WaitsIn, OutsIn

\* A request is in the queue just when a subqueue holds it.
LEMMA HeldIsHolds ==
  ASSUME NEW sq, NEW r
  PROVE  Holds(sq, r) <=> r \in HeldBy(sq)
BY DEF Holds, HeldBy, WaitsOf, OutsOf, WaitsAt, OutsAt

(***************************************************************************)
(* The operations on one subqueue.                                          *)
(***************************************************************************)

\* An iobuf whose flags, ages or state change stands for the same requests.
LEMMA SameChain ==
  ASSUME ConfigOk, NEW b \in Bufs, NEW c \in IobufSet, c.iolist = b.iolist
  PROVE  /\ c \in Bufs /\ Chained(c) = Chained(b) /\ TotalSize(c) = TotalSize(b)
         /\ BufBlkno(c) = BufBlkno(b) /\ ReqCnt(c) = ReqCnt(b) /\ (IsRead(c) <=> IsRead(b))
<1>1. TotalSize(c) = TotalSize(b)
  BY SizeIsTotal
<1>2. BufBlkno(c) = BufBlkno(b)
  BY DEF BufBlkno
<1> QED BY <1>1, <1>2 DEF Bufs, Chained, ReqCnt, IsRead

LEMMA ReadyOnes ==
  ASSUME ConfigOk, NEW sq \in Subqueues
  PROVE  /\ sq.list \in Seq(Bufs) /\ Len(sq.list) \in Nat /\ DOMAIN sq.list = 1..Len(sq.list)
         /\ ReadyAt(sq) \in SUBSET (1..Len(sq.list))
         /\ \A i \in 1..Len(sq.list) : sq.list[i] \in Bufs /\ BufBlkno(sq.list[i]) \in Nat
         /\ sq.lastblkno \in Nat
<1>1. sq.list \in Seq(Bufs) /\ Len(sq.list) \in Nat /\ DOMAIN sq.list = 1..Len(sq.list) /\ sq.lastblkno \in Nat
  BY ConfigFacts DEF Subqueues
<1>2. \A i \in 1..Len(sq.list) : sq.list[i] \in Bufs
  BY <1>1
<1>3. \A i \in 1..Len(sq.list) : BufBlkno(sq.list[i]) \in Nat
  BY <1>2, BufFacts
<1>4. ReadyAt(sq) \in SUBSET (1..Len(sq.list))
  BY <1>1 DEF ReadyAt
<1> QED BY <1>1, <1>2, <1>3, <1>4

LEMMA MinIsLeast ==
  ASSUME NEW n \in Nat, NEW T, T \subseteq 1..n, T # {}
  PROVE  Min(T) \in T /\ \A y \in T : Min(T) <= y
<1>1. T \subseteq Nat
  OBVIOUS
<1>2. \E x \in T : \A y \in T : x <= y
  BY <1>1, LeastElement
<1> QED BY <1>2 DEF Min

\* What the scans pick is ready: ELEVATOR, SSTF and VSCAN
LEMMA VscanIsReady ==
  ASSUME ConfigOk, NEW sq \in Subqueues, NEW v
  PROVE  /\ VscanPick(sq, v) \in ReadyAt(sq) \cup {0}
         /\ VscanTop(sq) \in ReadyAt(sq) \cup {0} /\ VscanBottom(sq) \in ReadyAt(sq) \cup {0}
<1> DEFINE n == Len(sq.list)
<1>1. n \in Nat /\ ReadyAt(sq) \in SUBSET (1..n)
  BY ReadyOnes
<1> HIDE DEF n
<1>2. VscanTop(sq) \in ReadyAt(sq) \cup {0}
  <2> DEFINE above == {i \in ReadyAt(sq) : BufBlkno(sq.list[i]) >= sq.lastblkno}
  <2>1. above \subseteq 1..n /\ above \subseteq ReadyAt(sq)
    BY <1>1
  <2>2. VscanTop(sq) = IF above = {} THEN 0 ELSE Min(above)
    BY DEF VscanTop
  <2> HIDE DEF above
  <2>3. above # {} => Min(above) \in above
    BY <1>1, <2>1, MinIsLeast
  <2> QED BY <2>1, <2>2, <2>3
<1>3. VscanBottom(sq) \in ReadyAt(sq) \cup {0}
  <2> DEFINE below == {i \in ReadyAt(sq) : BufBlkno(sq.list[i]) < sq.lastblkno}
             near  == {i \in below : BufBlkno(sq.list[i]) = BufBlkno(sq.list[Max(below)])}
  <2>1. below \subseteq 1..n /\ below \subseteq ReadyAt(sq)
    BY <1>1
  <2>2. VscanBottom(sq) = IF below = {} THEN 0 ELSE Min(near)
    BY DEF VscanBottom
  <2> HIDE DEF below
  <2>3. ASSUME below # {} PROVE Min(near) \in below
    <3>1. Max(below) \in below
      BY <1>1, <2>1, <2>3, GreatestElement
    <3>2. near # {} /\ near \subseteq below /\ near \subseteq 1..n
      BY <2>1, <3>1
    <3> HIDE DEF near
    <3>3. Min(near) \in near
      BY <1>1, <3>2, MinIsLeast
    <3> QED BY <3>2, <3>3
  <2> HIDE DEF near
  <2> QED BY <2>1, <2>2, <2>3
<1>4. VscanPick(sq, v) \in {VscanTop(sq), VscanBottom(sq)}
  BY DEF VscanPick
<1> QED BY <1>2, <1>3, <1>4

LEMMA PickIsReady ==
  ASSUME ConfigOk, NEW a \in SchedAlgs, NEW sq \in Subqueues
  PROVE  Pick(a, sq) \in ReadyAt(sq) \cup {0}
<1> DEFINE n == Len(sq.list)
<1>1. n \in Nat /\ ReadyAt(sq) \in SUBSET (1..n) /\ DOMAIN sq.list = 1..n
  BY ReadyOnes
<1> HIDE DEF n
<1>2. CASE n = 1
  <2>1. ReadyToGo(sq.list[1]) => 1 \in ReadyAt(sq)
    BY <1>1, <1>2 DEF ReadyAt
  <2>2. Pick(a, sq) = IF ReadyToGo(sq.list[1]) THEN 1 ELSE 0
    BY <1>2 DEF Pick, n
  <2> QED BY <2>1, <2>2
<1>3. CASE n # 1 /\ a = "FCFS"
  <2> DEFINE I == {i \in 1..Len(sq.list) : ReadyToGo(sq.list[i])}
  <2>1. I = ReadyAt(sq)
    BY <1>1 DEF ReadyAt, n
  <2>2. Pick(a, sq) = IF I # {} THEN Min(I) ELSE 0
    BY <1>3 DEF Pick, n, FcfsPick, SelectInSeq
  <2> HIDE DEF I
  <2>3. I # {} => Min(I) \in I
    BY <1>1, <2>1, MinIsLeast
  <2> QED BY <2>1, <2>2, <2>3
<1>4. CASE n # 1 /\ a = "CYCLE_LBN"
  <2> DEFINE ready == ReadyAt(sq)
             above == {i \in ready : BufBlkno(sq.list[i]) >= sq.lastblkno}
  <2>1. Pick(a, sq) = IF ready = {} THEN 0 ELSE IF above # {} THEN Min(above) ELSE Min(ready)
    BY <1>4 DEF Pick, n, ScanPick
  <2>2. ready \subseteq 1..n /\ above \subseteq 1..n /\ above \subseteq ready
    BY <1>1
  <2> HIDE DEF ready, above
  <2>3. (ready # {} => Min(ready) \in ready) /\ (above # {} => Min(above) \in above)
    BY <1>1, <2>2, MinIsLeast
  <2> QED BY <2>1, <2>2, <2>3 DEF ready
<1>5. CASE n # 1 /\ a # "FCFS" /\ a # "CYCLE_LBN"
  <2>1. Pick(a, sq) = VscanPick(sq, VscanValue(a))
    BY <1>5 DEF Pick, n
  <2> QED BY <2>1, VscanIsReady
<1> QED BY <1>2, <1>3, <1>4, <1>5

\* The arm comes to rest on the device, after its last block too.
LEMMA LastBlknoOnDevice ==
  ASSUME ConfigOk, NEW a \in SchedAlgs, NEW b \in Bufs
  PROVE  LastBlknoAfter(a, b) \in 0..(numblocks - 1)
<1> DEFINE end == BufBlkno(b) + TotalSize(b)
<1>1. /\ BufBlkno(b) \in Nat /\ TotalSize(b) \in Nat \ {0} /\ end <= numblocks /\ numblocks \in Nat
      /\ vscan_cyls \in Nat
  BY BufFacts, ConfigFacts
<1>2. /\ BufBlkno(b) \in 0..(numblocks - 1) /\ end - 1 \in 0..(numblocks - 1)
      /\ end # numblocks => end \in 0..(numblocks - 1)
  BY <1>1
<1>3. LastBlknoAfter(a, b) \in {BufBlkno(b), end - 1, IF end # numblocks THEN end ELSE end - 1}
  <2>1. CASE a \in {"ELEVATOR_LBN", "CYCLE_LBN"}
    BY <2>1 DEF LastBlknoAfter
  <2>2. CASE a = "SSTF_LBN"
    BY <2>2 DEF LastBlknoAfter
  <2>3. CASE a = "FCFS"
    BY <2>3 DEF LastBlknoAfter
  <2>4. CASE a = "VSCAN_LBN" /\ vscan_cyls > 0
    <3>1. ~(vscan_cyls = 0)
      BY <1>1, <2>4
    <3> QED BY <2>4, <3>1 DEF LastBlknoAfter
  <2>5. CASE a = "VSCAN_LBN" /\ ~(vscan_cyls > 0)
    <3>1. vscan_cyls = 0
      BY <1>1, <2>5
    <3> QED BY <2>5, <3>1 DEF LastBlknoAfter
  <2> QED BY <2>1, <2>2, <2>3, <2>4, <2>5 DEF SchedAlgs
<1> HIDE DEF end
<1> QED BY <1>2, <1>3

\* Once the iobuf at i is handed out, its requests are a batch.
HandsOutAt(sq, i, new) ==
    /\ new \in Subqueues
    /\ StandsFor(new.list, WaitsOf(sq) \ Chained(sq.list[i]), OutsOf(sq) \cup {Chained(sq.list[i])})

LEMMA IssuedHandsOut ==
  ASSUME ConfigOk, NEW a \in SchedAlgs, NEW sq \in Subqueues, NEW i \in ReadyAt(sq),
         NEW now \in 0..MaxTime, StandsFor(sq.list, WaitsOf(sq), OutsOf(sq))
  PROVE  HandsOutAt(sq, i, Issued(a, sq, i, now))
<1> DEFINE b == sq.list[i]
           c == [b EXCEPT !.state = "PENDING", !.starttime = now]
           m == [sq.list EXCEPT ![i] = c]
           d == DirAfter(a, sq, i)
           u == UpDownAfter(a, sq)
           lb == LastBlknoAfter(a, b)
           new == Issued(a, sq, i, now)
<1>1. b \in Bufs /\ i \in DOMAIN sq.list /\ sq.list \in Seq(Bufs) /\ ReadyToGo(b)
  BY ReadyOnes DEF ReadyAt
<1>2. d \in {"ASC", "DESC"} /\ u \in 0..1 /\ lb \in 0..(numblocks - 1)
  <2>1. sq.dir \in {"ASC", "DESC"} /\ sq.sstfupdown \in 0..1
    BY DEF Subqueues
  <2>2. 1 - sq.sstfupdown \in 0..1
    BY <2>1
  <2> QED BY <1>1, <2>1, <2>2, LastBlknoOnDevice DEF DirAfter, UpDownAfter
<1>3. b \in IobufSet /\ c \in IobufSet /\ c.iolist = b.iolist /\ ~ReadyToGo(c)
  <2>1. b \in IobufSet
    BY <1>1 DEF Bufs
  <2> HIDE DEF b
  <2> QED BY <2>1 DEF IobufSet, ReadyToGo
<1>4. c \in Bufs /\ Chained(c) = Chained(b) /\ ReqCnt(b) \in Int
  <2> HIDE DEF c, b
  <2> QED BY <1>1, <1>3, SameChain, BufFacts
<1> HIDE DEF c
<1>5. StandsFor(m, WaitsOf(sq) \ Chained(b), OutsOf(sq) \cup {Chained(b)})
  <2> DEFINE W == WaitsOf(sq)
             O == OutsOf(sq)
             l == sq.list
  <2>1. StandsFor(l, W, O) /\ i \in DOMAIN l /\ l[i] = b /\ m = [l EXCEPT ![i] = c]
    BY <1>1
  <2>2. Chained(c) \cap ((W \cup (UNION O)) \ Chained(l[i])) = {}
    BY <1>4
  <2> HIDE DEF W, O, l, m, b
  <2>3. Exchanged(l, m, i, c, W, O)
    BY <1>4, <2>1, <2>2, ReplaceStands
  <2> QED BY <1>1, <1>3, <1>4, <2>1, <2>3 DEF Exchanged, W, O
<1>6. new = [sq EXCEPT !.list = m, !.dir = d, !.sstfupdown = u, !.lastblkno = lb,
                       !.reqoutstanding = @ + 1, !.numoutstanding = @ + ReqCnt(b)]
  BY DEF Issued, ReplaceAt, c
<1>7. m \in Seq(Bufs)
  BY <1>5 DEF StandsFor
<1> HIDE DEF m, d, u, lb, new
<1>8. new \in Subqueues /\ new.list = m
  <2> DEFINE ro == sq.reqoutstanding + 1
             no == sq.numoutstanding + ReqCnt(b)
  <2>1. ro \in Int /\ no \in Int
    BY <1>4 DEF Subqueues
  <2>2. new = [sq EXCEPT !.list = m, !.dir = d, !.sstfupdown = u, !.lastblkno = lb,
                         !.reqoutstanding = ro, !.numoutstanding = no]
    BY <1>6
  <2> HIDE DEF ro, no
  <2> QED BY <1>2, <1>7, <2>1, <2>2 DEF Subqueues
<1>9. new \in Subqueues /\ StandsFor(new.list, WaitsOf(sq) \ Chained(sq.list[i]), OutsOf(sq) \cup {Chained(sq.list[i])})
  BY <1>5, <1>8
<1> QED BY <1>9 DEF HandsOutAt, new

\* The pending iobuf at i completes.
LEMMA CompletedLeaves ==
  ASSUME ConfigOk, NEW sq \in Subqueues, NEW i \in DOMAIN sq.list, ~ReadyToGo(sq.list[i]),
         StandsFor(sq.list, WaitsOf(sq), OutsOf(sq))
  PROVE  /\ Completed(sq, i) \in Subqueues
         /\ StandsFor(Completed(sq, i).list, WaitsOf(sq), OutsOf(sq) \ {Chained(sq.list[i])})
<1> DEFINE n == ReqCnt(sq.list[i])
           m == RemoveAt(sq.list, i)
           ic == sq.iobufcnt - 1
           ro == sq.reqoutstanding - 1
           ll == sq.listlen - n
           no == sq.numoutstanding - n
           new == Completed(sq, i)
<1>1. StandsFor(m, WaitsOf(sq), OutsOf(sq) \ {Chained(sq.list[i])})
  BY RemoveStands
<1>2. n \in Int
  <2>1. sq.list[i] \in Bufs
    BY ReadyOnes
  <2> QED BY <2>1, BufFacts
<1>3. m \in Seq(Bufs) /\ ic \in Int /\ ro \in Int /\ ll \in Int /\ no \in Int
  BY <1>1, <1>2 DEF StandsFor, Subqueues
<1>4. new = [sq EXCEPT !.list = m, !.iobufcnt = ic, !.reqoutstanding = ro, !.listlen = ll,
                       !.numoutstanding = no]
  BY DEF Completed
<1> HIDE DEF n, m, ic, ro, ll, no, new
<1>5. new \in Subqueues /\ new.list = m
  BY <1>3, <1>4 DEF Subqueues
<1> QED BY <1>1, <1>5 DEF new

\* The waiting iobuf at i moves to another subqueue.
LEMMA MovedAwayLeaves ==
  ASSUME ConfigOk, NEW sq \in Subqueues, NEW i \in DOMAIN sq.list, ReadyToGo(sq.list[i]),
         StandsFor(sq.list, WaitsOf(sq), OutsOf(sq)), NEW n \in Int
  PROVE  /\ MovedAway(sq, i, n) \in Subqueues
         /\ StandsFor(MovedAway(sq, i, n).list, WaitsOf(sq) \ Chained(sq.list[i]), OutsOf(sq))
<1> DEFINE m == RemoveAt(sq.list, i)
           ic == sq.iobufcnt - 1
           ll == sq.listlen - n
           new == MovedAway(sq, i, n)
<1>1. StandsFor(m, WaitsOf(sq) \ Chained(sq.list[i]), OutsOf(sq))
  BY RemoveStands
<1>3. m \in Seq(Bufs) /\ ic \in Int /\ ll \in Int
  BY <1>1 DEF StandsFor, Subqueues
<1>4. new = [sq EXCEPT !.list = m, !.iobufcnt = ic, !.listlen = ll]
  BY DEF MovedAway
<1> HIDE DEF m, ic, ll, new
<1>5. new \in Subqueues /\ new.list = m
  BY <1>3, <1>4 DEF Subqueues
<1> QED BY <1>1, <1>5 DEF new

\* The waiting iobufs at `hits' complete with another.
LEMMA ClobberedLeaves ==
  ASSUME ConfigOk, NEW a \in SchedAlgs, NEW sq \in Subqueues, NEW hits \in SUBSET ReadyAt(sq),
         StandsFor(sq.list, WaitsOf(sq), OutsOf(sq))
  PROVE  /\ Clobbered(a, sq, hits) \in Subqueues
         /\ StandsFor(Clobbered(a, sq, hits).list, WaitsOf(sq) \ AllAt(sq.list, hits), OutsOf(sq))
<1>1. CASE hits = {}
  <2>1. AllAt(sq.list, hits) = {}
    BY <1>1 DEF AllAt
  <2>2. Clobbered(a, sq, hits) = sq
    BY <1>1 DEF Clobbered
  <2>3. WaitsOf(sq) \ AllAt(sq.list, hits) = WaitsOf(sq)
    BY <2>1
  <2> QED BY <2>2, <2>3
<1>2. CASE hits # {}
  <2> DEFINE l == sq.list
             K == DOMAIN l \ hits
             m == Selected(l, K)
             b == l[CHOOSE i \in hits : TRUE]
             lb == LastBlknoAfter(a, b)
             ic == sq.iobufcnt - Cardinality(hits)
             ll == sq.listlen - Cardinality(hits)
             new == Clobbered(a, sq, hits)
  <2>1. l \in Seq(Bufs) /\ Len(l) \in Nat /\ DOMAIN l = 1..Len(l) /\ hits \in SUBSET DOMAIN l
    BY ReadyOnes DEF ReadyAt
  <2>2. new = [sq EXCEPT !.list = m, !.iobufcnt = ic, !.listlen = ll, !.lastblkno = lb]
    BY <1>2 DEF Clobbered
  <2>3. lb \in 0..(numblocks - 1)
    <3>1. b \in Bufs
      <4>1. (CHOOSE i \in hits : TRUE) \in hits
        BY <1>2
      <4> QED BY <2>1, <4>1
    <3> HIDE DEF b
    <3> QED BY <3>1, LastBlknoOnDevice
  <2>4. Cardinality(hits) \in Nat
    <3> DEFINE n == Len(l)
    <3>1. n \in Nat /\ hits \in SUBSET (1..n)
      BY <2>1
    <3> HIDE DEF n
    <3>2. 1 \in Int /\ n \in Int
      BY <3>1
    <3>3. IsFiniteSet(1..n)
      BY <3>2, FS_Interval
    <3>4. IsFiniteSet(hits)
      BY <3>1, <3>3, FS_Subset
    <3> QED BY <3>4, FS_CardinalityType
  <2>5. ic \in Int /\ ll \in Int
    BY <2>4 DEF Subqueues
  <2>6. K \in SUBSET DOMAIN l
    OBVIOUS
  <2>7. m \in Seq(Bufs)
    <3> HIDE DEF K, l
    <3> QED BY <2>1, <2>6, SelectedFacts
  <2>8. PICK f : Renumbers(f, m, DOMAIN m, l, K)
    <3> HIDE DEF K, l
    <3>1. Renumbered(Selected(l, K), DOMAIN Selected(l, K), l, K)
      BY <2>1, <2>6, SelectRenumbers
    <3> QED BY <3>1 DEF Renumbered
  <2>9. Renumbers(f, m, DOMAIN m, l, K)
    BY <2>8
  <2> HIDE DEF m, lb, ic, ll, new
  <2>10. ApartAt(l, DOMAIN l) /\ WaitsOf(sq) = WaitsAt(l, DOMAIN l) /\ OutsOf(sq) = OutsAt(l, DOMAIN l)
    BY DEF StandsFor
  <2>11. ApartAt(l, K)
    BY <2>10 DEF ApartAt
  <2>12. OutsAt(l, K) = OutsOf(sq)
    <3>1. \A i \in hits : ReadyToGo(l[i])
      BY DEF ReadyAt
    <3> QED BY <2>10, <3>1 DEF OutsAt
  <2>13. WaitsAt(l, K) = WaitsOf(sq) \ AllAt(l, hits)
    <3>1. ASSUME NEW r \in WaitsAt(l, K) PROVE r \in WaitsOf(sq) /\ r \notin AllAt(l, hits)
      <4>1. PICK i \in K : ReadyToGo(l[i]) /\ r \in Chained(l[i])
        BY <3>1 DEF WaitsAt
      <4>2. i \in DOMAIN l /\ i \notin hits
        BY <4>1
      <4>3. r \in WaitsOf(sq)
        BY <2>10, <4>1, <4>2 DEF WaitsAt
      <4>4. \A j \in hits : r \notin Chained(l[j])
        BY <2>1, <2>10, <4>1, <4>2 DEF ApartAt
      <4> QED BY <4>3, <4>4 DEF AllAt
    <3>2. ASSUME NEW r \in WaitsOf(sq), r \notin AllAt(l, hits) PROVE r \in WaitsAt(l, K)
      <4>1. PICK i \in DOMAIN l : ReadyToGo(l[i]) /\ r \in Chained(l[i])
        BY <2>10, <3>2 DEF WaitsAt
      <4>2. i \notin hits
        BY <3>2, <4>1 DEF AllAt
      <4> QED BY <4>1, <4>2 DEF WaitsAt
    <3> QED BY <3>1, <3>2
  <2> HIDE DEF K, l
  <2>14. ApartAt(m, DOMAIN m) /\ WaitsAt(m, DOMAIN m) = WaitsAt(l, K) /\ OutsAt(m, DOMAIN m) = OutsAt(l, K)
    BY <2>9, <2>11, RenumberedFacts
  <2>15. StandsFor(m, WaitsOf(sq) \ AllAt(l, hits), OutsOf(sq))
    BY <2>7, <2>12, <2>13, <2>14 DEF StandsFor
  <2>16. new \in Subqueues /\ new.list = m
    BY <2>2, <2>3, <2>5, <2>7 DEF Subqueues
  <2> QED BY <2>15, <2>16 DEF new, l
<1> QED BY <1>1, <1>2

(***************************************************************************)
(* The operations between subqueues.                                        *)
(***************************************************************************)

\* q2 stands for what q stands for.
Kept(q, q2) == Sound(q2) /\ WaitsIn(q2) = WaitsIn(q) /\ OutsIn(q2) = OutsIn(q)

LEMMA SubqueueOf ==
  ASSUME ConfigOk, NEW q, Sound(q), NEW s \in SubQs
  PROVE  /\ q[s] \in Subqueues /\ StandsFor(q[s].list, WaitsOf(q[s]), OutsOf(q[s]))
         /\ q[s].list \in Seq(Bufs) /\ WaitsOf(q[s]) \in SUBSET WaitsIn(q)
         /\ OutsOf(q[s]) \in SUBSET OutsIn(q)
         /\ alg[s] \in SchedAlgs
<1>1. q[s] \in Subqueues /\ StandsFor(q[s].list, WaitsOf(q[s]), OutsOf(q[s]))
  BY DEF Sound
<1>2. q[s].list \in Seq(Bufs)
  BY <1>1 DEF StandsFor
<1>3. WaitsOf(q[s]) \in SUBSET WaitsIn(q) /\ OutsOf(q[s]) \in SUBSET OutsIn(q)
  BY DEF WaitsIn, OutsIn
<1> QED BY <1>1, <1>2, <1>3, ConfigFacts

\* An iobuf is exchanged for one of the same requests in the same state.
LEMMA ExchangeKeeps ==
  ASSUME ConfigOk, NEW q, Sound(q), NEW s \in SubQs, NEW i \in DOMAIN q[s].list,
         NEW e \in Bufs, Chained(e) = Chained(q[s].list[i]),
         ReadyToGo(e) <=> ReadyToGo(q[s].list[i]),
         NEW q2, q2 = [q EXCEPT ![s].list[i] = e]
  PROVE  Kept(q, q2)
<1> DEFINE l == q[s].list
           W == WaitsOf(q[s])
           O == OutsOf(q[s])
           m == [l EXCEPT ![i] = e]
           sq == [q[s] EXCEPT !.list = m]
<1>1. q[s] \in Subqueues /\ StandsFor(l, W, O) /\ i \in DOMAIN l /\ l \in Seq(Bufs)
  BY SubqueueOf
<1>2. Chained(e) = Chained(l[i]) /\ (ReadyToGo(e) <=> ReadyToGo(l[i]))
  OBVIOUS
<1>3. q2 = [q EXCEPT ![s] = sq]
  OBVIOUS
<1>4. Exchanged(l, m, i, e, W, O)
  <2>1. Chained(e) \cap ((W \cup (UNION O)) \ Chained(l[i])) = {}
    BY <1>2
  <2>2. m = [l EXCEPT ![i] = e]
    OBVIOUS
  <2> HIDE DEF m, l, W, O
  <2> QED BY <1>1, <2>1, <2>2, ReplaceStands
<1>5. StandsFor(m, W, O)
  <2>1. /\ ReadyToGo(l[i]) => W = WaitsAt(l, DOMAIN l \ {i}) \cup Chained(l[i])
                              /\ WaitsAt(l, DOMAIN l \ {i}) = W \ Chained(l[i])
        /\ ~ReadyToGo(l[i]) => O = OutsAt(l, DOMAIN l \ {i}) \cup {Chained(l[i])}
                              /\ OutsAt(l, DOMAIN l \ {i}) = O \ {Chained(l[i])}
    <3> HIDE DEF l, W, O
    <3> QED BY <1>1, WithoutPlace
  <2> HIDE DEF l, W, O, m
  <2>2. CASE ReadyToGo(l[i])
    <3>1. (W \ Chained(l[i])) \cup Chained(e) = W
      BY <1>2, <2>1, <2>2
    <3> QED BY <1>2, <1>4, <2>2, <3>1 DEF Exchanged
  <2>3. CASE ~ReadyToGo(l[i])
    <3>1. (O \ {Chained(l[i])}) \cup {Chained(e)} = O
      BY <1>2, <2>1, <2>3
    <3> QED BY <1>2, <1>4, <2>3, <3>1 DEF Exchanged
  <2> QED BY <2>2, <2>3
<1>6. sq \in Subqueues /\ sq.list = m
  <2>1. m \in Seq(Bufs)
    BY <1>5 DEF StandsFor
  <2> HIDE DEF m
  <2> QED BY <1>1, <2>1 DEF Subqueues
<1> HIDE DEF l, m, sq
<1>7. Foreign(q, s, W, O)
  <2>1. (W \cup (UNION O)) \in SUBSET HeldBy(q[s])
    BY DEF HeldBy
  <2> QED BY <2>1, FewerIsForeign
<1>8. StandsFor(sq.list, W, O)
  BY <1>5, <1>6
<1> HIDE DEF W, O
<1>9. Changed(q, q2, s, W, O)
  BY <1>3, <1>6, <1>7, <1>8, ChangedSubqueue
<1>10. W \in SUBSET WaitsIn(q) /\ O \in SUBSET OutsIn(q)
  BY SubqueueOf DEF W, O
<1> QED BY <1>9, <1>10 DEF Changed, Kept, W, O

LEMMA SetBufFlagKeeps ==
  ASSUME ConfigOk, NEW q, Sound(q), NEW s \in SubQs, NEW i \in DOMAIN q[s].list, NEW f \in Flags
  PROVE  Kept(q, SetBufFlag(q, s, i, f))
<1> DEFINE b == q[s].list[i]
           e == [b EXCEPT !.flags = @ \cup {f}]
           q2 == SetBufFlag(q, s, i, f)
<1>1. b \in Bufs
  BY SubqueueOf
<1>2. q2 = [q EXCEPT ![s].list[i] = e]
  BY DEF SetBufFlag
<1> HIDE DEF q2
<1>3. e \in IobufSet /\ e.iolist = b.iolist /\ (ReadyToGo(e) <=> ReadyToGo(b))
  <2>1. b \in IobufSet
    BY <1>1 DEF Bufs
  <2> HIDE DEF b
  <2> QED BY <2>1 DEF IobufSet, ReadyToGo
<1> HIDE DEF e
<1>4. e \in Bufs /\ Chained(e) = Chained(b)
  <2> HIDE DEF b
  <2> QED BY <1>1, <1>3, SameChain
<1>5. Kept(q, q2)
  BY <1>2, <1>3, <1>4, ExchangeKeeps
<1> QED BY <1>5 DEF q2

LEMMA ChainIsFinite ==
  ASSUME ConfigOk, NEW b \in Bufs
  PROVE  IsFiniteSet(Chained(b)) /\ Cardinality(Chained(b)) \in Nat
<1> DEFINE n == Len(b.iolist)
           D == 1..n
           f == [i \in D |-> b.iolist[i]]
<1>1. b.iolist \in Seq(Reqs) /\ n \in Nat /\ DOMAIN b.iolist = D
  BY BufFacts
<1>2. IsFiniteSet(D)
  <2>1. 1 \in Int /\ n \in Int
    BY <1>1
  <2> HIDE DEF n
  <2> QED BY <2>1, FS_Interval
<1>3. f \in Surjection(D, Chained(b))
  BY <1>1 DEF Surjection, Chained
<1> HIDE DEF D, f
<1>4. IsFiniteSet(Chained(b))
  BY <1>2, <1>3, FS_Surjection
<1> QED BY <1>4, FS_CardinalityType

\* What a move from s to d leaves: nothing is lost, and the iobuf has left s
\* and is somewhere in d.
MovesTo(q, m, s, d) ==
    /\ Kept(q, m.q) /\ m.absorbed \in BOOLEAN /\ m.at \in DOMAIN m.q[d].list
    /\ Len(m.q[s].list) = Len(q[s].list) - 1

LEMMA MoveKeeps ==
  ASSUME ConfigOk, NEW q, Sound(q), NEW s \in SubQs, NEW d \in SubQs, s # d,
         NEW i \in DOMAIN q[s].list, ReadyToGo(q[s].list[i])
  PROVE  MovesTo(q, Move(q, s, d, i), s, d)
<1> DEFINE b == q[s].list[i]
           C == Chained(b)
           ins == InsertNewRequest(alg[d], q[d], b)
           Ws == WaitsOf(q[s])
           Os == OutsOf(q[s])
           Wd == WaitsOf(q[d])
           Od == OutsOf(q[d])
           m == Move(q, s, d, i)
           chain == IF ins.absorbed
                      THEN Chained(ins.sq.list[ins.at]) \ Chained(q[d].list[ins.at])
                      ELSE Chained(ins.sq.list[ins.at])
           iocnt == IF ins.absorbed THEN ReqCnt(b) ELSE Cardinality(chain)
           away == MovedAway(q[s], i, iocnt)
           q1 == [q EXCEPT ![s] = away]
           q2 == [q1 EXCEPT ![d] = ins.sq]
<1>1. /\ q[s] \in Subqueues /\ StandsFor(q[s].list, Ws, Os) /\ q[s].list \in Seq(Bufs)
      /\ q[d] \in Subqueues /\ StandsFor(q[d].list, Wd, Od)
      /\ Ws \in SUBSET WaitsIn(q) /\ Os \in SUBSET OutsIn(q) /\ Wd \in SUBSET WaitsIn(q)
      /\ Od \in SUBSET OutsIn(q)
  BY SubqueueOf
<1>2. b \in Bufs /\ ReadyToGo(b)
  BY <1>1
<1>3. /\ Ws = WaitsAt(q[s].list, DOMAIN q[s].list \ {i}) \cup C
      /\ Os = OutsAt(q[s].list, DOMAIN q[s].list \ {i})
      /\ C \cap AllAt(q[s].list, DOMAIN q[s].list \ {i}) = {}
  <2> DEFINE l == q[s].list
             K == DOMAIN l \ {i}
  <2>1. StandsFor(l, Ws, Os) /\ i \in DOMAIN l /\ ReadyToGo(l[i]) /\ K = DOMAIN l \ {i}
    BY <1>1
  <2>2. l[i] = b
    OBVIOUS
  <2> HIDE DEF Ws, Os, l, K, b
  <2>3. /\ Chained(l[i]) \cap AllAt(l, K) = {}
        /\ ReadyToGo(l[i]) => Ws = WaitsAt(l, K) \cup Chained(l[i]) /\ Os = OutsAt(l, K)
    BY <2>1, WithoutPlace
  <2> QED BY <2>1, <2>2, <2>3 DEF l, K
<1>4. C \in SUBSET Ws /\ C \cap (UNION Os) = {}
  <2>1. AllAt(q[s].list, DOMAIN q[s].list \ {i}) =
           WaitsAt(q[s].list, DOMAIN q[s].list \ {i}) \cup (UNION OutsAt(q[s].list, DOMAIN q[s].list \ {i}))
    BY AllIsWaitsAndOuts
  <2> QED BY <1>3, <2>1
<1>5. HeldBy(q[s]) \cap HeldBy(q[d]) = {} /\ C \in SUBSET HeldBy(q[s])
  BY <1>4 DEF Sound, HeldBy
<1>6. TakesIn(ins, q[d], b, Wd, Od)
  <2>1. Chained(b) \cap (Wd \cup (UNION Od)) = {}
    BY <1>5 DEF HeldBy
  <2> HIDE DEF b, Wd, Od
  <2> QED BY <1>1, <1>2, <2>1, InsertNewStands
<1> HIDE DEF ins
<1>7. /\ ins.sq \in Subqueues /\ StandsFor(ins.sq.list, Wd \cup C, Od)
      /\ ins.at \in DOMAIN ins.sq.list /\ ins.absorbed \in BOOLEAN
  BY <1>6 DEF TakesIn
<1>8. iocnt \in Int
  <2>1. CASE ins.absorbed
    <3>1. ReqCnt(b) \in Int
      BY <1>2, BufFacts
    <3> QED BY <2>1, <3>1
  <2>2. CASE ~ins.absorbed
    <3> DEFINE e == ins.sq.list[ins.at]
    <3>1. e \in Bufs
      BY <1>7 DEF StandsFor
    <3> HIDE DEF e
    <3>2. Cardinality(Chained(e)) \in Nat
      BY <3>1, ChainIsFinite
    <3>3. iocnt = Cardinality(Chained(e))
      BY <2>2 DEF e
    <3> QED BY <3>2, <3>3
  <2> QED BY <1>7, <2>1, <2>2
<1>9. m.q = [q EXCEPT ![s] = away, ![d] = ins.sq] /\ m.absorbed = ins.absorbed /\ m.at = ins.at
  BY DEF Move, Moved, ins
<1> HIDE DEF iocnt, m
<1>10. away \in Subqueues /\ StandsFor(away.list, Ws \ C, Os)
  BY <1>1, <1>2, <1>8, MovedAwayLeaves
<1>101. Len(away.list) = Len(q[s].list) - 1
  <2> HIDE DEF Ws, Os
  <2>1. Len(RemoveAt(q[s].list, i)) = Len(q[s].list) - 1
    BY <1>1, RemoveStands
  <2>2. away.list = RemoveAt(q[s].list, i)
    BY <1>1 DEF away, MovedAway, Subqueues
  <2> QED BY <2>1, <2>2
<1> HIDE DEF away
<1>11. Changed(q, q1, s, Ws \ C, Os)
  <2>1. ((Ws \ C) \cup (UNION Os)) \in SUBSET HeldBy(q[s])
    BY DEF HeldBy
  <2>2. Foreign(q, s, Ws \ C, Os)
    BY <2>1, FewerIsForeign
  <2>3. q1 = [q EXCEPT ![s] = away]
    OBVIOUS
  <2> DEFINE V == Ws \ C
  <2>4. StandsFor(away.list, V, Os) /\ Foreign(q, s, V, Os)
    BY <1>10, <2>2
  <2> HIDE DEF V, Os, q1
  <2>5. Changed(q, q1, s, V, Os)
    BY <1>10, <2>3, <2>4, ChangedSubqueue
  <2> QED BY <2>5 DEF V
<1>12. q1[d] = q[d] /\ \A t \in SubQs : t # s => q1[t] = q[t]
  BY <1>10 DEF Sound
<1>13. q2 = [q EXCEPT ![s] = away, ![d] = ins.sq] /\ q2[d] = ins.sq /\ q2[s] = away
  BY DEF Sound
<1> HIDE DEF q1
<1>14. Sound(q1) /\ HeldBy(q1[s]) = (Ws \ C) \cup (UNION Os)
       /\ WaitsIn(q1) = (WaitsIn(q) \ Ws) \cup (Ws \ C) /\ OutsIn(q1) = (OutsIn(q) \ Os) \cup Os
  BY <1>11 DEF Changed, HeldBy
<1>15. Foreign(q1, d, Wd \cup C, Od)
  <2>1. (Wd \cup C) \cup (UNION Od) = HeldBy(q[d]) \cup C
    BY DEF HeldBy
  <2>2. ASSUME NEW t \in SubQs, t # d PROVE (HeldBy(q[d]) \cup C) \cap HeldBy(q1[t]) = {}
    <3>1. CASE t = s
      <4>1. HeldBy(q1[s]) \in SUBSET HeldBy(q[s])
        BY <1>14 DEF HeldBy
      <4>2. C \cap HeldBy(q1[s]) = {}
        BY <1>4, <1>14
      <4> QED BY <1>5, <3>1, <4>1, <4>2
    <3>2. CASE t # s
      <4>1. HeldBy(q[d]) \cap HeldBy(q[t]) = {} /\ HeldBy(q[s]) \cap HeldBy(q[t]) = {}
        BY <2>2, <3>2 DEF Sound
      <4> QED BY <1>5, <1>12, <3>2, <4>1
    <3> QED BY <3>1, <3>2
  <2> QED BY <2>1, <2>2 DEF Foreign
<1>16. Changed(q1, q2, d, Wd \cup C, Od)
  <2> DEFINE V == Wd \cup C
  <2>1. StandsFor(ins.sq.list, V, Od) /\ Foreign(q1, d, V, Od) /\ q2 = [q1 EXCEPT ![d] = ins.sq]
    BY <1>7, <1>15
  <2> HIDE DEF V, Od, q2
  <2>2. Changed(q1, q2, d, V, Od)
    BY <1>7, <1>14, <2>1, ChangedSubqueue
  <2> QED BY <2>2 DEF V
<1> HIDE DEF q2
<1>17. /\ Sound(q2) /\ WaitsIn(q2) = (WaitsIn(q1) \ Wd) \cup (Wd \cup C)
       /\ OutsIn(q2) = (OutsIn(q1) \ Od) \cup Od
  BY <1>12, <1>16 DEF Changed
<1>18. WaitsIn(q2) = WaitsIn(q)
  <2> HIDE DEF Ws, Wd, C
  <2> QED BY <1>1, <1>4, <1>14, <1>17
<1>19. OutsIn(q2) = OutsIn(q)
  <2> HIDE DEF Os, Od
  <2> QED BY <1>1, <1>14, <1>17
<1>20. MovesTo(q, m, s, d)
  BY <1>7, <1>9, <1>13, <1>101, <1>17, <1>18, <1>19 DEF MovesTo, Kept
<1> QED BY <1>20 DEF m

(***************************************************************************)
(* The timeouts.                                                            *)
(***************************************************************************)

\* The iobuf at i of q[s] has waited one tick more, within bounds.
Aged(q, s, i) ==
    [q EXCEPT ![s].list[i].waittime = IF @ < MaxWait THEN @ + 1 ELSE @]

LEMMA AgedKeeps ==
  ASSUME ConfigOk, NEW q, Sound(q), NEW s \in SubQs, NEW i \in DOMAIN q[s].list
  PROVE  /\ Kept(q, Aged(q, s, i)) /\ i \in DOMAIN Aged(q, s, i)[s].list
         /\ Len(Aged(q, s, i)[s].list) = Len(q[s].list)
         /\ ReadyToGo(Aged(q, s, i)[s].list[i]) <=> ReadyToGo(q[s].list[i])
<1> DEFINE b == q[s].list[i]
           w == IF b.waittime < MaxWait THEN b.waittime + 1 ELSE b.waittime
           e == [b EXCEPT !.waittime = w]
           q2 == Aged(q, s, i)
<1>1. b \in Bufs /\ q[s] \in Subqueues /\ q[s].list \in Seq(Bufs)
  BY SubqueueOf
<1>2. q2 = [q EXCEPT ![s].list[i] = e]
  BY DEF Aged
<1>3. e \in IobufSet /\ e.iolist = b.iolist /\ (ReadyToGo(e) <=> ReadyToGo(b))
  <2>1. b \in IobufSet /\ to_time \in Nat
    BY <1>1, ConfigFacts DEF Bufs
  <2>2. w \in 0..MaxWait
    <3>1. b.waittime \in 0..MaxWait /\ MaxWait \in Nat
      BY <2>1 DEF IobufSet, MaxWait
    <3> HIDE DEF b
    <3> QED BY <3>1
  <2> HIDE DEF b, w
  <2> QED BY <2>1, <2>2 DEF IobufSet, ReadyToGo
<1> HIDE DEF e
<1>4. e \in Bufs /\ Chained(e) = Chained(b)
  <2> HIDE DEF b
  <2> QED BY <1>1, <1>3, SameChain
<1> HIDE DEF q2
<1>5. Kept(q, q2)
  BY <1>2, <1>3, <1>4, ExchangeKeeps
<1>6. q2[s].list = [q[s].list EXCEPT ![i] = e]
  BY <1>1, <1>2 DEF Sound, Subqueues
<1>7. i \in DOMAIN q2[s].list /\ Len(q2[s].list) = Len(q[s].list) /\ q2[s].list[i] = e
  BY <1>1, <1>6
<1> QED BY <1>3, <1>5, <1>7 DEF q2

\* What the walk over subqueue s has come to with k iobufs still to visit,
\* when the queue was q at its start
Walking(acc, q, s, k) ==
    /\ acc = [q |-> acc.q, i |-> acc.i, flags |-> acc.flags, null |-> acc.null]
    /\ Kept(q, acc.q) /\ acc.flags \in [Reqs -> SUBSET Flags] /\ acc.null \in BOOLEAN
    /\ acc.i \in Nat \ {0}
    /\ ~acc.null => acc.i + k = Len(acc.q[s].list) + 1

LEMMA TimeoutStepWalks ==
  ASSUME ConfigOk, NEW q, Sound(q), NEW s \in SubQs, NEW d \in SubQs, s # d, NEW maxtime,
         NEW f \in Flags, NEW k \in Nat, NEW acc, Walking(acc, q, s, k + 1)
  PROVE  Walking(TimeoutStep(acc, s, d, maxtime, f), q, s, k)
<1> DEFINE aged == Aged(acc.q, s, acc.i)
           b == acc.q[s].list[acc.i]
           m == Move(aged, s, d, acc.i)
           next == TimeoutStep(acc, s, d, maxtime, f)
<1>1. CASE acc.null
  <2>1. next = acc
    BY <1>1 DEF TimeoutStep
  <2> QED BY <1>1, <2>1 DEF Walking
<1>2. CASE ~acc.null
  <2>1. /\ Kept(q, acc.q) /\ acc.flags \in [Reqs -> SUBSET Flags] /\ acc.i \in Nat \ {0}
        /\ acc.i + (k + 1) = Len(acc.q[s].list) + 1 /\ Sound(acc.q)
        /\ acc = [q |-> acc.q, i |-> acc.i, flags |-> acc.flags, null |-> acc.null]
        /\ WaitsIn(acc.q) = WaitsIn(q) /\ OutsIn(acc.q) = OutsIn(q)
    BY <1>2 DEF Walking, Kept
  <2>2. /\ acc.q[s].list \in Seq(Bufs) /\ Len(acc.q[s].list) \in Nat
        /\ DOMAIN acc.q[s].list = 1..Len(acc.q[s].list)
    <3>1. acc.q[s].list \in Seq(Bufs)
      BY <2>1, SubqueueOf
    <3> QED BY <3>1
  <2>3. acc.i \in DOMAIN acc.q[s].list
    BY <2>1, <2>2
  <2>4. /\ Kept(acc.q, aged) /\ acc.i \in DOMAIN aged[s].list
        /\ Len(aged[s].list) = Len(acc.q[s].list)
        /\ ReadyToGo(aged[s].list[acc.i]) <=> ReadyToGo(b)
    BY <2>1, <2>3, AgedKeeps
  <2>5. /\ Sound(aged) /\ WaitsIn(aged) = WaitsIn(q) /\ OutsIn(aged) = OutsIn(q)
    BY <2>1, <2>4 DEF Kept
  <2>6. CASE b.state = "WAITING" /\ b.waittime + 1 > maxtime
    <3>1. next = TimedOut(acc, s, d, f, m)
      BY <1>2, <2>6 DEF TimeoutStep, Aged
    <3>2. MovesTo(aged, m, s, d)
      <4>1. ReadyToGo(aged[s].list[acc.i])
        BY <2>4, <2>6 DEF ReadyToGo
      <4> DEFINE i == acc.i
      <4> HIDE DEF aged, i
      <4>2. MovesTo(aged, Move(aged, s, d, i), s, d)
        BY <2>4, <2>5, <4>1, MoveKeeps DEF i
      <4> QED BY <4>2 DEF i
    <3> HIDE DEF m, aged
    <3>3. /\ Sound(m.q) /\ WaitsIn(m.q) = WaitsIn(q) /\ OutsIn(m.q) = OutsIn(q)
          /\ m.absorbed \in BOOLEAN /\ m.at \in DOMAIN m.q[d].list
          /\ Len(m.q[s].list) = Len(acc.q[s].list) - 1
      BY <2>4, <2>5, <3>2 DEF MovesTo, Kept
    <3> DEFINE nq == IF m.absorbed THEN m.q ELSE SetBufFlag(m.q, d, m.at, f)
               nf == [r \in Reqs |-> acc.flags[r] \cup (IF r \in m.chain THEN {f} ELSE {})]
               nn == acc.i # Len(acc.q[s].list) /\ m.q[s].listlen = 0
    <3>4. next = [q |-> nq, i |-> acc.i, flags |-> nf, null |-> nn]
      BY <3>1 DEF TimedOut
    <3>5. /\ Sound(nq) /\ WaitsIn(nq) = WaitsIn(q) /\ OutsIn(nq) = OutsIn(q)
          /\ nq[s] = m.q[s]
      <4>1. CASE m.absorbed
        BY <3>3, <4>1
      <4>2. CASE ~m.absorbed
        <5> DEFINE i == m.at
                   q1 == m.q
        <5>1. Kept(q1, SetBufFlag(q1, d, i, f))
          <6> i \in DOMAIN q1[d].list /\ Sound(q1)
            BY <3>3
          <6> HIDE DEF i, q1
          <6> QED BY SetBufFlagKeeps
        <5>2. SetBufFlag(q1, d, i, f)[s] = q1[s]
          BY <3>3 DEF SetBufFlag, Sound
        <5> QED BY <3>3, <4>2, <5>1, <5>2 DEF Kept
      <4> QED BY <3>3, <4>1, <4>2
    <3>6. nf \in [Reqs -> SUBSET Flags] /\ nn \in BOOLEAN
      BY <2>1
    <3> HIDE DEF nq, nf, nn, next
    <3>7. next.q = nq /\ next.i = acc.i /\ next.flags = nf /\ next.null = nn
      BY <3>4
    <3>8. acc.i + k = Len(nq[s].list) + 1
      <4>1. Len(nq[s].list) = Len(acc.q[s].list) - 1
        BY <3>3, <3>5
      <4> DEFINE L == Len(acc.q[s].list)
                 N == Len(nq[s].list)
                 i == acc.i
      <4>2. L \in Nat /\ i \in Nat /\ N = L - 1 /\ i + (k + 1) = L + 1
        BY <2>1, <2>2, <4>1
      <4> HIDE DEF L, N, i
      <4>3. i + k = N + 1
        BY <4>2
      <4> QED BY <4>3 DEF N, i
    <3>9. Walking(next, q, s, k)
      BY <2>1, <3>4, <3>5, <3>6, <3>7, <3>8 DEF Walking, Kept
    <3> QED BY <3>9 DEF next
  <2>7. CASE ~(b.state = "WAITING" /\ b.waittime + 1 > maxtime)
    <3>1. next = [acc EXCEPT !.q = aged, !.i = @ + 1]
      BY <1>2, <2>7 DEF TimeoutStep, Aged
    <3> HIDE DEF aged, next
    <3>2. next = [q |-> aged, i |-> acc.i + 1, flags |-> acc.flags, null |-> acc.null]
      BY <2>1, <3>1
    <3>3. next.q = aged /\ next.i = acc.i + 1 /\ next.flags = acc.flags /\ next.null = acc.null
      BY <3>2
    <3>4. (acc.i + 1) + k = Len(aged[s].list) + 1 /\ acc.i + 1 \in Nat \ {0}
      BY <2>1, <2>2, <2>4
    <3>5. Walking(next, q, s, k)
      BY <1>2, <2>1, <2>5, <3>2, <3>3, <3>4 DEF Walking, Kept
    <3> QED BY <3>5 DEF next
  <2> QED BY <2>6, <2>7
<1>3. acc.null \in BOOLEAN
  BY DEF Walking
<1> QED BY <1>1, <1>2, <1>3

\* The step as the fold of ImplementTimeouts writes it
StepOf(acc, s, d, maxtime, f) ==
    CHOOSE next \in {TimeoutStep(a, s, d, maxtime, f) : a \in {acc}} : TRUE

LEMMA StepOfIsStep ==
  ASSUME NEW acc, NEW s, NEW d, NEW maxtime, NEW f
  PROVE  StepOf(acc, s, d, maxtime, f) = TimeoutStep(acc, s, d, maxtime, f)
BY DEF StepOf

\* it is the function by which that fold recurs.
WalksOver(start, s, d, maxtime, f, n, it) ==
    it = [S \in SUBSET (1..n) |->
             IF S = {} THEN start ELSE StepOf(it[S \ {Max(S)}], s, d, maxtime, f)]

LEMMA WalksExist ==
  ASSUME NEW start, NEW s, NEW d, NEW maxtime, NEW f, NEW n \in Nat
  PROVE  \E it : WalksOver(start, s, d, maxtime, f, n, it)
<1> DEFINE Walks(m, it) == WalksOver(start, s, d, maxtime, f, m, it)
           Step(acc) == StepOf(acc, s, d, maxtime, f)
           N == {m \in Nat : \E it : Walks(m, it)}
<1>1. 0 \in N
  <2> DEFINE it == [S \in SUBSET (1..0) |-> start]
  <2>1. \A S \in SUBSET (1..0) : S = {}
    OBVIOUS
  <2>2. Walks(0, it)
    BY <2>1 DEF WalksOver
  <2> QED BY <2>2
<1>2. ASSUME NEW m \in Nat, m \in N PROVE m + 1 \in N
  <2>1. PICK it : Walks(m, it)
    BY <1>2
  <2>11. it = [S \in SUBSET (1..m) |-> IF S = {} THEN start ELSE Step(it[S \ {Max(S)}])]
    BY <2>1 DEF WalksOver
  <2> HIDE DEF Step, Walks
  <2> DEFINE jt == [S \in SUBSET (1..(m + 1)) |->
                      IF m + 1 \in S THEN Step(it[S \ {m + 1}]) ELSE it[S]]
  <2>2. ASSUME NEW S \in SUBSET (1..(m + 1)), S # {}, m + 1 \in S
        PROVE  jt[S] = Step(jt[S \ {Max(S)}])
    <3>1. Max(S) \in S /\ m + 1 <= Max(S)
      <4>1. m + 1 \in Nat
        OBVIOUS
      <4> QED BY <2>2, <4>1, GreatestElement
    <3>2. Max(S) = m + 1
      <4>1. Max(S) \in 1..(m + 1)
        BY <2>2, <3>1
      <4> QED BY <3>1, <4>1
    <3>3. S \ {m + 1} \in SUBSET (1..(m + 1)) /\ m + 1 \notin S \ {m + 1}
      OBVIOUS
    <3>4. jt[S \ {m + 1}] = it[S \ {m + 1}]
      BY <3>3
    <3>5. jt[S] = Step(it[S \ {m + 1}])
      BY <2>2
    <3> QED BY <3>2, <3>4, <3>5
  <2>3. ASSUME NEW S \in SUBSET (1..(m + 1)), S # {}, m + 1 \notin S
        PROVE  jt[S] = Step(jt[S \ {Max(S)}])
    <3>1. S \in SUBSET (1..m)
      BY <2>3
    <3>2. Max(S) \in S
      BY <2>3, <3>1, GreatestElement
    <3>3. /\ S \ {Max(S)} \in SUBSET (1..m) /\ S \ {Max(S)} \in SUBSET (1..(m + 1))
          /\ m + 1 \notin S \ {Max(S)}
      BY <2>3, <3>1
    <3>4. jt[S] = it[S] /\ jt[S \ {Max(S)}] = it[S \ {Max(S)}]
      BY <2>3, <3>3
    <3>5. it[S] = Step(it[S \ {Max(S)}])
      BY <2>11, <2>3, <3>1
    <3> QED BY <3>4, <3>5
  <2>4. jt[{}] = start
    <3>1. it[{}] = start
      BY <2>11
    <3> QED BY <3>1
  <2>5. \A S \in SUBSET (1..(m + 1)) : jt[S] = IF S = {} THEN start ELSE Step(jt[S \ {Max(S)}])
    <3> HIDE DEF jt
    <3> QED BY <2>2, <2>3, <2>4
  <2>6. jt = [S \in SUBSET (1..(m + 1)) |-> IF S = {} THEN start ELSE Step(jt[S \ {Max(S)}])]
    <3>1. jt = [S \in SUBSET (1..(m + 1)) |-> jt[S]]
      OBVIOUS
    <3> HIDE DEF jt
    <3> QED BY <2>5, <3>1
  <2> HIDE DEF jt
  <2>7. Walks(m + 1, jt)
    BY <2>6 DEF Walks, WalksOver, Step
  <2>8. m + 1 \in Nat
    OBVIOUS
  <2> QED BY <2>7, <2>8
<1> HIDE DEF N
<1>3. n \in N
  BY <1>1, <1>2, AllNaturals
<1> QED BY <1>3 DEF N

\* p are the accumulators of the walk, one for each iobuf there was.
WalkIs(p, start, s, d, maxtime, f, n) ==
    /\ p[0] = [start EXCEPT !.i = 1]
    /\ \A k \in 1..n : p[k] = TimeoutStep(p[k - 1], s, d, maxtime, f)
    /\ ImplementTimeouts(start, s, d, maxtime, f) = p[n]

\* The fold takes one step after the other.
LEMMA TimeoutsWalk ==
  ASSUME NEW start, NEW s, NEW d, NEW maxtime, NEW f,
         NEW n \in Nat, Len(start.q[s].list) = n, DOMAIN start.q[s].list = 1..n
  PROVE  \E p : WalkIs(p, start, s, d, maxtime, f, n)
<1> DEFINE l == start.q[s].list
           base == [start EXCEPT !.i = 1]
           it == CHOOSE it : WalksOver(base, s, d, maxtime, f, n, it)
           p == [k \in 0..n |-> it[1..k]]
<1>1. n \in Nat /\ DOMAIN l = 1..n
  OBVIOUS
<1>2. WalksOver(base, s, d, maxtime, f, n, it)
  <2> HIDE DEF base
  <2> QED BY <1>1, WalksExist
<1>3. ImplementTimeouts(start, s, d, maxtime, f) = it[1..n]
  <2>1. ImplementTimeouts(start, s, d, maxtime, f) =
            (CHOOSE g : g = [S \in SUBSET (DOMAIN l) |->
                IF S = {} THEN base ELSE StepOf(g[S \ {Max(S)}], s, d, maxtime, f)])
            [DOMAIN l]
    BY DEF ImplementTimeouts, FoldLeft, MapThenFoldSet, StepOf
  <2>2. it = CHOOSE g : g = [S \in SUBSET (1..n) |->
                IF S = {} THEN base ELSE StepOf(g[S \ {Max(S)}], s, d, maxtime, f)]
    BY DEF WalksOver
  <2> QED BY <1>1, <2>1, <2>2
<1> HIDE DEF it, l, base
<1>4. p[0] = base
  <2>1. 1..0 = {}
    OBVIOUS
  <2>2. it[{}] = base
    BY <1>2 DEF WalksOver
  <2> QED BY <1>1, <2>1, <2>2
<1>5. ASSUME NEW k \in 1..n PROVE p[k] = TimeoutStep(p[k - 1], s, d, maxtime, f)
  <2>0. k \in Nat /\ k >= 1 /\ k <= n /\ k \in 1..k /\ k - 1 \in 0..n /\ k \in 0..n
    BY <1>1
  <2>1. 1..k \in SUBSET (1..n) /\ 1..k # {} /\ k \in 1..k /\ k \in Nat /\ k - 1 \in 0..n /\ k \in 0..n
    <3>1. \A x \in 1..k : x \in 1..n
      BY <1>1, <2>0
    <3> QED BY <2>0, <3>1
  <2>2. Max(1..k) = k
    <3>1. Max(1..k) \in 1..k /\ k <= Max(1..k)
      BY <2>1, GreatestElement
    <3> QED BY <2>1, <3>1
  <2>3. (1..k) \ {k} = 1..(k - 1)
    BY <2>1
  <2>4. it[1..k] = TimeoutStep(it[(1..k) \ {Max(1..k)}], s, d, maxtime, f)
    <3>1. it[1..k] = StepOf(it[(1..k) \ {Max(1..k)}], s, d, maxtime, f)
      BY <1>2, <2>1 DEF WalksOver
    <3> QED BY <3>1, StepOfIsStep
  <2>5. p[k] = it[1..k] /\ p[k - 1] = it[1..(k - 1)]
    BY <2>1
  <2> QED BY <2>2, <2>3, <2>4, <2>5
<1>6. p[n] = it[1..n]
  BY <1>1
<1> HIDE DEF p
<1>7. WalkIs(p, start, s, d, maxtime, f, n)
  BY <1>3, <1>4, <1>5, <1>6 DEF WalkIs, base
<1> QED BY <1>7

\* The walk over a subqueue loses nothing.
LEMMA TimeoutsKeep ==
  ASSUME ConfigOk, NEW start, Sound(start.q), start.flags \in [Reqs -> SUBSET Flags],
         start.null \in BOOLEAN,
         start = [q |-> start.q, i |-> start.i, flags |-> start.flags, null |-> start.null],
         NEW s \in SubQs, NEW d \in SubQs, s # d, NEW maxtime, NEW f \in Flags
  PROVE  Walking(ImplementTimeouts(start, s, d, maxtime, f), start.q, s, 0)
<1> DEFINE l == start.q[s].list
           n == Len(l)
           base == [start EXCEPT !.i = 1]
<1>1. n \in Nat /\ DOMAIN l = 1..n
  <2>1. l \in Seq(Bufs)
    BY SubqueueOf
  <2> QED BY <2>1
<1>2. PICK p : WalkIs(p, start, s, d, maxtime, f, n)
  <2>1. n \in Nat /\ Len(start.q[s].list) = n /\ DOMAIN start.q[s].list = 1..n
    BY <1>1
  <2> HIDE DEF n
  <2> QED BY <2>1, TimeoutsWalk
<1>3. ImplementTimeouts(start, s, d, maxtime, f) = p[n] /\ p[0] = base
      /\ \A k \in 1..n : p[k] = TimeoutStep(p[k - 1], s, d, maxtime, f)
  BY <1>2 DEF WalkIs
<1>4. base.q = start.q /\ base.flags = start.flags /\ base.null = start.null /\ base.i = 1
      /\ base = [q |-> base.q, i |-> base.i, flags |-> base.flags, null |-> base.null]
  OBVIOUS
<1> HIDE DEF n, l, base
<1> DEFINE S == {k \in 0..n : Walking(p[k], start.q, s, n - k)}
<1>8. 0 \in S
  <2>1. Walking(base, start.q, s, n)
    BY <1>1, <1>4 DEF Walking, Kept, n, l
  <2>2. n - 0 = n
    BY <1>1
  <2> QED BY <1>1, <1>3, <2>1, <2>2
<1>9. \A k \in 0..(n - 1) : k \in S => k + 1 \in S
  <2> SUFFICES ASSUME NEW k \in 0..(n - 1), k \in S PROVE k + 1 \in S
    OBVIOUS
  <2> DEFINE j == k + 1
             h == n - j
  <2>1. j \in 1..n /\ j - 1 = k /\ j \in 0..n /\ h \in Nat /\ n - k = h + 1
    BY <1>1
  <2>2. p[j] = TimeoutStep(p[k], s, d, maxtime, f)
    <3> HIDE DEF j
    <3> QED BY <1>3, <2>1
  <2>3. Walking(p[k], start.q, s, h + 1)
    BY <2>1
  <2> DEFINE q0 == start.q
             acc == p[k]
  <2>4. Walking(acc, q0, s, h + 1) /\ Sound(q0)
    BY <2>3
  <2> HIDE DEF h, q0, acc
  <2>5. Walking(TimeoutStep(acc, s, d, maxtime, f), q0, s, h)
    BY <2>1, <2>4, TimeoutStepWalks
  <2> QED BY <2>1, <2>2, <2>5 DEF q0, acc, h
<1> HIDE DEF S
<1>10. n \in S
  <2>1. \A k \in 0..n : k \in S
    BY <1>1, <1>8, <1>9, AllUpTo
  <2> QED BY <1>1, <2>1
<1>11. Walking(p[n], start.q, s, 0)
  <2>1. n - n = 0
    BY <1>1
  <2> QED BY <1>10, <2>1 DEF S
<1> QED BY <1>3, <1>11

(***************************************************************************)
(* The inductive invariant.                                                 *)
(***************************************************************************)

\* Every variable has its type, and the subqueues are sound and apart.
QueueSound ==
    /\ ConfigOk /\ Sound(queue)
    /\ flags \in [Reqs -> SUBSET Flags] /\ arrived \in [Reqs -> 0..MaxTime]
    /\ out \in SUBSET [lead : Reqs, flags : SUBSET Flags]
    /\ idledetect \in BOOLEAN /\ simtime \in 0..MaxTime /\ fault \in Faults

\* What ioqueue_tick has done when it ends
TicksTo(acc) ==
    /\ Kept(queue, acc.q) /\ acc.flags \in [Reqs -> SUBSET Flags] /\ acc.null \in BOOLEAN

LEMMA TimeoutsDoneKeep == ASSUME QueueSound PROVE TicksTo(TimeoutsDone)
<1> DEFINE start == [q |-> queue, i |-> 1, flags |-> flags, null |-> FALSE]
           half == ImplementTimeouts(start, "timeout", "priority", to_time, "TIMED_OUT")
<1>1. ConfigOk /\ Sound(queue) /\ flags \in [Reqs -> SUBSET Flags]
  BY DEF QueueSound
<1>2. /\ Sound(start.q) /\ start.flags \in [Reqs -> SUBSET Flags] /\ start.null \in BOOLEAN
      /\ start = [q |-> start.q, i |-> start.i, flags |-> start.flags, null |-> start.null]
      /\ start.q = queue
  BY <1>1
<1>3. /\ "priority" \in SubQs /\ "timeout" \in SubQs /\ "base" \in SubQs
      /\ "TIMED_OUT" \in Flags /\ "HALF_OUT" \in Flags
  BY DEF SubQs, Flags
<1> HIDE DEF start
<1>4. CASE to_scheme = "NOTIMEOUT"
  <2>1. TimeoutsDone = start
    BY <1>4 DEF TimeoutsDone, start
  <2>2. TicksTo(start)
    BY <1>1, <1>2 DEF TicksTo, Kept
  <2> QED BY <2>1, <2>2
<1>5. CASE to_scheme = "BASETIMEOUT"
  <2> DEFINE d == IF pri_scheme = "ALLEQUAL" THEN "timeout" ELSE "priority"
             done == ImplementTimeouts(start, "base", d, to_time, "TIMED_OUT")
  <2>1. TimeoutsDone = done
    BY <1>5 DEF TimeoutsDone, start
  <2>2. d \in SubQs /\ "base" # d
    BY <1>3
  <2> HIDE DEF d
  <2>3. Walking(done, start.q, "base", 0)
    BY <1>1, <1>2, <1>3, <2>2, TimeoutsKeep
  <2> HIDE DEF done
  <2> QED BY <1>2, <2>1, <2>3 DEF Walking, TicksTo
<1>6. CASE to_scheme = "HALFTIMEOUT"
  <2> DEFINE mt == to_time \div 2
             done == ImplementTimeouts(half, "base", "timeout", mt, "HALF_OUT")
  <2>1. TimeoutsDone = done
    BY <1>6 DEF TimeoutsDone, start
  <2>2. Walking(half, start.q, "timeout", 0)
    <3>1. "timeout" # "priority"
      OBVIOUS
    <3> QED BY <1>1, <1>2, <1>3, <3>1, TimeoutsKeep
  <2> HIDE DEF half, mt
  <2>3. /\ Sound(half.q) /\ half.flags \in [Reqs -> SUBSET Flags] /\ half.null \in BOOLEAN
        /\ half = [q |-> half.q, i |-> half.i, flags |-> half.flags, null |-> half.null]
        /\ Kept(queue, half.q)
    BY <1>2, <2>2 DEF Walking, Kept
  <2>4. Walking(done, half.q, "base", 0)
    <3>1. "base" # "timeout"
      OBVIOUS
    <3> QED BY <1>1, <1>3, <2>3, <3>1, TimeoutsKeep
  <2> HIDE DEF done
  <2> QED BY <2>1, <2>3, <2>4 DEF Walking, TicksTo, Kept
<1> QED BY <1>1, <1>4, <1>5, <1>6, ConfigFacts

(***************************************************************************)
(* The steps.                                                               *)
(***************************************************************************)

\* What a step does to the requests that wait, and to the batches
Adding(q, q2) ==
    \E r \in Reqs : /\ r \notin WaitsIn(q) \cup (UNION OutsIn(q))
                    /\ WaitsIn(q2) = WaitsIn(q) \cup {r} /\ OutsIn(q2) = OutsIn(q)
HandingOut(q, q2) ==
    \E S \in SUBSET Reqs : /\ S # {} /\ S \in SUBSET WaitsIn(q)
                           /\ WaitsIn(q2) = WaitsIn(q) \ S /\ OutsIn(q2) = OutsIn(q) \cup {S}
Completing(q, q2) ==
    \E S \in OutsIn(q) : /\ WaitsIn(q2) \in SUBSET WaitsIn(q)
                         /\ OutsIn(q2) = OutsIn(q) \ {S}

LEMMA NewIobufFacts ==
  ASSUME ConfigOk, NEW r \in Reqs, NEW fl \in SUBSET Flags
  PROVE  NewIobuf(r, fl) \in Bufs /\ Chained(NewIobuf(r, fl)) = {r} /\ ReadyToGo(NewIobuf(r, fl))
<1> DEFINE b == NewIobuf(r, fl)
<1>1. b.iolist = <<r>> /\ b.state = "WAITING"
  BY DEF NewIobuf
<1>2. b \in IobufSet
  <2>1. 0 \in 0..MaxWait /\ 0 \in 0..MaxTime
    BY ConfigFacts DEF MaxWait
  <2>2. <<r>> \in Seq(Reqs)
    OBVIOUS
  <2> QED BY <2>1, <2>2 DEF NewIobuf, IobufSet
<1> HIDE DEF b
<1>3. TotalSize(b) = bcount[r] /\ BufBlkno(b) = blkno[r]
  <2>1. bcount \in [Reqs -> Nat]
    BY ConfigFacts
  <2>2. Total(bcount, <<r>>) = bcount[r]
    BY <2>1, TotalFacts
  <2> QED BY <1>1, <2>2, SizeIsTotal DEF BufBlkno
<1>4. b \in Bufs
  <2>1. b.iolist # <<>>
    BY <1>1
  <2> QED BY <1>2, <1>3, <2>1, ConfigFacts DEF Bufs
<1>5. Chained(b) = {r}
  BY <1>1 DEF Chained
<1> QED BY <1>1, <1>4, <1>5 DEF ReadyToGo, b

LEMMA AddStep ==
  ASSUME QueueSound, NEW r \in Reqs, AddNewRequest(r)
  PROVE  Sound(queue') /\ Adding(queue, queue')
<1> DEFINE s == ArrivalQueue(r)
           b == NewIobuf(r, ArrivalFlags[r])
           ins == InsertNewRequest(alg[s], queue[s], b)
           W == WaitsOf(queue[s])
           O == OutsOf(queue[s])
           a == alg[s]
           q == queue
           q2 == queue'
<1>1. ConfigOk /\ Sound(q) /\ ~InQueue(r) /\ q2 = [q EXCEPT ![s] = ins.sq] /\ s \in SubQs
  BY DEF QueueSound, AddNewRequest, ArrivalQueue, SubQs
<1>2. b \in Bufs /\ Chained(b) = {r} /\ ReadyToGo(b)
  <2>1. ArrivalFlags[r] \in SUBSET Flags
    BY <1>1, ConfigFacts
  <2> QED BY <1>1, <2>1, NewIobufFacts
<1>3. \A t \in SubQs : r \notin HeldBy(q[t])
  BY <1>1, HeldIsHolds DEF InQueue
<1>4. r \notin WaitsIn(q) \cup (UNION OutsIn(q))
  BY <1>3 DEF WaitsIn, OutsIn, HeldBy
<1>5. q[s] \in Subqueues /\ StandsFor(q[s].list, W, O) /\ W \in SUBSET WaitsIn(q) /\ O \in SUBSET OutsIn(q)
  <2> HIDE DEF s
  <2> QED BY <1>1, SubqueueOf
<1>6. Chained(b) \cap (W \cup (UNION O)) = {}
  BY <1>1, <1>2, <1>3 DEF HeldBy
<1> HIDE DEF b, s, W, O
<1>7. TakesIn(ins, q[s], b, W, O)
  <2> DEFINE sq == q[s]
  <2>1. sq \in Subqueues /\ StandsFor(sq.list, W, O)
    BY <1>5
  <2> HIDE DEF sq, a
  <2>2. TakesIn(InsertNewRequest(a, sq, b), sq, b, W, O)
    BY <1>1, <1>2, <1>6, <2>1, InsertNewStands
  <2> QED BY <2>2 DEF sq, a
<1> HIDE DEF ins
<1> DEFINE new == ins.sq
           V == W \cup {r}
<1>8. new \in Subqueues /\ StandsFor(new.list, V, O)
  BY <1>2, <1>7 DEF TakesIn
<1>9. Foreign(q, s, V, O)
  <2>1. \A t \in SubQs : t # s => HeldBy(q[s]) \cap HeldBy(q[t]) = {}
    BY <1>1 DEF Sound
  <2> QED BY <1>3, <2>1 DEF Foreign, HeldBy, W, O
<1>10. q2 = [q EXCEPT ![s] = new]
  BY <1>1
<1> HIDE DEF new, V, q2, q
<1>11. Changed(q, q2, s, V, O)
  BY <1>1, <1>8, <1>9, <1>10, ChangedSubqueue
<1>12. Sound(q2) /\ WaitsIn(q2) = WaitsIn(q) \cup {r} /\ OutsIn(q2) = OutsIn(q)
  BY <1>5, <1>11 DEF Changed, W, O, V, q
<1> QED BY <1>4, <1>12 DEF Adding, q, q2

LEMMA HandOutStep ==
  ASSUME QueueSound, GetNextRequest
  PROVE  /\ Sound(queue') /\ HandingOut(queue, queue')
         /\ out' \in SUBSET [lead : Reqs, flags : SUBSET Flags]
<1>1. PICK s \in SubQs : \E i \in DOMAIN queue[s].list :
          /\ s = NextSubqueue /\ i = Pick(alg[s], queue[s])
          /\ queue' = [queue EXCEPT ![s] = Issued(alg[s], @, i, simtime)]
          /\ LET b == queue[s].list[i]
             IN out' = out \cup
                 {[lead |-> Head(b.iolist),
                   flags |-> IF ReqCnt(b) = 1 THEN flags[Head(b.iolist)] ELSE b.flags]}
  BY DEF GetNextRequest
<1>2. PICK i \in DOMAIN queue[s].list :
          /\ s = NextSubqueue /\ i = Pick(alg[s], queue[s])
          /\ queue' = [queue EXCEPT ![s] = Issued(alg[s], @, i, simtime)]
          /\ LET b == queue[s].list[i]
             IN out' = out \cup
                 {[lead |-> Head(b.iolist),
                   flags |-> IF ReqCnt(b) = 1 THEN flags[Head(b.iolist)] ELSE b.flags]}
  BY <1>1
<1> DEFINE q == queue
           q2 == queue'
           sq == q[s]
           a == alg[s]
           b == sq.list[i]
           C == Chained(b)
           W == WaitsOf(sq)
           O == OutsOf(sq)
           new == Issued(a, sq, i, simtime)
           V == W \ C
           P == O \cup {C}
<1>3. ConfigOk /\ Sound(q) /\ simtime \in 0..MaxTime /\ q2 = [q EXCEPT ![s] = new]
  BY <1>2 DEF QueueSound
<1>4. /\ sq \in Subqueues /\ StandsFor(sq.list, W, O) /\ a \in SchedAlgs
      /\ W \in SUBSET WaitsIn(q) /\ O \in SUBSET OutsIn(q)
  BY <1>3, SubqueueOf
<1>5. i \in ReadyAt(sq)
  <2>1. i \in ReadyAt(sq) \cup {0}
    BY <1>2, <1>3, <1>4, PickIsReady
  <2>2. i # 0
    BY <1>3, <1>4, ReadyOnes
  <2> QED BY <2>1, <2>2
<1>6. b \in Bufs /\ ReadyToGo(b)
  BY <1>3, <1>4, <1>5, ReadyOnes DEF ReadyAt
<1>7. HandsOutAt(sq, i, new)
  <2> HIDE DEF sq, a
  <2> QED BY <1>3, <1>4, <1>5, IssuedHandsOut
<1> HIDE DEF new
<1>8. new \in Subqueues /\ StandsFor(new.list, V, P)
  BY <1>7 DEF HandsOutAt
<1>9. C \in SUBSET W /\ C \in SUBSET Reqs /\ C # {}
  <2>1. C \in SUBSET W
    BY <1>5, <1>6 DEF WaitsOf, WaitsAt, ReadyAt
  <2> HIDE DEF C, b
  <2> QED BY <1>3, <1>6, <2>1, BufFacts DEF C
<1>10. Foreign(q, s, V, P)
  <2>1. (V \cup (UNION P)) \in SUBSET HeldBy(q[s])
    BY <1>9 DEF HeldBy
  <2> QED BY <1>3, <2>1, FewerIsForeign
<1>11. out' \in SUBSET [lead : Reqs, flags : SUBSET Flags]
  <2> DEFINE fl == IF ReqCnt(b) = 1 THEN flags[Head(b.iolist)] ELSE b.flags
             h == Head(b.iolist)
  <2>1. h \in Reqs /\ b \in IobufSet
    <3> HIDE DEF b
    <3> QED BY <1>3, <1>6, BufFacts
  <2>2. fl \in SUBSET Flags
    <3> HIDE DEF b
    <3> QED BY <2>1 DEF IobufSet, QueueSound
  <2>3. out' = out \cup {[lead |-> h, flags |-> fl]}
    BY <1>2
  <2> HIDE DEF h, fl
  <2>4. [lead |-> h, flags |-> fl] \in [lead : Reqs, flags : SUBSET Flags]
    BY <2>1, <2>2
  <2> QED BY <2>3, <2>4 DEF QueueSound
<1> HIDE DEF V, P, q, q2
<1>12. Changed(q, q2, s, V, P)
  BY <1>3, <1>8, <1>10, ChangedSubqueue
<1> HIDE DEF C
<1>13. /\ Sound(q2) /\ WaitsIn(q2) = (WaitsIn(q) \ W) \cup (W \ C)
       /\ OutsIn(q2) = (OutsIn(q) \ O) \cup (O \cup {C})
  BY <1>12 DEF Changed, V, P
<1> HIDE DEF W, O
<1>14. WaitsIn(q2) = WaitsIn(q) \ C /\ OutsIn(q2) = OutsIn(q) \cup {C}
  BY <1>4, <1>9, <1>13
<1>15. HandingOut(q, q2)
  BY <1>4, <1>9, <1>14 DEF HandingOut
<1> QED BY <1>11, <1>13, <1>15 DEF q, q2

\* Every subqueue may lose waiting requests.
LEMMA FewerWait ==
  ASSUME ConfigOk, NEW q, Sound(q), NEW q2 \in [SubQs -> Subqueues],
         \A t \in SubQs : \E W \in SUBSET WaitsOf(q[t]) : StandsFor(q2[t].list, W, OutsOf(q[t]))
  PROVE  Sound(q2) /\ WaitsIn(q2) \in SUBSET WaitsIn(q) /\ OutsIn(q2) = OutsIn(q)
<1>1. ASSUME NEW t \in SubQs
      PROVE  /\ StandsFor(q2[t].list, WaitsOf(q2[t]), OutsOf(q2[t]))
             /\ WaitsOf(q2[t]) \in SUBSET WaitsOf(q[t]) /\ OutsOf(q2[t]) = OutsOf(q[t])
  <2>1. PICK W \in SUBSET WaitsOf(q[t]) : StandsFor(q2[t].list, W, OutsOf(q[t]))
    OBVIOUS
  <2> DEFINE sq == q2[t]
             O == OutsOf(q[t])
  <2>2. StandsFor(sq.list, W, O)
    BY <2>1
  <2> HIDE DEF sq, O
  <2>3. W = WaitsOf(sq) /\ O = OutsOf(sq)
    BY <2>2, StandsForItself
  <2> QED BY <2>1, <2>2, <2>3 DEF sq, O
<1>2. ASSUME NEW t \in SubQs, NEW u \in SubQs, t # u PROVE HeldBy(q2[t]) \cap HeldBy(q2[u]) = {}
  <2>1. HeldBy(q[t]) \cap HeldBy(q[u]) = {}
    BY <1>2 DEF Sound
  <2>2. HeldBy(q2[t]) \in SUBSET HeldBy(q[t]) /\ HeldBy(q2[u]) \in SUBSET HeldBy(q[u])
    BY <1>1 DEF HeldBy
  <2> QED BY <2>1, <2>2
<1>3. Sound(q2)
  BY <1>1, <1>2 DEF Sound
<1>4. WaitsIn(q2) \in SUBSET WaitsIn(q)
  BY <1>1 DEF WaitsIn
<1>5. OutsIn(q2) = OutsIn(q)
  BY <1>1 DEF OutsIn
<1> QED BY <1>3, <1>4, <1>5

LEMMA DoneStep ==
  ASSUME QueueSound, NEW o \in out, PhysicalAccessDone(o)
  PROVE  /\ Sound(queue') /\ idledetect' \in BOOLEAN /\ fault' \in Faults /\ out' \in SUBSET out
         /\ queue' = queue \/ Completing(queue, queue')
<1> DEFINE q == queue
           q2 == queue'
           s == CompletionQueue(o.flags)
           sq == q[s]
           found == {i \in DOMAIN sq.list : /\ sq.list[i].state = "PENDING"
                                            /\ Head(sq.list[i].iolist) = o.lead}
           b(i) == sq.list[i]
           left(i) == [q EXCEPT ![s] = Completed(@, i)]
           hits(i) == [t \in SubQs |-> IF comboverlaps = 0 THEN {}
                                       ELSE Overlapped(left(i)[t], o.lead, ArrtimeMax(b(i)))]
<1>1. ConfigOk /\ Sound(q) /\ idledetect \in BOOLEAN /\ fault \in Faults /\ idlework \in BOOLEAN
  BY ConfigFacts DEF QueueSound
<1>2. s \in SubQs
  BY DEF CompletionQueue, SubQs
<1>3. \/ fault' = "not found pending" /\ UNCHANGED <<queue, out, idledetect>>
      \/ \E i \in found : CompleteWith(o, left(i), hits(i))
  BY DEF PhysicalAccessDone
<1>4. CASE fault' = "not found pending" /\ UNCHANGED <<queue, out, idledetect>>
  BY <1>1, <1>4 DEF Faults
<1>5. ASSUME NEW i \in found, CompleteWith(o, left(i), hits(i))
      PROVE  /\ Sound(q2) /\ idledetect' \in BOOLEAN /\ fault' \in Faults /\ out' \in SUBSET out
             /\ q2 = q \/ Completing(q, q2)
  <2>1. CASE fault' = "reqcnt" /\ UNCHANGED <<queue, out, idledetect>>
    BY <1>1, <2>1 DEF Faults
  <2>2. CASE /\ q2 = [t \in SubQs |-> Clobbered(alg[t], left(i)[t], hits(i)[t])]
             /\ out' = out \ {o}
             /\ idledetect' = (idlework /\ (idledetect \/ NumInQueue(queue') = 0))
             /\ UNCHANGED fault
    <3> DEFINE C == Chained(sq.list[i])
               W == WaitsOf(sq)
               O == OutsOf(sq)
               new == Completed(sq, i)
               P == O \ {C}
               q1 == [q EXCEPT ![s] = new]
    <3>1. /\ sq \in Subqueues /\ StandsFor(sq.list, W, O) /\ W \in SUBSET WaitsIn(q)
          /\ O \in SUBSET OutsIn(q)
      <4> HIDE DEF s
      <4> QED BY <1>1, <1>2, SubqueueOf
    <3>2. i \in DOMAIN sq.list /\ ~ReadyToGo(sq.list[i])
      BY <1>5 DEF ReadyToGo
    <3>3. C \in O
      BY <3>1, <3>2 DEF OutsOf, OutsAt
    <3>4. new \in Subqueues /\ StandsFor(new.list, W, P)
      <4> HIDE DEF sq
      <4> QED BY <1>1, <3>1, <3>2, CompletedLeaves
    <3>5. left(i) = q1
      OBVIOUS
    <3> DEFINE H == hits(i)
    <3>6. \A t \in SubQs : H[t] \in SUBSET ReadyAt(q1[t])
      BY <3>5 DEF Overlapped
    <3>7. q2 = [t \in SubQs |-> Clobbered(alg[t], q1[t], H[t])]
      BY <2>2, <3>5
    <3> HIDE DEF H, left, hits
    <3>8. Foreign(q, s, W, P)
      <4>1. (W \cup (UNION P)) \in SUBSET HeldBy(q[s])
        BY DEF HeldBy
      <4> HIDE DEF s
      <4> QED BY <1>1, <1>2, <4>1, FewerIsForeign
    <3>9. Changed(q, q1, s, W, P)
      <4>1. q1 = [q EXCEPT ![s] = new]
        OBVIOUS
      <4> HIDE DEF q1, q, new, s, W, P
      <4> QED BY <1>1, <1>2, <3>4, <3>8, <4>1, ChangedSubqueue
    <3>10. /\ Sound(q1) /\ WaitsIn(q1) = (WaitsIn(q) \ WaitsOf(q[s])) \cup W
           /\ OutsIn(q1) = (OutsIn(q) \ OutsOf(q[s])) \cup (O \ {C})
      BY <3>9 DEF Changed
    <3> HIDE DEF C
    <3>11. WaitsIn(q1) = WaitsIn(q) /\ OutsIn(q1) = OutsIn(q) \ {C} /\ C \in OutsIn(q)
      <4>1. WaitsOf(q[s]) = W /\ OutsOf(q[s]) = O
        OBVIOUS
      <4> HIDE DEF W, O
      <4> QED BY <3>1, <3>3, <3>10, <4>1
    <3> HIDE DEF q1
    <3>12. ASSUME NEW t \in SubQs
           PROVE  /\ Clobbered(alg[t], q1[t], H[t]) \in Subqueues
                  /\ \E V \in SUBSET WaitsOf(q1[t]) :
                        StandsFor(Clobbered(alg[t], q1[t], H[t]).list, V, OutsOf(q1[t]))
      <4> DEFINE r == q1[t]
                 a == alg[t]
                 h == H[t]
      <4>1. r \in Subqueues /\ StandsFor(r.list, WaitsOf(r), OutsOf(r)) /\ a \in SchedAlgs
        BY <1>1, <3>10, SubqueueOf
      <4>2. h \in SUBSET ReadyAt(r)
        BY <3>6
      <4> HIDE DEF r, a, h
      <4>3. /\ Clobbered(a, r, h) \in Subqueues
            /\ StandsFor(Clobbered(a, r, h).list, WaitsOf(r) \ AllAt(r.list, h), OutsOf(r))
        BY <1>1, <4>1, <4>2, ClobberedLeaves
      <4>4. WaitsOf(r) \ AllAt(r.list, h) \in SUBSET WaitsOf(r)
        OBVIOUS
      <4> QED BY <4>3, <4>4 DEF r, a, h
    <3>13. /\ q2 \in [SubQs -> Subqueues]
           /\ \A t \in SubQs : \E V \in SUBSET WaitsOf(q1[t]) :
                 StandsFor(q2[t].list, V, OutsOf(q1[t]))
      BY <3>7, <3>12
    <3> HIDE DEF q2, q
    <3>14. Sound(q2) /\ WaitsIn(q2) \in SUBSET WaitsIn(q1) /\ OutsIn(q2) = OutsIn(q1)
      BY <1>1, <3>10, <3>13, FewerWait
    <3>15. Completing(q, q2)
      BY <3>11, <3>14 DEF Completing
    <3>16. idledetect' \in BOOLEAN /\ fault' \in Faults /\ out' \in SUBSET out
      BY <1>1, <2>2
    <3> QED BY <3>14, <3>15, <3>16
  <2>3. \/ fault' = "reqcnt" /\ UNCHANGED <<queue, out, idledetect>>
        \/ /\ q2 = [t \in SubQs |-> Clobbered(alg[t], left(i)[t], hits(i)[t])]
           /\ out' = out \ {o}
           /\ idledetect' = (idlework /\ (idledetect \/ NumInQueue(queue') = 0))
           /\ UNCHANGED fault
    <3> HIDE DEF left, hits
    <3> QED BY <1>5 DEF CompleteWith
  <2> QED BY <2>1, <2>2, <2>3
<1> QED BY <1>3, <1>4, <1>5

LEMMA RaiseStep ==
  ASSUME QueueSound, NEW r \in Reqs, RaisePriority(r)
  PROVE  Kept(queue, queue') /\ flags' \in [Reqs -> SUBSET Flags]
<1> DEFINE s == RaisedFrom(r)
           d == "priority"
           f == "TIME_CRITICAL"
           q == queue
           q2 == queue'
<1>1. ConfigOk /\ Sound(q) /\ flags \in [Reqs -> SUBSET Flags] /\ f \in Flags
  BY DEF QueueSound, Flags
<1>2. s \in SubQs /\ s # d /\ d \in SubQs
  BY DEF RaisedFrom, SubQs
<1>3. PICK i \in DOMAIN q[s].list :
         /\ \/ q[s].list[i].state = "WAITING" /\ q2 = Raised(Move(q, s, d, i))
            \/ q2 = SetBufFlag(q, s, i, f)
         /\ flags' \in {flags, [flags EXCEPT ![r] = @ \cup {f}]}
  BY DEF RaisePriority
<1>4. flags' \in [Reqs -> SUBSET Flags]
  BY <1>1, <1>3
<1> HIDE DEF s, d, f
<1>5. CASE q2 = SetBufFlag(q, s, i, f)
  <2> HIDE DEF q, q2
  <2>1. Kept(q, q2)
    BY <1>1, <1>2, <1>3, <1>5, SetBufFlagKeeps
  <2> QED BY <1>4, <2>1 DEF q, q2
<1>6. CASE q[s].list[i].state = "WAITING" /\ q2 = Raised(Move(q, s, d, i))
  <2> DEFINE m == Move(q, s, d, i)
             q1 == m.q
             j == m.at
  <2>1. MovesTo(q, m, s, d)
    <3>1. ReadyToGo(q[s].list[i])
      BY <1>6 DEF ReadyToGo
    <3> HIDE DEF q
    <3> QED BY <1>1, <1>2, <3>1, MoveKeeps
  <2>2. q2 = IF m.absorbed THEN q1 ELSE SetBufFlag(q1, d, j, f)
    BY <1>6 DEF Raised, d, f
  <2> HIDE DEF m, q, q2
  <2>3. Kept(q, q1) /\ Sound(q1) /\ j \in DOMAIN q1[d].list /\ m.absorbed \in BOOLEAN
    BY <2>1 DEF MovesTo, Kept
  <2> HIDE DEF q1, j
  <2>4. Kept(q1, SetBufFlag(q1, d, j, f))
    BY <1>1, <1>2, <2>3, SetBufFlagKeeps
  <2>5. Kept(q, q2)
    BY <2>2, <2>3, <2>4 DEF Kept
  <2> QED BY <1>4, <2>5 DEF q, q2
<1> QED BY <1>3, <1>5, <1>6

LEMMA TickStep ==
  ASSUME QueueSound, Tick
  PROVE  Kept(queue, queue') /\ flags' \in [Reqs -> SUBSET Flags] /\ fault' \in Faults
<1> DEFINE done == TimeoutsDone
<1>1. TicksTo(done)
  BY TimeoutsDoneKeep
<1>2. \/ fault' = "null list" /\ UNCHANGED <<queue, flags>>
      \/ queue' = done.q /\ flags' = done.flags /\ UNCHANGED fault
  BY DEF Tick
<1> HIDE DEF done
<1>3. CASE fault' = "null list" /\ UNCHANGED <<queue, flags>>
  BY <1>3 DEF QueueSound, Kept, Faults
<1>4. CASE queue' = done.q /\ flags' = done.flags /\ UNCHANGED fault
  BY <1>1, <1>4 DEF QueueSound, TicksTo
<1> QED BY <1>2, <1>3, <1>4

\* What a step does, as the pool sees it
PoolStep(q, q2) ==
    \/ Adding(q, q2) \/ HandingOut(q, q2) \/ Completing(q, q2)
    \/ WaitsIn(q2) = WaitsIn(q) /\ OutsIn(q2) = OutsIn(q)

LEMMA SoundInit == Init => QueueSound /\ WaitsIn(queue) = {} /\ OutsIn(queue) = {}
<1> SUFFICES ASSUME Init PROVE QueueSound /\ WaitsIn(queue) = {} /\ OutsIn(queue) = {}
  OBVIOUS
<1>1. ConfigOk
  BY DEF Init, ConfigOk
<1> DEFINE sq == EmptySubqueue
<1>2. /\ sq \in Subqueues /\ sq.list = <<>> /\ DOMAIN sq.list = {}
  <2>1. 0 \in 0..(numblocks - 1)
    BY <1>1, ConfigFacts
  <2>2. <<>> \in Seq(Bufs) /\ DOMAIN <<>> = {}
    OBVIOUS
  <2> QED BY <2>1, <2>2 DEF EmptySubqueue, Subqueues
<1> HIDE DEF sq
<1>3. WaitsOf(sq) = {} /\ OutsOf(sq) = {} /\ HeldBy(sq) = {}
  BY <1>2 DEF WaitsOf, OutsOf, HeldBy, WaitsAt, OutsAt
<1>4. StandsFor(sq.list, WaitsOf(sq), OutsOf(sq))
  BY <1>2, <1>3 DEF StandsFor, ApartAt, WaitsAt, OutsAt, Subqueues
<1>5. queue = [s \in SubQs |-> sq]
  BY DEF Init, sq
<1>6. Sound(queue) /\ WaitsIn(queue) = {} /\ OutsIn(queue) = {}
  BY <1>2, <1>3, <1>4, <1>5 DEF Sound, WaitsIn, OutsIn
<1>7. /\ flags \in [Reqs -> SUBSET Flags] /\ arrived \in [Reqs -> 0..MaxTime]
      /\ out \in SUBSET [lead : Reqs, flags : SUBSET Flags]
      /\ idledetect \in BOOLEAN /\ simtime \in 0..MaxTime /\ fault \in Faults
  <2>1. ArrivalFlags \in [Reqs -> SUBSET Flags] /\ MaxTime \in Nat
    BY <1>1, ConfigFacts
  <2>2. flags \in [Reqs -> SUBSET Flags]
    BY <2>1 DEF Init
  <2>3. 0 \in 0..MaxTime
    BY <2>1
  <2>4. arrived \in [Reqs -> 0..MaxTime] /\ simtime \in 0..MaxTime
    BY <2>3 DEF Init
  <2> QED BY <2>2, <2>4 DEF Init, Faults
<1> QED BY <1>1, <1>6, <1>7 DEF QueueSound

LEMMA SameConfigSameSound ==
  ASSUME config' = config
  PROVE  Sound(queue') <=> Sound(queue)'
<1>1. Bufs' = Bufs
  BY SameConfigSameBufs
<1>2. Subqueues' = Subqueues
  BY <1>1 DEF Subqueues, numblocks
<1> QED BY <1>1, <1>2 DEF Sound, StandsFor, WaitsOf, OutsOf, HeldBy, WaitsAt, OutsAt, ApartAt

\* Every step keeps the invariant and is one of the pool.
LEMMA SoundStep == QueueSound /\ [Next]_vars => QueueSound' /\ PoolStep(queue, queue')
<1> SUFFICES ASSUME QueueSound, [Next]_vars PROVE QueueSound' /\ PoolStep(queue, queue')
  OBVIOUS
<1> DEFINE Typed == /\ flags' \in [Reqs -> SUBSET Flags] /\ arrived' \in [Reqs -> 0..MaxTime]
                    /\ out' \in SUBSET [lead : Reqs, flags : SUBSET Flags]
                    /\ idledetect' \in BOOLEAN /\ simtime' \in 0..MaxTime /\ fault' \in Faults
           Goal == config' = config /\ Sound(queue') /\ Typed /\ PoolStep(queue, queue')
<1>0. /\ ConfigOk /\ Sound(queue) /\ flags \in [Reqs -> SUBSET Flags] /\ arrived \in [Reqs -> 0..MaxTime]
      /\ out \in SUBSET [lead : Reqs, flags : SUBSET Flags] /\ idledetect \in BOOLEAN
      /\ simtime \in 0..MaxTime /\ fault \in Faults /\ MaxTime \in Nat
      /\ ArrivalFlags \in [Reqs -> SUBSET Flags] /\ idlework \in BOOLEAN
  BY ConfigFacts DEF QueueSound
<1>1. ASSUME NEW r \in Reqs, AddNewRequest(r) PROVE Goal
  <2>1. Sound(queue') /\ Adding(queue, queue')
    BY <1>1, AddStep
  <2>2. config' = config /\ Typed
    BY <1>0, <1>1 DEF AddNewRequest
  <2> QED BY <2>1, <2>2 DEF PoolStep
<1>2. ASSUME NEW r \in Reqs, RaisePriority(r) PROVE Goal
  <2>1. Kept(queue, queue') /\ flags' \in [Reqs -> SUBSET Flags]
    BY <1>2, RaiseStep
  <2>2. config' = config /\ Typed
    BY <1>0, <1>2, <2>1 DEF RaisePriority
  <2> QED BY <2>1, <2>2 DEF PoolStep, Kept
<1>3. ASSUME GetNextRequest PROVE Goal
  <2>1. /\ Sound(queue') /\ HandingOut(queue, queue')
        /\ out' \in SUBSET [lead : Reqs, flags : SUBSET Flags]
    BY <1>3, HandOutStep
  <2>2. config' = config /\ Typed
    BY <1>0, <1>3, <2>1 DEF GetNextRequest
  <2> QED BY <2>1, <2>2 DEF PoolStep
<1>4. ASSUME NEW o \in out, PhysicalAccessDone(o) PROVE Goal
  <2>1. /\ Sound(queue') /\ idledetect' \in BOOLEAN /\ fault' \in Faults /\ out' \in SUBSET out
        /\ queue' = queue \/ Completing(queue, queue')
    BY <1>4, DoneStep
  <2>2. config' = config /\ Typed
    BY <1>0, <1>4, <2>1 DEF PhysicalAccessDone
  <2> QED BY <2>1, <2>2 DEF PoolStep
<1>5. ASSUME Tick PROVE Goal
  <2>1. Kept(queue, queue') /\ flags' \in [Reqs -> SUBSET Flags] /\ fault' \in Faults
    BY <1>5, TickStep
  <2>2. config' = config /\ Typed
    BY <1>0, <1>5, <2>1 DEF Tick
  <2> QED BY <2>1, <2>2 DEF PoolStep, Kept
<1>6. ASSUME IdleDetected PROVE Goal
  BY <1>0, <1>6 DEF IdleDetected, PoolStep
<1>7. ASSUME ResetIdledetecter PROVE Goal
  BY <1>0, <1>7 DEF ResetIdledetecter, PoolStep
<1>8. ASSUME Advance PROVE Goal
  <2>1. simtime' \in 0..MaxTime
    BY <1>0, <1>8 DEF Advance
  <2> QED BY <1>0, <1>8, <2>1 DEF Advance, PoolStep
<1>9. ASSUME UNCHANGED vars PROVE Goal
  BY <1>0, <1>9 DEF vars, PoolStep
<1>10. Goal
  <2> HIDE DEF Goal
  <2> QED BY <1>1, <1>2, <1>3, <1>4, <1>5, <1>6, <1>7, <1>8, <1>9 DEF Next
<1>11. Sound(queue)'
  BY <1>10, SameConfigSameSound
<1>12. QueueSound'
  <2>1. ConfigOk' /\ MaxTime' = MaxTime
    BY <1>0, <1>10 DEF ConfigOk, MaxTime
  <2> QED BY <1>10, <1>11, <2>1 DEF QueueSound
<1> QED BY <1>10, <1>12

\* A request is in the queue at most once, and the accesses on their way are
\* those that were handed out (QueueSound), in every configuration.
THEOREM QueueIsSound == Spec => []QueueSound
<1>1. Init => QueueSound
  BY SoundInit
<1>2. QueueSound /\ [Next]_vars => QueueSound'
  BY SoundStep
<1> QED BY <1>1, <1>2, PTL DEF Spec

\* The queue implements the request pool (ImplementsPool): whatever its
\* disciplines and its priority, timeout and overlap schemes, no request that
\* was added is lost, handed out twice, or completed in another grouping.
THEOREM QueueImplementsPool == Spec => ImplementsPool
<1>1. Init => Pool!PoolInit
  BY SoundInit, PoolView DEF Pool!PoolInit
<1>2. QueueSound /\ [Next]_vars => [Pool!PoolNext]_(Pool!poolvars)
  <2> SUFFICES ASSUME QueueSound, [Next]_vars PROVE [Pool!PoolNext]_(Pool!poolvars)
    OBVIOUS
  <2> DEFINE W == WaitsIn(queue)
             O == OutsIn(queue)
             W2 == WaitsIn(queue')
             O2 == OutsIn(queue')
             Wp == UNION {Waiting(s) : s \in SubQs}
             Op == UNION {{Chained(b) : b \in {c \in Iobufs(s) : ~ReadyToGo(c)}} : s \in SubQs}
  <2>1. PoolStep(queue, queue')
    BY SoundStep
  <2>2. Wp = W /\ Op = O
    BY PoolView
  <2>3. Wp' = W2 /\ Op' = O2
    <3>1. (/\ Wp = WaitsIn(queue) /\ Op = OutsIn(queue))'
      BY PoolView, PTL
    <3>2. WaitsIn(queue)' = W2 /\ OutsIn(queue)' = O2
      BY DEF WaitsIn, OutsIn, WaitsOf, OutsOf, WaitsAt, OutsAt
    <3> QED BY <3>1, <3>2
  <2>4. CASE Adding(queue, queue')
    <3>1. PICK r \in Reqs : r \notin W \cup (UNION O) /\ W2 = W \cup {r} /\ O2 = O
      BY <2>4 DEF Adding
    <3> HIDE DEF W, O, W2, O2
    <3>2. Pool!Add(r)
      BY <2>2, <2>3, <3>1 DEF Pool!Add, Pool!Present
    <3> QED BY <3>2 DEF Pool!PoolNext
  <2>5. CASE HandingOut(queue, queue')
    <3>1. PICK S \in SUBSET Reqs : S # {} /\ S \in SUBSET W /\ W2 = W \ S /\ O2 = O \cup {S}
      BY <2>5 DEF HandingOut
    <3> HIDE DEF W, O, W2, O2
    <3>2. Pool!HandOut(S)
      BY <2>2, <2>3, <3>1 DEF Pool!HandOut
    <3> QED BY <3>2 DEF Pool!PoolNext
  <2>6. CASE Completing(queue, queue')
    <3>1. PICK S \in O : W2 \in SUBSET W /\ O2 = O \ {S}
      BY <2>6 DEF Completing
    <3> HIDE DEF W, O, W2, O2
    <3> DEFINE T == W \ W2
    <3>2. T \in SUBSET W /\ W2 = W \ T
      BY <3>1
    <3> HIDE DEF T
    <3>3. Pool!Complete(S, T)
      BY <2>2, <2>3, <3>1, <3>2 DEF Pool!Complete
    <3>4. S \in Op /\ T \in SUBSET Wp
      BY <2>2, <3>1, <3>2
    <3> QED BY <3>3, <3>4 DEF Pool!PoolNext
  <2>7. CASE W2 = W /\ O2 = O
    <3> HIDE DEF W, O, W2, O2
    <3> QED BY <2>2, <2>3, <2>7 DEF Pool!poolvars
  <2> QED BY <2>1, <2>4, <2>5, <2>6, <2>7 DEF PoolStep
<1> QED BY <1>1, <1>2, QueueIsSound, PTL DEF Spec, ImplementsPool, Pool!PoolSpec


(***************************************************************************)
(* Accounts: what the counters of a subqueue count in its list.             *)
(***************************************************************************)
Counts(l)    == [i \in DOMAIN l |-> ReqCnt(l[i])]
Num(l, J)    == SumOf(Counts(l), J)
PendAt(l, J) == {j \in J : ~ReadyToGo(l[j])}

\* The accesses on their way, each with the time it started
RunsAt(l, J) == {<<l[j].iolist, l[j].starttime>> : j \in PendAt(l, J)}

\* At the places J of l: n requests, p accesses out, which hold c requests, and
\* are those of R
Account(l, J, n, p, c, R) ==
    /\ n = Num(l, J) /\ p = Cardinality(PendAt(l, J)) /\ c = Num(l, PendAt(l, J))
    /\ R = RunsAt(l, J)

LEMMA AccountTypes ==
  ASSUME ConfigOk, NEW l \in Seq(Bufs), NEW J \in SUBSET DOMAIN l
  PROVE  /\ Counts(l) \in [DOMAIN l -> Nat] /\ IsFiniteSet(J) /\ IsFiniteSet(PendAt(l, J))
         /\ PendAt(l, J) \in SUBSET J /\ Cardinality(J) \in Nat /\ Cardinality(PendAt(l, J)) \in Nat
         /\ Num(l, J) \in Nat /\ Num(l, PendAt(l, J)) \in Nat
         /\ \A i \in DOMAIN l : Counts(l)[i] = ReqCnt(l[i]) /\ ReqCnt(l[i]) \in Nat \ {0}
<1>1. DOMAIN l = 1..Len(l) /\ Len(l) \in Nat
  OBVIOUS
<1>2. \A i \in DOMAIN l : Counts(l)[i] = ReqCnt(l[i]) /\ ReqCnt(l[i]) \in Nat \ {0}
  BY <1>1, BufFacts DEF Counts
<1>3. Counts(l) \in [DOMAIN l -> Nat]
  BY <1>2 DEF Counts
<1>4. IsFiniteSet(DOMAIN l)
  <2> DEFINE n == Len(l)
  <2>1. n \in Nat /\ DOMAIN l = 1..n
    BY <1>1
  <2> HIDE DEF n
  <2>2. 1 \in Int /\ n \in Int
    BY <2>1
  <2> QED BY <2>1, <2>2, FS_Interval
<1>5. IsFiniteSet(J)
  BY <1>4, FS_Subset
<1>6. PendAt(l, J) \in SUBSET J
  BY DEF PendAt
<1> DEFINE P == PendAt(l, J)
           v == Counts(l)
           D == DOMAIN l
<1>7. IsFiniteSet(P)
  BY <1>5, <1>6, FS_Subset
<1>8. Cardinality(J) \in Nat /\ Cardinality(P) \in Nat
  BY <1>5, <1>7, FS_CardinalityType
<1>9. v \in [D -> Nat] /\ J \in SUBSET D /\ P \in SUBSET D /\ IsFiniteSet(J) /\ IsFiniteSet(P)
  BY <1>3, <1>5, <1>6, <1>7
<1> HIDE DEF P, v, D
<1>10. SumOf(v, J) \in Nat /\ SumOf(v, P) \in Nat
  <2>1. SumFactsAt(v, J) /\ SumFactsAt(v, P)
    BY <1>9, SumFacts
  <2> QED BY <2>1 DEF SumFactsAt
<1> QED BY <1>2, <1>3, <1>5, <1>6, <1>7, <1>8, <1>10 DEF Num, P, v

\* Renumbering the places does not change the account.
LEMMA RenumberedAccount ==
  ASSUME ConfigOk, NEW l \in Seq(Bufs), NEW m \in Seq(Bufs), NEW J \in SUBSET DOMAIN l,
         NEW K \in SUBSET DOMAIN m, Renumbered(m, K, l, J), NEW n, NEW p, NEW c, NEW R,
         Account(l, J, n, p, c, R)
  PROVE  Account(m, K, n, p, c, R)
<1>1. PICK h : Renumbers(h, m, K, l, J)
  BY DEF Renumbered
<1>2. /\ h \in [K -> J] /\ \A i, j \in K : h[i] = h[j] => i = j
      /\ \A j \in J : \E k \in K : h[k] = j
      /\ \A k \in K : m[k] = l[h[k]]
  BY <1>1 DEF Renumbers
<1> DEFINE P == PendAt(m, K)
           Q == PendAt(l, J)
<1>3. /\ Counts(l) \in [DOMAIN l -> Nat] /\ Counts(m) \in [DOMAIN m -> Nat]
      /\ IsFiniteSet(K) /\ IsFiniteSet(P) /\ P \in SUBSET K /\ Q \in SUBSET J
      /\ \A i \in DOMAIN l : Counts(l)[i] = ReqCnt(l[i])
      /\ \A i \in DOMAIN m : Counts(m)[i] = ReqCnt(m[i])
  BY AccountTypes
<1>4. \A k \in K : Counts(m)[k] = Counts(l)[h[k]]
  BY <1>2, <1>3
<1>5. {h[k] : k \in K} = J
  BY <1>2
<1>6. {h[k] : k \in P} = Q
  <2>1. \A k \in P : h[k] \in Q
    BY <1>2 DEF PendAt
  <2>2. \A j \in Q : \E k \in P : h[k] = j
    BY <1>2 DEF PendAt
  <2> QED BY <2>1, <2>2
<1>7. Num(m, K) = Num(l, J) /\ Num(m, P) = Num(l, Q)
  <2> DEFINE u == Counts(m)
             v == Counts(l)
             D == DOMAIN l
  <2>1. Renames(h, K, D, u, v)
    <3>1. DOMAIN u = DOMAIN m
      BY DEF Counts
    <3> QED BY <1>2, <1>3, <1>4, <3>1 DEF Renames
  <2>2. K \in SUBSET K /\ P \in SUBSET K
    BY <1>3
  <2> HIDE DEF u, v, D, P
  <2>3. SumOf(u, K) = SumOf(v, ImageOf(h, K)) /\ SumOf(u, P) = SumOf(v, ImageOf(h, P))
    BY <2>1, <2>2, SumRenamed
  <2> QED BY <1>5, <1>6, <2>3 DEF Num, u, v, ImageOf
<1>8. Cardinality(P) = Cardinality(Q)
  <2> DEFINE f == [k \in P |-> h[k]]
  <2>1. f \in [P -> Q]
    BY <1>6
  <2>2. \A i, j \in P : f[i] = f[j] => i = j
    BY <1>2, <1>3
  <2>3. \A j \in Q : \E k \in P : f[k] = j
    BY <1>6
  <2> HIDE DEF f, P, Q
  <2>4. f \in Bijection(P, Q)
    BY <2>1, <2>2, <2>3 DEF Bijection, Injection, Surjection, IsInjective
  <2>5. ExistsBijection(P, Q)
    BY <2>4 DEF ExistsBijection
  <2> QED BY <1>3, <2>5, FS_Bijection
<1>9. RunsAt(m, K) = RunsAt(l, J)
  <2>1. ASSUME NEW k \in P PROVE <<m[k].iolist, m[k].starttime>> \in RunsAt(l, J)
    <3>1. h[k] \in Q /\ m[k] = l[h[k]]
      BY <1>2, <1>3, <1>6
    <3> QED BY <3>1 DEF RunsAt
  <2>2. ASSUME NEW j \in Q PROVE <<l[j].iolist, l[j].starttime>> \in RunsAt(m, K)
    <3>1. PICK k \in P : h[k] = j
      BY <1>6
    <3>2. m[k] = l[j]
      BY <1>2, <1>3, <3>1
    <3> QED BY <3>2 DEF RunsAt
  <2> QED BY <2>1, <2>2 DEF RunsAt
<1> QED BY <1>7, <1>8, <1>9 DEF Account

\* The account of one place more
LEMMA AccountOneMore ==
  ASSUME ConfigOk, NEW l \in Seq(Bufs), NEW J \in SUBSET DOMAIN l, NEW i \in DOMAIN l,
         ~(i \in J), NEW n, NEW p, NEW c, NEW R, Account(l, J, n, p, c, R)
  PROVE  /\ n \in Nat /\ p \in Nat /\ c \in Nat
         /\ ReadyToGo(l[i]) => Account(l, J \cup {i}, n + ReqCnt(l[i]), p, c, R)
         /\ ~ReadyToGo(l[i]) => Account(l, J \cup {i}, n + ReqCnt(l[i]), p + 1, c + ReqCnt(l[i]),
                                        R \cup {<<l[i].iolist, l[i].starttime>>})
<1> DEFINE v == Counts(l)
           D == DOMAIN l
           P == PendAt(l, J)
<1>1. /\ v \in [D -> Nat] /\ IsFiniteSet(J) /\ IsFiniteSet(P) /\ P \in SUBSET J /\ J \in SUBSET D
      /\ P \in SUBSET D /\ i \in D /\ i \notin J /\ i \notin P /\ v[i] = ReqCnt(l[i])
      /\ n \in Nat /\ p \in Nat /\ c \in Nat
  BY AccountTypes DEF Account
<1>2. SumOf(v, J) = n /\ SumOf(v, P) = c /\ Cardinality(P) = p
  BY DEF Account, Num
<1>3. Num(l, J \cup {i}) = n + ReqCnt(l[i])
  <2> HIDE DEF v, D, P
  <2>1. SumOf(v, J \cup {i}) = SumOf(v, J) + v[i]
    BY <1>1, SumOneMore
  <2> QED BY <1>1, <1>2, <2>1 DEF Num, v
<1>4. CASE ReadyToGo(l[i])
  <2>1. PendAt(l, J \cup {i}) = PendAt(l, J)
    BY <1>4 DEF PendAt
  <2> QED BY <1>1, <1>3, <1>4, <2>1 DEF Account, RunsAt
<1>5. CASE ~ReadyToGo(l[i])
  <2>1. PendAt(l, J \cup {i}) = P \cup {i}
    BY <1>5 DEF PendAt
  <2>2. Num(l, P \cup {i}) = c + ReqCnt(l[i])
    <3> HIDE DEF v, D, P
    <3>1. SumOf(v, P \cup {i}) = SumOf(v, P) + v[i]
      BY <1>1, SumOneMore
    <3> QED BY <1>1, <1>2, <3>1 DEF Num, v
  <2>3. Cardinality(P \cup {i}) = p + 1
    <3> HIDE DEF v, D, P
    <3> QED BY <1>1, <1>2, FS_AddElement
  <2>4. RunsAt(l, J \cup {i}) = R \cup {<<l[i].iolist, l[i].starttime>>}
    BY <2>1 DEF RunsAt, Account
  <2> HIDE DEF P
  <2> QED BY <1>1, <1>3, <1>5, <2>1, <2>2, <2>3, <2>4 DEF Account
<1> QED BY <1>4, <1>5

\* Every list has an account.
LEMMA AccountExists ==
  ASSUME NEW l, NEW J
  PROVE  Account(l, J, Num(l, J), Cardinality(PendAt(l, J)), Num(l, PendAt(l, J)), RunsAt(l, J))
BY DEF Account

\* All of l is accounted for by n, p, c and R.
Books(l, n, p, c, R) == Account(l, DOMAIN l, n, p, c, R)

\* What the account of J is when i leaves it
Without(l, J, i, n, p, c, R) ==
    /\ n \in Nat /\ p \in Nat /\ c \in Nat
    /\ ReadyToGo(l[i]) => Account(l, J, n - ReqCnt(l[i]), p, c, R)
    /\ ~ReadyToGo(l[i]) =>
          \E Q : /\ Account(l, J, n - ReqCnt(l[i]), p - 1, c - ReqCnt(l[i]), Q)
                 /\ R = Q \cup {<<l[i].iolist, l[i].starttime>>}

LEMMA BooksWithout ==
  ASSUME ConfigOk, NEW l \in Seq(Bufs), NEW i \in DOMAIN l, NEW n, NEW p, NEW c, NEW R,
         Books(l, n, p, c, R), NEW J, J = DOMAIN l \ {i}
  PROVE  Without(l, J, i, n, p, c, R)
<1> DEFINE n0 == Num(l, J)
           p0 == Cardinality(PendAt(l, J))
           c0 == Num(l, PendAt(l, J))
           R0 == RunsAt(l, J)
           k == ReqCnt(l[i])
<1>1. Account(l, J, n0, p0, c0, R0)
  BY AccountExists
<1>2. J \in SUBSET DOMAIN l /\ ~(i \in J) /\ J \cup {i} = DOMAIN l
  OBVIOUS
<1>3. k \in Nat
  BY AccountTypes
<1> HIDE DEF n0, p0, c0, R0, k
<1>4. /\ n0 \in Nat /\ p0 \in Nat /\ c0 \in Nat
      /\ ReadyToGo(l[i]) => Account(l, J \cup {i}, n0 + ReqCnt(l[i]), p0, c0, R0)
      /\ ~ReadyToGo(l[i]) => Account(l, J \cup {i}, n0 + ReqCnt(l[i]), p0 + 1, c0 + ReqCnt(l[i]),
                                     R0 \cup {<<l[i].iolist, l[i].starttime>>})
  BY <1>1, <1>2, AccountOneMore
<1>5. CASE ReadyToGo(l[i])
  <2>1. n = n0 + k /\ p = p0 /\ c = c0 /\ R = R0
    BY <1>2, <1>4, <1>5 DEF Books, Account, k
  <2>2. n0 = n - k
    BY <1>3, <1>4, <2>1
  <2> QED BY <1>1, <1>3, <1>4, <1>5, <2>1, <2>2 DEF k, Without
<1>6. CASE ~ReadyToGo(l[i])
  <2>1. n = n0 + k /\ p = p0 + 1 /\ c = c0 + k /\ R = R0 \cup {<<l[i].iolist, l[i].starttime>>}
    BY <1>2, <1>4, <1>6 DEF Books, Account, k
  <2>2. n0 = n - k /\ p0 = p - 1 /\ c0 = c - k
    BY <1>3, <1>4, <2>1
  <2>3. n \in Nat /\ p \in Nat /\ c \in Nat
    BY <1>3, <1>4, <2>1
  <2>4. Account(l, J, n - k, p - 1, c - k, R0)
    BY <1>1, <2>2
  <2> QED BY <1>6, <2>1, <2>3, <2>4 DEF k, Without
<1> QED BY <1>5, <1>6


LEMMA InsertBooks ==
  ASSUME ConfigOk, NEW l \in Seq(Bufs), NEW b \in Bufs, ReadyToGo(b), NEW q \in 1..(Len(l) + 1),
         NEW n, NEW p, NEW c, NEW R, Books(l, n, p, c, R)
  PROVE  Books(InsertAt(l, q, b), n + ReqCnt(b), p, c, R)
<1> DEFINE m == InsertAt(l, q, b)
           K == DOMAIN m \ {q}
<1>1. m \in Seq(Bufs) /\ Len(m) = Len(l) + 1 /\ m[q] = b
  BY InsertAtFacts
<1>2. Renumbered(m, K, l, DOMAIN l)
  BY InsertRenumbers
<1> HIDE DEF m
<1>3. q \in DOMAIN m /\ ~(q \in K) /\ K \cup {q} = DOMAIN m /\ K \in SUBSET DOMAIN m
  <2>1. DOMAIN m = 1..(Len(l) + 1)
    BY <1>1
  <2> QED BY <2>1
<1>4. Account(m, K, n, p, c, R)
  <2>1. Account(l, DOMAIN l, n, p, c, R) /\ DOMAIN l \in SUBSET DOMAIN l
    BY DEF Books
  <2> HIDE DEF K
  <2> QED BY <1>1, <1>2, <1>3, <2>1, RenumberedAccount
<1>5. Account(m, K \cup {q}, n + ReqCnt(b), p, c, R)
  <2>1. ReadyToGo(m[q])
    BY <1>1
  <2> HIDE DEF K
  <2>2. ReadyToGo(m[q]) => Account(m, K \cup {q}, n + ReqCnt(m[q]), p, c, R)
    BY <1>1, <1>3, <1>4, AccountOneMore
  <2> QED BY <1>1, <2>1, <2>2
<1> QED BY <1>3, <1>5 DEF Books, m

\* What the books say of m, which is l without the iobuf at i
Removes(l, m, i, n, p, c, R) ==
    /\ n \in Nat /\ p \in Nat /\ c \in Nat
    /\ ReadyToGo(l[i]) => Books(m, n - ReqCnt(l[i]), p, c, R)
    /\ ~ReadyToGo(l[i]) => \E Q : /\ Books(m, n - ReqCnt(l[i]), p - 1, c - ReqCnt(l[i]), Q)
                                  /\ Q \in SUBSET R

LEMMA RemoveBooks ==
  ASSUME ConfigOk, NEW l \in Seq(Bufs), NEW i \in DOMAIN l,
         NEW n, NEW p, NEW c, NEW R, Books(l, n, p, c, R)
  PROVE  Removes(l, RemoveAt(l, i), i, n, p, c, R)
<1> DEFINE m == RemoveAt(l, i)
           J == DOMAIN l \ {i}
<1>1. m \in Seq(Bufs)
  BY RemoveAtFacts
<1>2. Renumbered(m, DOMAIN m, l, J)
  BY RemoveRenumbers
<1>3. J = DOMAIN l \ {i} /\ J \in SUBSET DOMAIN l /\ DOMAIN m \in SUBSET DOMAIN m
  OBVIOUS
<1> HIDE DEF m, J
<1>4. Without(l, J, i, n, p, c, R)
  BY <1>3, BooksWithout
<1>5. ASSUME NEW n0, NEW p0, NEW c0, NEW Q, Account(l, J, n0, p0, c0, Q)
      PROVE  Books(m, n0, p0, c0, Q)
  BY <1>1, <1>2, <1>3, <1>5, RenumberedAccount DEF Books
<1>6. ReadyToGo(l[i]) => Books(m, n - ReqCnt(l[i]), p, c, R)
  BY <1>4, <1>5 DEF Without
<1>7. ASSUME ~ReadyToGo(l[i])
      PROVE  \E Q : /\ Books(m, n - ReqCnt(l[i]), p - 1, c - ReqCnt(l[i]), Q)
                    /\ Q \in SUBSET R
  BY <1>4, <1>5, <1>7 DEF Without
<1> QED BY <1>4, <1>6, <1>7 DEF m, Removes, Without

\* What the books say of m, where e took the place of the iobuf at i
Replaces(l, m, i, e, n, p, c, R) ==
    /\ n \in Nat /\ p \in Nat /\ c \in Nat
    /\ ReadyToGo(l[i]) /\ ReadyToGo(e) => Books(m, n - ReqCnt(l[i]) + ReqCnt(e), p, c, R)
    /\ ReadyToGo(l[i]) /\ ~ReadyToGo(e) =>
          Books(m, n - ReqCnt(l[i]) + ReqCnt(e), p + 1, c + ReqCnt(e),
                R \cup {<<e.iolist, e.starttime>>})
    /\ ~ReadyToGo(l[i]) /\ ~ReadyToGo(e) /\ e.iolist = l[i].iolist /\ e.starttime = l[i].starttime
          => Books(m, n, p, c, R)

LEMMA ReplaceBooks ==
  ASSUME ConfigOk, NEW l \in Seq(Bufs), NEW i \in DOMAIN l, NEW e \in Bufs,
         NEW m, m = [l EXCEPT ![i] = e],
         NEW n, NEW p, NEW c, NEW R, Books(l, n, p, c, R)
  PROVE  Replaces(l, m, i, e, n, p, c, R)
<1> DEFINE K == DOMAIN l \ {i}
           k == ReqCnt(l[i])
           j == ReqCnt(e)
<1>1. m \in Seq(Bufs) /\ DOMAIN m = DOMAIN l /\ m[i] = e
  OBVIOUS
<1>2. Renumbered(m, K, l, K)
  BY ReplaceRenumbers
<1>3. K = DOMAIN l \ {i} /\ K \in SUBSET DOMAIN l /\ K \in SUBSET DOMAIN m /\ i \in DOMAIN m
      /\ ~(i \in K) /\ K \cup {i} = DOMAIN m
  BY <1>1
<1>4. k \in Nat /\ j \in Nat
  BY BufFacts
<1> HIDE DEF K, k, j
<1>5. Without(l, K, i, n, p, c, R)
  BY <1>3, BooksWithout
<1>6. ASSUME NEW n0, NEW p0, NEW c0, NEW Q, Account(l, K, n0, p0, c0, Q)
      PROVE  /\ ReadyToGo(e) => Books(m, n0 + j, p0, c0, Q)
             /\ ~ReadyToGo(e) => Books(m, n0 + j, p0 + 1, c0 + j, Q \cup {<<e.iolist, e.starttime>>})
  <2>1. Account(m, K, n0, p0, c0, Q)
    BY <1>1, <1>2, <1>3, <1>6, RenumberedAccount
  <2>2. /\ ReadyToGo(m[i]) => Account(m, K \cup {i}, n0 + ReqCnt(m[i]), p0, c0, Q)
        /\ ~ReadyToGo(m[i]) => Account(m, K \cup {i}, n0 + ReqCnt(m[i]), p0 + 1, c0 + ReqCnt(m[i]),
                                       Q \cup {<<m[i].iolist, m[i].starttime>>})
    BY <1>1, <1>3, <2>1, AccountOneMore
  <2> QED BY <1>1, <1>3, <2>2 DEF Books, j
<1>7. ASSUME ReadyToGo(l[i]) PROVE Account(l, K, n - k, p, c, R)
  BY <1>5, <1>7 DEF k, Without
<1>8. ReadyToGo(l[i]) /\ ReadyToGo(e) => Books(m, n - k + j, p, c, R)
  BY <1>6, <1>7
<1>9. ReadyToGo(l[i]) /\ ~ReadyToGo(e) =>
         Books(m, n - k + j, p + 1, c + j, R \cup {<<e.iolist, e.starttime>>})
  BY <1>6, <1>7
<1>10. ASSUME ~ReadyToGo(l[i]), ~ReadyToGo(e), e.iolist = l[i].iolist, e.starttime = l[i].starttime
       PROVE  Books(m, n, p, c, R)
  <2>1. PICK Q : /\ Account(l, K, n - k, p - 1, c - k, Q)
                 /\ R = Q \cup {<<l[i].iolist, l[i].starttime>>}
    BY <1>5, <1>10 DEF k, Without
  <2>2. Books(m, (n - k) + j, (p - 1) + 1, (c - k) + j, Q \cup {<<e.iolist, e.starttime>>})
    BY <1>6, <1>10, <2>1
  <2>3. j = k
    BY <1>10 DEF j, k, ReqCnt
  <2>4. (n - k) + j = n /\ (p - 1) + 1 = p /\ (c - k) + j = c
    BY <1>4, <1>5, <2>3 DEF Without
  <2> QED BY <1>10, <2>1, <2>2, <2>4
<1> QED BY <1>5, <1>8, <1>9, <1>10 DEF j, k, Replaces, Without


\* The new places of a concatenation, as CheckConcatStands has them
LEMMA CheckConcatIs ==
  ASSUME ConfigOk, NEW l \in Seq(Bufs), NEW i \in Int, CheckConcat(l, i) # l
  PROVE  /\ i \in DOMAIN l /\ i + 1 \in DOMAIN l /\ Concatenable(l[i], l[i + 1])
         /\ i \in DOMAIN RemoveAt(l, i + 1) /\ RemoveAt(l, i + 1)[i] = l[i]
         /\ RemoveAt(l, i + 1) \in Seq(Bufs)
         /\ CheckConcat(l, i) = [RemoveAt(l, i + 1) EXCEPT ![i] = Concatenated(l[i], l[i + 1])]
<1>1. i >= 1 /\ i < Len(l) /\ Concatenable(l[i], l[i + 1])
  BY DEF CheckConcat
<1>2. CheckConcat(l, i) = [RemoveAt(l, i + 1) EXCEPT ![i] = Concatenated(l[i], l[i + 1])]
  BY <1>1 DEF CheckConcat, ReplaceAt
<1> DEFINE n == Len(l)
           j == i + 1
           rest == RemoveAt(l, j)
<1>3. n \in Nat /\ DOMAIN l = 1..n /\ i \in 1..n /\ j \in 1..n /\ i \in 1..(j - 1) /\ i \in 1..(n - 1)
      /\ j \in 1..Len(l)
  BY <1>1
<1> HIDE DEF j
<1>4. /\ rest \in Seq(Bufs) /\ Len(rest) = n - 1
      /\ \A k \in 1..(j - 1) : rest[k] = l[k]
  BY <1>3, RemoveAtFacts
<1> HIDE DEF rest, n
<1>5. i \in DOMAIN rest /\ rest[i] = l[i]
  BY <1>3, <1>4
<1> QED BY <1>1, <1>2, <1>3, <1>4, <1>5 DEF rest, j

LEMMA ConcatType ==
  ASSUME ConfigOk, NEW l \in Seq(Bufs), NEW i \in Int
  PROVE  CheckConcat(l, i) \in Seq(Bufs) /\ Len(CheckConcat(l, i)) \in Nat
<1> DEFINE m == CheckConcat(l, i)
<1>1. CASE m = l
  BY <1>1
<1>2. CASE m # l
  <2> DEFINE j == i + 1
             rest == RemoveAt(l, j)
             e == Concatenated(l[i], l[j])
  <2>1. /\ i \in DOMAIN l /\ j \in DOMAIN l /\ Concatenable(l[i], l[j])
        /\ rest \in Seq(Bufs) /\ i \in DOMAIN rest /\ m = [rest EXCEPT ![i] = e]
    BY <1>2, CheckConcatIs
  <2> HIDE DEF j, rest, m
  <2>2. l[i] \in Bufs /\ l[j] \in Bufs
    BY <2>1
  <2>3. e \in Bufs
    BY <2>1, <2>2, ConcatenatedFacts
  <2> HIDE DEF e
  <2>4. m \in Seq(Bufs)
    BY <2>1, <2>3
  <2>5. Len(m) \in Nat
    BY <2>4
  <2> QED BY <2>4, <2>5 DEF m
<1> QED BY <1>1, <1>2

LEMMA ConcatBooks ==
  ASSUME ConfigOk, NEW l \in Seq(Bufs), NEW i \in Int,
         NEW n, NEW p, NEW c, NEW R, Books(l, n, p, c, R)
  PROVE  Books(CheckConcat(l, i), n, p, c, R)
<1>1. CASE CheckConcat(l, i) = l
  BY <1>1
<1>2. CASE CheckConcat(l, i) # l
  <2> DEFINE j == i + 1
             rest == RemoveAt(l, j)
             e == Concatenated(l[i], l[j])
             m == CheckConcat(l, i)
             n0 == n - ReqCnt(l[j])
  <2>1. /\ i \in DOMAIN l /\ j \in DOMAIN l /\ Concatenable(l[i], l[j])
        /\ i \in DOMAIN rest /\ rest[i] = l[i] /\ rest \in Seq(Bufs)
        /\ m = [rest EXCEPT ![i] = e]
    BY <1>2, CheckConcatIs
  <2> HIDE DEF j, m
  <2>2. l[i] \in Bufs /\ l[j] \in Bufs
    BY <2>1
  <2>3. /\ e \in Bufs /\ ReadyToGo(l[i]) /\ ReadyToGo(l[j]) /\ ReadyToGo(e)
        /\ ReqCnt(e) = ReqCnt(l[i]) + ReqCnt(l[j])
    BY <2>1, <2>2, ConcatenatedFacts
  <2> HIDE DEF e, rest
  <2>4. Books(rest, n0, p, c, R) /\ n \in Nat
    <3>1. Removes(l, RemoveAt(l, j), j, n, p, c, R)
      BY <2>1, RemoveBooks
    <3> QED BY <2>3, <3>1 DEF Removes, rest
  <2> HIDE DEF n0
  <2>5. Books(m, n0 - ReqCnt(rest[i]) + ReqCnt(e), p, c, R)
    <3>1. Replaces(rest, m, i, e, n0, p, c, R)
      BY <2>1, <2>3, <2>4, ReplaceBooks
    <3> QED BY <2>1, <2>3, <3>1 DEF Replaces
  <2>6. n0 - ReqCnt(rest[i]) + ReqCnt(e) = n
    <3> DEFINE a == ReqCnt(l[i])
               b == ReqCnt(l[j])
    <3>1. a \in Nat /\ b \in Nat /\ n0 = n - b /\ ReqCnt(e) = a + b /\ ReqCnt(rest[i]) = a
      BY <2>1, <2>2, <2>3, BufFacts DEF n0
    <3>2. n - b - a + (a + b) = n
      <4> HIDE DEF a, b
      <4> QED BY <2>4, <3>1
    <3> QED BY <3>1, <3>2
  <2> QED BY <2>5, <2>6 DEF m
<1> QED BY <1>1, <1>2

\* Waiting iobufs that hold one request each leave the list.
LEMMA SelectBooks ==
  ASSUME ConfigOk, NEW l \in Seq(Bufs), NEW H \in SUBSET DOMAIN l,
         \A i \in H : ReadyToGo(l[i]) /\ ReqCnt(l[i]) = 1,
         NEW n, NEW p, NEW c, NEW R, Books(l, n, p, c, R)
  PROVE  Books(Selected(l, DOMAIN l \ H), n - Cardinality(H), p, c, R)
<1> DEFINE D == DOMAIN l
           K == D \ H
           m == Selected(l, K)
           v == Counts(l)
           k == Cardinality(H)
<1>1. m \in Seq(Bufs) /\ Renumbered(m, DOMAIN m, l, K)
  <2>1. K \in SUBSET DOMAIN l
    OBVIOUS
  <2> HIDE DEF K
  <2> QED BY <2>1, SelectedFacts, SelectRenumbers
<1>2. /\ v \in [D -> Nat] /\ D \in SUBSET D /\ IsFiniteSet(D) /\ IsFiniteSet(H)
      /\ \A x \in H : v[x] = 1
      /\ Cardinality(H) \in Nat /\ SumOf(v, K) \in Nat
  <2>1. D \in SUBSET DOMAIN l /\ H \in SUBSET DOMAIN l /\ K \in SUBSET DOMAIN l
    OBVIOUS
  <2> HIDE DEF K, D
  <2>2. v \in [DOMAIN l -> Nat] /\ IsFiniteSet(D) /\ IsFiniteSet(H) /\ Cardinality(H) \in Nat
        /\ Num(l, K) \in Nat /\ \A i \in DOMAIN l : v[i] = ReqCnt(l[i])
    BY <2>1, AccountTypes
  <2> QED BY <2>2 DEF Num, D
<1>3. SumOf(v, D) = SumOf(v, K) + k
  <2> HIDE DEF v, D
  <2> QED BY <1>2, SumWithoutOnes DEF D
<1>4. PendAt(l, K) = PendAt(l, D)
  BY DEF PendAt
<1>5. Account(l, K, n - k, p, c, R)
  <2>1. n = SumOf(v, D)
    BY DEF Books, Account, Num
  <2>2. n - k = SumOf(v, K)
    <3> DEFINE a == SumOf(v, K)
    <3>1. a \in Nat /\ k \in Nat /\ n = a + k
      BY <1>2, <1>3, <2>1
    <3>2. n - k = a
      <4> HIDE DEF a, k
      <4> QED BY <3>1
    <3> QED BY <3>2
  <2> QED BY <1>4, <2>2 DEF Books, Account, Num, RunsAt
<1>6. K \in SUBSET DOMAIN l /\ DOMAIN m \in SUBSET DOMAIN m
  OBVIOUS
<1> HIDE DEF K, m, k
<1>7. Account(m, DOMAIN m, n - k, p, c, R)
  BY <1>1, <1>5, <1>6, RenumberedAccount
<1> QED BY <1>7 DEF Books, m, k, K

(***************************************************************************)
(* Order: the blocks of an ordered list ascend.                             *)
(***************************************************************************)
Sorted(l) == \A i, j \in DOMAIN l : i < j => BufBlkno(l[i]) <= BufBlkno(l[j])

\* Every iobuf holds one request.
Single(l) == \A i \in DOMAIN l : ReqCnt(l[i]) = 1

LEMMA RenumberedOrder ==
  ASSUME NEW l, NEW m, NEW J \in SUBSET DOMAIN l, Renumbered(m, DOMAIN m, l, J)
  PROVE  (Sorted(l) => Sorted(m)) /\ (Single(l) => Single(m))
<1>1. PICK h : Renumbers(h, m, DOMAIN m, l, J)
  BY DEF Renumbered
<1>2. /\ \A k \in DOMAIN m : h[k] \in DOMAIN l /\ m[k] = l[h[k]]
      /\ \A i, j \in DOMAIN m : i < j => h[i] < h[j]
  BY <1>1 DEF Renumbers
<1>3. ASSUME Sorted(l), NEW i \in DOMAIN m, NEW j \in DOMAIN m, i < j
      PROVE  BufBlkno(m[i]) <= BufBlkno(m[j])
  <2>1. h[i] < h[j] /\ h[i] \in DOMAIN l /\ h[j] \in DOMAIN l /\ m[i] = l[h[i]] /\ m[j] = l[h[j]]
    BY <1>2, <1>3
  <2> QED BY <1>3, <2>1 DEF Sorted
<1>4. ASSUME Single(l), NEW i \in DOMAIN m PROVE ReqCnt(m[i]) = 1
  BY <1>2, <1>4 DEF Single
<1> QED BY <1>3, <1>4 DEF Sorted, Single

LEMMA ReplaceOrder ==
  ASSUME NEW l, NEW i \in DOMAIN l, NEW e, NEW m, m = [l EXCEPT ![i] = e]
  PROVE  /\ BufBlkno(e) = BufBlkno(l[i]) /\ Sorted(l) => Sorted(m)
         /\ ReqCnt(e) = 1 /\ Single(l) => Single(m)
<1>1. DOMAIN m = DOMAIN l /\ m[i] = e /\ \A j \in DOMAIN l : j # i => m[j] = l[j]
  OBVIOUS
<1>2. BufBlkno(e) = BufBlkno(l[i]) => \A j \in DOMAIN l : BufBlkno(m[j]) = BufBlkno(l[j])
  BY <1>1
<1>3. BufBlkno(e) = BufBlkno(l[i]) /\ Sorted(l) => Sorted(m)
  BY <1>1, <1>2 DEF Sorted
<1>4. ReqCnt(e) = 1 /\ Single(l) => Single(m)
  BY <1>1 DEF Single
<1> QED BY <1>3, <1>4

LEMMA ConcatOrder ==
  ASSUME ConfigOk, NEW l \in Seq(Bufs), NEW i \in Int
  PROVE  /\ Sorted(l) => Sorted(CheckConcat(l, i))
         /\ concatmax = 0 => CheckConcat(l, i) = l
<1>1. CASE CheckConcat(l, i) = l
  BY <1>1
<1>2. CASE CheckConcat(l, i) # l
  <2> DEFINE j == i + 1
             rest == RemoveAt(l, j)
             e == Concatenated(l[i], l[j])
             m == CheckConcat(l, i)
  <2>1. /\ i \in DOMAIN l /\ j \in DOMAIN l /\ Concatenable(l[i], l[j])
        /\ i \in DOMAIN rest /\ rest[i] = l[i] /\ rest \in Seq(Bufs)
        /\ m = [rest EXCEPT ![i] = e]
    BY <1>2, CheckConcatIs
  <2> HIDE DEF j, m
  <2>2. l[i] \in Bufs /\ l[j] \in Bufs
    BY <2>1
  <2>3. BufBlkno(e) = BufBlkno(rest[i])
    BY <2>1, <2>2, ConcatenatedFacts
  <2> HIDE DEF e
  <2>4. Sorted(l) => Sorted(rest)
    <3> DEFINE J == DOMAIN l \ {j}
    <3>1. J = DOMAIN l \ {j} /\ J \in SUBSET DOMAIN l
      OBVIOUS
    <3> HIDE DEF J
    <3>2. Renumbered(rest, DOMAIN rest, l, J)
      BY <2>1, <3>1, RemoveRenumbers
    <3> HIDE DEF rest
    <3> QED BY <3>1, <3>2, RenumberedOrder
  <2> HIDE DEF rest
  <2>5. Sorted(rest) => Sorted(m)
    BY <2>1, <2>3, ReplaceOrder
  <2>6. concatmax # 0
    BY <2>1 DEF Concatenable
  <2> QED BY <2>4, <2>5, <2>6 DEF m
<1> QED BY <1>1, <1>2


\* An iobuf inserted where InsertPosition says keeps the list in order.
LEMMA InsertOrder ==
  ASSUME ConfigOk, NEW a, NEW l \in Seq(Bufs), NEW b \in Bufs,
         NEW q, q = InsertPosition(a, l, b)
  PROVE  /\ a # "FCFS" /\ Sorted(l) => Sorted(InsertAt(l, q, b))
         /\ ReqCnt(b) = 1 /\ Single(l) => Single(InsertAt(l, q, b))
<1> DEFINE m == InsertAt(l, q, b)
           n == Len(l)
<1>1. n \in Nat /\ DOMAIN l = 1..n /\ q \in 1..(Len(l) + 1)
  BY InsertPositionInRange
<1>2. /\ m \in Seq(Bufs) /\ Len(m) = n + 1 /\ m[q] = b
      /\ \A k \in 1..(q - 1) : m[k] = l[k]
      /\ \A k \in q..n : m[k + 1] = l[k]
  <2>1. q \in 1..(Len(l) + 1)
    BY <1>1
  <2>2. /\ InsertAt(l, q, b) \in Seq(Bufs)
        /\ Len(InsertAt(l, q, b)) = Len(l) + 1
        /\ \A k \in 1..(q - 1) : InsertAt(l, q, b)[k] = l[k]
        /\ InsertAt(l, q, b)[q] = b
        /\ \A k \in q..Len(l) : InsertAt(l, q, b)[k + 1] = l[k]
    BY <2>1, InsertAtFacts
  <2> QED BY <2>2
<1>3. DOMAIN m = 1..(n + 1)
  BY <1>2
<1> HIDE DEF m, n
<1>4. ASSUME NEW k \in 1..(n + 1)
      PROVE  \/ k = q /\ m[k] = b
             \/ k < q /\ k \in 1..n /\ m[k] = l[k]
             \/ k > q /\ k - 1 \in 1..n /\ k - 1 >= q /\ m[k] = l[k - 1]
  <2>0. q \in Nat /\ q >= 1 /\ q <= n + 1 /\ k \in Nat /\ k >= 1 /\ k <= n + 1
    BY <1>1 DEF n
  <2>1. CASE k = q
    BY <1>2, <2>1
  <2>2. CASE k < q
    <3>1. k \in 1..(q - 1) /\ k \in 1..n
      BY <1>1, <2>0, <2>2
    <3> QED BY <1>2, <2>2, <3>1
  <2>3. CASE k > q
    <3> DEFINE j == k - 1
    <3>1. j \in q..n /\ j + 1 = k /\ j \in 1..n /\ j >= q
      BY <1>1, <2>0, <2>3
    <3>2. m[j + 1] = l[j]
      BY <1>2, <3>1
    <3> QED BY <2>3, <3>1, <3>2
  <2> QED BY <2>0, <2>1, <2>2, <2>3
<1>5. ASSUME a # "FCFS", Sorted(l)
      PROVE  \A k \in 1..n : k < q <=> BufBlkno(l[k]) <= BufBlkno(b)
  <2> DEFINE S == {i \in DOMAIN l : BufBlkno(l[i]) <= BufBlkno(b)}
  <2>1. S \in SUBSET (1..n)
    BY <1>1
  <2>2. \A i \in 1..n, j \in S : i <= j => i \in S
    <3> SUFFICES ASSUME NEW i \in 1..n, NEW j \in S, i <= j PROVE i \in S
      OBVIOUS
    <3>1. j \in 1..n /\ BufBlkno(l[j]) <= BufBlkno(b)
      BY <1>1
    <3>2. BufBlkno(l[i]) <= BufBlkno(l[j])
      <4>1. CASE i = j
        <5>1. l[j] \in Bufs
          BY <1>1, <3>1
        <5>2. BufBlkno(l[j]) \in Nat
          BY <5>1, BufFacts
        <5> QED BY <4>1, <5>2
      <4>2. CASE i # j
        <5>1. i < j
          BY <1>1, <3>1, <4>2
        <5> QED BY <1>1, <1>5, <3>1, <5>1 DEF Sorted
      <4> QED BY <4>1, <4>2
    <3>3. l[i] \in Bufs /\ l[j] \in Bufs
      BY <1>1, <3>1
    <3>4. BufBlkno(l[i]) \in Nat /\ BufBlkno(l[j]) \in Nat /\ BufBlkno(b) \in Nat
      BY <3>3, BufFacts
    <3>5. BufBlkno(l[i]) <= BufBlkno(b)
      BY <3>1, <3>2, <3>4
    <3> QED BY <1>1, <3>5
  <2>3. q = Cardinality(S) + 1
    BY <1>5 DEF InsertPosition
  <2>4. \A k \in 1..n : k \in S <=> BufBlkno(l[k]) <= BufBlkno(b)
    BY <1>1
  <2> HIDE DEF S
  <2>5. Cardinality(S) \in 0..n /\ S = 1..Cardinality(S)
    BY <1>1, <2>1, <2>2, InitialSegment
  <2> DEFINE c == Cardinality(S)
  <2>6. c \in 0..n /\ q = c + 1 /\ \A k : k \in S <=> k \in 1..c
    BY <2>3, <2>5
  <2> HIDE DEF c
  <2>7. ASSUME NEW k \in 1..n PROVE k < q <=> BufBlkno(l[k]) <= BufBlkno(b)
    <3>1. k < q <=> k \in 1..c
      BY <1>1, <2>6
    <3> QED BY <2>4, <2>6, <3>1
  <2> QED BY <2>7
<1>6. ASSUME a # "FCFS", Sorted(l), NEW i \in DOMAIN m, NEW j \in DOMAIN m, i < j
      PROVE  BufBlkno(m[i]) <= BufBlkno(m[j])
  <2>0. i \in 1..(n + 1) /\ j \in 1..(n + 1) /\ q \in Nat /\ BufBlkno(b) \in Nat
    BY <1>1, <1>3, BufFacts
  <2>1. \A k \in 1..n : BufBlkno(l[k]) \in Nat
    <3> SUFFICES ASSUME NEW k \in 1..n PROVE BufBlkno(l[k]) \in Nat
      OBVIOUS
    <3>1. l[k] \in Bufs
      BY <1>1
    <3> QED BY <3>1, BufFacts
  <2>2. \A k \in 1..n : k < q <=> BufBlkno(l[k]) <= BufBlkno(b)
    BY <1>5, <1>6
  <2>3. \A x, y \in 1..n : x < y => BufBlkno(l[x]) <= BufBlkno(l[y])
    BY <1>1, <1>6 DEF Sorted
  <2>4. \/ i = q /\ m[i] = b
        \/ i < q /\ i \in 1..n /\ m[i] = l[i]
        \/ i > q /\ i - 1 \in 1..n /\ i - 1 >= q /\ m[i] = l[i - 1]
    BY <1>4, <2>0
  <2>5. \/ j = q /\ m[j] = b
        \/ j < q /\ j \in 1..n /\ m[j] = l[j]
        \/ j > q /\ j - 1 \in 1..n /\ j - 1 >= q /\ m[j] = l[j - 1]
    BY <1>4, <2>0
  <2>6. CASE i = q /\ m[i] = b
    <3>1. j > q
      BY <1>1, <1>6, <2>0, <2>6
    <3>2. j - 1 \in 1..n /\ ~(j - 1 < q) /\ m[j] = l[j - 1]
      BY <1>1, <2>0, <2>5, <3>1
    <3>3. ~(BufBlkno(l[j - 1]) <= BufBlkno(b)) /\ BufBlkno(l[j - 1]) \in Nat
      BY <2>1, <2>2, <3>2
    <3> QED BY <2>0, <2>6, <3>2, <3>3
  <2>7. CASE i < q /\ i \in 1..n /\ m[i] = l[i]
    <3>1. CASE j = q /\ m[j] = b
      BY <2>2, <2>7, <3>1
    <3>2. CASE j < q /\ j \in 1..n /\ m[j] = l[j]
      BY <1>6, <2>3, <2>7, <3>2
    <3>3. CASE j > q /\ j - 1 \in 1..n /\ j - 1 >= q /\ m[j] = l[j - 1]
      <4>1. i < j - 1
        BY <1>1, <2>0, <2>7, <3>3
      <4> QED BY <2>3, <2>7, <3>3, <4>1
    <3> QED BY <2>5, <3>1, <3>2, <3>3
  <2>8. CASE i > q /\ i - 1 \in 1..n /\ i - 1 >= q /\ m[i] = l[i - 1]
    <3>1. j > q /\ ~(j < q) /\ j # q
      BY <1>1, <1>6, <2>0, <2>8
    <3>2. j - 1 \in 1..n /\ m[j] = l[j - 1]
      BY <2>5, <3>1
    <3>3. i - 1 < j - 1
      BY <1>1, <1>6, <2>0
    <3> QED BY <2>3, <2>8, <3>2, <3>3
  <2> QED BY <2>4, <2>6, <2>7, <2>8
<1>7. ASSUME ReqCnt(b) = 1, Single(l), NEW i \in DOMAIN m PROVE ReqCnt(m[i]) = 1
  BY <1>1, <1>3, <1>4, <1>7 DEF Single
<1> QED BY <1>6, <1>7 DEF m, Sorted, Single


(***************************************************************************)
(* The operations on one subqueue.                                          *)
(***************************************************************************)
RunsOf(sq) == RunsAt(sq.list, DOMAIN sq.list)

\* The four counters of a subqueue agree with its list.
Counted(sq) ==
    /\ sq.iobufcnt = Len(sq.list)
    /\ Books(sq.list, sq.listlen, sq.reqoutstanding, sq.numoutstanding, RunsOf(sq))

\* No concatenation: every iobuf holds one request.
Plain(sq) == concatmax = 0 /\ Single(sq.list)

LEMMA BooksExist ==
  ASSUME NEW l
  PROVE  \E n, p, c : Books(l, n, p, c, RunsAt(l, DOMAIN l))
BY AccountExists DEF Books

LEMMA BooksRuns ==
  ASSUME NEW l, NEW n, NEW p, NEW c, NEW R, Books(l, n, p, c, R)
  PROVE  R = RunsAt(l, DOMAIN l)
BY DEF Books, Account

\* What the insertion of b does to the subqueue sq
Admits(a, sq, b, ins) ==
    /\ a # "FCFS" /\ Sorted(sq.list) => Sorted(ins.sq.list)
    /\ ins.sq.reqoutstanding = sq.reqoutstanding /\ RunsOf(ins.sq) = RunsOf(sq)
    /\ ReqCnt(b) = 1 /\ Plain(sq) => Plain(ins.sq)
    /\ ReqCnt(b) = 1 /\ Counted(sq) => Counted(ins.sq)
    /\ concatmax = 0 => ~ins.absorbed /\ ins.sq.list[ins.at] = b

LEMMA InsertNewAdmits ==
  ASSUME ConfigOk, NEW a, NEW sq \in Subqueues, NEW b \in Bufs, ReadyToGo(b)
  PROVE  Admits(a, sq, b, InsertNewRequest(a, sq, b))
<1> DEFINE l == sq.list
           pos == InsertPosition(a, l, b)
           m1 == InsertAt(l, pos, b)
           m2 == CheckConcat(m1, pos - 1)
           absorbed == Len(m2) = Len(l)
           at == IF absorbed THEN pos - 1 ELSE pos
           m3 == CheckConcat(m2, at)
           cnt == sq.iobufcnt + Len(m3) - Len(sq.list)
           new == [sq EXCEPT !.list = m3, !.iobufcnt = @ + Len(m3) - Len(sq.list), !.listlen = @ + 1]
           ins == InsertNewRequest(a, sq, b)
<1>1. l \in Seq(Bufs) /\ Len(l) \in Nat /\ pos \in 1..(Len(l) + 1)
  BY InsertPositionInRange DEF Subqueues
<1>2. ins.sq = new /\ ins.absorbed = absorbed /\ ins.at = at
  BY DEF InsertNewRequest, InsertAtPosition, Inserted
<1>3. /\ new.list = m3 /\ new.listlen = sq.listlen + 1 /\ new.iobufcnt = cnt
      /\ new.reqoutstanding = sq.reqoutstanding /\ new.numoutstanding = sq.numoutstanding
  BY DEF Subqueues
<1> HIDE DEF ins, new
<1>4. /\ a # "FCFS" /\ Sorted(l) => Sorted(m1)
      /\ ReqCnt(b) = 1 /\ Single(l) => Single(m1)
  BY <1>1, InsertOrder
<1>5. m1 \in Seq(Bufs) /\ Len(m1) = Len(l) + 1 /\ m1[pos] = b
  <2> HIDE DEF pos
  <2> QED BY <1>1, InsertAtFacts
<1>6. ASSUME NEW n, NEW p, NEW c, NEW R, Books(l, n, p, c, R)
      PROVE  Books(m1, n + ReqCnt(b), p, c, R)
  <2> HIDE DEF pos
  <2> QED BY <1>1, <1>6, InsertBooks
<1> HIDE DEF m1
<1>7. pos - 1 \in Int /\ m2 \in Seq(Bufs)
  <2>1. pos - 1 \in Int
    BY <1>1
  <2> HIDE DEF pos
  <2> QED BY <1>5, <2>1, ConcatType
<1>8. /\ Sorted(m1) => Sorted(m2)
      /\ concatmax = 0 => m2 = m1
  BY <1>5, <1>7, ConcatOrder
<1>9. ASSUME NEW n, NEW p, NEW c, NEW R, Books(m1, n, p, c, R) PROVE Books(m2, n, p, c, R)
  BY <1>5, <1>7, <1>9, ConcatBooks
<1> HIDE DEF m2
<1>10. at \in Int /\ (concatmax = 0 => at = pos /\ ~absorbed)
  <2>1. concatmax = 0 => ~absorbed
    BY <1>1, <1>5, <1>8
  <2> HIDE DEF absorbed
  <2> QED BY <1>1, <2>1
<1> HIDE DEF at
<1>11. /\ Sorted(m2) => Sorted(m3)
       /\ concatmax = 0 => m3 = m2
  BY <1>7, <1>10, ConcatOrder
<1>12. ASSUME NEW n, NEW p, NEW c, NEW R, Books(m2, n, p, c, R) PROVE Books(m3, n, p, c, R)
  BY <1>7, <1>10, <1>12, ConcatBooks
<1>13. Len(m3) \in Nat
  BY <1>7, <1>10, ConcatType
<1> HIDE DEF m3
<1>14. ASSUME NEW n, NEW p, NEW c, NEW R, Books(l, n, p, c, R) PROVE Books(m3, n + ReqCnt(b), p, c, R)
  BY <1>6, <1>9, <1>12, <1>14
<1>15. RunsOf(new) = RunsOf(sq)
  <2>1. PICK n, p, c : Books(l, n, p, c, RunsAt(l, DOMAIN l))
    BY BooksExist
  <2>2. Books(m3, n + ReqCnt(b), p, c, RunsAt(l, DOMAIN l))
    BY <1>14, <2>1
  <2>3. RunsAt(l, DOMAIN l) = RunsAt(m3, DOMAIN m3)
    BY <2>2, BooksRuns
  <2> QED BY <1>3, <2>3 DEF RunsOf
<1>16. ASSUME ReqCnt(b) = 1, Counted(sq) PROVE Counted(new)
  <2>1. Books(m3, sq.listlen + 1, sq.reqoutstanding, sq.numoutstanding, RunsOf(sq))
    BY <1>14, <1>16 DEF Counted
  <2>2. cnt = Len(m3)
    BY <1>1, <1>13, <1>16 DEF Counted
  <2> QED BY <1>3, <1>15, <2>1, <2>2 DEF Counted
<1>17. a # "FCFS" /\ Sorted(sq.list) => Sorted(new.list)
  BY <1>3, <1>4, <1>8, <1>11
<1>18. ReqCnt(b) = 1 /\ Plain(sq) => Plain(new)
  BY <1>3, <1>4, <1>8, <1>11 DEF Plain
<1>19. concatmax = 0 => ~ins.absorbed /\ ins.sq.list[ins.at] = b
  BY <1>2, <1>3, <1>5, <1>8, <1>10, <1>11
<1>20. Admits(a, sq, b, ins)
  BY <1>2, <1>3, <1>15, <1>16, <1>17, <1>18, <1>19 DEF Admits
<1> QED BY <1>20 DEF ins


\* The access that goes out, and what it leaves
Issues(a, sq, i, now, new) ==
    /\ a # "FCFS" /\ Sorted(sq.list) => Sorted(new.list)
    /\ new.reqoutstanding = sq.reqoutstanding + 1
    /\ RunsOf(new) = RunsOf(sq) \cup {<<sq.list[i].iolist, now>>}
    /\ Plain(sq) => Plain(new)
    /\ Counted(sq) => Counted(new)

LEMMA IssuedIssues ==
  ASSUME ConfigOk, NEW a \in SchedAlgs, NEW sq \in Subqueues, NEW i \in ReadyAt(sq),
         NEW now \in 0..MaxTime
  PROVE  Issues(a, sq, i, now, Issued(a, sq, i, now))
<1> DEFINE l == sq.list
           b == l[i]
           e == [b EXCEPT !.state = "PENDING", !.starttime = now]
           m == [l EXCEPT ![i] = e]
           new == Issued(a, sq, i, now)
           k == ReqCnt(b)
<1>1. b \in Bufs /\ i \in DOMAIN l /\ l \in Seq(Bufs) /\ ReadyToGo(b)
  BY ReadyOnes DEF ReadyAt
<1>2. e \in IobufSet /\ e.iolist = b.iolist /\ e.starttime = now /\ ~ReadyToGo(e)
  <2>1. b \in IobufSet
    BY <1>1 DEF Bufs
  <2> HIDE DEF b
  <2> QED BY <2>1 DEF IobufSet, ReadyToGo
<1> HIDE DEF e
<1>3. e \in Bufs /\ BufBlkno(e) = BufBlkno(b) /\ ReqCnt(e) = ReqCnt(b) /\ k \in Nat
  <2> HIDE DEF b
  <2> QED BY <1>1, <1>2, SameChain, BufFacts DEF k
<1>4. /\ new.list = m /\ new.reqoutstanding = sq.reqoutstanding + 1
      /\ new.numoutstanding = sq.numoutstanding + k /\ new.listlen = sq.listlen
      /\ new.iobufcnt = sq.iobufcnt
  BY DEF Issued, ReplaceAt, Subqueues, e
<1> HIDE DEF new
<1>5. m = [l EXCEPT ![i] = e] /\ Len(m) = Len(l)
  BY <1>1
<1>6. l[i] = b
  OBVIOUS
<1> HIDE DEF m, l, b, k
<1>7. ASSUME NEW n, NEW p, NEW c, NEW R, Books(l, n, p, c, R)
      PROVE  Books(m, n, p + 1, c + k, R \cup {<<e.iolist, now>>})
  <2>1. Replaces(l, m, i, e, n, p, c, R)
    BY <1>1, <1>3, <1>5, <1>7, ReplaceBooks
  <2>2. /\ n \in Nat
        /\ Books(m, n - ReqCnt(l[i]) + ReqCnt(e), p + 1, c + ReqCnt(e), R \cup {<<e.iolist, e.starttime>>})
    BY <1>1, <1>2, <1>6, <2>1 DEF Replaces
  <2>3. n - k + k = n
    BY <1>3, <2>2
  <2> QED BY <1>2, <1>3, <1>6, <2>2, <2>3 DEF k
<1>8. RunsOf(new) = RunsOf(sq) \cup {<<b.iolist, now>>}
  <2>1. PICK n, p, c : Books(l, n, p, c, RunsAt(l, DOMAIN l))
    BY BooksExist
  <2>2. Books(m, n, p + 1, c + k, RunsAt(l, DOMAIN l) \cup {<<e.iolist, now>>})
    BY <1>7, <2>1
  <2>3. RunsAt(l, DOMAIN l) \cup {<<e.iolist, now>>} = RunsAt(m, DOMAIN m)
    BY <2>2, BooksRuns
  <2> QED BY <1>2, <1>4, <2>3 DEF RunsOf, l
<1>9. ASSUME Counted(sq) PROVE Counted(new)
  <2>1. Books(l, sq.listlen, sq.reqoutstanding, sq.numoutstanding, RunsOf(sq)) /\ sq.iobufcnt = Len(l)
    BY <1>9 DEF Counted, l
  <2>2. Books(m, sq.listlen, sq.reqoutstanding + 1, sq.numoutstanding + k,
              RunsOf(sq) \cup {<<e.iolist, now>>})
    BY <1>7, <2>1
  <2> QED BY <1>2, <1>4, <1>5, <1>8, <2>1, <2>2 DEF Counted
<1>10. /\ Sorted(l) => Sorted(m)
       /\ Single(l) => Single(m)
  <2>1. /\ BufBlkno(e) = BufBlkno(l[i]) /\ Sorted(l) => Sorted(m)
        /\ ReqCnt(e) = 1 /\ Single(l) => Single(m)
    BY <1>1, <1>5, ReplaceOrder
  <2>2. Single(l) => ReqCnt(e) = 1
    BY <1>1, <1>3, <1>6 DEF Single
  <2> QED BY <1>3, <1>6, <2>1, <2>2
<1>11. Issues(a, sq, i, now, new)
  BY <1>4, <1>8, <1>9, <1>10 DEF Issues, Plain, l, b
<1> QED BY <1>11 DEF new

\* An iobuf leaves the subqueue, which gives up n requests.
Leaves(a, sq, i, n, new) ==
    /\ a # "FCFS" /\ Sorted(sq.list) => Sorted(new.list)
    /\ Plain(sq) => Plain(new)
    /\ n = ReqCnt(sq.list[i]) /\ Counted(sq) => Counted(new)

LEMMA CompletedStays ==
  ASSUME ConfigOk, NEW a, NEW sq \in Subqueues, NEW i \in DOMAIN sq.list, ~ReadyToGo(sq.list[i])
  PROVE  /\ Leaves(a, sq, i, ReqCnt(sq.list[i]), Completed(sq, i))
         /\ RunsOf(Completed(sq, i)) \in SUBSET RunsOf(sq)
         /\ Completed(sq, i).reqoutstanding = sq.reqoutstanding - 1
<1> DEFINE l == sq.list
           m == RemoveAt(l, i)
           new == Completed(sq, i)
           k == ReqCnt(l[i])
           J == DOMAIN l \ {i}
<1>1. l \in Seq(Bufs) /\ i \in DOMAIN l
  BY DEF Subqueues
<1>2. /\ new.list = m /\ new.reqoutstanding = sq.reqoutstanding - 1
      /\ new.numoutstanding = sq.numoutstanding - k /\ new.listlen = sq.listlen - k
      /\ new.iobufcnt = sq.iobufcnt - 1
  BY DEF Completed, Subqueues
<1> HIDE DEF new
<1>3. Len(m) = Len(l) - 1
  BY <1>1, RemoveAtFacts
<1>4. (Sorted(l) => Sorted(m)) /\ (Single(l) => Single(m))
  <2>1. J = DOMAIN l \ {i} /\ J \in SUBSET DOMAIN l
    OBVIOUS
  <2> HIDE DEF J, l
  <2>2. Renumbered(m, DOMAIN m, l, J)
    BY <1>1, <2>1, RemoveRenumbers
  <2> HIDE DEF m
  <2> QED BY <2>1, <2>2, RenumberedOrder
<1> HIDE DEF m, J
<1>5. ASSUME NEW n, NEW p, NEW c, NEW R, Books(l, n, p, c, R)
      PROVE  \E Q \in SUBSET R : Books(m, n - k, p - 1, c - k, Q)
  <2> HIDE DEF l
  <2>1. Removes(l, RemoveAt(l, i), i, n, p, c, R)
    BY <1>1, <1>5, RemoveBooks
  <2> QED BY <2>1 DEF Removes, m, l
<1>6. RunsOf(new) \in SUBSET RunsOf(sq)
  <2>1. PICK n, p, c : Books(l, n, p, c, RunsAt(l, DOMAIN l))
    BY BooksExist
  <2>2. PICK Q \in SUBSET RunsAt(l, DOMAIN l) : Books(m, n - k, p - 1, c - k, Q)
    BY <1>5, <2>1
  <2>3. Q = RunsAt(m, DOMAIN m)
    BY <2>2, BooksRuns
  <2> QED BY <1>2, <2>3 DEF RunsOf, l
<1>7. ASSUME Counted(sq) PROVE Counted(new)
  <2>1. PICK Q : Books(m, sq.listlen - k, sq.reqoutstanding - 1, sq.numoutstanding - k, Q)
    BY <1>5, <1>7 DEF Counted
  <2>2. Q = RunsAt(m, DOMAIN m)
    BY <2>1, BooksRuns
  <2> QED BY <1>2, <1>3, <1>7, <2>1, <2>2 DEF Counted, RunsOf
<1>8. Leaves(a, sq, i, ReqCnt(sq.list[i]), new)
  BY <1>2, <1>4, <1>7 DEF Leaves, Plain
<1> QED BY <1>2, <1>6, <1>8 DEF new

LEMMA MovedAwayStays ==
  ASSUME ConfigOk, NEW a, NEW sq \in Subqueues, NEW i \in DOMAIN sq.list, ReadyToGo(sq.list[i]),
         NEW n
  PROVE  /\ Leaves(a, sq, i, n, MovedAway(sq, i, n))
         /\ RunsOf(MovedAway(sq, i, n)) = RunsOf(sq)
         /\ MovedAway(sq, i, n).reqoutstanding = sq.reqoutstanding
<1> DEFINE l == sq.list
           m == RemoveAt(l, i)
           new == MovedAway(sq, i, n)
           k == ReqCnt(l[i])
           J == DOMAIN l \ {i}
<1>1. l \in Seq(Bufs) /\ i \in DOMAIN l
  BY DEF Subqueues
<1>2. /\ new.list = m /\ new.reqoutstanding = sq.reqoutstanding
      /\ new.numoutstanding = sq.numoutstanding /\ new.listlen = sq.listlen - n
      /\ new.iobufcnt = sq.iobufcnt - 1
  BY DEF MovedAway, Subqueues
<1> HIDE DEF new
<1>3. Len(m) = Len(l) - 1
  BY <1>1, RemoveAtFacts
<1>4. (Sorted(l) => Sorted(m)) /\ (Single(l) => Single(m))
  <2>1. J = DOMAIN l \ {i} /\ J \in SUBSET DOMAIN l
    OBVIOUS
  <2> HIDE DEF J, l
  <2>2. Renumbered(m, DOMAIN m, l, J)
    BY <1>1, <2>1, RemoveRenumbers
  <2> HIDE DEF m
  <2> QED BY <2>1, <2>2, RenumberedOrder
<1> HIDE DEF m, J
<1>5. ASSUME NEW x, NEW p, NEW c, NEW R, Books(l, x, p, c, R)
      PROVE  Books(m, x - k, p, c, R)
  <2> HIDE DEF l
  <2>1. Removes(l, RemoveAt(l, i), i, x, p, c, R)
    BY <1>1, <1>5, RemoveBooks
  <2> QED BY <2>1 DEF Removes, m, l
<1>6. RunsOf(new) = RunsOf(sq)
  <2>1. PICK x, p, c : Books(l, x, p, c, RunsAt(l, DOMAIN l))
    BY BooksExist
  <2>2. Books(m, x - k, p, c, RunsAt(l, DOMAIN l))
    BY <1>5, <2>1
  <2>3. RunsAt(l, DOMAIN l) = RunsAt(m, DOMAIN m)
    BY <2>2, BooksRuns
  <2> QED BY <1>2, <2>3 DEF RunsOf, l
<1>7. ASSUME n = k, Counted(sq) PROVE Counted(new)
  <2>1. Books(m, sq.listlen - k, sq.reqoutstanding, sq.numoutstanding, RunsOf(sq))
    BY <1>5, <1>7 DEF Counted
  <2> QED BY <1>2, <1>3, <1>6, <1>7, <2>1 DEF Counted
<1>8. Leaves(a, sq, i, n, new)
  BY <1>2, <1>4, <1>7 DEF Leaves, Plain
<1> QED BY <1>2, <1>6, <1>8 DEF new


\* Waiting iobufs of one request each complete with another.
LEMMA ClobberedStays ==
  ASSUME ConfigOk, NEW a, NEW sq \in Subqueues, NEW hits \in SUBSET ReadyAt(sq),
         \A i \in hits : ReqCnt(sq.list[i]) = 1, NEW new, new = Clobbered(a, sq, hits)
  PROVE  /\ Sorted(sq.list) => Sorted(new.list)
         /\ new.reqoutstanding = sq.reqoutstanding /\ RunsOf(new) = RunsOf(sq)
         /\ Plain(sq) => Plain(new)
         /\ Counted(sq) => Counted(new)
<1>1. CASE hits = {}
  <2>1. new = sq
    BY <1>1 DEF Clobbered
  <2> QED BY <2>1
<1>2. CASE hits # {}
  <2> DEFINE l == sq.list
             K == DOMAIN l \ hits
             m == Selected(l, K)
             k == Cardinality(hits)
  <2>1. /\ l \in Seq(Bufs) /\ hits \in SUBSET DOMAIN l /\ K \in SUBSET DOMAIN l
        /\ \A i \in hits : ReadyToGo(l[i]) /\ ReqCnt(l[i]) = 1
    BY ReadyOnes DEF ReadyAt
  <2>2. /\ new.list = m /\ new.reqoutstanding = sq.reqoutstanding
        /\ new.numoutstanding = sq.numoutstanding /\ new.listlen = sq.listlen - k
        /\ new.iobufcnt = sq.iobufcnt - k
    BY <1>2 DEF Clobbered, Subqueues
  <2> HIDE DEF l
  <2>3. Renumbered(m, DOMAIN m, l, K)
    <3> HIDE DEF K
    <3> QED BY <2>1, SelectRenumbers
  <2>4. (Sorted(l) => Sorted(m)) /\ (Single(l) => Single(m))
    <3> HIDE DEF K, m
    <3> QED BY <2>1, <2>3, RenumberedOrder
  <2>5. ASSUME NEW n, NEW p, NEW c, NEW R, Books(l, n, p, c, R) PROVE Books(m, n - k, p, c, R)
    BY <2>1, <2>5, SelectBooks
  <2>6. Len(m) = Len(l) - k
    <3>1. l \in Seq(Bufs) /\ DOMAIN l = 1..Len(l) /\ Len(l) \in Nat
      BY <2>1
    <3> DEFINE n == Len(l)
               D == 1..n
    <3>2. n \in Nat /\ hits \in SUBSET D /\ K = D \ hits
      BY <2>1, <3>1
    <3>3. Len(m) = Cardinality(K)
      <4> HIDE DEF K
      <4> QED BY <2>1, SelectedPlaces
    <3> HIDE DEF m, K, n
    <3>4. IsFiniteSet(D) /\ Cardinality(D) = n
      <4>1. 1 \in Int /\ n \in Int
        BY <3>2
      <4>2. IsFiniteSet(D) /\ Cardinality(D) = IF 1 > n THEN 0 ELSE n - 1 + 1
        BY <4>1, FS_Interval
      <4> QED BY <3>2, <4>2
    <3> HIDE DEF D
    <3>5. Cardinality(D \ hits) = Cardinality(D) - Cardinality(D \cap hits) /\ D \cap hits = hits
      BY <3>2, <3>4, FS_Difference
    <3> QED BY <3>2, <3>3, <3>4, <3>5 DEF n
  <2> HIDE DEF m, K
  <2>7. RunsOf(new) = RunsOf(sq)
    <3>1. PICK n, p, c : Books(l, n, p, c, RunsAt(l, DOMAIN l))
      BY BooksExist
    <3>2. Books(m, n - k, p, c, RunsAt(l, DOMAIN l))
      BY <2>5, <3>1
    <3>3. RunsAt(l, DOMAIN l) = RunsAt(m, DOMAIN m)
      BY <3>2, BooksRuns
    <3> QED BY <2>2, <3>3 DEF RunsOf, l
  <2>8. ASSUME Counted(sq) PROVE Counted(new)
    <3>1. Books(l, sq.listlen, sq.reqoutstanding, sq.numoutstanding, RunsOf(sq)) /\ sq.iobufcnt = Len(l)
      BY <2>8 DEF Counted, l
    <3>2. Books(m, sq.listlen - k, sq.reqoutstanding, sq.numoutstanding, RunsOf(sq))
      BY <2>5, <3>1
    <3> QED BY <2>2, <2>6, <2>7, <3>1, <3>2 DEF Counted
  <2> QED BY <2>2, <2>4, <2>7, <2>8 DEF Plain, l
<1> QED BY <1>1, <1>2

(***************************************************************************)
(* The operations between subqueues.                                        *)
(***************************************************************************)
PlainIn(q)   == \A s \in SubQs : Plain(q[s])
CountedIn(q) == \A s \in SubQs : Counted(q[s])
SortedIn(q)  == \A s \in SubQs : alg[s] # "FCFS" => Sorted(q[s].list)

\* What stays as it is when waiting iobufs move between subqueues
Steady(q, q2) ==
    /\ SortedIn(q) => SortedIn(q2)
    /\ \A s \in SubQs : q2[s].reqoutstanding = q[s].reqoutstanding /\ RunsOf(q2[s]) = RunsOf(q[s])
    /\ PlainIn(q) => PlainIn(q2)
    /\ PlainIn(q) /\ CountedIn(q) => CountedIn(q2)

LEMMA SteadyItself == ASSUME NEW q PROVE Steady(q, q)
BY DEF Steady

LEMMA SteadyTwice ==
  ASSUME NEW q, NEW q1, NEW q2, Steady(q, q1), Steady(q1, q2)
  PROVE  Steady(q, q2)
BY DEF Steady

\* ... when none moves at all
Same(q, q2) == Steady(q, q2) /\ (CountedIn(q) => CountedIn(q2))

\* An iobuf is exchanged for one with the same requests in the same state.
LEMMA ExchangeSteady ==
  ASSUME ConfigOk, NEW q, Sound(q), NEW s \in SubQs, NEW i \in DOMAIN q[s].list,
         NEW e \in Bufs, e.iolist = q[s].list[i].iolist, e.starttime = q[s].list[i].starttime,
         e.state = q[s].list[i].state,
         NEW q2, q2 = [q EXCEPT ![s].list[i] = e]
  PROVE  Same(q, q2)
<1> DEFINE sq == q[s]
           l == sq.list
           m == [l EXCEPT ![i] = e]
           new == [sq EXCEPT !.list = m]
           b == l[i]
<1>1. sq \in Subqueues /\ l \in Seq(Bufs) /\ i \in DOMAIN l
  BY SubqueueOf
<1>2. q2[s] = new /\ \A t \in SubQs : t # s => q2[t] = q[t]
  BY DEF Sound
<1>3. /\ new.list = m /\ new.reqoutstanding = sq.reqoutstanding
      /\ new.numoutstanding = sq.numoutstanding /\ new.listlen = sq.listlen
      /\ new.iobufcnt = sq.iobufcnt
  BY <1>1 DEF Subqueues
<1>4. e.iolist = b.iolist /\ e.starttime = b.starttime /\ (ReadyToGo(e) <=> ReadyToGo(b)) /\ l[i] = b
  BY DEF ReadyToGo
<1>5. b \in Bufs
  BY <1>1
<1>6. m = [l EXCEPT ![i] = e] /\ Len(m) = Len(l)
  BY <1>1
<1> HIDE DEF new, m, l, b
<1>7. BufBlkno(e) = BufBlkno(b) /\ ReqCnt(e) = ReqCnt(b) /\ ReqCnt(b) \in Nat
  BY <1>4, <1>5, BufFacts DEF BufBlkno, ReqCnt
<1>8. ASSUME NEW n, NEW p, NEW c, NEW R, Books(l, n, p, c, R) PROVE Books(m, n, p, c, R)
  <2>1. Replaces(l, m, i, e, n, p, c, R)
    BY <1>1, <1>6, <1>8, ReplaceBooks
  <2>2. n \in Nat /\ ((n - ReqCnt(b)) + ReqCnt(b) = n)
    <3>1. n \in Nat
      BY <2>1 DEF Replaces
    <3> QED BY <1>7, <3>1
  <2> QED BY <1>4, <1>7, <2>1, <2>2 DEF Replaces
<1>9. (Sorted(l) => Sorted(m)) /\ (Single(l) => Single(m))
  <2>1. /\ BufBlkno(e) = BufBlkno(l[i]) /\ Sorted(l) => Sorted(m)
        /\ ReqCnt(e) = 1 /\ Single(l) => Single(m)
    BY <1>1, <1>6, ReplaceOrder
  <2>2. Single(l) => ReqCnt(e) = 1
    BY <1>1, <1>4, <1>7 DEF Single
  <2> QED BY <1>4, <1>7, <2>1, <2>2
<1>10. RunsOf(new) = RunsOf(sq)
  <2>1. PICK n, p, c : Books(l, n, p, c, RunsAt(l, DOMAIN l))
    BY BooksExist
  <2>2. Books(m, n, p, c, RunsAt(l, DOMAIN l))
    BY <1>8, <2>1
  <2>3. RunsAt(l, DOMAIN l) = RunsAt(m, DOMAIN m)
    BY <2>2, BooksRuns
  <2> QED BY <1>3, <2>3 DEF RunsOf, l
<1>11. Counted(sq) => Counted(new)
  <2> SUFFICES ASSUME Counted(sq) PROVE Counted(new)
    OBVIOUS
  <2>1. Books(l, sq.listlen, sq.reqoutstanding, sq.numoutstanding, RunsOf(sq)) /\ sq.iobufcnt = Len(l)
    BY DEF Counted, l
  <2>2. Books(m, sq.listlen, sq.reqoutstanding, sq.numoutstanding, RunsOf(sq))
    BY <1>8, <2>1
  <2> QED BY <1>3, <1>6, <1>10, <2>1, <2>2 DEF Counted
<1>12. Plain(sq) => Plain(new)
  BY <1>3, <1>9 DEF Plain, l
<1>13. Sorted(sq.list) => Sorted(new.list)
  BY <1>3, <1>9 DEF l
<1> HIDE DEF sq
<1>14. q[s] = sq
  BY DEF sq
<1>15. SortedIn(q) => SortedIn(q2)
  BY <1>2, <1>13, <1>14 DEF SortedIn
<1>16. PlainIn(q) => PlainIn(q2)
  BY <1>2, <1>12, <1>14 DEF PlainIn
<1>17. CountedIn(q) => CountedIn(q2)
  BY <1>2, <1>11, <1>14 DEF CountedIn
<1>18. \A t \in SubQs : q2[t].reqoutstanding = q[t].reqoutstanding /\ RunsOf(q2[t]) = RunsOf(q[t])
  BY <1>2, <1>3, <1>10, <1>14
<1> QED BY <1>15, <1>16, <1>17, <1>18 DEF Steady, Same

LEMMA SetBufFlagSteady ==
  ASSUME ConfigOk, NEW q, Sound(q), NEW s \in SubQs, NEW i \in DOMAIN q[s].list, NEW f \in Flags
  PROVE  Same(q, SetBufFlag(q, s, i, f))
<1> DEFINE b == q[s].list[i]
           e == [b EXCEPT !.flags = @ \cup {f}]
           q2 == SetBufFlag(q, s, i, f)
<1>1. b \in Bufs
  BY SubqueueOf
<1>2. q2 = [q EXCEPT ![s].list[i] = e]
  BY DEF SetBufFlag
<1> HIDE DEF q2
<1>3. e \in IobufSet /\ e.iolist = b.iolist /\ e.starttime = b.starttime /\ e.state = b.state
  <2>1. b \in IobufSet
    BY <1>1 DEF Bufs
  <2> HIDE DEF b
  <2> QED BY <2>1 DEF IobufSet
<1> HIDE DEF e
<1>4. e \in Bufs
  <2> HIDE DEF b
  <2> QED BY <1>1, <1>3, SameChain
<1>5. Same(q, q2)
  BY <1>2, <1>3, <1>4, ExchangeSteady
<1> QED BY <1>5 DEF q2

LEMMA AgedSteady ==
  ASSUME ConfigOk, NEW q, Sound(q), NEW s \in SubQs, NEW i \in DOMAIN q[s].list
  PROVE  Steady(q, Aged(q, s, i))
<1> DEFINE b == q[s].list[i]
           w == IF b.waittime < MaxWait THEN b.waittime + 1 ELSE b.waittime
           e == [b EXCEPT !.waittime = w]
           q2 == Aged(q, s, i)
<1>1. b \in Bufs
  BY SubqueueOf
<1>2. q2 = [q EXCEPT ![s].list[i] = e]
  BY DEF Aged
<1>3. e \in IobufSet /\ e.iolist = b.iolist /\ e.starttime = b.starttime /\ e.state = b.state
  <2>1. b \in IobufSet /\ to_time \in Nat
    BY <1>1, ConfigFacts DEF Bufs
  <2>2. w \in 0..MaxWait
    <3>1. b.waittime \in 0..MaxWait /\ MaxWait \in Nat
      BY <2>1 DEF IobufSet, MaxWait
    <3> HIDE DEF b
    <3> QED BY <3>1
  <2> HIDE DEF b, w
  <2> QED BY <2>1, <2>2 DEF IobufSet
<1> HIDE DEF e
<1>4. e \in Bufs
  <2> HIDE DEF b
  <2> QED BY <1>1, <1>3, SameChain
<1> HIDE DEF q2
<1>5. Same(q, q2)
  BY <1>2, <1>3, <1>4, ExchangeSteady
<1> QED BY <1>5 DEF q2, Same


\* A waiting iobuf that moves from s to d keeps the order of both; and when
\* nothing is ever chained, their counters.
LEMMA MoveSteady ==
  ASSUME ConfigOk, NEW q, Sound(q), NEW s \in SubQs, NEW d \in SubQs, s # d,
         NEW i \in DOMAIN q[s].list, ReadyToGo(q[s].list[i])
  PROVE  Steady(q, Move(q, s, d, i).q)
<1> DEFINE b == q[s].list[i]
           sq == q[s]
           dq == q[d]
           ins == InsertNewRequest(alg[d], q[d], b)
           chain == IF ins.absorbed
                      THEN Chained(ins.sq.list[ins.at]) \ Chained(q[d].list[ins.at])
                      ELSE Chained(ins.sq.list[ins.at])
           iocnt == IF ins.absorbed THEN ReqCnt(b) ELSE Cardinality(chain)
           away == MovedAway(q[s], i, iocnt)
           q2 == Move(q, s, d, i).q
<1>1. sq \in Subqueues /\ dq \in Subqueues /\ sq.list \in Seq(Bufs) /\ q \in [SubQs -> Subqueues]
  BY SubqueueOf DEF Sound
<1>2. b \in Bufs /\ ReadyToGo(b)
  BY <1>1
<1>3. Admits(alg[d], dq, b, ins)
  <2> DEFINE a == alg[d]
  <2> HIDE DEF a, b, dq
  <2>1. Admits(a, dq, b, InsertNewRequest(a, dq, b))
    BY <1>1, <1>2, InsertNewAdmits
  <2> QED BY <2>1 DEF a, dq
<1>4. q2 = [q EXCEPT ![s] = away, ![d] = ins.sq]
  BY DEF Move, Moved
<1> HIDE DEF q2
<1>5. q2[s] = away /\ q2[d] = ins.sq /\ \A t \in SubQs : t # s /\ t # d => q2[t] = q[t]
  BY <1>1, <1>4
<1>6. PlainIn(q) => iocnt = ReqCnt(b) /\ ReqCnt(b) = 1
  <2> SUFFICES ASSUME PlainIn(q) PROVE iocnt = ReqCnt(b) /\ ReqCnt(b) = 1
    OBVIOUS
  <2>1. concatmax = 0 /\ Single(sq.list)
    BY DEF PlainIn, Plain
  <2>2. ReqCnt(b) = 1
    BY <2>1 DEF Single
  <2>3. ~ins.absorbed /\ ins.sq.list[ins.at] = b
    BY <1>3, <2>1 DEF Admits
  <2> HIDE DEF b, ins
  <2>4. iocnt = Cardinality(Chained(b))
    BY <2>3
  <2>5. DOMAIN b.iolist = {1}
    <3>1. b.iolist \in Seq(Reqs)
      BY <1>2, BufFacts
    <3> QED BY <2>2, <3>1 DEF ReqCnt
  <2>6. Chained(b) = {b.iolist[1]}
    BY <2>5 DEF Chained
  <2>7. Cardinality(Chained(b)) = 1
    BY <2>6, FS_Singleton
  <2> QED BY <2>2, <2>4, <2>7
<1> HIDE DEF ins, iocnt
<1>7. /\ Leaves(alg[s], sq, i, iocnt, away) /\ RunsOf(away) = RunsOf(sq)
      /\ away.reqoutstanding = sq.reqoutstanding
  <2> DEFINE a == alg[s]
             n == iocnt
  <2>1. i \in DOMAIN sq.list /\ ReadyToGo(sq.list[i])
    OBVIOUS
  <2> HIDE DEF a, sq, n
  <2>2. /\ Leaves(a, sq, i, n, MovedAway(sq, i, n))
        /\ RunsOf(MovedAway(sq, i, n)) = RunsOf(sq)
        /\ MovedAway(sq, i, n).reqoutstanding = sq.reqoutstanding
    BY <1>1, <2>1, MovedAwayStays
  <2> QED BY <2>2 DEF a, sq, n
<1>8. b = sq.list[i]
  OBVIOUS
<1> HIDE DEF away, b
<1>9. SortedIn(q) => SortedIn(q2)
  <2> SUFFICES ASSUME SortedIn(q), NEW t \in SubQs, alg[t] # "FCFS" PROVE Sorted(q2[t].list)
    BY DEF SortedIn
  <2>1. CASE t = s
    BY <1>5, <1>7, <2>1 DEF Leaves, SortedIn
  <2>2. CASE t = d
    BY <1>3, <1>5, <2>2 DEF Admits, SortedIn
  <2>3. CASE t # s /\ t # d
    BY <1>5, <2>3 DEF SortedIn
  <2> QED BY <2>1, <2>2, <2>3
<1>10. \A t \in SubQs : q2[t].reqoutstanding = q[t].reqoutstanding /\ RunsOf(q2[t]) = RunsOf(q[t])
  <2> TAKE t \in SubQs
  <2>1. CASE t = s
    BY <1>5, <1>7, <2>1
  <2>2. CASE t = d
    BY <1>3, <1>5, <2>2 DEF Admits
  <2>3. CASE t # s /\ t # d
    BY <1>5, <2>3
  <2> QED BY <2>1, <2>2, <2>3
<1>11. PlainIn(q) => PlainIn(q2)
  <2> SUFFICES ASSUME PlainIn(q), NEW t \in SubQs PROVE Plain(q2[t])
    BY DEF PlainIn
  <2>1. CASE t = s
    BY <1>5, <1>7, <2>1 DEF Leaves, PlainIn
  <2>2. CASE t = d
    BY <1>3, <1>5, <1>6, <2>2 DEF Admits, PlainIn
  <2>3. CASE t # s /\ t # d
    BY <1>5, <2>3 DEF PlainIn
  <2> QED BY <2>1, <2>2, <2>3
<1>12. PlainIn(q) /\ CountedIn(q) => CountedIn(q2)
  <2> SUFFICES ASSUME PlainIn(q), CountedIn(q), NEW t \in SubQs PROVE Counted(q2[t])
    BY DEF CountedIn
  <2>1. CASE t = s
    BY <1>5, <1>6, <1>7, <1>8, <2>1 DEF Leaves, CountedIn
  <2>2. CASE t = d
    BY <1>3, <1>5, <1>6, <2>2 DEF Admits, CountedIn
  <2>3. CASE t # s /\ t # d
    BY <1>5, <2>3 DEF CountedIn
  <2> QED BY <2>1, <2>2, <2>3
<1>13. Steady(q, q2)
  BY <1>9, <1>10, <1>11, <1>12 DEF Steady
<1> QED BY <1>13 DEF q2

LEMMA TimeoutStepSteady ==
  ASSUME ConfigOk, NEW q, Sound(q), NEW s \in SubQs, NEW d \in SubQs, s # d, NEW maxtime,
         NEW f \in Flags, NEW k \in Nat, NEW acc, Walking(acc, q, s, k + 1), Steady(q, acc.q)
  PROVE  Steady(q, TimeoutStep(acc, s, d, maxtime, f).q)
<1> DEFINE aged == Aged(acc.q, s, acc.i)
           b == acc.q[s].list[acc.i]
           m == Move(aged, s, d, acc.i)
           next == TimeoutStep(acc, s, d, maxtime, f)
<1>1. CASE acc.null
  <2>1. next = acc
    BY <1>1 DEF TimeoutStep
  <2> QED BY <2>1
<1>2. CASE ~acc.null
  <2>1. /\ acc.i \in Nat \ {0} /\ acc.i + (k + 1) = Len(acc.q[s].list) + 1 /\ Sound(acc.q)
        /\ acc = [q |-> acc.q, i |-> acc.i, flags |-> acc.flags, null |-> acc.null]
    BY <1>2 DEF Walking, Kept
  <2>2. acc.i \in DOMAIN acc.q[s].list
    <3>1. acc.q[s].list \in Seq(Bufs)
      BY <2>1, SubqueueOf
    <3> QED BY <2>1, <3>1
  <2> DEFINE i == acc.i
             q1 == acc.q
  <2>3. /\ Kept(q1, aged) /\ i \in DOMAIN aged[s].list
        /\ ReadyToGo(aged[s].list[i]) <=> ReadyToGo(b)
    BY <2>1, <2>2, AgedKeeps
  <2>4. Sound(aged)
    BY <2>3 DEF Kept
  <2>5. Steady(q1, aged)
    BY <2>1, <2>2, AgedSteady
  <2> HIDE DEF aged
  <2>6. Steady(q, aged)
    BY <2>5, SteadyTwice
  <2>7. CASE b.state = "WAITING" /\ b.waittime + 1 > maxtime
    <3>1. next.q = IF m.absorbed THEN m.q ELSE SetBufFlag(m.q, d, m.at, f)
      BY <1>2, <2>7 DEF TimeoutStep, TimedOut, Aged, aged
    <3>2. ReadyToGo(aged[s].list[i])
      BY <2>3, <2>7 DEF ReadyToGo
    <3> HIDE DEF i, next
    <3>3. MovesTo(aged, Move(aged, s, d, i), s, d)
      BY <2>3, <2>4, <3>2, MoveKeeps
    <3>4. Steady(aged, Move(aged, s, d, i).q)
      BY <2>3, <2>4, <3>2, MoveSteady
    <3>5. m = Move(aged, s, d, i)
      BY DEF i
    <3> HIDE DEF m
    <3> DEFINE mq == m.q
               j == m.at
    <3>6. Sound(mq) /\ j \in DOMAIN mq[d].list /\ Steady(aged, mq) /\ m.absorbed \in BOOLEAN
      BY <3>3, <3>4, <3>5 DEF MovesTo, Kept
    <3> HIDE DEF mq, j
    <3>7. Steady(mq, SetBufFlag(mq, d, j, f))
      BY <3>6, SetBufFlagSteady DEF Same
    <3>8. Steady(q, mq) /\ Steady(q, SetBufFlag(mq, d, j, f))
      BY <2>6, <3>6, <3>7, SteadyTwice
    <3>9. Steady(q, next.q)
      BY <3>1, <3>6, <3>8 DEF mq, j
    <3> QED BY <3>9 DEF next
  <2>8. CASE ~(b.state = "WAITING" /\ b.waittime + 1 > maxtime)
    <3>1. next = [acc EXCEPT !.q = aged, !.i = @ + 1]
      BY <1>2, <2>8 DEF TimeoutStep, Aged, aged
    <3> HIDE DEF next
    <3>2. next.q = aged
      BY <2>1, <3>1
    <3> QED BY <2>6, <3>2 DEF next
  <2> QED BY <2>7, <2>8
<1>3. acc.null \in BOOLEAN
  BY DEF Walking
<1> QED BY <1>1, <1>2, <1>3

LEMMA TimeoutsSteady ==
  ASSUME ConfigOk, NEW start, Sound(start.q), start.flags \in [Reqs -> SUBSET Flags],
         start.null \in BOOLEAN,
         start = [q |-> start.q, i |-> start.i, flags |-> start.flags, null |-> start.null],
         NEW s \in SubQs, NEW d \in SubQs, s # d, NEW maxtime, NEW f \in Flags
  PROVE  Steady(start.q, ImplementTimeouts(start, s, d, maxtime, f).q)
<1> DEFINE l == start.q[s].list
           n == Len(l)
           base == [start EXCEPT !.i = 1]
<1>1. n \in Nat /\ DOMAIN l = 1..n
  <2>1. l \in Seq(Bufs)
    BY SubqueueOf
  <2> QED BY <2>1
<1>2. PICK p : WalkIs(p, start, s, d, maxtime, f, n)
  <2>1. n \in Nat /\ Len(start.q[s].list) = n /\ DOMAIN start.q[s].list = 1..n
    BY <1>1
  <2> HIDE DEF n
  <2> QED BY <2>1, TimeoutsWalk
<1>3. ImplementTimeouts(start, s, d, maxtime, f) = p[n] /\ p[0] = base
      /\ \A k \in 1..n : p[k] = TimeoutStep(p[k - 1], s, d, maxtime, f)
  BY <1>2 DEF WalkIs
<1>4. base.q = start.q /\ base.flags = start.flags /\ base.null = start.null /\ base.i = 1
      /\ base = [q |-> base.q, i |-> base.i, flags |-> base.flags, null |-> base.null]
  OBVIOUS
<1> HIDE DEF n, l, base
<1> DEFINE S == {k \in 0..n : Walking(p[k], start.q, s, n - k) /\ Steady(start.q, p[k].q)}
<1>8. 0 \in S
  <2>1. Walking(base, start.q, s, n) /\ Steady(start.q, base.q)
    BY <1>1, <1>4, SteadyItself DEF Walking, Kept, n, l
  <2>2. n - 0 = n
    BY <1>1
  <2> QED BY <1>1, <1>3, <2>1, <2>2
<1>9. \A k \in 0..(n - 1) : k \in S => k + 1 \in S
  <2> SUFFICES ASSUME NEW k \in 0..(n - 1), k \in S PROVE k + 1 \in S
    OBVIOUS
  <2> DEFINE j == k + 1
             h == n - j
  <2>1. j \in 1..n /\ j - 1 = k /\ j \in 0..n /\ h \in Nat /\ n - k = h + 1
    BY <1>1
  <2>2. p[j] = TimeoutStep(p[k], s, d, maxtime, f)
    <3> HIDE DEF j
    <3> QED BY <1>3, <2>1
  <2>3. Walking(p[k], start.q, s, h + 1)
    BY <2>1
  <2> DEFINE q0 == start.q
             acc == p[k]
  <2>4. Walking(acc, q0, s, h + 1) /\ Sound(q0) /\ Steady(q0, acc.q)
    BY <2>3
  <2> HIDE DEF h, q0, acc
  <2>5. Walking(TimeoutStep(acc, s, d, maxtime, f), q0, s, h)
    BY <2>1, <2>4, TimeoutStepWalks
  <2>6. Steady(q0, TimeoutStep(acc, s, d, maxtime, f).q)
    BY <2>1, <2>4, TimeoutStepSteady
  <2> QED BY <2>1, <2>2, <2>5, <2>6 DEF q0, acc, h
<1> HIDE DEF S
<1>10. n \in S
  <2>1. \A k \in 0..n : k \in S
    BY <1>1, <1>8, <1>9, AllUpTo
  <2> QED BY <1>1, <2>1
<1>11. Steady(start.q, p[n].q)
  BY <1>10 DEF S
<1> QED BY <1>3, <1>11

LEMMA TimeoutsDoneSteady == ASSUME QueueSound PROVE Steady(queue, TimeoutsDone.q)
<1> DEFINE start == [q |-> queue, i |-> 1, flags |-> flags, null |-> FALSE]
           half == ImplementTimeouts(start, "timeout", "priority", to_time, "TIMED_OUT")
<1>1. ConfigOk /\ Sound(queue) /\ flags \in [Reqs -> SUBSET Flags]
  BY DEF QueueSound
<1>2. /\ Sound(start.q) /\ start.flags \in [Reqs -> SUBSET Flags] /\ start.null \in BOOLEAN
      /\ start = [q |-> start.q, i |-> start.i, flags |-> start.flags, null |-> start.null]
      /\ start.q = queue
  BY <1>1
<1>3. /\ "priority" \in SubQs /\ "timeout" \in SubQs /\ "base" \in SubQs
      /\ "TIMED_OUT" \in Flags /\ "HALF_OUT" \in Flags
  BY DEF SubQs, Flags
<1> HIDE DEF start
<1>4. CASE to_scheme = "NOTIMEOUT"
  <2>1. TimeoutsDone = start
    BY <1>4 DEF TimeoutsDone, start
  <2> QED BY <1>2, <2>1, SteadyItself
<1>5. CASE to_scheme = "BASETIMEOUT"
  <2> DEFINE d == IF pri_scheme = "ALLEQUAL" THEN "timeout" ELSE "priority"
             done == ImplementTimeouts(start, "base", d, to_time, "TIMED_OUT")
  <2>1. TimeoutsDone = done
    BY <1>5 DEF TimeoutsDone, start
  <2>2. d \in SubQs /\ "base" # d
    BY <1>3
  <2> HIDE DEF d
  <2>3. Steady(start.q, done.q)
    BY <1>1, <1>2, <1>3, <2>2, TimeoutsSteady
  <2> HIDE DEF done
  <2> QED BY <1>2, <2>1, <2>3
<1>6. CASE to_scheme = "HALFTIMEOUT"
  <2> DEFINE mt == to_time \div 2
             done == ImplementTimeouts(half, "base", "timeout", mt, "HALF_OUT")
  <2>1. TimeoutsDone = done
    BY <1>6 DEF TimeoutsDone, start
  <2>20. "timeout" # "priority" /\ "base" # "timeout"
    OBVIOUS
  <2>2. Walking(half, start.q, "timeout", 0)
    BY <1>1, <1>2, <1>3, <2>20, TimeoutsKeep
  <2>21. Steady(start.q, half.q)
    BY <1>1, <1>2, <1>3, <2>20, TimeoutsSteady
  <2> HIDE DEF half, mt
  <2>3. /\ Sound(half.q) /\ half.flags \in [Reqs -> SUBSET Flags] /\ half.null \in BOOLEAN
        /\ half = [q |-> half.q, i |-> half.i, flags |-> half.flags, null |-> half.null]
    BY <1>2, <2>2 DEF Walking, Kept
  <2>4. Steady(half.q, done.q)
    BY <1>1, <1>3, <2>3, <2>20, TimeoutsSteady
  <2> DEFINE q0 == start.q
             q1 == half.q
             q2 == done.q
  <2>5. Steady(q0, q1) /\ Steady(q1, q2)
    BY <2>21, <2>4
  <2> HIDE DEF q0, q1, q2
  <2>6. Steady(q0, q2)
    BY <2>5, SteadyTwice
  <2> QED BY <1>2, <2>1, <2>6 DEF q0, q2
<1> QED BY <1>1, <1>4, <1>5, <1>6, ConfigFacts


(***************************************************************************)
(* The steps, and what they leave of the order and of the counters.         *)
(***************************************************************************)

\* Nothing ever moves between subqueues.
NoMoves == pri_scheme = "ALLEQUAL" /\ to_scheme = "NOTIMEOUT"

Orderly(q, q2) ==
    /\ SortedIn(q) => SortedIn(q2)
    /\ PlainIn(q) => PlainIn(q2)
    /\ NoMoves \/ PlainIn(q) => (CountedIn(q) => CountedIn(q2))

\* What one subqueue does to that
Stays(t, sq, new) ==
    /\ alg[t] # "FCFS" /\ Sorted(sq.list) => Sorted(new.list)
    /\ Plain(sq) => Plain(new)
    /\ Counted(sq) => Counted(new)

LEMMA AllStay ==
  ASSUME NEW q, NEW q2, \A t \in SubQs : Stays(t, q[t], q2[t])
  PROVE  Orderly(q, q2)
<1>1. SortedIn(q) => SortedIn(q2)
  BY DEF SortedIn, Stays
<1>2. PlainIn(q) => PlainIn(q2)
  BY DEF PlainIn, Stays
<1>3. CountedIn(q) => CountedIn(q2)
  BY DEF CountedIn, Stays
<1> QED BY <1>1, <1>2, <1>3 DEF Orderly

LEMMA OneStays ==
  ASSUME NEW q \in [SubQs -> Subqueues], NEW s \in SubQs, NEW new, Stays(s, q[s], new),
         NEW q2, q2 = [q EXCEPT ![s] = new]
  PROVE  /\ \A t \in SubQs : Stays(t, q[t], q2[t])
         /\ q2[s] = new /\ \A t \in SubQs : t # s => q2[t] = q[t]
<1>1. q2[s] = new /\ \A t \in SubQs : t # s => q2[t] = q[t]
  OBVIOUS
<1>2. \A t \in SubQs : Stays(t, q[t], q2[t])
  BY <1>1 DEF Stays
<1> QED BY <1>1, <1>2

LEMMA SteadyIsOrderly ==
  ASSUME NEW q, NEW q2, Steady(q, q2), Same(q, q2) \/ ~NoMoves
  PROVE  Orderly(q, q2)
BY DEF Steady, Same, Orderly

\* The accesses that are out are those that were.
SameOut(q, q2) ==
    \A t \in SubQs : q2[t].reqoutstanding = q[t].reqoutstanding /\ RunsOf(q2[t]) = RunsOf(q[t])

LEMMA AddOrderly ==
  ASSUME QueueSound, NEW r \in Reqs, AddNewRequest(r)
  PROVE  Orderly(queue, queue') /\ SameOut(queue, queue')
<1> DEFINE s == ArrivalQueue(r)
           b == NewIobuf(r, ArrivalFlags[r])
           q == queue
           q2 == queue'
           a == alg[s]
           sq == q[s]
           new == InsertNewRequest(a, sq, b).sq
<1>1. /\ ConfigOk /\ Sound(q) /\ q2 = [q EXCEPT ![s] = new] /\ s \in SubQs
      /\ q \in [SubQs -> Subqueues]
  BY DEF QueueSound, AddNewRequest, ArrivalQueue, SubQs, Sound
<1>2. b \in Bufs /\ ReadyToGo(b)
  <2>1. ArrivalFlags[r] \in SUBSET Flags
    BY <1>1, ConfigFacts
  <2> QED BY <1>1, <2>1, NewIobufFacts
<1>3. ReqCnt(b) = 1
  <2>1. b.iolist = <<r>> /\ Len(<<r>>) = 1
    BY DEF NewIobuf
  <2> QED BY <2>1 DEF ReqCnt
<1> HIDE DEF b, s
<1>4. sq \in Subqueues
  BY <1>1
<1> HIDE DEF a, q, q2, sq
<1>5. Admits(a, sq, b, InsertNewRequest(a, sq, b))
  BY <1>1, <1>2, <1>4, InsertNewAdmits
<1>6. Stays(s, sq, new) /\ new.reqoutstanding = sq.reqoutstanding /\ RunsOf(new) = RunsOf(sq)
  BY <1>3, <1>5 DEF Admits, Stays, a
<1>7. Stays(s, q[s], new)
  BY <1>6 DEF sq
<1> HIDE DEF new
<1>8. /\ \A t \in SubQs : Stays(t, q[t], q2[t])
      /\ q2[s] = new /\ \A t \in SubQs : t # s => q2[t] = q[t]
  BY <1>1, <1>7, OneStays
<1>9. Orderly(q, q2)
  BY <1>8, AllStay
<1>10. SameOut(q, q2)
  BY <1>6, <1>8 DEF SameOut, sq
<1> QED BY <1>9, <1>10 DEF q, q2

\* The one subqueue that offers something has one iobuf more on its way.
HandsOutOf(q, q2, s) ==
    /\ q2[s].reqoutstanding = q[s].reqoutstanding + 1
    /\ \E i \in DOMAIN q[s].list : /\ RunsOf(q2[s]) = RunsOf(q[s]) \cup {<<q[s].list[i].iolist, simtime>>}
    /\ \A t \in SubQs : t # s => q2[t] = q[t]

LEMMA HandOutOrderly ==
  ASSUME QueueSound, GetNextRequest
  PROVE  /\ Orderly(queue, queue') /\ NextSubqueue \in SubQs
         /\ HandsOutOf(queue, queue', NextSubqueue)
<1>1. PICK s \in SubQs : \E i \in DOMAIN queue[s].list :
          /\ s = NextSubqueue /\ i = Pick(alg[s], queue[s])
          /\ queue' = [queue EXCEPT ![s] = Issued(alg[s], @, i, simtime)]
  BY DEF GetNextRequest
<1>2. PICK i \in DOMAIN queue[s].list :
          /\ s = NextSubqueue /\ i = Pick(alg[s], queue[s])
          /\ queue' = [queue EXCEPT ![s] = Issued(alg[s], @, i, simtime)]
  BY <1>1
<1> DEFINE q == queue
           q2 == queue'
           sq == q[s]
           a == alg[s]
           new == Issued(a, sq, i, simtime)
<1>3. /\ ConfigOk /\ Sound(q) /\ simtime \in 0..MaxTime /\ q2 = [q EXCEPT ![s] = new]
      /\ q \in [SubQs -> Subqueues]
  BY <1>2 DEF QueueSound, Sound
<1>4. sq \in Subqueues /\ a \in SchedAlgs
  BY <1>3, SubqueueOf
<1>5. i \in ReadyAt(sq)
  <2>1. i \in ReadyAt(sq) \cup {0}
    BY <1>2, <1>3, <1>4, PickIsReady
  <2>2. i # 0
    BY <1>3, <1>4, ReadyOnes
  <2> QED BY <2>1, <2>2
<1>6. Issues(a, sq, i, simtime, new)
  <2> HIDE DEF sq, a
  <2> QED BY <1>3, <1>4, <1>5, IssuedIssues
<1>7. Stays(s, q[s], new)
  BY <1>6 DEF Issues, Stays
<1> HIDE DEF new, q, q2
<1>8. /\ \A t \in SubQs : Stays(t, q[t], q2[t])
      /\ q2[s] = new /\ \A t \in SubQs : t # s => q2[t] = q[t]
  BY <1>3, <1>7, OneStays
<1>9. Orderly(q, q2)
  BY <1>8, AllStay
<1>10. HandsOutOf(q, q2, s)
  <2>1. /\ q2[s].reqoutstanding = q[s].reqoutstanding + 1
        /\ RunsOf(q2[s]) = RunsOf(q[s]) \cup {<<q[s].list[i].iolist, simtime>>}
    BY <1>6, <1>8 DEF Issues
  <2>2. i \in DOMAIN q[s].list
    BY <1>2 DEF q
  <2> QED BY <1>8, <2>1, <2>2 DEF HandsOutOf
<1> QED BY <1>2, <1>9, <1>10 DEF q, q2


\* The queue without the iobuf at i of subqueue s
After(q, s, i) == [q EXCEPT ![s] = Completed(q[s], i)]

\* The access o that is done is that of the iobuf at i of s, and completes the
\* waiting iobufs at the places H.
DoneWith(o, s, i, H) ==
    /\ s \in SubQs /\ i \in DOMAIN queue[s].list /\ ~ReadyToGo(queue[s].list[i])
    /\ Head(queue[s].list[i].iolist) = o.lead
    /\ H = [t \in SubQs |->
              IF comboverlaps = 0 THEN {}
              ELSE Overlapped(After(queue, s, i)[t], o.lead, ArrtimeMax(queue[s].list[i]))]
    /\ \A t \in SubQs : \A k \in H[t] : ReqCnt(After(queue, s, i)[t].list[k]) = 1
    /\ queue' = [t \in SubQs |-> Clobbered(alg[t], After(queue, s, i)[t], H[t])]
    /\ out' = out \ {o}
    /\ idledetect' = (idlework /\ (idledetect \/ NumInQueue(queue') = 0))

LEMMA DoneCases ==
  ASSUME NEW o \in out, PhysicalAccessDone(o)
  PROVE  UNCHANGED <<queue, out, idledetect>> \/ \E s, i, H : DoneWith(o, s, i, H)
<1> DEFINE s == CompletionQueue(o.flags)
           found == {i \in DOMAIN queue[s].list :
                        /\ queue[s].list[i].state = "PENDING"
                        /\ Head(queue[s].list[i].iolist) = o.lead}
           left(i) == [queue EXCEPT ![s] = Completed(@, i)]
           hits(i) == [t \in SubQs |-> IF comboverlaps = 0 THEN {}
                                       ELSE Overlapped(left(i)[t], o.lead, ArrtimeMax(queue[s].list[i]))]
<1>1. s \in SubQs
  BY DEF CompletionQueue, SubQs
<1>2. UNCHANGED <<queue, out, idledetect>> \/ \E i \in found : CompleteWith(o, left(i), hits(i))
  BY DEF PhysicalAccessDone
<1>3. ASSUME NEW i \in found, CompleteWith(o, left(i), hits(i))
      PROVE  UNCHANGED <<queue, out, idledetect>> \/ DoneWith(o, s, i, hits(i))
  <2>1. i \in DOMAIN queue[s].list /\ ~ReadyToGo(queue[s].list[i])
        /\ Head(queue[s].list[i].iolist) = o.lead
    BY DEF ReadyToGo
  <2>2. left(i) = After(queue, s, i)
    BY DEF After
  <2> DEFINE H == hits(i)
             q1 == left(i)
  <2>3. H = [t \in SubQs |->
              IF comboverlaps = 0 THEN {}
              ELSE Overlapped(After(queue, s, i)[t], o.lead, ArrtimeMax(queue[s].list[i]))]
    <3> HIDE DEF left, s
    <3> QED BY <2>2
  <2>4. CompleteWith(o, q1, H)
    BY <1>3
  <2> HIDE DEF H, q1, s
  <2>5. \/ UNCHANGED <<queue, out, idledetect>>
        \/ /\ \A t \in SubQs : \A k \in H[t] : ReqCnt(q1[t].list[k]) = 1
           /\ queue' = [t \in SubQs |-> Clobbered(alg[t], q1[t], H[t])]
           /\ out' = out \ {o}
           /\ idledetect' = (idlework /\ (idledetect \/ NumInQueue(queue') = 0))
    BY <2>4 DEF CompleteWith
  <2>6. q1 = After(queue, s, i)
    BY <2>2 DEF q1
  <2>7. UNCHANGED <<queue, out, idledetect>> \/ DoneWith(o, s, i, H)
    BY <1>1, <2>1, <2>3, <2>5, <2>6 DEF DoneWith
  <2> QED BY <2>7 DEF H
<1> HIDE DEF s, hits, left, found
<1> QED BY <1>2, <1>3

\* Without the iobuf that is done, the queue is sound.
LEMMA AfterSound ==
  ASSUME ConfigOk, NEW q, Sound(q), NEW s \in SubQs, NEW i \in DOMAIN q[s].list,
         ~ReadyToGo(q[s].list[i])
  PROVE  /\ Sound(After(q, s, i)) /\ \A t \in SubQs : Stays(t, q[t], After(q, s, i)[t])
         /\ \A t \in SubQs : RunsOf(After(q, s, i)[t]) \in SUBSET RunsOf(q[t])
         /\ \A t \in SubQs : After(q, s, i)[t].reqoutstanding <= q[t].reqoutstanding
         /\ \A t \in SubQs : WaitsOf(After(q, s, i)[t]) = WaitsOf(q[t])
<1> DEFINE sq == q[s]
           C == Chained(sq.list[i])
           W == WaitsOf(sq)
           O == OutsOf(sq)
           new == Completed(sq, i)
           P == O \ {C}
           q1 == After(q, s, i)
           a == alg[s]
<1>1. sq \in Subqueues /\ StandsFor(sq.list, W, O) /\ q \in [SubQs -> Subqueues]
  BY SubqueueOf DEF Sound
<1>2. new \in Subqueues /\ StandsFor(new.list, W, P)
  <2> HIDE DEF sq
  <2> QED BY <1>1, CompletedLeaves DEF sq
<1>3. q1 = [q EXCEPT ![s] = new]
  BY DEF After
<1> HIDE DEF q1
<1>4. Foreign(q, s, W, P)
  <2>1. (W \cup (UNION P)) \in SUBSET HeldBy(q[s])
    BY DEF HeldBy
  <2> QED BY <2>1, FewerIsForeign
<1>5. Changed(q, q1, s, W, P)
  <2> HIDE DEF new, W, P
  <2> QED BY <1>2, <1>3, <1>4, ChangedSubqueue
<1>6. Sound(q1) /\ WaitsOf(q1[s]) = W
  BY <1>5 DEF Changed
<1>7. /\ Leaves(a, sq, i, ReqCnt(sq.list[i]), new) /\ RunsOf(new) \in SUBSET RunsOf(sq)
      /\ new.reqoutstanding = sq.reqoutstanding - 1
  <2>1. i \in DOMAIN sq.list /\ ~ReadyToGo(sq.list[i])
    OBVIOUS
  <2> HIDE DEF sq, a
  <2> QED BY <1>1, <2>1, CompletedStays
<1>8. Stays(s, q[s], new)
  <2> DEFINE n == ReqCnt(sq.list[i])
  <2>1. n = ReqCnt(sq.list[i])
    OBVIOUS
  <2> HIDE DEF n
  <2>2. Leaves(a, sq, i, n, new)
    BY <1>7, <2>1
  <2> QED BY <2>1, <2>2 DEF Leaves, Stays
<1> HIDE DEF new
<1>9. /\ \A t \in SubQs : Stays(t, q[t], q1[t])
      /\ q1[s] = new /\ \A t \in SubQs : t # s => q1[t] = q[t]
  BY <1>1, <1>3, <1>8, OneStays
<1>10. \A t \in SubQs : q[t].reqoutstanding \in Int
  BY <1>1 DEF Subqueues
<1>11. \A t \in SubQs : q1[t].reqoutstanding <= q[t].reqoutstanding
  BY <1>7, <1>9, <1>10
<1>12. \A t \in SubQs : RunsOf(q1[t]) \in SUBSET RunsOf(q[t])
  BY <1>7, <1>9
<1>13. \A t \in SubQs : WaitsOf(q1[t]) = WaitsOf(q[t])
  BY <1>6, <1>9
<1> QED BY <1>6, <1>9, <1>11, <1>12, <1>13 DEF q1

\* No access starts.
NoneStarts(q, q2) ==
    \A t \in SubQs : /\ q2[t].reqoutstanding <= q[t].reqoutstanding
                     /\ RunsOf(q2[t]) \in SUBSET RunsOf(q[t])

LEMMA DoneOrderly ==
  ASSUME QueueSound, NEW o \in out, NEW s, NEW i, NEW H, DoneWith(o, s, i, H)
  PROVE  Orderly(queue, queue') /\ NoneStarts(queue, queue')
<1> DEFINE q == queue
           q2 == queue'
           q1 == After(q, s, i)
<1>1. /\ ConfigOk /\ Sound(q) /\ s \in SubQs /\ i \in DOMAIN q[s].list /\ ~ReadyToGo(q[s].list[i])
      /\ \A t \in SubQs : \A k \in H[t] : ReqCnt(q1[t].list[k]) = 1
      /\ q2 = [t \in SubQs |-> Clobbered(alg[t], q1[t], H[t])]
  BY DEF QueueSound, DoneWith
<1>2. \A t \in SubQs : H[t] \in SUBSET ReadyAt(q1[t])
  BY DEF DoneWith, Overlapped
<1> HIDE DEF q, q2
<1>3. /\ Sound(q1) /\ \A t \in SubQs : Stays(t, q[t], q1[t])
      /\ \A t \in SubQs : RunsOf(q1[t]) \in SUBSET RunsOf(q[t])
      /\ \A t \in SubQs : q1[t].reqoutstanding <= q[t].reqoutstanding
  BY <1>1, AfterSound
<1> HIDE DEF q1
<1>4. ASSUME NEW t \in SubQs
      PROVE  /\ Stays(t, q[t], q2[t])
             /\ q2[t].reqoutstanding = q1[t].reqoutstanding /\ RunsOf(q2[t]) = RunsOf(q1[t])
  <2> DEFINE a == alg[t]
             sq == q1[t]
             h == H[t]
             new == q2[t]
  <2>1. sq \in Subqueues /\ h \in SUBSET ReadyAt(sq) /\ (\A k \in h : ReqCnt(sq.list[k]) = 1)
    BY <1>1, <1>2, <1>3 DEF Sound
  <2>2. new = Clobbered(a, sq, h)
    BY <1>1
  <2> HIDE DEF a, sq, h, new
  <2>3. /\ Sorted(sq.list) => Sorted(new.list)
        /\ new.reqoutstanding = sq.reqoutstanding /\ RunsOf(new) = RunsOf(sq)
        /\ Plain(sq) => Plain(new)
        /\ Counted(sq) => Counted(new)
    BY <1>1, <2>1, <2>2, ClobberedStays
  <2>4. Stays(t, q[t], sq)
    BY <1>3 DEF sq
  <2>5. Stays(t, q[t], new)
    BY <2>3, <2>4 DEF Stays
  <2> QED BY <2>3, <2>5 DEF sq, new
<1>5. Orderly(q, q2)
  BY <1>4, AllStay
<1>6. NoneStarts(q, q2)
  BY <1>3, <1>4 DEF NoneStarts
<1> QED BY <1>5, <1>6 DEF q, q2

LEMMA RaiseOrderly ==
  ASSUME QueueSound, NEW r \in Reqs, RaisePriority(r)
  PROVE  Orderly(queue, queue') /\ SameOut(queue, queue')
<1> DEFINE s == RaisedFrom(r)
           d == "priority"
           f == "TIME_CRITICAL"
           q == queue
           q2 == queue'
<1>1. ConfigOk /\ Sound(q) /\ f \in Flags
  BY DEF QueueSound, Flags
<1>2. s \in SubQs /\ s # d /\ d \in SubQs
  BY DEF RaisedFrom, SubQs
<1>3. PICK i \in DOMAIN q[s].list :
         \/ /\ q[s].list[i].state = "WAITING" /\ ~NoMoves
            /\ q2 = Raised(Move(q, s, d, i))
         \/ q2 = SetBufFlag(q, s, i, f)
  BY DEF RaisePriority, NoMoves
<1> HIDE DEF s, d, f
<1>4. CASE q2 = SetBufFlag(q, s, i, f)
  <2> HIDE DEF q, q2
  <2>1. Same(q, q2)
    BY <1>1, <1>2, <1>3, <1>4, SetBufFlagSteady
  <2>2. Steady(q, q2)
    BY <2>1 DEF Same
  <2>3. Orderly(q, q2)
    BY <2>1, <2>2, SteadyIsOrderly
  <2> QED BY <2>2, <2>3 DEF Steady, SameOut, q, q2
<1>5. CASE q[s].list[i].state = "WAITING" /\ ~NoMoves /\ q2 = Raised(Move(q, s, d, i))
  <2> DEFINE m == Move(q, s, d, i)
             q1 == m.q
             j == m.at
  <2>0. ReadyToGo(q[s].list[i])
    BY <1>5 DEF ReadyToGo
  <2> HIDE DEF q
  <2>1. MovesTo(q, m, s, d)
    BY <1>1, <1>2, <2>0, MoveKeeps
  <2>2. Steady(q, q1)
    BY <1>1, <1>2, <2>0, MoveSteady
  <2>3. q2 = IF m.absorbed THEN q1 ELSE SetBufFlag(q1, d, j, f)
    BY <1>5 DEF Raised, d, f
  <2> HIDE DEF m, q2
  <2>4. Sound(q1) /\ j \in DOMAIN q1[d].list /\ m.absorbed \in BOOLEAN
    BY <2>1 DEF MovesTo, Kept
  <2> HIDE DEF q1, j
  <2>5. Steady(q1, SetBufFlag(q1, d, j, f))
    BY <1>1, <1>2, <2>4, SetBufFlagSteady DEF Same
  <2>6. Steady(q, q2)
    BY <2>2, <2>3, <2>4, <2>5, SteadyTwice
  <2>7. Orderly(q, q2)
    BY <1>5, <2>6, SteadyIsOrderly
  <2> QED BY <2>6, <2>7 DEF Steady, SameOut, q, q2
<1> QED BY <1>3, <1>4, <1>5

LEMMA TickOrderly ==
  ASSUME QueueSound, Tick
  PROVE  Orderly(queue, queue') /\ SameOut(queue, queue')
<1> DEFINE q == queue
           q2 == queue'
<1>1. q2 = q \/ q2 = TimeoutsDone.q
  BY DEF Tick
<1>2. Steady(q, q2)
  BY <1>1, SteadyItself, TimeoutsDoneSteady
<1>3. NoMoves => q2 = q
  BY <1>1 DEF NoMoves, TimeoutsDone
<1>4. Orderly(q, q2)
  BY <1>2, <1>3, SteadyIsOrderly DEF Same
<1> QED BY <1>2, <1>4 DEF Steady, SameOut


(***************************************************************************)
(* What the counters tell.                                                  *)
(***************************************************************************)

\* A subqueue that counts no request has none.
LEMMA CountsNoneIsEmpty ==
  ASSUME ConfigOk, NEW sq \in Subqueues, Counted(sq)
  PROVE  sq.listlen \in Nat /\ (sq.listlen = 0 => WaitsOf(sq) = {} /\ OutsOf(sq) = {})
<1> DEFINE l == sq.list
           D == DOMAIN l
           v == Counts(l)
<1>1. l \in Seq(Bufs)
  BY DEF Subqueues
<1>2. sq.listlen = Num(l, D)
  BY DEF Counted, Books, Account
<1>3. /\ v \in [D -> Nat] /\ IsFiniteSet(D) /\ Num(l, D) \in Nat
      /\ \A i \in D : v[i] = ReqCnt(l[i]) /\ ReqCnt(l[i]) \in Nat \ {0}
  BY <1>1, AccountTypes
<1>4. Num(l, D) = SumOf(v, D) /\ \A i \in D : v[i] > 0
  BY <1>3 DEF Num
<1>5. D # {} => Num(l, D) > 0
  <2> HIDE DEF D, v, l
  <2>1. {} \in SUBSET D /\ D \ {} = D /\ D \in SUBSET D
    OBVIOUS
  <2>2. \A x \in D : SumOf(v, {}) < SumOf(v, D)
    BY <1>3, <1>4, <2>1, SumIsMonotone
  <2>3. SumOf(v, {}) = 0
    BY <1>3, <2>1, SumFacts
  <2> QED BY <1>4, <2>2, <2>3
<1>6. D = {} => WaitsOf(sq) = {} /\ OutsOf(sq) = {}
  BY DEF WaitsOf, OutsOf, WaitsAt, OutsAt
<1> QED BY <1>2, <1>3, <1>5, <1>6

LEMMA NumInQueueIsNone ==
  ASSUME ConfigOk, NEW q, Sound(q), CountedIn(q), NumInQueue(q) = 0
  PROVE  WaitsIn(q) = {} /\ OutsIn(q) = {}
<1>1. \A s \in SubQs : /\ q[s].listlen \in Nat
                       /\ q[s].listlen = 0 => WaitsOf(q[s]) = {} /\ OutsOf(q[s]) = {}
  BY CountsNoneIsEmpty DEF Sound, CountedIn
<1>2. \A s \in SubQs : q[s].listlen = 0
  <2>1. "base" \in SubQs /\ "timeout" \in SubQs /\ "priority" \in SubQs
    BY DEF SubQs
  <2>2. q["base"].listlen \in Nat /\ q["timeout"].listlen \in Nat /\ q["priority"].listlen \in Nat
    BY <1>1, <2>1
  <2> DEFINE b == q["base"].listlen
             t == q["timeout"].listlen
             p == q["priority"].listlen
  <2>20. b \in Nat /\ t \in Nat /\ p \in Nat /\ (b + t) + p = 0
    BY <2>2 DEF NumInQueue
  <2> HIDE DEF b, t, p
  <2>21. b = 0 /\ t = 0 /\ p = 0
    BY <2>20
  <2>3. q["base"].listlen = 0 /\ q["timeout"].listlen = 0 /\ q["priority"].listlen = 0
    BY <2>21 DEF b, t, p
  <2> QED BY <2>3 DEF SubQs
<1> QED BY <1>1, <1>2 DEF WaitsIn, OutsIn

\* A subqueue in which a request waits has one to offer: its counters say so, and
\* every discipline picks one.
LEMMA PickFindsReady ==
  ASSUME ConfigOk, NEW a \in SchedAlgs, NEW sq \in Subqueues, ReadyAt(sq) # {}
  PROVE  Pick(a, sq) # 0
<1> DEFINE n == Len(sq.list)
<1>1. /\ n \in Nat /\ ReadyAt(sq) \in SUBSET (1..n) /\ DOMAIN sq.list = 1..n
      /\ \A i \in 1..n : BufBlkno(sq.list[i]) \in Nat
      /\ sq.lastblkno \in Nat
  BY ReadyOnes
<1>11. 0 \notin 1..n
  OBVIOUS
<1> HIDE DEF n
<1>2. CASE n = 1
  <2>1. Pick(a, sq) = IF ReadyToGo(sq.list[1]) THEN 1 ELSE 0
    BY <1>2 DEF Pick, n
  <2>2. ReadyToGo(sq.list[1])
    BY <1>1, <1>2 DEF ReadyAt
  <2> QED BY <2>1, <2>2
<1>3. CASE n # 1 /\ a = "FCFS"
  <2> DEFINE I == {i \in 1..Len(sq.list) : ReadyToGo(sq.list[i])}
  <2>1. I = ReadyAt(sq)
    BY <1>1 DEF ReadyAt, n
  <2>2. Pick(a, sq) = IF I # {} THEN Min(I) ELSE 0
    BY <1>3 DEF Pick, n, FcfsPick, SelectInSeq
  <2> HIDE DEF I
  <2>3. Min(I) \in I
    BY <1>1, <2>1, MinIsLeast
  <2> QED BY <1>1, <1>11, <2>1, <2>2, <2>3
<1>4. CASE n # 1 /\ a = "CYCLE_LBN"
  <2> DEFINE ready == ReadyAt(sq)
             above == {i \in ready : BufBlkno(sq.list[i]) >= sq.lastblkno}
  <2>1. Pick(a, sq) = IF ready = {} THEN 0 ELSE IF above # {} THEN Min(above) ELSE Min(ready)
    BY <1>4 DEF Pick, n, ScanPick
  <2>2. ready \subseteq 1..n /\ above \subseteq 1..n /\ ready # {}
    BY <1>1
  <2> HIDE DEF ready, above
  <2>3. Min(ready) \in ready /\ (above # {} => Min(above) \in above)
    BY <1>1, <2>2, MinIsLeast
  <2> QED BY <1>11, <2>1, <2>2, <2>3
<1>5. CASE n # 1 /\ a # "FCFS" /\ a # "CYCLE_LBN"
  <2> DEFINE above == {i \in ReadyAt(sq) : BufBlkno(sq.list[i]) >= sq.lastblkno}
             below == {i \in ReadyAt(sq) : BufBlkno(sq.list[i]) < sq.lastblkno}
             near  == {i \in below : BufBlkno(sq.list[i]) = BufBlkno(sq.list[Max(below)])}
  <2>1. Pick(a, sq) = VscanPick(sq, VscanValue(a))
    BY <1>5 DEF Pick, n
  <2>2. /\ VscanTop(sq) = IF above = {} THEN 0 ELSE Min(above)
        /\ VscanBottom(sq) = IF below = {} THEN 0 ELSE Min(near)
    BY DEF VscanTop, VscanBottom
  <2>3. above \subseteq 1..n /\ below \subseteq 1..n /\ above \cup below = ReadyAt(sq)
    BY <1>1
  <2> HIDE DEF above, below
  <2>4. above # {} => VscanTop(sq) # 0
    <3>1. above # {} => Min(above) \in above
      BY <1>1, <2>3, MinIsLeast
    <3> QED BY <1>11, <2>2, <2>3, <3>1
  <2>5. below # {} => VscanBottom(sq) # 0
    <3>1. below # {} => Max(below) \in below
      BY <1>1, <2>3, GreatestElement
    <3>2. near \subseteq 1..n /\ (below # {} => near # {})
      BY <2>3, <3>1
    <3> HIDE DEF near
    <3>3. near # {} => Min(near) \in near
      BY <1>1, <3>2, MinIsLeast
    <3> QED BY <1>11, <2>2, <3>2, <3>3
  <2>6. VscanTop(sq) # 0 \/ VscanBottom(sq) # 0
    BY <2>3, <2>4, <2>5
  <2>7. \/ VscanTop(sq) = 0 /\ VscanPick(sq, VscanValue(a)) = VscanBottom(sq)
        \/ VscanBottom(sq) = 0 /\ VscanPick(sq, VscanValue(a)) = VscanTop(sq)
        \/ /\ VscanTop(sq) # 0 /\ VscanBottom(sq) # 0
           /\ VscanPick(sq, VscanValue(a)) \in {VscanTop(sq), VscanBottom(sq)}
    BY DEF VscanPick
  <2> QED BY <2>1, <2>6, <2>7
<1> QED BY <1>2, <1>3, <1>4, <1>5

LEMMA WaitingOffers ==
  ASSUME QueueSound, NEW s \in SubQs, Counted(queue[s]), Waiting(s) # {}
  PROVE  Offers(s)
<1> DEFINE sq == queue[s]
           l == sq.list
           D == DOMAIN l
           P == PendAt(l, D)
           v == Counts(l)
           a == alg[s]
<1>1. ConfigOk /\ sq \in Subqueues /\ l \in Seq(Bufs) /\ a \in SchedAlgs
  BY SubqueueOf DEF QueueSound
<1>2. PICK x : x \in D /\ ReadyToGo(l[x])
  <2>1. Waiting(s) = WaitsOf(sq)
    BY PoolView
  <2> QED BY <2>1 DEF WaitsOf, WaitsAt
<1>3. Pick(a, sq) # 0
  <2>1. ReadyAt(sq) # {}
    BY <1>2 DEF ReadyAt
  <2> HIDE DEF sq, a
  <2> QED BY <1>1, <2>1, PickFindsReady
<1>4. /\ sq.listlen = SumOf(v, D) /\ sq.numoutstanding = SumOf(v, P)
      /\ sq.reqoutstanding = Cardinality(P) /\ sq.iobufcnt = Len(l)
  BY DEF Counted, Books, Account, Num
<1>5. /\ v \in [D -> Nat] /\ IsFiniteSet(D) /\ P \in SUBSET D /\ x \in D \ P
      /\ v[x] > 0 /\ SumOf(v, D) \in Nat /\ SumOf(v, P) \in Nat
  <2>1. /\ Counts(l) \in [DOMAIN l -> Nat] /\ IsFiniteSet(D)
        /\ PendAt(l, D) \in SUBSET D
        /\ Num(l, D) \in Nat /\ Num(l, PendAt(l, D)) \in Nat
        /\ \A i \in DOMAIN l : Counts(l)[i] = ReqCnt(l[i]) /\ ReqCnt(l[i]) \in Nat \ {0}
    BY <1>1, AccountTypes
  <2>2. ~(x \in P)
    BY <1>2 DEF PendAt
  <2>3. v[x] > 0
    BY <1>2, <2>1
  <2> QED BY <1>2, <2>1, <2>2, <2>3 DEF Num
<1>51. DOMAIN l = 1..Len(l) /\ Len(l) \in Nat
  BY <1>1
<1>6. Cardinality(D) = Len(l)
  <2> DEFINE n == Len(l)
  <2>1. n \in Nat /\ D = 1..n
    BY <1>51
  <2> HIDE DEF n, D
  <2>2. 1 \in Int /\ n \in Int
    BY <2>1
  <2>3. Cardinality(1..n) = IF 1 > n THEN 0 ELSE n - 1 + 1
    BY <2>2, FS_Interval
  <2>4. Cardinality(D) = n
    BY <2>1, <2>3
  <2> QED BY <2>4 DEF n
<1> HIDE DEF sq, l, D, P, v
<1>7. SumOf(v, P) < SumOf(v, D)
  <2>1. D \in SUBSET D
    OBVIOUS
  <2> QED BY <1>5, <2>1, SumIsMonotone
<1>8. Cardinality(P) # Cardinality(D)
  <2>1. Cardinality(D) = Cardinality(P) => D = P
    BY <1>5, FS_Subset
  <2> QED BY <1>5, <2>1
<1>9. sq.listlen - sq.numoutstanding > 0
  BY <1>4, <1>5, <1>7
<1> QED BY <1>3, <1>4, <1>6, <1>8, <1>9 DEF Offers, NumPending, sq, a

(***************************************************************************)
(* The inductive invariant with the order and the counters.                 *)
(***************************************************************************)
ChainsStayHere == concatmax = 0 \/ NoMoves

\* The lists are ordered and, unless chains may move, the counters are those of
\* the lists and the idle timer runs only while nothing is in the queue.
QueueBooks ==
    /\ QueueSound /\ SortedIn(queue)
    /\ concatmax = 0 => PlainIn(queue)
    /\ ChainsStayHere => CountedIn(queue)
    /\ ChainsStayHere /\ idledetect => WaitsIn(queue) = {} /\ OutsIn(queue) = {}

LEMMA BooksInit == Init => QueueBooks
<1> SUFFICES ASSUME Init PROVE QueueBooks
  OBVIOUS
<1>1. QueueSound /\ WaitsIn(queue) = {} /\ OutsIn(queue) = {} /\ ConfigOk
  BY SoundInit DEF QueueSound
<1> DEFINE sq == EmptySubqueue
           l == sq.list
<1>2. /\ l = <<>> /\ DOMAIN l = {} /\ Len(l) = 0 /\ sq.iobufcnt = 0 /\ sq.listlen = 0
      /\ sq.reqoutstanding = 0 /\ sq.numoutstanding = 0
  BY DEF EmptySubqueue
<1>3. \A s \in SubQs : queue[s] = sq
  BY DEF Init
<1> HIDE DEF sq
<1>4. Sorted(l) /\ Single(l)
  BY <1>2 DEF Sorted, Single
<1>5. Counted(sq)
  <2> DEFINE D == DOMAIN l
  <2>1. l \in Seq(Bufs) /\ D = {} /\ D \in SUBSET DOMAIN l
    BY <1>2
  <2> HIDE DEF l, D
  <2>2. Counts(l) \in [DOMAIN l -> Nat] /\ IsFiniteSet(D) /\ PendAt(l, D) \in SUBSET D
    BY <1>1, <2>1, AccountTypes
  <2>3. PendAt(l, D) = {}
    BY <2>1, <2>2
  <2>4. SumOf(Counts(l), {}) = 0
    BY <2>1, <2>2, SumFacts
  <2>5. Cardinality({}) = 0
    BY FS_EmptySet
  <2>6. Books(l, 0, 0, 0, RunsOf(sq))
    BY <2>1, <2>3, <2>4, <2>5 DEF Books, Account, Num, RunsOf, l, D
  <2> QED BY <1>2, <2>6 DEF Counted, l
<1>6. SortedIn(queue) /\ CountedIn(queue)
  BY <1>3, <1>4, <1>5 DEF SortedIn, CountedIn
<1>7. concatmax = 0 => PlainIn(queue)
  BY <1>3, <1>4 DEF PlainIn, Plain
<1> QED BY <1>1, <1>6, <1>7 DEF QueueBooks

\* An empty queue, as the counters say
EmptyIn(q) == WaitsIn(q) = {} /\ OutsIn(q) = {}

LEMMA EmptyIsEmpty ==
  ASSUME ConfigOk, NEW q, Sound(q), EmptyIn(q), NEW s \in SubQs
  PROVE  q[s].list = <<>>
<1>1. q[s].list \in Seq(Bufs) /\ WaitsOf(q[s]) \in SUBSET WaitsIn(q) /\ OutsOf(q[s]) \in SUBSET OutsIn(q)
  BY SubqueueOf
<1> DEFINE l == q[s].list
<1>2. \A i \in DOMAIN l : Chained(l[i]) # {}
  <2> SUFFICES ASSUME NEW i \in DOMAIN l PROVE Chained(l[i]) # {}
    OBVIOUS
  <2> DEFINE b == l[i]
  <2>1. b \in Bufs
    BY <1>1
  <2> HIDE DEF b
  <2>2. Chained(b) # {}
    BY <2>1, BufFacts
  <2> QED BY <2>2 DEF b
<1>3. ~(\E i \in DOMAIN l : TRUE)
  <2> SUFFICES ASSUME NEW i \in DOMAIN l PROVE FALSE
    OBVIOUS
  <2>1. CASE ReadyToGo(l[i])
    <3>1. Chained(l[i]) \in SUBSET WaitsOf(q[s])
      BY <2>1 DEF WaitsOf, WaitsAt
    <3> QED BY <1>1, <1>2, <3>1 DEF EmptyIn
  <2>2. CASE ~ReadyToGo(l[i])
    <3>1. Chained(l[i]) \in OutsOf(q[s])
      BY <2>2 DEF OutsOf, OutsAt
    <3> QED BY <1>1, <3>1 DEF EmptyIn
  <2> QED BY <2>1, <2>2
<1>4. l \in Seq(Bufs) /\ DOMAIN l = {}
  BY <1>1, <1>3
<1> HIDE DEF l
<1>5. l = <<>>
  BY <1>4
<1> QED BY <1>5 DEF l

\* What every step does: the order and the counters stay, and the idle timer
\* starts only when the counters say that the queue is empty.
LEMMA NextOrderly ==
  ASSUME QueueSound, [Next]_vars
  PROVE  /\ config' = config /\ Orderly(queue, queue')
         /\ idledetect' = TRUE /\ idledetect = FALSE => NumInQueue(queue') = 0
         /\ idledetect' = TRUE /\ EmptyIn(queue) => EmptyIn(queue')
<1> DEFINE Idles == /\ idledetect' = TRUE /\ idledetect = FALSE => NumInQueue(queue') = 0
                    /\ idledetect' = TRUE /\ EmptyIn(queue) => EmptyIn(queue')
           Goal == config' = config /\ Orderly(queue, queue') /\ Idles
<1>0. Orderly(queue, queue) /\ idledetect \in BOOLEAN
  BY DEF Orderly, QueueSound
<1>1. ASSUME NEW r \in Reqs, AddNewRequest(r) PROVE Goal
  <2>1. Orderly(queue, queue')
    BY <1>1, AddOrderly
  <2> QED BY <1>1, <2>1 DEF AddNewRequest
<1>2. ASSUME NEW r \in Reqs, RaisePriority(r) PROVE Goal
  <2>1. Orderly(queue, queue')
    BY <1>2, RaiseOrderly
  <2>2. Kept(queue, queue')
    BY <1>2, RaiseStep
  <2> QED BY <1>2, <2>1, <2>2 DEF RaisePriority, Kept, EmptyIn
<1>3. ASSUME GetNextRequest PROVE Goal
  <2>1. Orderly(queue, queue')
    BY <1>3, HandOutOrderly
  <2>2. ~EmptyIn(queue)
    BY <1>3, HandOutStep DEF HandingOut, EmptyIn
  <2> QED BY <1>3, <2>1, <2>2 DEF GetNextRequest
<1>4. ASSUME NEW o \in out, PhysicalAccessDone(o) PROVE Goal
  <2>1. config' = config
    BY <1>4 DEF PhysicalAccessDone
  <2>2. CASE UNCHANGED <<queue, out, idledetect>>
    BY <1>0, <2>1, <2>2
  <2>3. CASE \E s, i, H : DoneWith(o, s, i, H)
    <3>1. PICK s, i, H : DoneWith(o, s, i, H)
      BY <2>3
    <3>2. Orderly(queue, queue')
      BY <3>1, DoneOrderly
    <3>3. idledetect' = TRUE /\ idledetect = FALSE => NumInQueue(queue') = 0
      BY <3>1 DEF DoneWith
    <3>4. queue' = queue \/ Completing(queue, queue')
      BY <1>4, DoneStep
    <3>5. EmptyIn(queue) => EmptyIn(queue')
      BY <3>4 DEF Completing, EmptyIn
    <3> QED BY <2>1, <3>2, <3>3, <3>5
  <2> QED BY <1>4, <2>2, <2>3, DoneCases
<1>5. ASSUME Tick PROVE Goal
  <2>1. Orderly(queue, queue')
    BY <1>5, TickOrderly
  <2>2. Kept(queue, queue')
    BY <1>5, TickStep
  <2> QED BY <1>5, <2>1, <2>2 DEF Tick, Kept, EmptyIn
<1>6. ASSUME IdleDetected PROVE Goal
  BY <1>0, <1>6 DEF IdleDetected
<1>7. ASSUME ResetIdledetecter PROVE Goal
  BY <1>0, <1>7 DEF ResetIdledetecter
<1>8. ASSUME Advance PROVE Goal
  BY <1>0, <1>8 DEF Advance
<1>9. ASSUME UNCHANGED vars PROVE Goal
  BY <1>0, <1>9 DEF vars
<1>10. Goal
  <2> HIDE DEF Goal
  <2> QED BY <1>1, <1>2, <1>3, <1>4, <1>5, <1>6, <1>7, <1>8, <1>9 DEF Next
<1> QED BY <1>10

LEMMA BooksStep == QueueBooks /\ [Next]_vars => QueueBooks'
<1> SUFFICES ASSUME QueueBooks, [Next]_vars PROVE QueueBooks'
  OBVIOUS
<1>1. /\ QueueSound /\ SortedIn(queue) /\ (concatmax = 0 => PlainIn(queue))
      /\ ChainsStayHere => CountedIn(queue)
      /\ ChainsStayHere /\ idledetect => EmptyIn(queue)
  BY DEF QueueBooks, EmptyIn
<1>2. QueueSound' /\ ConfigOk /\ idledetect \in BOOLEAN
  BY <1>1, SoundStep DEF QueueSound
<1>3. /\ config' = config /\ Orderly(queue, queue')
      /\ idledetect' = TRUE /\ idledetect = FALSE => NumInQueue(queue') = 0
      /\ idledetect' = TRUE /\ EmptyIn(queue) => EmptyIn(queue')
  BY <1>1, NextOrderly
<1> DEFINE q2 == queue'
<1>4. SortedIn(q2) /\ (concatmax = 0 => PlainIn(q2)) /\ (ChainsStayHere => CountedIn(q2))
  BY <1>1, <1>3 DEF Orderly, ChainsStayHere
<1>5. Sound(q2) /\ idledetect' \in BOOLEAN
  <2>1. Sound(queue)' /\ idledetect' \in BOOLEAN
    BY <1>2 DEF QueueSound
  <2> QED BY <1>3, <2>1, SameConfigSameSound
<1>6. ChainsStayHere /\ idledetect' => EmptyIn(q2)
  <2> SUFFICES ASSUME ChainsStayHere, idledetect' PROVE EmptyIn(q2)
    OBVIOUS
  <2>1. CASE idledetect = TRUE
    BY <1>1, <1>3, <1>5, <2>1
  <2>2. CASE idledetect = FALSE
    <3>1. NumInQueue(q2) = 0 /\ CountedIn(q2)
      BY <1>3, <1>4, <1>5, <2>2
    <3> HIDE DEF q2
    <3> QED BY <1>2, <1>5, <3>1, NumInQueueIsNone DEF EmptyIn
  <2> QED BY <1>2, <2>1, <2>2
<1>7. SortedIn(queue)'
  BY <1>3, <1>4 DEF SortedIn, Sorted, BufBlkno, blkno, alg
<1>8. (concatmax = 0 => PlainIn(queue))'
  BY <1>3, <1>4 DEF PlainIn, Plain, concatmax
<1>9. ChainsStayHere' <=> ChainsStayHere
  BY <1>3 DEF ChainsStayHere, NoMoves, concatmax, pri_scheme, to_scheme
<1>10. (ChainsStayHere => CountedIn(queue))'
  BY <1>4, <1>9 DEF CountedIn
<1>11. (ChainsStayHere /\ idledetect => WaitsIn(queue) = {} /\ OutsIn(queue) = {})'
  BY <1>6, <1>9 DEF EmptyIn
<1> QED BY <1>2, <1>7, <1>8, <1>10, <1>11 DEF QueueBooks

\* Beside that, lists stay ordered, and unless a chain may move between subqueues
\* every counter counts what its list holds (QueueBooks).
THEOREM QueueKeepsBooks == Spec => []QueueBooks
<1>1. Init => QueueBooks
  BY BooksInit
<1>2. QueueBooks /\ [Next]_vars => QueueBooks'
  BY BooksStep
<1> QED BY <1>1, <1>2, PTL DEF Spec

LEMMA SoundIsTyped == QueueSound => TypeOK
<1> SUFFICES ASSUME QueueSound PROVE TypeOK
  OBVIOUS
<1>1. ConfigOk /\ queue \in [SubQs -> Subqueues]
  BY DEF QueueSound, Sound
<1>2. ASSUME NEW s \in SubQs
      PROVE  /\ \A i \in DOMAIN queue[s].list : queue[s].list[i] \in IobufSet
             /\ queue[s].list \in Seq(Iobufs(s))
             /\ queue[s].listlen \in Int /\ queue[s].numoutstanding \in Int
             /\ queue[s].iobufcnt \in Int /\ queue[s].reqoutstanding \in Int
             /\ queue[s].lastblkno \in 0..(numblocks - 1)
             /\ queue[s].dir \in {"ASC", "DESC"} /\ queue[s].sstfupdown \in 0..1
  <2> DEFINE sq == queue[s]
             l == sq.list
             S == Iobufs(s)
  <2>1. sq \in Subqueues
    BY <1>1
  <2>2. l \in Seq(Bufs)
    BY <2>1 DEF Subqueues
  <2>3. \A i \in DOMAIN l : l[i] \in IobufSet
    BY <2>2 DEF Bufs
  <2>4. \A i \in DOMAIN l : l[i] \in S
    BY DEF Iobufs
  <2>5. l \in Seq(S)
    <3> HIDE DEF l, S
    <3> QED BY <2>2, <2>4
  <2> QED BY <2>1, <2>3, <2>5 DEF Subqueues
<1>3. out \subseteq [lead : Reqs, flags : SUBSET Flags]
  BY DEF QueueSound
<1> QED BY <1>2, <1>3 DEF TypeOK, QueueSound

LEMMA CountedMatches == QueueSound /\ CountedIn(queue) => CountersMatch
<1> SUFFICES ASSUME QueueSound, CountedIn(queue) PROVE CountersMatch
  OBVIOUS
<1>1. ConfigOk /\ queue \in [SubQs -> Subqueues]
  BY DEF QueueSound, Sound
<1>2. ASSUME NEW s \in SubQs
      PROVE  LET l == queue[s].list
                 Count(S) == SumFunctionOnSet([i \in DOMAIN l |-> ReqCnt(l[i])], S)
                 pending  == {i \in DOMAIN l : l[i].state = "PENDING"}
             IN /\ queue[s].iobufcnt = Len(l)
                /\ queue[s].listlen = Count(DOMAIN l)
                /\ queue[s].reqoutstanding = Cardinality(pending)
                /\ queue[s].numoutstanding = Count(pending)
  <2> DEFINE l == queue[s].list
             D == DOMAIN l
             pending == {i \in D : l[i].state = "PENDING"}
  <2>1. Counted(queue[s])
    BY DEF CountedIn
  <2>2. /\ queue[s].iobufcnt = Len(l) /\ queue[s].listlen = SumOf(Counts(l), D)
        /\ queue[s].reqoutstanding = Cardinality(PendAt(l, D))
        /\ queue[s].numoutstanding = SumOf(Counts(l), PendAt(l, D))
    BY <2>1 DEF Counted, Books, Account, Num
  <2>3. PendAt(l, D) = pending
    <3>1. l \in Seq(Bufs)
      BY <1>1 DEF Subqueues
    <3>2. \A i \in D : l[i].state \in {"WAITING", "PENDING"}
      BY <3>1 DEF Bufs, IobufSet
    <3> HIDE DEF D, l
    <3> QED BY <3>2 DEF PendAt, ReadyToGo
  <2>4. Counts(l) = [i \in D |-> ReqCnt(l[i])]
    BY DEF Counts
  <2> QED BY <2>2, <2>3, <2>4 DEF SumOf
<1> QED BY <1>2 DEF CountersMatch

\* Every variable keeps its type, and an ordered subqueue its order (SortedLists),
\* in every configuration.
THEOREM QueueKeepsOrder == Spec => [](TypeOK /\ SortedLists)
<1>1. QueueBooks => TypeOK /\ SortedLists
  BY SoundIsTyped DEF QueueBooks, SortedIn, Sorted, SortedLists
<1> QED BY <1>1, QueueKeepsBooks, PTL

LEMMA StaysHere ==
  ASSUME ChainsStay, QueueBooks
  PROVE  QueueSound /\ CountedIn(queue) /\ (idledetect => EmptyIn(queue))
<1>1. ConfigOk
  BY DEF QueueBooks, QueueSound
<1>2. ChainsStayHere
  BY <1>1 DEF ChainsStay, ConfigOk, ChainsStayHere, NoMoves, concatmax, pri_scheme, to_scheme
<1> QED BY <1>2 DEF QueueBooks, EmptyIn

\* Where no chain moves between subqueues, insertion, concatenation, moves, hand
\* out and completion keep every counter of a subqueue equal to what its list
\* holds, its list ordered, and the idle timer off while anything is queued.
THEOREM QueueIsConsistent == ASSUME ChainsStay PROVE Spec => []QueueInv
<1>1. QueueBooks => QueueInv
  <2> SUFFICES ASSUME QueueBooks PROVE QueueInv
    OBVIOUS
  <2>1. QueueSound /\ CountedIn(queue) /\ (idledetect => EmptyIn(queue))
    BY StaysHere
  <2>2. TypeOK /\ CountersMatch
    BY <2>1, SoundIsTyped, CountedMatches
  <2>3. SortedLists
    BY DEF QueueBooks, SortedIn, Sorted, SortedLists
  <2>4. IdleMeansEmpty
    <3>1. ConfigOk /\ Sound(queue)
      BY <2>1 DEF QueueSound
    <3> QED BY <2>1, <3>1, EmptyIsEmpty DEF IdleMeansEmpty
  <2> QED BY <2>2, <2>3, <2>4 DEF QueueInv
<1> QED BY <1>1, QueueKeepsBooks, PTL

\* There the counters and the disciplines never hide a waiting request from the
\* owner that asks for one.
THEOREM WaitingRequestIsOffered == ASSUME ChainsStay PROVE Spec => []WaitingIsOffered
<1>1. QueueBooks => WaitingIsOffered
  <2> SUFFICES ASSUME QueueBooks, NEW s \in SubQs, Waiting(s) # {} PROVE NextSubqueue # "none"
    BY DEF WaitingIsOffered
  <2>1. QueueSound /\ Counted(queue[s])
    BY StaysHere DEF CountedIn
  <2>2. Offers(s)
    BY <2>1, WaitingOffers
  <2> QED BY <2>2 DEF NextSubqueue, SubQs
<1> QED BY <1>1, QueueKeepsBooks, PTL

\* Only get_next_request hands out, from the subqueue it has chosen.
LEMMA OnlyNextHandsOut ==
  ASSUME QueueSound, [Next]_vars, NEW s \in SubQs, HandsOut(s)
  PROVE  GetNextRequest /\ s = NextSubqueue
<1>1. queue \in [SubQs -> Subqueues] /\ \A t \in SubQs : queue[t].reqoutstanding \in Int
  <2>1. queue \in [SubQs -> Subqueues]
    BY DEF QueueSound, Sound
  <2> QED BY <2>1 DEF Subqueues
<1>2. queue'[s].reqoutstanding > queue[s].reqoutstanding
  BY DEF HandsOut
<1>3. ~SameOut(queue, queue') /\ ~NoneStarts(queue, queue') /\ queue' # queue
  <2>1. ~(queue'[s].reqoutstanding = queue[s].reqoutstanding)
    BY <1>1, <1>2
  <2>2. QueueSound'
    BY SoundStep
  <2>3. queue'[s].reqoutstanding \in Int
    <3>1. queue' \in [SubQs -> Subqueues]'
      BY <2>2 DEF QueueSound, Sound
    <3> QED BY <3>1 DEF Subqueues
  <2>4. ~(queue'[s].reqoutstanding <= queue[s].reqoutstanding)
    BY <1>1, <1>2, <2>3
  <2> QED BY <2>1, <2>4 DEF SameOut, NoneStarts
<1>4. \A r \in Reqs : ~AddNewRequest(r) /\ ~RaisePriority(r)
  BY <1>3, AddOrderly, RaiseOrderly
<1>5. ~Tick
  BY <1>3, TickOrderly
<1>6. \A o \in out : ~PhysicalAccessDone(o)
  <2> SUFFICES ASSUME NEW o \in out, PhysicalAccessDone(o) PROVE FALSE
    OBVIOUS
  <2>1. PICK t, i, H : DoneWith(o, t, i, H)
    BY <1>3, DoneCases
  <2> QED BY <1>3, <2>1, DoneOrderly
<1>7. ~IdleDetected /\ ~ResetIdledetecter /\ ~Advance /\ ~UNCHANGED vars
  BY <1>3 DEF IdleDetected, ResetIdledetecter, Advance, vars
<1>8. GetNextRequest
  BY <1>4, <1>5, <1>6, <1>7 DEF Next
<1>9. s = NextSubqueue
  <2>1. NextSubqueue \in SubQs /\ HandsOutOf(queue, queue', NextSubqueue)
    BY <1>8, HandOutOrderly
  <2>2. s # NextSubqueue => queue'[s] = queue[s]
    BY <2>1 DEF HandsOutOf
  <2>3. queue'[s] # queue[s]
    BY <1>1, <1>2
  <2> QED BY <2>2, <2>3
<1> QED BY <1>8, <1>9

\* There a subqueue hands out only when none above it has a waiting request
\* (RankRespected): counters that were too low would let it pass one over.
THEOREM RankIsRespected == ASSUME ChainsStay PROVE Spec => RankRespected
<1>1. ASSUME QueueBooks, [Next]_vars
      PROVE  [\A i, j \in 1..3 : i < j /\ HandsOut(Ranks[j]) => Waiting(Ranks[i]) = {}]_vars
  <2> SUFFICES ASSUME NEW i \in 1..3, NEW j \in 1..3, i < j, HandsOut(Ranks[j]), Waiting(Ranks[i]) # {}
               PROVE  FALSE
    OBVIOUS
  <2>1. QueueSound /\ CountedIn(queue)
    BY <1>1, StaysHere
  <2>2. Ranks[i] \in SubQs /\ Ranks[j] \in SubQs
    BY DEF Ranks, SubQs
  <2>3. Offers(Ranks[i])
    BY <2>1, <2>2, WaitingOffers DEF CountedIn
  <2>4. Ranks[j] = NextSubqueue
    BY <1>1, <2>1, <2>2, OnlyNextHandsOut
  <2>5. \/ i = 1 /\ Ranks[i] = "priority" /\ Ranks[j] \in {"timeout", "base"}
        \/ i = 2 /\ Ranks[i] = "timeout" /\ Ranks[j] = "base"
    BY DEF Ranks
  <2> QED BY <2>3, <2>4, <2>5 DEF NextSubqueue
<1> QED BY <1>1, QueueKeepsBooks, PTL DEF Spec, RankRespected


(***************************************************************************)
(* Times, and the requests completed by overlap.                            *)
(***************************************************************************)

\* No request arrives in the future, and an access starts after its requests
\* have arrived: q's accesses, with the arrivals `at'.
Timely(q, at) ==
    \A s \in SubQs : \A x \in RunsOf(q[s]) : \A k \in DOMAIN x[1] : at[x[1][k]] <= x[2]
QueueTimes == QueueSound /\ (\A r \in Reqs : arrived[r] <= simtime) /\ Timely(queue, arrived)

\* What an access on its way is
RunIs(q, s, x) ==
    /\ x[1] \in Seq(Reqs) /\ x[2] \in Nat
    /\ \A k \in DOMAIN x[1] : x[1][k] \in HeldBy(q[s])

LEMMA RunFacts ==
  ASSUME ConfigOk, NEW q, Sound(q), NEW s \in SubQs, NEW x \in RunsOf(q[s])
  PROVE  RunIs(q, s, x)
<1> DEFINE l == q[s].list
<1>1. l \in Seq(Bufs) /\ MaxTime \in Nat
  BY SubqueueOf, ConfigFacts
<1>2. PICK j \in DOMAIN l : ~ReadyToGo(l[j]) /\ x = <<l[j].iolist, l[j].starttime>>
  BY DEF RunsOf, RunsAt, PendAt
<1> DEFINE b == l[j]
<1>3. b \in Bufs /\ b \in IobufSet
  BY <1>1 DEF Bufs
<1>4. Chained(b) \in SUBSET HeldBy(q[s])
  BY <1>2 DEF HeldBy, OutsOf, OutsAt
<1> HIDE DEF b
<1>5. x[1] = b.iolist /\ x[2] = b.starttime
  BY <1>2 DEF b
<1>6. b.iolist \in Seq(Reqs) /\ b.starttime \in Nat
  BY <1>1, <1>3 DEF IobufSet
<1>7. \A k \in DOMAIN b.iolist : b.iolist[k] \in Chained(b)
  BY DEF Chained
<1> QED BY <1>4, <1>5, <1>6, <1>7 DEF RunIs

LEMMA TimesInit == Init => QueueTimes
<1> SUFFICES ASSUME Init PROVE QueueTimes
  OBVIOUS
<1>1. QueueSound
  BY SoundInit
<1>2. \A s \in SubQs : RunsOf(queue[s]) = {}
  BY DEF Init, EmptySubqueue, RunsOf, RunsAt, PendAt
<1> QED BY <1>1, <1>2 DEF Init, QueueTimes, Timely

LEMMA TimesStep == QueueTimes /\ [Next]_vars => QueueTimes'
<1> SUFFICES ASSUME QueueTimes, [Next]_vars PROVE QueueTimes'
  OBVIOUS
<1> DEFINE Goal == (\A r \in Reqs : arrived'[r] <= simtime') /\ Timely(queue', arrived')
           q == queue
<1>0. /\ QueueSound /\ ConfigOk /\ Sound(q) /\ (\A r \in Reqs : arrived[r] <= simtime)
      /\ Timely(q, arrived) /\ simtime \in Nat /\ arrived \in [Reqs -> Nat]
  BY ConfigFacts DEF QueueTimes, QueueSound
<1>01. \A r \in Reqs : arrived[r] \in Nat
  BY <1>0
<1>1. ASSUME NEW r \in Reqs, AddNewRequest(r) PROVE Goal
  <2>1. SameOut(q, queue')
    BY <1>0, <1>1, AddOrderly
  <2>2. arrived' = [arrived EXCEPT ![r] = simtime] /\ simtime' = simtime /\ ~InQueue(r)
    BY <1>1 DEF AddNewRequest
  <2>3. \A s \in SubQs : ~(r \in HeldBy(q[s]))
    BY <2>2, HeldIsHolds DEF InQueue
  <2>4. \A u \in Reqs : u # r => arrived'[u] = arrived[u]
    BY <1>0, <2>2
  <2>5. ASSUME NEW s \in SubQs, NEW x \in RunsOf(queue'[s]), NEW k \in DOMAIN x[1]
        PROVE  arrived'[x[1][k]] <= x[2]
    <3>1. x \in RunsOf(q[s])
      BY <2>1 DEF SameOut
    <3>2. RunIs(q, s, x)
      BY <1>0, <3>1, RunFacts
    <3>3. x[1][k] \in Reqs /\ x[1][k] # r
      BY <2>3, <3>2 DEF RunIs
    <3>4. arrived[x[1][k]] <= x[2]
      BY <1>0, <3>1 DEF Timely
    <3> QED BY <2>4, <3>3, <3>4
  <2>6. \A u \in Reqs : arrived'[u] <= simtime'
    BY <1>0, <2>2
  <2> QED BY <2>5, <2>6 DEF Timely
<1>2. ASSUME SameOut(q, queue'), arrived' = arrived, simtime' = simtime PROVE Goal
  BY <1>0, <1>2 DEF SameOut, Timely
<1>3. ASSUME GetNextRequest PROVE Goal
  <2> DEFINE n == NextSubqueue
  <2>1. n \in SubQs /\ HandsOutOf(q, queue', n)
    BY <1>0, <1>3, HandOutOrderly
  <2>2. arrived' = arrived /\ simtime' = simtime
    BY <1>3 DEF GetNextRequest
  <2> HIDE DEF n
  <2>3. PICK i \in DOMAIN q[n].list :
           /\ RunsOf(queue'[n]) = RunsOf(q[n]) \cup {<<q[n].list[i].iolist, simtime>>}
           /\ \A t \in SubQs : t # n => queue'[t] = q[t]
    BY <2>1 DEF HandsOutOf
  <2> DEFINE c == q[n].list[i].iolist
             y == <<c, simtime>>
  <2>4. c \in Seq(Reqs)
    <3> DEFINE b == q[n].list[i]
    <3>1. b \in Bufs
      BY <1>0, <2>1, SubqueueOf
    <3> HIDE DEF b
    <3>2. b.iolist \in Seq(Reqs)
      BY <1>0, <3>1, BufFacts
    <3> QED BY <3>2 DEF b
  <2> HIDE DEF c
  <2>5. \A k \in DOMAIN y[1] : arrived[y[1][k]] <= y[2]
    BY <1>0, <2>4
  <2>6. RunsOf(queue'[n]) = RunsOf(q[n]) \cup {y}
    BY <2>3 DEF c
  <2> HIDE DEF y
  <2>7. ASSUME NEW s \in SubQs, NEW x \in RunsOf(queue'[s]) PROVE x \in RunsOf(q[s]) \/ x = y
    BY <2>3, <2>6
  <2>8. Timely(queue', arrived)
    BY <1>0, <2>5, <2>7 DEF Timely
  <2> QED BY <1>0, <2>2, <2>8
<1>4. ASSUME NEW o \in out, PhysicalAccessDone(o) PROVE Goal
  <2>1. arrived' = arrived /\ simtime' = simtime
    BY <1>4 DEF PhysicalAccessDone
  <2>2. queue' = queue \/ NoneStarts(q, queue')
    BY <1>0, <1>4, DoneCases, DoneOrderly
  <2>3. \A t \in SubQs : RunsOf(queue'[t]) \in SUBSET RunsOf(q[t])
    BY <2>2 DEF NoneStarts
  <2> QED BY <1>0, <2>1, <2>3 DEF Timely
<1>5. ASSUME NEW r \in Reqs, RaisePriority(r) PROVE Goal
  BY <1>0, <1>2, <1>5, RaiseOrderly DEF RaisePriority
<1>6. ASSUME Tick PROVE Goal
  BY <1>0, <1>2, <1>6, TickOrderly DEF Tick
<1>7. ASSUME IdleDetected \/ ResetIdledetecter \/ UNCHANGED vars PROVE Goal
  BY <1>0, <1>7 DEF IdleDetected, ResetIdledetecter, vars
<1>8. ASSUME Advance PROVE Goal
  <2>1. queue' = queue /\ arrived' = arrived /\ simtime' = simtime + 1
    BY <1>8 DEF Advance
  <2>2. \A r \in Reqs : arrived[r] <= simtime + 1
    BY <1>0, <1>01
  <2> QED BY <1>0, <2>1, <2>2
<1>9. Goal
  <2> HIDE DEF Goal
  <2> QED BY <1>1, <1>3, <1>4, <1>5, <1>6, <1>7, <1>8 DEF Next
<1>10. QueueSound'
  BY <1>0, SoundStep
<1> QED BY <1>9, <1>10 DEF QueueTimes, Timely

\* Nothing arrives in the future, and no access starts before the requests it
\* serves have arrived (QueueTimes), in every configuration.
THEOREM QueueKeepsTimes == Spec => []QueueTimes
<1>1. Init => QueueTimes
  BY TimesInit
<1>2. QueueTimes /\ [Next]_vars => QueueTimes'
  BY TimesStep
<1> QED BY <1>1, <1>2, PTL DEF Spec

\* Only the completion of an access takes a request out of the queue unserved.
LEMMA OnlyDoneDrops ==
  ASSUME QueueSound, [Next]_vars, NEW r \in WaitsIn(queue),
         ~(\E t \in SubQs : Holds(queue'[t], r))
  PROVE  \E o \in out : PhysicalAccessDone(o)
<1>1. ~(r \in WaitsIn(queue') \cup (UNION OutsIn(queue')))
  <2>1. \A t \in SubQs : ~(r \in HeldBy(queue'[t]))
    BY HeldIsHolds
  <2> QED BY <2>1 DEF HeldBy, WaitsIn, OutsIn
<1>2. \A u \in Reqs : ~AddNewRequest(u)
  BY <1>1, AddStep DEF Adding
<1>3. ~Kept(queue, queue')
  BY <1>1 DEF Kept
<1>4. ~Tick /\ \A u \in Reqs : ~RaisePriority(u)
  BY <1>3, TickStep, RaiseStep
<1>5. ~GetNextRequest
  <2> SUFFICES ASSUME GetNextRequest PROVE FALSE
    OBVIOUS
  <2>1. HandingOut(queue, queue')
    BY HandOutStep
  <2> QED BY <1>1, <2>1 DEF HandingOut
<1>6. ~IdleDetected /\ ~ResetIdledetecter /\ ~Advance /\ ~UNCHANGED vars
  BY <1>1 DEF IdleDetected, ResetIdledetecter, Advance, vars
<1> QED BY <1>2, <1>4, <1>5, <1>6 DEF Next


\* What a waiting request r that is gone owes to the access o that is done
CoveredBy(r, o) ==
    /\ blkno[r] = blkno[o.lead] /\ bcount[r] = bcount[o.lead]
    /\ o.lead \in Reads => r \in Reads
    /\ \E t \in SubQs : \E b \in Iobufs(t) : Head(b.iolist) = o.lead /\ arrived[r] <= b.starttime

LEMMA DroppedIsCovered ==
  ASSUME QueueTimes, comboverlaps # 1, NEW o \in out, NEW s, NEW i, NEW H, DoneWith(o, s, i, H),
         NEW r \in WaitsIn(queue), ~(\E t \in SubQs : Holds(queue'[t], r))
  PROVE  CoveredBy(r, o)
<1> DEFINE q == queue
           q1 == After(queue, s, i)
           b == q[s].list[i]
<1>1. /\ QueueSound /\ ConfigOk /\ Sound(q) /\ arrived \in [Reqs -> Nat]
  BY ConfigFacts DEF QueueTimes, QueueSound
<1>2. /\ s \in SubQs /\ i \in DOMAIN q[s].list /\ ~ReadyToGo(b) /\ Head(b.iolist) = o.lead
      /\ \A t \in SubQs : H[t] = IF comboverlaps = 0 THEN {}
                                 ELSE Overlapped(q1[t], o.lead, ArrtimeMax(b))
      /\ \A t \in SubQs : \A k \in H[t] : ReqCnt(q1[t].list[k]) = 1
      /\ \A t \in SubQs : queue'[t] = Clobbered(alg[t], q1[t], H[t])
  BY DEF DoneWith
<1>3. b \in Bufs
  BY <1>1, <1>2, SubqueueOf
<1>4. Sound(q1) /\ \A t \in SubQs : WaitsOf(q1[t]) = WaitsOf(q[t])
  BY <1>1, <1>2, AfterSound
<1>5. PICK t \in SubQs : r \in WaitsOf(q[t])
  BY DEF WaitsIn
<1> DEFINE sq == q1[t]
           h == H[t]
           a == alg[t]
<1>6. /\ sq \in Subqueues /\ StandsFor(sq.list, WaitsOf(sq), OutsOf(sq)) /\ a \in SchedAlgs
      /\ sq.list \in Seq(Bufs)
  BY <1>1, <1>4, SubqueueOf
<1>7. h \in SUBSET ReadyAt(sq) /\ (h # {} => h = Overlapped(sq, o.lead, ArrtimeMax(b)))
  BY <1>2 DEF Overlapped
<1>8. r \in AllAt(sq.list, h)
  <2>1. ~(r \in HeldBy(queue'[t])) /\ r \in WaitsOf(sq)
    BY <1>4, <1>5, HeldIsHolds
  <2>2. queue'[t] = Clobbered(a, sq, h)
    BY <1>2
  <2> DEFINE new == queue'[t]
  <2> HIDE DEF sq, h, a, new
  <2>3. StandsFor(new.list, WaitsOf(sq) \ AllAt(sq.list, h), OutsOf(sq))
    BY <1>1, <1>6, <1>7, <2>2, ClobberedLeaves DEF new
  <2> DEFINE V == WaitsOf(sq) \ AllAt(sq.list, h)
             O == OutsOf(sq)
  <2>4. StandsFor(new.list, V, O)
    BY <2>3
  <2> HIDE DEF V, O
  <2>5. V = WaitsOf(new)
    BY <2>4, StandsForItself
  <2> QED BY <2>1, <2>5 DEF HeldBy, V, new
<1>9. PICK k \in h : r \in Chained(sq.list[k])
  BY <1>8 DEF AllAt
<1> DEFINE c == sq.list[k]
<1>10. c \in Bufs /\ ReqCnt(c) = 1
  BY <1>2, <1>6, <1>7, <1>9 DEF ReadyAt
<1>11. /\ BufBlkno(c) = blkno[o.lead] /\ TotalSize(c) = bcount[o.lead]
       /\ o.lead \in Reads => IsRead(c)
       /\ arrived[Head(c.iolist)] <= ArrtimeMax(b)
  <2> HIDE DEF c, b, sq
  <2>1. k \in Overlapped(sq, o.lead, ArrtimeMax(b))
    BY <1>7, <1>9
  <2> QED BY <2>1 DEF Overlapped, c
<1>91. r \in Chained(c)
  BY <1>9
<1> HIDE DEF c
<1>12. c.iolist = <<r>> /\ Head(c.iolist) = r /\ r \in Reqs
  <2>1. c.iolist \in Seq(Reqs) /\ Len(c.iolist) = 1
    BY <1>1, <1>10, BufFacts DEF ReqCnt
  <2>2. DOMAIN c.iolist = {1}
    BY <2>1
  <2>3. r = c.iolist[1]
    BY <1>91, <2>2 DEF Chained
  <2> QED BY <2>1, <2>3
<1>13. BufBlkno(c) = blkno[r] /\ TotalSize(c) = bcount[r] /\ (IsRead(c) <=> r \in Reads)
  <2>1. bcount \in [Reqs -> Nat]
    BY <1>1, ConfigFacts
  <2>2. Total(bcount, <<r>>) = bcount[r]
    BY <1>12, <2>1, TotalFacts
  <2> QED BY <1>12, <2>2, SizeIsTotal DEF BufBlkno, IsRead
<1>14. ArrtimeMax(b) <= b.starttime
  <2>1. b.starttime \in Nat
    <3>1. MaxTime \in Nat /\ b \in IobufSet
      BY <1>1, <1>3, ConfigFacts DEF Bufs
    <3> HIDE DEF b
    <3> QED BY <3>1 DEF IobufSet
  <2>2. arrived[Head(b.iolist)] <= b.starttime
    <3>1. <<b.iolist, b.starttime>> \in RunsOf(q[s])
      BY <1>2 DEF RunsOf, RunsAt, PendAt
    <3> DEFINE x == <<b.iolist, b.starttime>>
    <3>2. x[1] = b.iolist /\ x[2] = b.starttime /\ x \in RunsOf(q[s])
      BY <3>1
    <3> HIDE DEF x
    <3>3. \A n \in DOMAIN x[1] : arrived[x[1][n]] <= x[2]
      BY <1>2, <3>2 DEF QueueTimes, Timely
    <3>4. 1 \in DOMAIN b.iolist /\ Head(b.iolist) = b.iolist[1]
      <4> HIDE DEF b
      <4>1. b.iolist \in Seq(Reqs) /\ Len(b.iolist) \in Nat \ {0} /\ Head(b.iolist) = b.iolist[1]
        BY <1>1, <1>3, BufFacts
      <4> QED BY <4>1
    <3> HIDE DEF b
    <3> QED BY <3>2, <3>3, <3>4
  <2> HIDE DEF b
  <2> QED BY <2>1, <2>2 DEF ArrtimeMax
<1>15. arrived[r] <= b.starttime
  <2> DEFINE m == ArrtimeMax(b)
             u == arrived[r]
             v == b.starttime
  <2>1. u <= m /\ m <= v
    BY <1>11, <1>12, <1>14
  <2>2. u \in Nat /\ v \in Nat /\ m \in Nat
    <3>1. MaxTime \in Nat /\ b \in IobufSet /\ b.iolist \in Seq(Reqs) /\ Head(b.iolist) \in Reqs
      <4> HIDE DEF b
      <4> QED BY <1>1, <1>3, BufFacts, ConfigFacts DEF Bufs
    <3>2. v \in Nat
      <4> HIDE DEF b
      <4> QED BY <3>1 DEF IobufSet
    <3>3. m \in Nat
      <4> HIDE DEF b
      <4> QED BY <1>1, <3>1, <3>2 DEF ArrtimeMax
    <3> QED BY <1>1, <1>12, <3>2, <3>3
  <2> HIDE DEF m, u, v
  <2>3. u <= v
    BY <2>1, <2>2
  <2> QED BY <2>3 DEF u, v
<1>16. b \in Iobufs(s)
  BY <1>2 DEF Iobufs
<1> HIDE DEF b
<1>17. \E e \in Iobufs(s) : Head(e.iolist) = o.lead /\ arrived[r] <= e.starttime
  BY <1>2, <1>15, <1>16
<1> QED BY <1>2, <1>11, <1>13, <1>17 DEF CoveredBy

\* In every configuration, unless overlap completion takes whatever has arrived,
\* a request leaves the queue unserved only with an access to exactly its blocks
\* that started after it arrived, never a write with a read (SubsumedIsCovered).
THEOREM OverlapIsCovered == Spec => SubsumedIsCovered
<1>1. ASSUME QueueTimes, [Next]_vars
      PROVE  [comboverlaps # 1 =>
                \A s \in SubQs : \A r \in Waiting(s) :
                   ~(\E t \in SubQs : Holds(queue'[t], r)) =>
                      \E o \in out \ out' :
                         /\ blkno[r] = blkno[o.lead] /\ bcount[r] = bcount[o.lead]
                         /\ o.lead \in Reads => r \in Reads
                         /\ \E t \in SubQs : \E b \in Iobufs(t) :
                               Head(b.iolist) = o.lead /\ arrived[r] <= b.starttime]_vars
  <2> SUFFICES ASSUME comboverlaps # 1, NEW s \in SubQs, NEW r \in Waiting(s),
                      ~(\E t \in SubQs : Holds(queue'[t], r))
               PROVE  \E o \in out \ out' : CoveredBy(r, o)
    BY DEF CoveredBy
  <2>1. QueueSound /\ r \in WaitsIn(queue)
    BY <1>1, PoolView DEF QueueTimes, WaitsIn
  <2>2. PICK o \in out : PhysicalAccessDone(o)
    BY <1>1, <2>1, OnlyDoneDrops
  <2>3. ~(UNCHANGED <<queue, out, idledetect>>)
    <3> SUFFICES ASSUME queue' = queue PROVE FALSE
      OBVIOUS
    <3>1. \E t \in SubQs : r \in HeldBy(queue[t])
      BY <2>1 DEF WaitsIn, HeldBy
    <3> QED BY <3>1, HeldIsHolds
  <2>4. PICK t, i, H : DoneWith(o, t, i, H)
    BY <2>2, <2>3, DoneCases
  <2>5. CoveredBy(r, o)
    BY <1>1, <2>1, <2>4, DroppedIsCovered
  <2>6. o \in out \ out'
    BY <2>4 DEF DoneWith
  <2> QED BY <2>5, <2>6
<1> QED BY <1>1, QueueKeepsTimes, PTL DEF Spec, SubsumedIsCovered


(***************************************************************************)
(* The order in which the disciplines serve.                                *)
(***************************************************************************)

\* An elevator turns only when nothing waits ahead.
SweepsOn(sq, i) ==
    /\ sq.dir = "ASC" /\ BufBlkno(sq.list[i]) < sq.lastblkno =>
          \A j \in ReadyAt(sq) : BufBlkno(sq.list[j]) < sq.lastblkno
    /\ sq.dir = "DESC" /\ BufBlkno(sq.list[i]) > sq.lastblkno =>
          \A j \in ReadyAt(sq) : BufBlkno(sq.list[j]) >= sq.lastblkno

LEMMA SweepPick ==
  ASSUME ConfigOk, NEW sq \in Subqueues, NEW i \in ReadyAt(sq), i = Pick("ELEVATOR_LBN", sq)
  PROVE  SweepsOn(sq, i)
<1> DEFINE n == Len(sq.list)
           last == sq.lastblkno
           Blk(j) == BufBlkno(sq.list[j])
           top == VscanTop(sq)
           bottom == VscanBottom(sq)
           above == {j \in ReadyAt(sq) : Blk(j) >= last}
           below == {j \in ReadyAt(sq) : Blk(j) < last}
           near  == {j \in below : Blk(j) = Blk(Max(below))}
           v == numblocks
<1>1. /\ n \in Nat /\ ReadyAt(sq) \in SUBSET (1..n) /\ DOMAIN sq.list = 1..n
      /\ \A j \in 1..n : Blk(j) \in Nat /\ sq.list[j] \in Bufs
      /\ last \in Nat
  BY ReadyOnes
<1>2. \A j \in 1..n : Blk(j) < v
  <2> SUFFICES ASSUME NEW j \in 1..n PROVE Blk(j) < v
    OBVIOUS
  <2> DEFINE b == sq.list[j]
  <2>1. b \in Bufs
    BY <1>1
  <2> HIDE DEF b
  <2>2. BufBlkno(b) < v
    <3>1. BufBlkno(b) \in Nat /\ TotalSize(b) \in Nat \ {0} /\ BufBlkno(b) + TotalSize(b) <= numblocks
      BY <2>1, BufFacts
    <3>2. numblocks \in Nat
      BY ConfigFacts
    <3> QED BY <3>1, <3>2
  <2> QED BY <2>2 DEF b
<1>3. last < v /\ v \in Nat
  <2>1. last \in 0..(numblocks - 1) /\ numblocks \in Nat
    BY ConfigFacts DEF Subqueues
  <2> QED BY <2>1
<1>4. CASE n = 1
  <2>1. \A j \in ReadyAt(sq) : j = i
    BY <1>1, <1>4
  <2> QED BY <1>1, <2>1 DEF SweepsOn
<1>5. CASE n # 1
  <2>1. i = VscanPick(sq, v)
    BY <1>5 DEF Pick, VscanValue
  <2>2. /\ top = IF above = {} THEN 0 ELSE Min(above)
        /\ bottom = IF below = {} THEN 0 ELSE Min(near)
    BY DEF VscanTop, VscanBottom
  <2>3. above \subseteq 1..n /\ below \subseteq 1..n /\ above \cup below = ReadyAt(sq)
        /\ \A j \in above : Blk(j) >= last /\ \A k \in below : Blk(k) < last
    BY <1>1
  <2>31. (\A j \in above : Blk(j) >= last) /\ (\A k \in below : Blk(k) < last)
    BY <1>1
  <2>4. \A k \in near : k \in below
    OBVIOUS
  <2>5. below # {} => Max(below) \in near
    <3> HIDE DEF below
    <3>1. below # {} => Max(below) \in below
      BY <1>1, <2>3, GreatestElement
    <3> QED BY <3>1
  <2>6. /\ UpDistance(sq, v) = IF sq.dir = "ASC" THEN Blk(top) - last ELSE Penalised(Blk(top) - last, v)
        /\ DownDistance(sq, v) = IF sq.dir = "ASC" THEN Penalised(last - Blk(bottom), v) ELSE last - Blk(bottom)
    BY DEF UpDistance, DownDistance
  <2>7. VscanPick(sq, v) = IF top = 0 THEN bottom
                           ELSE IF bottom = 0 THEN top
                           ELSE IF \/ UpDistance(sq, v) < DownDistance(sq, v)
                                   \/ VscanTied(sq, v) /\ sq.sstfupdown = 0
                                  THEN top ELSE bottom
    BY DEF VscanPick
  <2>71. VscanTied(sq, v) => UpDistance(sq, v) = DownDistance(sq, v)
    BY DEF VscanTied
  <2> HIDE DEF above, below, near
  <2>8. above # {} => top \in above /\ top # 0
    <3>1. above # {} => Min(above) \in above
      BY <1>1, <2>3, MinIsLeast
    <3> QED BY <1>1, <2>2, <2>3, <3>1
  <2>9. below # {} => bottom \in below /\ bottom # 0
    <3>1. near # {} => Min(near) \in near
      <4>1. near \subseteq 1..n
        BY <2>3, <2>4
      <4> QED BY <1>1, <4>1, MinIsLeast
    <3>2. below # {} => Min(near) \in near
      BY <2>5, <3>1
    <3> QED BY <1>1, <2>2, <2>3, <2>4, <3>2
  <2>10. (top = 0 <=> above = {}) /\ (bottom = 0 <=> below = {})
    BY <2>2, <2>8, <2>9
  <2> HIDE DEF Blk, top, bottom, n, last, v
  <2>11. ASSUME sq.dir = "ASC", Blk(i) < last PROVE above = {}
    <3> SUFFICES ASSUME above # {} PROVE FALSE
      OBVIOUS
    <3>1. top \in above /\ top # 0 /\ Blk(top) \in Nat /\ Blk(top) >= last /\ Blk(top) < v
      BY <1>1, <1>2, <2>3, <2>31, <2>8
    <3>2. i # top
      BY <1>1, <2>11, <3>1
    <3>3. i = bottom /\ bottom # 0 /\ bottom \in below /\ Blk(bottom) \in Nat /\ Blk(bottom) < last
      BY <1>1, <2>1, <2>3, <2>31, <2>7, <2>9, <2>10, <3>1, <3>2
    <3>4. UpDistance(sq, v) = Blk(top) - last /\ DownDistance(sq, v) = (last - Blk(bottom)) + v
      BY <1>1, <2>6, <2>11, <3>3 DEF Penalised
    <3>5. UpDistance(sq, v) < DownDistance(sq, v)
      BY <1>1, <1>3, <3>1, <3>3, <3>4
    <3> QED BY <2>1, <2>7, <3>1, <3>2, <3>3, <3>5
  <2>12. ASSUME sq.dir = "DESC", Blk(i) > last PROVE below = {}
    <3> SUFFICES ASSUME below # {} PROVE FALSE
      OBVIOUS
    <3>1. bottom \in below /\ bottom # 0 /\ Blk(bottom) \in Nat /\ Blk(bottom) < last
      BY <1>1, <2>3, <2>31, <2>9
    <3>2. i # bottom
      BY <1>1, <2>12, <3>1
    <3>3. i = top /\ top # 0 /\ Blk(top) \in Nat /\ Blk(top) > last
      BY <1>1, <2>1, <2>3, <2>7, <2>8, <2>10, <2>12, <3>1, <3>2
    <3>4. UpDistance(sq, v) = (Blk(top) - last) + v /\ DownDistance(sq, v) = last - Blk(bottom)
      BY <1>1, <2>6, <2>12, <3>3 DEF Penalised
    <3>5. UpDistance(sq, v) > DownDistance(sq, v)
      BY <1>1, <1>3, <3>1, <3>3, <3>4
    <3>6. ~(UpDistance(sq, v) < DownDistance(sq, v)) /\ ~VscanTied(sq, v)
      BY <1>1, <1>3, <2>71, <3>1, <3>3, <3>4, <3>5
    <3> QED BY <2>1, <2>7, <3>1, <3>2, <3>3, <3>6
  <2> QED BY <1>1, <2>3, <2>31, <2>11, <2>12 DEF SweepsOn, Blk, last
<1> QED BY <1>4, <1>5

\* A cyclic scan goes to the first block at or above the last, or to the lowest.
CyclesOn(sq, i) ==
    \A j \in ReadyAt(sq) :
       IF BufBlkno(sq.list[i]) >= sq.lastblkno
         THEN ~(sq.lastblkno <= BufBlkno(sq.list[j]) /\ BufBlkno(sq.list[j]) < BufBlkno(sq.list[i]))
         ELSE BufBlkno(sq.list[j]) < sq.lastblkno /\ BufBlkno(sq.list[j]) >= BufBlkno(sq.list[i])

LEMMA CyclePick ==
  ASSUME ConfigOk, NEW sq \in Subqueues, Sorted(sq.list), NEW i \in ReadyAt(sq),
         i = Pick("CYCLE_LBN", sq)
  PROVE  CyclesOn(sq, i)
<1> DEFINE n == Len(sq.list)
           last == sq.lastblkno
           Blk(j) == BufBlkno(sq.list[j])
           ready == ReadyAt(sq)
           above == {j \in ready : Blk(j) >= last}
<1>1. /\ n \in Nat /\ ready \in SUBSET (1..n) /\ DOMAIN sq.list = 1..n
      /\ \A j \in 1..n : Blk(j) \in Nat
      /\ last \in Nat /\ i \in ready
  BY ReadyOnes
<1>2. CASE n = 1
  <2>1. \A j \in ready : j = i
    BY <1>1, <1>2
  <2> QED BY <1>1, <2>1 DEF CyclesOn
<1>3. CASE n # 1
  <2>1. i = IF ready = {} THEN 0 ELSE IF above # {} THEN Min(above) ELSE Min(ready)
    BY <1>3 DEF Pick, ScanPick
  <2>2. ready \subseteq 1..n /\ above \subseteq 1..n /\ ready # {}
        /\ \A j \in ready : j \in above <=> Blk(j) >= last
    BY <1>1
  <2>3. \A j, k \in 1..n : j <= k => Blk(j) <= Blk(k)
    <3> SUFFICES ASSUME NEW j \in 1..n, NEW k \in 1..n, j <= k PROVE Blk(j) <= Blk(k)
      OBVIOUS
    <3>1. CASE j = k
      BY <1>1, <3>1
    <3>2. CASE j < k
      BY <1>1, <3>2 DEF Sorted
    <3> QED BY <3>1, <3>2
  <2> HIDE DEF above, ready, Blk, n, last
  <2>4. CASE above # {}
    <3>1. i \in above /\ \A j \in above : i <= j
      <4>1. Min(above) \in above /\ \A j \in above : Min(above) <= j
        BY <1>1, <2>2, <2>4, MinIsLeast
      <4> QED BY <2>1, <2>2, <2>4, <4>1
    <3>2. Blk(i) >= last
      BY <1>1, <2>2, <3>1
    <3>3. ASSUME NEW j \in ready PROVE ~(last <= Blk(j) /\ Blk(j) < Blk(i))
      <4>1. CASE j \in above
        <5>1. Blk(i) <= Blk(j) /\ Blk(i) \in Nat /\ Blk(j) \in Nat
          BY <1>1, <2>2, <2>3, <3>1, <4>1
        <5> QED BY <5>1
      <4>2. CASE ~(j \in above)
        BY <1>1, <2>2, <4>2
      <4> QED BY <4>1, <4>2
    <3> QED BY <3>2, <3>3 DEF CyclesOn, Blk, last, ready
  <2>5. CASE above = {}
    <3>1. i \in ready /\ \A j \in ready : i <= j
      <4>1. Min(ready) \in ready /\ \A j \in ready : Min(ready) <= j
        BY <1>1, <2>2, MinIsLeast
      <4> QED BY <2>1, <2>2, <2>5, <4>1
    <3>2. \A j \in ready : ~(Blk(j) >= last) /\ Blk(j) \in Nat /\ j \in 1..n
      BY <1>1, <2>2, <2>5
    <3>3. \A j \in ready : Blk(j) < last /\ Blk(j) >= Blk(i)
      BY <1>1, <2>3, <3>1, <3>2
    <3> QED BY <3>1, <3>2, <3>3 DEF CyclesOn, Blk, last, ready
  <2> QED BY <2>4, <2>5
<1> QED BY <1>2, <1>3


\* What get_next_request does to the arm of its subqueue
LEMMA ArmOf ==
  ASSUME QueueSound, GetNextRequest, NEW s \in SubQs, s = NextSubqueue
  PROVE  \E i \in ReadyAt(queue[s]) :
            /\ i = Pick(alg[s], queue[s])
            /\ queue'[s].dir = DirAfter(alg[s], queue[s], i)
            /\ queue'[s].lastblkno = LastBlknoAfter(alg[s], queue[s].list[i])
<1>1. PICK t \in SubQs : \E i \in DOMAIN queue[t].list :
          /\ t = NextSubqueue /\ i = Pick(alg[t], queue[t])
          /\ queue' = [queue EXCEPT ![t] = Issued(alg[t], @, i, simtime)]
  BY DEF GetNextRequest
<1>2. PICK i \in DOMAIN queue[s].list :
          /\ i = Pick(alg[s], queue[s])
          /\ queue' = [queue EXCEPT ![s] = Issued(alg[s], @, i, simtime)]
  BY <1>1
<1> DEFINE sq == queue[s]
           a == alg[s]
           new == Issued(a, sq, i, simtime)
<1>3. ConfigOk /\ queue \in [SubQs -> Subqueues] /\ sq \in Subqueues /\ a \in SchedAlgs
  BY SubqueueOf DEF QueueSound, Sound
<1>4. i \in ReadyAt(sq)
  <2>1. i \in ReadyAt(sq) \cup {0}
    BY <1>2, <1>3, PickIsReady
  <2>2. i # 0
    BY <1>2, <1>3, ReadyOnes
  <2> QED BY <2>1, <2>2
<1>5. new.dir = DirAfter(a, sq, i) /\ new.lastblkno = LastBlknoAfter(a, sq.list[i])
  <2> DEFINE d == DirAfter(a, sq, i)
             lb == LastBlknoAfter(a, sq.list[i])
             u == UpDownAfter(a, sq)
  <2>1. new = [sq EXCEPT !.list = ReplaceAt(sq.list, i, [sq.list[i] EXCEPT !.state = "PENDING",
                                                                          !.starttime = simtime]),
                         !.dir = d, !.sstfupdown = u, !.lastblkno = lb,
                         !.reqoutstanding = @ + 1, !.numoutstanding = @ + ReqCnt(sq.list[i])]
    BY DEF Issued
  <2> HIDE DEF d, lb, u, new
  <2>2. new.dir = d /\ new.lastblkno = lb
    BY <1>3, <2>1 DEF Subqueues
  <2> QED BY <2>2 DEF d, lb
<1>6. queue'[s] = new
  BY <1>2, <1>3
<1> QED BY <1>2, <1>4, <1>5, <1>6

\* An elevator turns round only when nothing waits ahead of it, and a cyclic scan
\* passes no waiting iobuf (OrderKept), in every configuration.
THEOREM DisciplinesKeepOrder == Spec => OrderKept
<1>1. ASSUME QueueBooks, [Next]_vars
      PROVE  [\A s \in SubQs :
                alg[s] = "ELEVATOR_LBN" /\ HandsOut(s) /\ queue'[s].dir # queue[s].dir
                  => \A b \in WaitingBlocks(s) :
                        IF queue[s].dir = "ASC" THEN b < queue[s].lastblkno
                                                ELSE b >= queue[s].lastblkno]_vars
  <2> SUFFICES ASSUME NEW s \in SubQs, alg[s] = "ELEVATOR_LBN", HandsOut(s),
                      queue'[s].dir # queue[s].dir, NEW b \in WaitingBlocks(s)
               PROVE  IF queue[s].dir = "ASC" THEN b < queue[s].lastblkno
                                              ELSE b >= queue[s].lastblkno
    OBVIOUS
  <2>1. QueueSound /\ ConfigOk /\ queue[s] \in Subqueues
    BY <1>1 DEF QueueBooks, QueueSound, Sound
  <2>2. GetNextRequest /\ s = NextSubqueue
    BY <1>1, <2>1, OnlyNextHandsOut
  <2>3. PICK i \in ReadyAt(queue[s]) :
           i = Pick(alg[s], queue[s]) /\ queue'[s].dir = DirAfter(alg[s], queue[s], i)
    BY <2>1, <2>2, ArmOf
  <2> DEFINE sq == queue[s]
             last == sq.lastblkno
             c == BufBlkno(sq.list[i])
  <2>4. PICK j \in ReadyAt(sq) : b = BufBlkno(sq.list[j])
    BY DEF WaitingBlocks, Iobufs, ReadyAt
  <2>5. SweepsOn(sq, i)
    <3> HIDE DEF sq
    <3> QED BY <2>1, <2>3, SweepPick DEF sq
  <2>6. c \in Nat /\ last \in Nat /\ sq.dir \in {"ASC", "DESC"}
    <3>1. c \in Nat /\ last \in Nat
      BY <2>1, <2>3, ReadyOnes
    <3> QED BY <2>1, <3>1 DEF Subqueues
  <2>7. DirAfter("ELEVATOR_LBN", sq, i) = IF c = last THEN sq.dir ELSE IF c > last THEN "ASC" ELSE "DESC"
    BY DEF DirAfter, IsVscan
  <2>8. (sq.dir = "ASC" => c < last) /\ (sq.dir = "DESC" => c > last)
    <3> HIDE DEF c, last
    <3> QED BY <2>3, <2>6, <2>7 DEF sq
  <2> QED BY <2>4, <2>5, <2>6, <2>8 DEF SweepsOn
<1>2. ASSUME QueueBooks, [Next]_vars
      PROVE  [\A s \in SubQs :
                alg[s] = "CYCLE_LBN" /\ HandsOut(s)
                  => LET last == queue[s].lastblkno
                         next == queue'[s].lastblkno
                     IN \A b \in WaitingBlocks(s) :
                           IF next >= last THEN ~(last <= b /\ b < next)
                                           ELSE b < last /\ b >= next]_vars
  <2> SUFFICES ASSUME NEW s \in SubQs, alg[s] = "CYCLE_LBN", HandsOut(s), NEW b \in WaitingBlocks(s)
               PROVE  IF queue'[s].lastblkno >= queue[s].lastblkno
                        THEN ~(queue[s].lastblkno <= b /\ b < queue'[s].lastblkno)
                        ELSE b < queue[s].lastblkno /\ b >= queue'[s].lastblkno
    OBVIOUS
  <2>1. QueueSound /\ ConfigOk /\ queue[s] \in Subqueues /\ Sorted(queue[s].list)
    BY <1>2 DEF QueueBooks, QueueSound, Sound, SortedIn
  <2>2. GetNextRequest /\ s = NextSubqueue
    BY <1>2, <2>1, OnlyNextHandsOut
  <2>3. PICK i \in ReadyAt(queue[s]) :
           /\ i = Pick(alg[s], queue[s])
           /\ queue'[s].lastblkno = LastBlknoAfter(alg[s], queue[s].list[i])
    BY <2>1, <2>2, ArmOf
  <2> DEFINE sq == queue[s]
  <2>4. PICK j \in ReadyAt(sq) : b = BufBlkno(sq.list[j])
    BY DEF WaitingBlocks, Iobufs, ReadyAt
  <2>5. CyclesOn(sq, i)
    <3> HIDE DEF sq
    <3> QED BY <2>1, <2>3, CyclePick DEF sq
  <2>6. queue'[s].lastblkno = BufBlkno(sq.list[i])
    BY <2>3 DEF LastBlknoAfter
  <2> QED BY <2>4, <2>5, <2>6 DEF CyclesOn
<1> QED BY <1>1, <1>2, QueueKeepsBooks, PTL DEF Spec, OrderKept, SweepKept, CycleKept

(***************************************************************************)
(* The flags of a request lead to its subqueue.                             *)
(***************************************************************************)
SameWaits(q, q2) == \A t \in SubQs : WaitsOf(q2[t]) = WaitsOf(q[t])

LEMMA ExchangeSameWaits ==
  ASSUME ConfigOk, NEW q, Sound(q), NEW s \in SubQs, NEW i \in DOMAIN q[s].list,
         NEW e, e.iolist = q[s].list[i].iolist, ReadyToGo(e) <=> ReadyToGo(q[s].list[i]),
         NEW q2, q2 = [q EXCEPT ![s].list[i] = e]
  PROVE  SameWaits(q, q2)
<1> DEFINE l == q[s].list
           m == [l EXCEPT ![i] = e]
<1>1. l \in Seq(Bufs) /\ q[s] \in Subqueues /\ q \in [SubQs -> Subqueues]
  BY SubqueueOf DEF Sound
<1>2. q2[s].list = m /\ \A t \in SubQs : t # s => q2[t] = q[t]
  BY <1>1 DEF Subqueues
<1>3. DOMAIN m = DOMAIN l /\ \A j \in DOMAIN l : m[j] = IF j = i THEN e ELSE l[j]
  BY <1>1
<1>4. e.iolist = l[i].iolist /\ (ReadyToGo(e) <=> ReadyToGo(l[i]))
  OBVIOUS
<1> HIDE DEF m, l
<1>5. \A j \in DOMAIN l : Chained(m[j]) = Chained(l[j]) /\ (ReadyToGo(m[j]) <=> ReadyToGo(l[j]))
  BY <1>3, <1>4 DEF Chained
<1>6. WaitsAt(m, DOMAIN m) = WaitsAt(l, DOMAIN l)
  BY <1>3, <1>5 DEF WaitsAt
<1>7. WaitsOf(q2[s]) = WaitsOf(q[s])
  BY <1>2, <1>6 DEF WaitsOf, l
<1> QED BY <1>2, <1>7 DEF SameWaits

LEMMA SetBufFlagSameWaits ==
  ASSUME ConfigOk, NEW q, Sound(q), NEW s \in SubQs, NEW i \in DOMAIN q[s].list, NEW f
  PROVE  SameWaits(q, SetBufFlag(q, s, i, f))
<1> DEFINE b == q[s].list[i]
           e == [b EXCEPT !.flags = @ \cup {f}]
           q2 == SetBufFlag(q, s, i, f)
<1>0. b \in Bufs
  BY SubqueueOf
<1>1. b \in IobufSet
  BY <1>0 DEF Bufs
<1>2. q2 = [q EXCEPT ![s].list[i] = e]
  BY DEF SetBufFlag
<1>3. e.iolist = b.iolist /\ (ReadyToGo(e) <=> ReadyToGo(b))
  <2> HIDE DEF b
  <2> QED BY <1>1 DEF IobufSet, ReadyToGo
<1> HIDE DEF e, q2
<1>4. SameWaits(q, q2)
  BY <1>2, <1>3, ExchangeSameWaits
<1> QED BY <1>4 DEF q2

LEMMA AgedSameWaits ==
  ASSUME ConfigOk, NEW q, Sound(q), NEW s \in SubQs, NEW i \in DOMAIN q[s].list
  PROVE  SameWaits(q, Aged(q, s, i)) /\ Chained(Aged(q, s, i)[s].list[i]) = Chained(q[s].list[i])
<1> DEFINE b == q[s].list[i]
           w == IF b.waittime < MaxWait THEN b.waittime + 1 ELSE b.waittime
           e == [b EXCEPT !.waittime = w]
           q2 == Aged(q, s, i)
<1>0. b \in Bufs /\ q[s] \in Subqueues /\ q[s].list \in Seq(Bufs)
  BY SubqueueOf
<1>1. b \in IobufSet /\ q[s] \in Subqueues /\ q[s].list \in Seq(Bufs)
  BY <1>0 DEF Bufs
<1>2. q2 = [q EXCEPT ![s].list[i] = e]
  BY DEF Aged
<1>3. e.iolist = b.iolist /\ (ReadyToGo(e) <=> ReadyToGo(b))
  <2> HIDE DEF b, w
  <2> QED BY <1>1 DEF IobufSet, ReadyToGo
<1> HIDE DEF e, q2
<1>4. SameWaits(q, q2)
  BY <1>2, <1>3, ExchangeSameWaits
<1>5. q2[s].list = [q[s].list EXCEPT ![i] = e]
  BY <1>1, <1>2 DEF Sound, Subqueues
<1>6. q2[s].list[i] = e
  BY <1>1, <1>5
<1> QED BY <1>3, <1>4, <1>6 DEF q2, Chained

\* The requests C, which waited in s, now wait in d.
Shifts(q, q2, s, d, C) ==
    /\ C \in SUBSET WaitsOf(q[s])
    /\ WaitsOf(q2[s]) = WaitsOf(q[s]) \ C /\ WaitsOf(q2[d]) = WaitsOf(q[d]) \cup C
    /\ \A t \in SubQs : t # s /\ t # d => WaitsOf(q2[t]) = WaitsOf(q[t])

\* A move, without concatenation
MovesAlone(q, m, s, d, C) == Shifts(q, m.q, s, d, C) /\ ~m.absorbed /\ m.chain = C

LEMMA MoveShifts ==
  ASSUME ConfigOk, concatmax = 0, NEW q, Sound(q), NEW s \in SubQs, NEW d \in SubQs, s # d,
         NEW i \in DOMAIN q[s].list, ReadyToGo(q[s].list[i])
  PROVE  MovesAlone(q, Move(q, s, d, i), s, d, Chained(q[s].list[i]))
<1> DEFINE b == q[s].list[i]
           C == Chained(b)
           sq == q[s]
           dq == q[d]
           ins == InsertNewRequest(alg[d], q[d], b)
           chain == IF ins.absorbed
                      THEN Chained(ins.sq.list[ins.at]) \ Chained(q[d].list[ins.at])
                      ELSE Chained(ins.sq.list[ins.at])
           iocnt == IF ins.absorbed THEN ReqCnt(b) ELSE Cardinality(chain)
           away == MovedAway(q[s], i, iocnt)
           m == Move(q, s, d, i)
<1>1. /\ sq \in Subqueues /\ dq \in Subqueues /\ sq.list \in Seq(Bufs) /\ q \in [SubQs -> Subqueues]
      /\ StandsFor(sq.list, WaitsOf(sq), OutsOf(sq)) /\ StandsFor(dq.list, WaitsOf(dq), OutsOf(dq))
  BY SubqueueOf DEF Sound
<1>2. b \in Bufs /\ ReadyToGo(b) /\ C \in SUBSET WaitsOf(sq)
  BY <1>1 DEF WaitsOf, WaitsAt
<1>3. Admits(alg[d], dq, b, ins) /\ TakesIn(ins, dq, b, WaitsOf(dq), OutsOf(dq))
  <2> DEFINE a == alg[d]
             W == WaitsOf(dq)
             O == OutsOf(dq)
  <2>1. C \cap (W \cup (UNION O)) = {}
    BY <1>2 DEF Sound, HeldBy
  <2> HIDE DEF a, b, dq, W, O
  <2>2. Admits(a, dq, b, InsertNewRequest(a, dq, b))
    BY <1>1, <1>2, InsertNewAdmits
  <2>3. StandsFor(dq.list, W, O)
    BY <1>1 DEF W, O
  <2>4. TakesIn(InsertNewRequest(a, dq, b), dq, b, W, O)
    BY <1>1, <1>2, <2>1, <2>3, InsertNewStands
  <2> QED BY <2>2, <2>4 DEF a, dq, W, O
<1>4. m.q = [q EXCEPT ![s] = away, ![d] = ins.sq] /\ m.absorbed = ins.absorbed /\ m.chain = chain
  BY DEF Move, Moved
<1>5. ~ins.absorbed /\ ins.sq.list[ins.at] = b
  BY <1>3 DEF Admits
<1> DEFINE V == WaitsOf(dq) \cup C
           O == OutsOf(dq)
           n == iocnt
<1>6. n \in Int
  <2> HIDE DEF b, ins
  <2>1. n = Cardinality(C)
    BY <1>5
  <2>2. IsFiniteSet(C)
    BY <1>2, ChainIsFinite
  <2> QED BY <2>1, <2>2, FS_CardinalityType
<1>7. StandsFor(ins.sq.list, V, O)
  BY <1>3 DEF TakesIn
<1> DEFINE new == ins.sq
<1>8. WaitsOf(new) = V
  <2> HIDE DEF V, O, ins
  <2>1. StandsFor(new.list, V, O)
    BY <1>7
  <2> HIDE DEF new
  <2> QED BY <2>1, StandsForItself
<1>9. WaitsOf(away) = WaitsOf(sq) \ C
  <2> DEFINE W == WaitsOf(sq) \ C
             P == OutsOf(sq)
             x == MovedAway(sq, i, n)
  <2>1. StandsFor(x.list, W, P)
    <3>1. i \in DOMAIN sq.list /\ ReadyToGo(sq.list[i])
      OBVIOUS
    <3> HIDE DEF sq, n
    <3> QED BY <1>1, <1>6, <3>1, MovedAwayLeaves DEF sq
  <2>2. x = away
    OBVIOUS
  <2> HIDE DEF x, W, P
  <2>3. WaitsOf(x) = W
    BY <2>1, StandsForItself
  <2> QED BY <2>2, <2>3 DEF W
<1>10. m.chain = C
  BY <1>4, <1>5
<1> HIDE DEF m, ins, away, b, V
<1>11. /\ m.q[s] = away /\ m.q[d] = ins.sq
       /\ \A t \in SubQs : t # s /\ t # d => m.q[t] = q[t]
  BY <1>1, <1>4
<1>12. Shifts(q, m.q, s, d, C)
  BY <1>2, <1>8, <1>9, <1>11 DEF Shifts, V
<1>13. MovesAlone(q, m, s, d, C)
  BY <1>4, <1>5, <1>10, <1>12 DEF MovesAlone
<1> QED BY <1>13 DEF m, b


\* A completion finds each waiting request, by its flags fl, where it is.
Routed(q, fl) == \A s \in SubQs : \A r \in WaitsOf(q[s]) : CompletionQueue(fl[r]) = s

\* Flag f leads from subqueue s to subqueue d.
Leads(s, d, f) == \A fl \in SUBSET Flags : CompletionQueue(fl) = s => CompletionQueue(fl \cup {f}) = d

\* The requests C get the flag f.
Marks(fl, fl2, C, f) ==
    /\ \A r \in Reqs \cap C : fl2[r] = fl[r] \cup {f}
    /\ \A r \in Reqs \ C : fl2[r] = fl[r]

LEMMA WaitsAreReqs ==
  ASSUME ConfigOk, NEW q, Sound(q), NEW s \in SubQs
  PROVE  /\ WaitsOf(q[s]) \in SUBSET Reqs
         /\ \A t \in SubQs : t # s => WaitsOf(q[s]) \cap WaitsOf(q[t]) = {}
<1>1. StandsFor(q[s].list, WaitsOf(q[s]), OutsOf(q[s]))
  BY SubqueueOf
<1> DEFINE sq == q[s]
<1>2. HeldBy(sq) \in SUBSET Reqs
  <2>1. StandsFor(sq.list, WaitsOf(sq), OutsOf(sq))
    BY <1>1
  <2> HIDE DEF sq
  <2> QED BY <2>1, BatchesNotEmpty
<1>3. \A t \in SubQs : t # s => HeldBy(q[s]) \cap HeldBy(q[t]) = {}
  BY DEF Sound
<1> QED BY <1>2, <1>3 DEF HeldBy

LEMMA SameWaitsRouted ==
  ASSUME NEW q, NEW q2, SameWaits(q, q2), NEW fl, Routed(q, fl)
  PROVE  Routed(q2, fl)
BY DEF SameWaits, Routed

LEMMA ShiftRouted ==
  ASSUME ConfigOk, NEW q, Sound(q), NEW q2, NEW s \in SubQs, NEW d \in SubQs, s # d,
         NEW C, Shifts(q, q2, s, d, C), NEW f, Leads(s, d, f),
         NEW fl \in [Reqs -> SUBSET Flags], NEW fl2, Marks(fl, fl2, C, f), Routed(q, fl)
  PROVE  Routed(q2, fl2)
<1>1. ASSUME NEW t \in SubQs, NEW r \in WaitsOf(q2[t]) PROVE CompletionQueue(fl2[r]) = t
  <2>1. C \in SUBSET WaitsOf(q[s]) /\ WaitsOf(q[s]) \in SUBSET Reqs
    BY WaitsAreReqs DEF Shifts
  <2>2. CASE r \in C
    <3>1. t # s
      BY <1>1, <2>2 DEF Shifts
    <3>2. t = d
      <4> SUFFICES ASSUME t # d PROVE FALSE
        OBVIOUS
      <4>1. r \in WaitsOf(q[t])
        BY <1>1, <3>1 DEF Shifts
      <4> QED BY <2>1, <2>2, <3>1, <4>1, WaitsAreReqs
    <3>3. r \in Reqs /\ CompletionQueue(fl[r]) = s /\ fl[r] \in SUBSET Flags
      BY <2>1, <2>2 DEF Routed
    <3>4. fl2[r] = fl[r] \cup {f}
      BY <2>2, <3>3 DEF Marks
    <3> QED BY <3>2, <3>3, <3>4 DEF Leads
  <2>3. CASE r \notin C
    <3>1. r \in WaitsOf(q[t])
      BY <1>1, <2>3 DEF Shifts
    <3>2. r \in Reqs /\ CompletionQueue(fl[r]) = t
      BY <3>1, WaitsAreReqs DEF Routed
    <3>3. fl2[r] = fl[r]
      BY <2>3, <3>2 DEF Marks
    <3> QED BY <3>2, <3>3
  <2> QED BY <2>2, <2>3
<1> QED BY <1>1 DEF Routed

\* Each walk of ioqueue_tick, and a raise, flags what it moves for where it goes.

LEMMA TimeoutsLead ==
  /\ to_scheme = "BASETIMEOUT" /\ pri_scheme = "ALLEQUAL" => Leads("base", "timeout", "TIMED_OUT")
  /\ to_scheme = "BASETIMEOUT" /\ pri_scheme = "TWOQUEUE" => Leads("base", "priority", "TIMED_OUT")
  /\ to_scheme = "HALFTIMEOUT" /\ pri_scheme = "TWOQUEUE" => Leads("timeout", "priority", "TIMED_OUT")
  /\ to_scheme = "HALFTIMEOUT" => Leads("base", "timeout", "HALF_OUT")
<1>1. to_scheme = "BASETIMEOUT" /\ pri_scheme = "ALLEQUAL" => Leads("base", "timeout", "TIMED_OUT")
  BY DEF Leads, CompletionQueue
<1>2. to_scheme = "BASETIMEOUT" /\ pri_scheme = "TWOQUEUE" => Leads("base", "priority", "TIMED_OUT")
  BY DEF Leads, CompletionQueue
<1>3. to_scheme = "HALFTIMEOUT" /\ pri_scheme = "TWOQUEUE" => Leads("timeout", "priority", "TIMED_OUT")
  BY DEF Leads, CompletionQueue
<1>4. to_scheme = "HALFTIMEOUT" => Leads("base", "timeout", "HALF_OUT")
  BY DEF Leads, CompletionQueue
<1> QED BY <1>1, <1>2, <1>3, <1>4

\* A priority queue takes any request raised; without one no flag of a raise matters.
LEMMA RaiseLeads ==
  ASSUME NEW s \in SubQs
  PROVE  /\ pri_scheme # "ALLEQUAL" => Leads(s, "priority", "TIME_CRITICAL")
         /\ pri_scheme = "ALLEQUAL" => Leads(s, s, "TIME_CRITICAL")
<1>1. pri_scheme # "ALLEQUAL" => Leads(s, "priority", "TIME_CRITICAL")
  BY DEF Leads, CompletionQueue
<1>2. pri_scheme = "ALLEQUAL" => Leads(s, s, "TIME_CRITICAL")
  BY DEF Leads, CompletionQueue
<1> QED BY <1>1, <1>2


(***************************************************************************)
(* The timeouts.                                                            *)
(***************************************************************************)

\* A subqueue that counts no request has no iobuf.
LEMMA CountsNoneIsShort ==
  ASSUME ConfigOk, NEW sq \in Subqueues, Counted(sq), sq.listlen = 0
  PROVE  Len(sq.list) = 0
<1> DEFINE l == sq.list
<1>1. l \in Seq(Bufs) /\ WaitsAt(l, DOMAIN l) = {} /\ OutsAt(l, DOMAIN l) = {}
  BY CountsNoneIsEmpty DEF Subqueues, WaitsOf, OutsOf
<1> HIDE DEF l
<1>2. \A i \in DOMAIN l : FALSE
  <2> SUFFICES ASSUME NEW i \in DOMAIN l PROVE FALSE
    OBVIOUS
  <2>1. Chained(l[i]) # {}
    BY <1>1, BufFacts
  <2>2. CASE ReadyToGo(l[i])
    BY <1>1, <2>1, <2>2 DEF WaitsAt
  <2>3. CASE ~ReadyToGo(l[i])
    BY <1>1, <2>3 DEF OutsAt
  <2> QED BY <2>2, <2>3
<1>3. Len(l) \in Nat /\ DOMAIN l = 1..Len(l)
  BY <1>1
<1>4. Len(l) = 0
  <2> DEFINE n == Len(l)
  <2>1. n \in Nat /\ \A i \in 1..n : FALSE
    BY <1>2, <1>3
  <2> HIDE DEF n
  <2>2. n # 0 => 1 \in 1..n
    BY <2>1
  <2>3. n = 0
    BY <2>1, <2>2
  <2> QED BY <2>3 DEF n
<1> QED BY <1>4 DEF l

\* What the walk over a subqueue keeps true
Orders(acc) == /\ PlainIn(acc.q) /\ CountedIn(acc.q) /\ Routed(acc.q, acc.flags)
               /\ acc.null = FALSE

LEMMA TimeoutStepOrders ==
  ASSUME ConfigOk, NEW q, Sound(q), NEW s \in SubQs, NEW d \in SubQs, s # d, NEW maxtime,
         NEW f \in Flags, Leads(s, d, f),
         NEW k \in Nat, NEW acc, Walking(acc, q, s, k + 1), Orders(acc)
  PROVE  Orders(TimeoutStep(acc, s, d, maxtime, f))
<1> DEFINE aged == Aged(acc.q, s, acc.i)
           b == acc.q[s].list[acc.i]
           m == Move(aged, s, d, acc.i)
           next == TimeoutStep(acc, s, d, maxtime, f)
<1>1. /\ acc.i \in Nat \ {0} /\ acc.i + (k + 1) = Len(acc.q[s].list) + 1 /\ Sound(acc.q)
      /\ acc = [q |-> acc.q, i |-> acc.i, flags |-> acc.flags, null |-> acc.null]
      /\ acc.flags \in [Reqs -> SUBSET Flags] /\ ~acc.null
  BY DEF Walking, Kept, Orders
<1>2. acc.i \in DOMAIN acc.q[s].list /\ Len(acc.q[s].list) \in Nat
  <2>1. acc.q[s].list \in Seq(Bufs)
    BY <1>1, SubqueueOf
  <2> QED BY <1>1, <2>1
<1> DEFINE i == acc.i
           q1 == acc.q
           fl == acc.flags
<1>3. /\ Kept(q1, aged) /\ i \in DOMAIN aged[s].list
      /\ Len(aged[s].list) = Len(q1[s].list)
      /\ ReadyToGo(aged[s].list[i]) <=> ReadyToGo(b)
      /\ SameWaits(q1, aged) /\ Steady(q1, aged)
  BY <1>1, <1>2, AgedKeeps, AgedSteady, AgedSameWaits
<1> HIDE DEF aged
<1>4. Sound(aged) /\ PlainIn(aged) /\ CountedIn(aged) /\ Routed(aged, fl)
  <2> DEFINE g == fl
             x == q1
  <2>1. Routed(x, g) /\ SameWaits(x, aged)
    BY <1>3 DEF Orders
  <2> HIDE DEF g, x
  <2>2. Routed(aged, g)
    BY <2>1, SameWaitsRouted
  <2> QED BY <1>3, <2>2 DEF Kept, Steady, Orders, g
<1>5. concatmax = 0
  BY <1>4 DEF PlainIn, Plain
<1>6. CASE b.state = "WAITING" /\ b.waittime + 1 > maxtime
  <2>1. next = TimedOut(acc, s, d, f, m)
    BY <1>1, <1>6 DEF TimeoutStep, Aged, aged
  <2>2. ReadyToGo(aged[s].list[i])
    BY <1>3, <1>6 DEF ReadyToGo
  <2> DEFINE C == Chained(aged[s].list[i])
  <2> HIDE DEF i
  <2>3. MovesTo(aged, Move(aged, s, d, i), s, d)
    BY <1>3, <1>4, <2>2, MoveKeeps
  <2>4. Steady(aged, Move(aged, s, d, i).q)
    BY <1>3, <1>4, <2>2, MoveSteady
  <2>5. MovesAlone(aged, Move(aged, s, d, i), s, d, C)
    BY <1>3, <1>4, <1>5, <2>2, MoveShifts
  <2>6. m = Move(aged, s, d, i)
    BY DEF i
  <2> HIDE DEF m, C, next
  <2> DEFINE mq == m.q
             j == m.at
             nq == SetBufFlag(mq, d, j, f)
             nf == [r \in Reqs |-> fl[r] \cup (IF r \in m.chain THEN {f} ELSE {})]
             nn == acc.i # Len(acc.q[s].list) /\ mq[s].listlen = 0
  <2>7. /\ Sound(mq) /\ j \in DOMAIN mq[d].list /\ Steady(aged, mq) /\ ~m.absorbed /\ m.chain = C
        /\ Shifts(aged, mq, s, d, C) /\ Len(mq[s].list) = Len(q1[s].list) - 1
    BY <1>3, <2>3, <2>4, <2>5, <2>6 DEF MovesTo, Kept, MovesAlone
  <2>8. next = [q |-> nq, i |-> acc.i, flags |-> nf, null |-> nn]
    BY <2>1, <2>7 DEF TimedOut
  <2>9. PlainIn(mq) /\ CountedIn(mq)
    BY <1>4, <2>7 DEF Steady
  <2>10. Marks(fl, nf, C, f)
    BY <2>7 DEF Marks
  <2>11. fl \in [Reqs -> SUBSET Flags]
    BY <1>1
  <2> HIDE DEF nf, fl, mq, j
  <2>12. Routed(mq, nf)
    BY <1>4, <2>7, <2>10, <2>11, ShiftRouted
  <2>13. Steady(mq, nq) /\ SameWaits(mq, nq)
    BY <2>7, SetBufFlagSteady, SetBufFlagSameWaits DEF Same
  <2>14. ~nn
    <3> SUFFICES ASSUME acc.i # Len(acc.q[s].list), mq[s].listlen = 0 PROVE FALSE
      OBVIOUS
    <3> DEFINE sq == mq[s]
               L == Len(acc.q[s].list)
               K == Len(sq.list)
               p == acc.i
    <3>1. sq \in Subqueues /\ Counted(sq) /\ sq.listlen = 0
      BY <2>7, <2>9 DEF CountedIn, Sound
    <3>2. K = 0
      <4> HIDE DEF sq
      <4> QED BY <3>1, CountsNoneIsShort
    <3>3. L \in Nat /\ p \in Nat \ {0} /\ p # L /\ p + (k + 1) = L + 1 /\ K = L - 1
      BY <1>1, <1>2, <2>7
    <3> HIDE DEF L, K, p
    <3> QED BY <3>2, <3>3
  <2> HIDE DEF nq, nn
  <2>15. PlainIn(nq) /\ CountedIn(nq) /\ Routed(nq, nf)
    BY <2>9, <2>12, <2>13, SameWaitsRouted DEF Steady
  <2>16. next.q = nq /\ next.flags = nf /\ next.null = nn
    BY <2>8
  <2>17. nn = FALSE
    BY <2>14 DEF nn
  <2>18. Orders(next)
    BY <2>15, <2>16, <2>17 DEF Orders
  <2> QED BY <2>18 DEF next
<1>7. CASE ~(b.state = "WAITING" /\ b.waittime + 1 > maxtime)
  <2>1. next = [acc EXCEPT !.q = aged, !.i = @ + 1]
    BY <1>1, <1>7 DEF TimeoutStep, Aged, aged
  <2> HIDE DEF next
  <2>2. next.q = aged /\ next.flags = acc.flags /\ next.null = acc.null
    BY <1>1, <2>1
  <2> QED BY <1>4, <2>2 DEF Orders, next
<1> QED BY <1>6, <1>7

LEMMA TimeoutsOrder ==
  ASSUME ConfigOk, NEW start, Sound(start.q), start.flags \in [Reqs -> SUBSET Flags],
         start.null \in BOOLEAN,
         start = [q |-> start.q, i |-> start.i, flags |-> start.flags, null |-> start.null],
         NEW s \in SubQs, NEW d \in SubQs, s # d, NEW maxtime, NEW f \in Flags,
         Leads(s, d, f), Orders(start)
  PROVE  Orders(ImplementTimeouts(start, s, d, maxtime, f))
<1> DEFINE l == start.q[s].list
           n == Len(l)
           base == [start EXCEPT !.i = 1]
<1>1. n \in Nat /\ DOMAIN l = 1..n
  <2>1. l \in Seq(Bufs)
    BY SubqueueOf
  <2> QED BY <2>1
<1>2. PICK p : WalkIs(p, start, s, d, maxtime, f, n)
  <2>1. n \in Nat /\ Len(start.q[s].list) = n /\ DOMAIN start.q[s].list = 1..n
    BY <1>1
  <2> HIDE DEF n
  <2> QED BY <2>1, TimeoutsWalk
<1>3. ImplementTimeouts(start, s, d, maxtime, f) = p[n] /\ p[0] = base
      /\ \A k \in 1..n : p[k] = TimeoutStep(p[k - 1], s, d, maxtime, f)
  BY <1>2 DEF WalkIs
<1>4. base.q = start.q /\ base.flags = start.flags /\ base.null = start.null /\ base.i = 1
      /\ base = [q |-> base.q, i |-> base.i, flags |-> base.flags, null |-> base.null]
  OBVIOUS
<1> HIDE DEF n, l, base
<1> DEFINE S == {k \in 0..n : Walking(p[k], start.q, s, n - k) /\ Orders(p[k])}
<1>8. 0 \in S
  <2>1. Walking(base, start.q, s, n)
    BY <1>1, <1>4 DEF Walking, Kept, n, l
  <2>2. Orders(base)
    BY <1>4 DEF Orders
  <2>3. n - 0 = n
    BY <1>1
  <2> QED BY <1>1, <1>3, <2>1, <2>2, <2>3
<1>9. \A k \in 0..(n - 1) : k \in S => k + 1 \in S
  <2> SUFFICES ASSUME NEW k \in 0..(n - 1), k \in S PROVE k + 1 \in S
    OBVIOUS
  <2> DEFINE j == k + 1
             h == n - j
  <2>1. j \in 1..n /\ j - 1 = k /\ j \in 0..n /\ h \in Nat /\ n - k = h + 1
    BY <1>1
  <2>2. p[j] = TimeoutStep(p[k], s, d, maxtime, f)
    <3> HIDE DEF j
    <3> QED BY <1>3, <2>1
  <2>3. Walking(p[k], start.q, s, h + 1) /\ Orders(p[k])
    BY <2>1
  <2> DEFINE q0 == start.q
             acc == p[k]
  <2>4. Walking(acc, q0, s, h + 1) /\ Sound(q0) /\ Orders(acc)
    BY <2>3
  <2> HIDE DEF h, q0, acc
  <2>5. Walking(TimeoutStep(acc, s, d, maxtime, f), q0, s, h)
    BY <2>1, <2>4, TimeoutStepWalks
  <2>6. Orders(TimeoutStep(acc, s, d, maxtime, f))
    BY <2>1, <2>4, TimeoutStepOrders
  <2> QED BY <2>1, <2>2, <2>5, <2>6 DEF q0, acc, h
<1> HIDE DEF S
<1>10. n \in S
  <2>1. \A k \in 0..n : k \in S
    BY <1>1, <1>8, <1>9, AllUpTo
  <2> QED BY <1>1, <2>1
<1>11. Orders(p[n])
  BY <1>10 DEF S
<1> QED BY <1>3, <1>11


(***************************************************************************)
(* No fault: the steps.                                                     *)
(***************************************************************************)
FaultFreeHere == /\ comboverlaps = 0 \/ concatmax = 0
                 /\ pri_scheme = "TWOQUEUE" \/ to_scheme # "HALFTIMEOUT"
                 /\ \A r \in Reqs : ArrivalFlags[r] \cap {"TIMED_OUT", "HALF_OUT"} = {}

LEMMA FaultFreeConfig ==
  ASSUME ChainsStay, \A c \in Configs : FaultFree(c), ConfigOk
  PROVE  FaultFreeHere /\ ChainsStayHere
<1>1. FaultFree(config)
  BY DEF ConfigOk
<1>2. FaultFreeHere
  BY <1>1 DEF FaultFree, FaultFreeHere, comboverlaps, concatmax, pri_scheme, to_scheme, ArrivalFlags
<1>3. ChainsStayHere
  BY DEF ChainsStay, ConfigOk, ChainsStayHere, NoMoves, concatmax, pri_scheme, to_scheme
<1> QED BY <1>2, <1>3

\* What ioqueue_tick does to a queue in which nothing is chained
LEMMA TimeoutsDoneOrder ==
  ASSUME QueueSound, pri_scheme = "TWOQUEUE" \/ to_scheme # "HALFTIMEOUT", Routed(queue, flags),
         to_scheme # "NOTIMEOUT" => PlainIn(queue) /\ CountedIn(queue)
  PROVE  TimeoutsDone.null = FALSE /\ Routed(TimeoutsDone.q, TimeoutsDone.flags)
<1> DEFINE start == [q |-> queue, i |-> 1, flags |-> flags, null |-> FALSE]
           half == ImplementTimeouts(start, "timeout", "priority", to_time, "TIMED_OUT")
<1>1. ConfigOk /\ Sound(queue) /\ flags \in [Reqs -> SUBSET Flags]
  BY DEF QueueSound
<1>2. /\ Sound(start.q) /\ start.flags \in [Reqs -> SUBSET Flags] /\ start.null \in BOOLEAN
      /\ start = [q |-> start.q, i |-> start.i, flags |-> start.flags, null |-> start.null]
      /\ start.q = queue /\ start.flags = flags /\ start.null = FALSE
  BY <1>1
<1>3. /\ "priority" \in SubQs /\ "timeout" \in SubQs /\ "base" \in SubQs
      /\ "TIMED_OUT" \in Flags /\ "HALF_OUT" \in Flags
  BY DEF SubQs, Flags
<1>30. pri_scheme \in {"ALLEQUAL", "TWOQUEUE"}
  BY <1>1, ConfigFacts
<1>31. to_scheme # "NOTIMEOUT" => Orders(start)
  BY <1>2 DEF Orders
<1> HIDE DEF start
<1>4. CASE to_scheme = "NOTIMEOUT"
  <2>1. TimeoutsDone = start
    BY <1>4 DEF TimeoutsDone, start
  <2> QED BY <1>2, <2>1
<1>5. CASE to_scheme = "BASETIMEOUT"
  <2> DEFINE d == IF pri_scheme = "ALLEQUAL" THEN "timeout" ELSE "priority"
             done == ImplementTimeouts(start, "base", d, to_time, "TIMED_OUT")
  <2>1. TimeoutsDone = done
    BY <1>5 DEF TimeoutsDone, start
  <2>2. d \in SubQs /\ "base" # d
    BY <1>3
  <2>3. Leads("base", d, "TIMED_OUT")
    BY <1>5, <1>30, TimeoutsLead
  <2>4. Orders(start)
    BY <1>5, <1>31
  <2> HIDE DEF d
  <2>5. Orders(done)
    BY <1>1, <1>2, <1>3, <2>2, <2>3, <2>4, TimeoutsOrder
  <2> HIDE DEF done
  <2> QED BY <2>1, <2>5 DEF Orders
<1>6. CASE to_scheme = "HALFTIMEOUT"
  <2> DEFINE mt == to_time \div 2
             done == ImplementTimeouts(half, "base", "timeout", mt, "HALF_OUT")
  <2>1. TimeoutsDone = done
    BY <1>6 DEF TimeoutsDone, start
  <2>2. "timeout" # "priority" /\ "base" # "timeout"
    OBVIOUS
  <2>3. Walking(half, start.q, "timeout", 0)
    BY <1>1, <1>2, <1>3, <2>2, TimeoutsKeep
  <2>4. Leads("timeout", "priority", "TIMED_OUT") /\ Leads("base", "timeout", "HALF_OUT") /\ Orders(start)
    BY <1>6, <1>31, TimeoutsLead
  <2>5. Orders(half)
    BY <1>1, <1>2, <1>3, <2>2, <2>4, TimeoutsOrder
  <2> HIDE DEF half, mt
  <2>6. /\ Sound(half.q) /\ half.flags \in [Reqs -> SUBSET Flags] /\ half.null \in BOOLEAN
        /\ half = [q |-> half.q, i |-> half.i, flags |-> half.flags, null |-> half.null]
    BY <1>2, <2>3 DEF Walking, Kept
  <2>7. Orders(done)
    BY <1>1, <1>3, <2>2, <2>4, <2>5, <2>6, TimeoutsOrder
  <2> HIDE DEF done
  <2> QED BY <2>1, <2>7 DEF Orders
<1> QED BY <1>1, <1>4, <1>5, <1>6, ConfigFacts

LEMMA AddRouted ==
  ASSUME QueueSound, FaultFreeHere, NEW r \in Reqs, AddNewRequest(r), Routed(queue, flags)
  PROVE  Routed(queue', flags')
<1> DEFINE s == ArrivalQueue(r)
           b == NewIobuf(r, ArrivalFlags[r])
           ins == InsertNewRequest(alg[s], queue[s], b)
           W == WaitsOf(queue[s])
           O == OutsOf(queue[s])
           a == alg[s]
           q == queue
           q2 == queue'
<1>1. /\ ConfigOk /\ Sound(q) /\ ~InQueue(r) /\ q2 = [q EXCEPT ![s] = ins.sq] /\ s \in SubQs
      /\ flags' = [flags EXCEPT ![r] = ArrivalFlags[r]] /\ flags \in [Reqs -> SUBSET Flags]
  BY DEF QueueSound, AddNewRequest, ArrivalQueue, SubQs
<1>2. b \in Bufs /\ Chained(b) = {r} /\ ReadyToGo(b)
  <2>1. ArrivalFlags[r] \in SUBSET Flags
    BY <1>1, ConfigFacts
  <2> QED BY <1>1, <2>1, NewIobufFacts
<1>3. \A t \in SubQs : r \notin HeldBy(q[t])
  BY <1>1, HeldIsHolds DEF InQueue
<1>4. CompletionQueue(ArrivalFlags[r]) = s
  <2>1. pri_scheme \in {"ALLEQUAL", "TWOQUEUE"}
    BY <1>1, ConfigFacts
  <2> QED BY <2>1 DEF FaultFreeHere, CompletionQueue, ArrivalQueue
<1>5. q[s] \in Subqueues /\ StandsFor(q[s].list, W, O)
  <2> HIDE DEF s
  <2> QED BY <1>1, SubqueueOf
<1>6. Chained(b) \cap (W \cup (UNION O)) = {}
  BY <1>1, <1>2, <1>3 DEF HeldBy
<1> HIDE DEF b, s, W, O
<1>7. TakesIn(ins, q[s], b, W, O)
  <2> DEFINE sq == q[s]
  <2>1. sq \in Subqueues /\ StandsFor(sq.list, W, O)
    BY <1>5
  <2> HIDE DEF sq, a
  <2>2. TakesIn(InsertNewRequest(a, sq, b), sq, b, W, O)
    BY <1>1, <1>2, <1>6, <2>1, InsertNewStands
  <2> QED BY <2>2 DEF sq, a
<1> HIDE DEF ins
<1> DEFINE new == ins.sq
           V == W \cup {r}
<1>8. StandsFor(new.list, V, O)
  BY <1>2, <1>7 DEF TakesIn
<1>9. WaitsOf(q2[s]) = V /\ \A t \in SubQs : t # s => q2[t] = q[t]
  <2>1. q2[s] = new /\ \A t \in SubQs : t # s => q2[t] = q[t]
    BY <1>1 DEF Sound
  <2> HIDE DEF new, V, q2
  <2>2. V = WaitsOf(new)
    BY <1>8, StandsForItself
  <2> QED BY <2>1, <2>2
<1>10. ASSUME NEW t \in SubQs, NEW x \in WaitsOf(q2[t]) PROVE CompletionQueue(flags'[x]) = t
  <2>1. CASE x = r
    <3>1. t = s
      BY <1>3, <1>9, <1>10, <2>1 DEF HeldBy
    <3> QED BY <1>1, <1>4, <2>1, <3>1
  <2>2. CASE x # r
    <3>1. x \in WaitsOf(q[t])
      BY <1>9, <1>10, <2>2 DEF W
    <3>2. x \in Reqs
      BY <1>1, <3>1, WaitsAreReqs
    <3>3. flags'[x] = flags[x]
      BY <1>1, <2>2, <3>2
    <3> QED BY <3>1, <3>3 DEF Routed
  <2> QED BY <2>1, <2>2
<1> QED BY <1>10 DEF Routed


LEMMA RaiseRouted ==
  ASSUME QueueSound, pri_scheme # "ALLEQUAL" => PlainIn(queue), NEW r \in Reqs, RaisePriority(r),
         Routed(queue, flags)
  PROVE  Routed(queue', flags')
<1> DEFINE s == RaisedFrom(r)
           d == "priority"
           f == "TIME_CRITICAL"
           q == queue
           q2 == queue'
<1>1. ConfigOk /\ Sound(q) /\ f \in Flags /\ flags \in [Reqs -> SUBSET Flags]
  BY DEF QueueSound, Flags
<1>2. s \in SubQs /\ s # d /\ d \in SubQs
  BY DEF RaisedFrom, SubQs
<1>3. PICK i \in DOMAIN q[s].list :
         /\ r \in Chained(q[s].list[i])
         /\ \/ /\ q[s].list[i].state = "WAITING" /\ pri_scheme # "ALLEQUAL"
               /\ q2 = Raised(Move(q, s, d, i))
            \/ /\ ~(q[s].list[i].state = "WAITING" /\ pri_scheme # "ALLEQUAL")
               /\ q2 = SetBufFlag(q, s, i, f)
         /\ flags' = IF q[s].list[i].state = "PENDING" /\ ReqCnt(q[s].list[i]) = 1 THEN flags
                     ELSE [flags EXCEPT ![r] = @ \cup {"TIME_CRITICAL"}]
  BY DEF RaisePriority
<1> DEFINE b == q[s].list[i]
<1>4. b \in Bufs /\ b.state \in {"WAITING", "PENDING"}
  <2>1. b \in Bufs
    BY <1>1, <1>2, SubqueueOf
  <2> HIDE DEF b
  <2> QED BY <1>1, <2>1, BufFacts
<1>5. flags' = flags \/ Marks(flags, flags', {r}, f)
  BY <1>1, <1>3 DEF Marks
<1>6. CASE pri_scheme = "ALLEQUAL"
  <2>1. SameWaits(q, q2)
    BY <1>1, <1>2, <1>3, <1>6, SetBufFlagSameWaits
  <2> SUFFICES ASSUME NEW t \in SubQs, NEW x \in WaitsOf(q2[t]) PROVE CompletionQueue(flags'[x]) = t
    BY DEF Routed
  <2>2. x \in WaitsOf(q[t])
    BY <2>1 DEF SameWaits
  <2>3. x \in Reqs /\ CompletionQueue(flags[x]) = t /\ flags[x] \in SUBSET Flags
    BY <1>1, <2>2, WaitsAreReqs DEF Routed
  <2>4. flags'[x] = flags[x] \/ flags'[x] = flags[x] \cup {f}
    BY <1>5, <2>3 DEF Marks
  <2>5. Leads(t, t, f)
    BY <1>6, RaiseLeads
  <2> QED BY <2>3, <2>4, <2>5 DEF Leads
<1>7. CASE pri_scheme # "ALLEQUAL"
  <2>1. ReqCnt(b) = 1 /\ concatmax = 0
    BY <1>2, <1>7 DEF PlainIn, Plain, Single
  <2>2. CASE b.state = "WAITING"
    <3> DEFINE m == Move(q, s, d, i)
               q1 == m.q
               j == m.at
    <3>1. ReadyToGo(b) /\ q2 = Raised(m)
      BY <1>3, <1>7, <2>2 DEF ReadyToGo
    <3>2. Chained(b) = {r}
      <4>1. DOMAIN b.iolist = {1}
        <5> HIDE DEF b
        <5>1. b.iolist \in Seq(Reqs)
          BY <1>1, <1>4, BufFacts
        <5> QED BY <2>1, <5>1 DEF ReqCnt
      <4>2. Chained(b) = {b.iolist[1]}
        BY <4>1 DEF Chained
      <4> QED BY <1>3, <4>2
    <3>3. MovesTo(q, m, s, d) /\ MovesAlone(q, m, s, d, {r})
      <4>1. ReadyToGo(q[s].list[i]) /\ {r} = Chained(q[s].list[i])
        BY <3>1, <3>2
      <4> HIDE DEF q, s, d, b
      <4> QED BY <1>1, <1>2, <1>3, <2>1, <4>1, MoveKeeps, MoveShifts
    <3>4. flags' = [flags EXCEPT ![r] = @ \cup {"TIME_CRITICAL"}]
      BY <1>3, <2>2
    <3>5. Marks(flags, flags', {r}, f)
      BY <1>1, <3>4 DEF Marks
    <3> HIDE DEF m, b, q, q2, s
    <3>6. Sound(q1) /\ j \in DOMAIN q1[d].list /\ Shifts(q, q1, s, d, {r})
          /\ q2 = SetBufFlag(q1, d, j, f)
      BY <3>1, <3>3 DEF MovesTo, MovesAlone, Kept, Raised
    <3>7. Leads(s, d, f)
      BY <1>2, <1>7, RaiseLeads
    <3>8. Routed(q, flags)
      BY DEF q
    <3> HIDE DEF q1, j, f, d
    <3>9. Routed(q1, flags')
      BY <1>1, <1>2, <3>5, <3>6, <3>7, <3>8, ShiftRouted
    <3>10. SameWaits(q1, q2)
      BY <1>1, <1>2, <3>6, SetBufFlagSameWaits
    <3>11. Routed(q2, flags')
      BY <3>9, <3>10, SameWaitsRouted
    <3> QED BY <3>11 DEF q2
  <2>3. CASE b.state = "PENDING"
    <3>1. flags' = flags /\ q2 = SetBufFlag(q, s, i, f)
      BY <1>3, <2>1, <2>3
    <3>2. SameWaits(q, q2)
      BY <1>1, <1>2, <3>1, SetBufFlagSameWaits
    <3> QED BY <3>1, <3>2, SameWaitsRouted
  <2> QED BY <1>4, <2>2, <2>3
<1> QED BY <1>6, <1>7

\* The iobuf of an access that was handed out is where its flags lead to.
Found(q, o) == \E x \in RunsOf(q[CompletionQueue(o.flags)]) : Head(x[1]) = o.lead

\* Every access that is out is found, and no two have the same first request.
OutFound(q, outs) == /\ \A o \in outs : Found(q, o)
                     /\ \A o, p \in outs : o.lead = p.lead => o = p

LEMMA SameOutFound ==
  ASSUME NEW q, NEW q2, SameOut(q, q2), NEW outs \in SUBSET [lead : Reqs, flags : SUBSET Flags],
         OutFound(q, outs)
  PROVE  OutFound(q2, outs)
<1>1. \A o \in outs : CompletionQueue(o.flags) \in SubQs
  BY DEF CompletionQueue, SubQs
<1>2. \A o \in outs : Found(q2, o)
  BY <1>1 DEF OutFound, Found, SameOut
<1> QED BY <1>2 DEF OutFound

\* The first request of an access is in a batch that is out.
LEMMA FoundIsOut ==
  ASSUME ConfigOk, NEW q, Sound(q), NEW o, Found(q, o)
  PROVE  /\ o.lead \in UNION OutsOf(q[CompletionQueue(o.flags)])
         /\ \A t \in SubQs : o.lead \notin WaitsOf(q[t])
<1> DEFINE s == CompletionQueue(o.flags)
           l == q[s].list
<1>1. s \in SubQs
  BY DEF CompletionQueue, SubQs
<1>2. PICK j \in DOMAIN l : ~ReadyToGo(l[j]) /\ Head(l[j].iolist) = o.lead
  BY DEF Found, RunsOf, RunsAt, PendAt
<1> DEFINE c == l[j]
<1> HIDE DEF s
<1>3. l \in Seq(Bufs) /\ StandsFor(l, WaitsOf(q[s]), OutsOf(q[s]))
  BY <1>1, SubqueueOf
<1>4. c \in Bufs
  BY <1>3
<1>5. Head(c.iolist) \in Chained(c)
  <2> HIDE DEF c
  <2> QED BY <1>4, BufFacts
<1>6. Chained(c) \in OutsOf(q[s])
  BY <1>2 DEF OutsOf, OutsAt
<1>7. o.lead \in UNION OutsOf(q[s])
  BY <1>2, <1>5, <1>6
<1>8. ASSUME NEW k \in DOMAIN l, ReadyToGo(l[k]) PROVE o.lead \notin Chained(l[k])
  <2>1. k # j
    BY <1>2, <1>8
  <2>2. Chained(l[k]) \cap Chained(l[j]) = {}
    BY <1>3, <2>1 DEF StandsFor, ApartAt
  <2> QED BY <1>2, <1>5, <2>2
<1>9. o.lead \notin WaitsOf(q[s])
  BY <1>8 DEF WaitsOf, WaitsAt
<1>10. \A t \in SubQs : t # s => HeldBy(q[s]) \cap HeldBy(q[t]) = {}
  BY <1>1 DEF Sound
<1>11. \A t \in SubQs : o.lead \notin WaitsOf(q[t])
  BY <1>7, <1>9, <1>10 DEF HeldBy
<1> QED BY <1>7, <1>11 DEF s

\* A hand out remembers flags that lead to the subqueue it came from.
LEMMA HandOutFound ==
  ASSUME QueueSound, GetNextRequest, Routed(queue, flags), OutFound(queue, out),
         NoMoves \/ PlainIn(queue)
  PROVE  Routed(queue', flags') /\ OutFound(queue', out')
<1>1. PICK s \in SubQs : \E i \in DOMAIN queue[s].list :
          /\ s = NextSubqueue /\ i = Pick(alg[s], queue[s])
          /\ queue' = [queue EXCEPT ![s] = Issued(alg[s], @, i, simtime)]
          /\ LET b == queue[s].list[i]
             IN out' = out \cup
                 {[lead |-> Head(b.iolist),
                   flags |-> IF ReqCnt(b) = 1 THEN flags[Head(b.iolist)] ELSE b.flags]}
  BY DEF GetNextRequest
<1>2. PICK i \in DOMAIN queue[s].list :
          /\ s = NextSubqueue /\ i = Pick(alg[s], queue[s])
          /\ queue' = [queue EXCEPT ![s] = Issued(alg[s], @, i, simtime)]
          /\ LET b == queue[s].list[i]
             IN out' = out \cup
                 {[lead |-> Head(b.iolist),
                   flags |-> IF ReqCnt(b) = 1 THEN flags[Head(b.iolist)] ELSE b.flags]}
  BY <1>1
<1> DEFINE q == queue
           q2 == queue'
           sq == q[s]
           a == alg[s]
           b == sq.list[i]
           C == Chained(b)
           new == Issued(a, sq, i, simtime)
           h == Head(b.iolist)
           fl == IF ReqCnt(b) = 1 THEN flags[Head(b.iolist)] ELSE b.flags
           e == [lead |-> h, flags |-> fl]
<1>3. ConfigOk /\ Sound(q) /\ simtime \in 0..MaxTime /\ q2 = [q EXCEPT ![s] = new] /\ flags' = flags
  BY <1>2 DEF QueueSound, GetNextRequest
<1>4. sq \in Subqueues /\ StandsFor(sq.list, WaitsOf(sq), OutsOf(sq)) /\ a \in SchedAlgs
  BY <1>3, SubqueueOf
<1>5. i \in ReadyAt(sq)
  <2>1. i \in ReadyAt(sq) \cup {0}
    BY <1>2, <1>3, <1>4, PickIsReady
  <2>2. i # 0
    BY <1>3, <1>4, ReadyOnes
  <2> QED BY <2>1, <2>2
<1>6. b \in Bufs /\ ReadyToGo(b)
  BY <1>3, <1>4, <1>5, ReadyOnes DEF ReadyAt
<1>7. HandsOutAt(sq, i, new) /\ Issues(a, sq, i, simtime, new)
  <2> HIDE DEF sq, a
  <2> QED BY <1>3, <1>4, <1>5, IssuedHandsOut, IssuedIssues
<1> HIDE DEF new
<1>8. WaitsOf(new) = WaitsOf(sq) \ C
  <2> DEFINE V == WaitsOf(sq) \ C
             P == OutsOf(sq) \cup {C}
  <2>1. StandsFor(new.list, V, P)
    BY <1>7 DEF HandsOutAt
  <2> HIDE DEF V, P
  <2>2. V = WaitsOf(new)
    BY <2>1, StandsForItself
  <2> QED BY <2>2 DEF V
<1>9. /\ q2[s] = new /\ \A t \in SubQs : t # s => q2[t] = q[t]
      /\ RunsOf(new) = RunsOf(sq) \cup {<<b.iolist, simtime>>}
  BY <1>3, <1>7 DEF Issues, Sound
<1>10. Routed(q2, flags')
  BY <1>3, <1>8, <1>9 DEF Routed
<1>11. h \in WaitsOf(sq)
  <2>1. C \in SUBSET WaitsOf(sq)
    BY <1>5, <1>6 DEF WaitsOf, WaitsAt, ReadyAt
  <2> HIDE DEF b, C
  <2>2. h \in C
    BY <1>3, <1>6, BufFacts DEF C
  <2> QED BY <2>1, <2>2
<1>12. CompletionQueue(fl) = s
  <2>1. CompletionQueue(flags[h]) = s
    BY <1>11 DEF Routed
  <2>2. CASE ReqCnt(b) = 1
    BY <2>1, <2>2
  <2>3. CASE ReqCnt(b) # 1
    <3>1. NoMoves
      BY <1>2, <2>3 DEF PlainIn, Plain, Single
    <3>2. CompletionQueue(flags[h]) = "base" /\ CompletionQueue(fl) = "base"
      BY <3>1 DEF NoMoves, CompletionQueue
    <3> QED BY <2>1, <3>2
  <2> QED BY <2>2, <2>3
<1>13. out' = out \cup {e} /\ e.lead = h /\ e.flags = fl
  BY <1>2
<1> HIDE DEF fl, e, q2, h
<1>14. Found(q2, e)
  <2>1. <<b.iolist, simtime>> \in RunsOf(q2[s])
    BY <1>9
  <2>2. Head(<<b.iolist, simtime>>[1]) = e.lead
    BY <1>13 DEF h
  <2> QED BY <1>12, <1>13, <2>1, <2>2 DEF Found
<1>15. ASSUME NEW o \in out PROVE Found(q2, o) /\ o.lead # e.lead
  <2>1. Found(q, o)
    BY DEF OutFound
  <2>2. o.lead \notin WaitsOf(sq)
    <3> HIDE DEF q
    <3> QED BY <1>3, <2>1, FoundIsOut
  <2>3. \A t \in SubQs : RunsOf(q[t]) \in SUBSET RunsOf(q2[t])
    BY <1>9
  <2>4. CompletionQueue(o.flags) \in SubQs
    BY DEF CompletionQueue, SubQs
  <2>5. Found(q2, o)
    BY <2>1, <2>3, <2>4 DEF Found
  <2> QED BY <1>11, <1>13, <2>2, <2>5
<1>16. OutFound(q2, out')
  BY <1>13, <1>14, <1>15 DEF OutFound
<1> QED BY <1>10, <1>16 DEF q2


\* Completing an access keeps the others.
LEMMA CompletedKeepsOthers ==
  ASSUME ConfigOk, NEW sq \in Subqueues, NEW i \in DOMAIN sq.list, NEW x \in RunsOf(sq),
         Head(x[1]) # Head(sq.list[i].iolist)
  PROVE  x \in RunsOf(Completed(sq, i))
<1> DEFINE l == sq.list
           m == RemoveAt(l, i)
           J == DOMAIN l \ {i}
<1>1. l \in Seq(Bufs) /\ i \in DOMAIN l /\ Completed(sq, i).list = m
  BY DEF Subqueues, Completed
<1>2. PICK j \in DOMAIN l : ~ReadyToGo(l[j]) /\ x = <<l[j].iolist, l[j].starttime>>
  BY DEF RunsOf, RunsAt, PendAt
<1>3. j \in J
  BY <1>2
<1>4. Renumbered(m, DOMAIN m, l, J)
  <2>1. J = DOMAIN l \ {i} /\ J \in SUBSET DOMAIN l
    OBVIOUS
  <2> HIDE DEF J, l
  <2> QED BY <1>1, <2>1, RemoveRenumbers
<1> HIDE DEF l, m, J
<1>5. PICK k \in DOMAIN m : m[k] = l[j]
  BY <1>3, <1>4 DEF Renumbered, Renumbers
<1>6. x \in RunsAt(m, DOMAIN m)
  BY <1>2, <1>5 DEF RunsAt, PendAt
<1> QED BY <1>1, <1>6 DEF RunsOf

\* An access that is found is completed.
LEMMA DoneDoes ==
  ASSUME QueueSound, FaultFreeHere, comboverlaps # 0 => PlainIn(queue),
         NEW o \in out, PhysicalAccessDone(o), Found(queue, o)
  PROVE  fault' = fault /\ \E s, i, H : s = CompletionQueue(o.flags) /\ DoneWith(o, s, i, H)
<1> DEFINE s == CompletionQueue(o.flags)
           found == {i \in DOMAIN queue[s].list :
                        /\ queue[s].list[i].state = "PENDING"
                        /\ Head(queue[s].list[i].iolist) = o.lead}
           left(i) == [queue EXCEPT ![s] = Completed(@, i)]
           hits(i) == [t \in SubQs |-> IF comboverlaps = 0 THEN {}
                                       ELSE Overlapped(left(i)[t], o.lead, ArrtimeMax(queue[s].list[i]))]
<1>1. s \in SubQs /\ ConfigOk /\ Sound(queue)
  BY DEF CompletionQueue, SubQs, QueueSound
<1>2. found # {}
  <2>1. PICK j \in DOMAIN queue[s].list :
           ~ReadyToGo(queue[s].list[j]) /\ Head(queue[s].list[j].iolist) = o.lead
    BY DEF Found, RunsOf, RunsAt, PendAt
  <2> DEFINE c == queue[s].list[j]
  <2>2. c \in Bufs
    <3> HIDE DEF s
    <3> QED BY <1>1, <2>1, SubqueueOf
  <2>3. c.state = "PENDING"
    <3> HIDE DEF c
    <3>1. c.state \in {"WAITING", "PENDING"}
      BY <1>1, <2>2, BufFacts
    <3> QED BY <2>1, <3>1 DEF ReadyToGo, c
  <2> QED BY <2>1, <2>3
<1>3. PICK i \in found : CompleteWith(o, left(i), hits(i))
  BY <1>2 DEF PhysicalAccessDone
<1>4. i \in DOMAIN queue[s].list /\ ~ReadyToGo(queue[s].list[i]) /\ Head(queue[s].list[i].iolist) = o.lead
  BY DEF ReadyToGo
<1> DEFINE H == hits(i)
           q1 == After(queue, s, i)
<1>5. left(i) = q1
  BY DEF After
<1>6. H = [t \in SubQs |->
            IF comboverlaps = 0 THEN {}
            ELSE Overlapped(q1[t], o.lead, ArrtimeMax(queue[s].list[i]))]
  <2> HIDE DEF left, s
  <2> QED BY <1>5
<1>7. CompleteWith(o, q1, H)
  BY <1>3, <1>5
<1> HIDE DEF H, hits, left, found, s
<1>8. Sound(q1) /\ \A t \in SubQs : Stays(t, queue[t], q1[t])
  BY <1>1, <1>4, AfterSound
<1>9. ASSUME NEW t \in SubQs, NEW k \in H[t] PROVE ReqCnt(q1[t].list[k]) = 1
  <2>1. comboverlaps # 0 /\ k \in ReadyAt(q1[t])
    <3>1. H[t] = IF comboverlaps = 0 THEN {}
                 ELSE Overlapped(q1[t], o.lead, ArrtimeMax(queue[s].list[i]))
      BY <1>6
    <3> HIDE DEF q1
    <3> QED BY <1>9, <3>1 DEF Overlapped
  <2>2. Plain(q1[t])
    BY <1>8, <2>1 DEF Stays, PlainIn
  <2> QED BY <2>1, <2>2 DEF Plain, Single, ReadyAt
<1> HIDE DEF q1
<1>10. /\ queue' = [t \in SubQs |-> Clobbered(alg[t], q1[t], H[t])]
       /\ out' = out \ {o}
       /\ idledetect' = (idlework /\ (idledetect \/ NumInQueue(queue') = 0))
       /\ fault' = fault
  BY <1>7, <1>9 DEF CompleteWith
<1>11. DoneWith(o, s, i, H)
  BY <1>1, <1>4, <1>6, <1>9, <1>10 DEF DoneWith, q1
<1> QED BY <1>10, <1>11 DEF s

LEMMA DoneFound ==
  ASSUME QueueSound, Routed(queue, flags), flags' = flags, OutFound(queue, out),
         NEW o \in out, NEW s, s = CompletionQueue(o.flags), NEW i, NEW H, DoneWith(o, s, i, H)
  PROVE  Routed(queue', flags') /\ OutFound(queue', out')
<1> DEFINE q == queue
           q2 == queue'
           q1 == After(q, s, i)
<1>1. /\ ConfigOk /\ Sound(q) /\ s \in SubQs /\ i \in DOMAIN q[s].list /\ ~ReadyToGo(q[s].list[i])
      /\ Head(q[s].list[i].iolist) = o.lead
      /\ \A t \in SubQs : \A k \in H[t] : ReqCnt(q1[t].list[k]) = 1
      /\ q2 = [t \in SubQs |-> Clobbered(alg[t], q1[t], H[t])] /\ out' = out \ {o}
  BY DEF QueueSound, DoneWith
<1>2. \A t \in SubQs : H[t] \in SUBSET ReadyAt(q1[t])
  BY DEF DoneWith, Overlapped
<1>3. q1[s] = Completed(q[s], i) /\ \A t \in SubQs : t # s => q1[t] = q[t]
  BY <1>1 DEF After, Sound
<1> HIDE DEF q, q2
<1>4. Sound(q1) /\ SameWaits(q, q1)
  BY <1>1, AfterSound DEF SameWaits
<1> HIDE DEF q1
<1>5. ASSUME NEW t \in SubQs
      PROVE  RunsOf(q2[t]) = RunsOf(q1[t]) /\ WaitsOf(q2[t]) \in SUBSET WaitsOf(q1[t])
  <2> DEFINE a == alg[t]
             sq == q1[t]
             h == H[t]
             new == q2[t]
             V == WaitsOf(sq) \ AllAt(sq.list, h)
             O == OutsOf(sq)
  <2>1. /\ sq \in Subqueues /\ h \in SUBSET ReadyAt(sq) /\ (\A k \in h : ReqCnt(sq.list[k]) = 1)
        /\ StandsFor(sq.list, WaitsOf(sq), OutsOf(sq)) /\ a \in SchedAlgs
    BY <1>1, <1>2, <1>4, SubqueueOf
  <2>2. new = Clobbered(a, sq, h)
    BY <1>1
  <2> HIDE DEF a, sq, h, new
  <2>3. RunsOf(new) = RunsOf(sq)
    BY <1>1, <2>1, <2>2, ClobberedStays
  <2>4. StandsFor(new.list, V, O)
    BY <1>1, <2>1, <2>2, ClobberedLeaves
  <2> HIDE DEF V, O
  <2>5. V = WaitsOf(new)
    BY <2>4, StandsForItself
  <2> QED BY <2>3, <2>5 DEF V, sq, new
<1>6. Routed(q2, flags')
  <2>1. \A t \in SubQs : WaitsOf(q2[t]) \in SUBSET WaitsOf(q[t])
    BY <1>4, <1>5 DEF SameWaits
  <2> QED BY <2>1 DEF Routed, q
<1>7. ASSUME NEW p \in out' PROVE Found(q2, p)
  <2>1. p \in out /\ p # o
    BY <1>1
  <2>2. p.lead # o.lead /\ Found(q, p)
    BY <2>1 DEF OutFound, q
  <2> DEFINE t == CompletionQueue(p.flags)
  <2>3. PICK x \in RunsOf(q[t]) : Head(x[1]) = p.lead
    BY <2>2 DEF Found
  <2>4. t \in SubQs
    BY DEF CompletionQueue, SubQs
  <2> HIDE DEF t
  <2>5. x \in RunsOf(q1[t])
    <3>1. CASE t # s
      BY <1>3, <2>3, <2>4, <3>1
    <3>2. CASE t = s
      <4> DEFINE sq == q[s]
      <4>1. sq \in Subqueues /\ i \in DOMAIN sq.list /\ x \in RunsOf(sq)
            /\ Head(x[1]) # Head(sq.list[i].iolist)
        BY <1>1, <2>2, <2>3, <3>2 DEF Sound
      <4> HIDE DEF sq
      <4>2. x \in RunsOf(Completed(sq, i))
        BY <1>1, <4>1, CompletedKeepsOthers
      <4> QED BY <1>3, <3>2, <4>2 DEF sq
    <3> QED BY <3>1, <3>2
  <2>6. x \in RunsOf(q2[t])
    BY <1>5, <2>4, <2>5
  <2> QED BY <2>3, <2>6 DEF Found, t
<1>8. OutFound(q2, out')
  BY <1>1, <1>7 DEF OutFound
<1> QED BY <1>6, <1>8 DEF q2


(***************************************************************************)
(* No fault: the invariant.                                                 *)
(***************************************************************************)

\* Flags lead to the subqueue of each waiting request, and to the iobuf of each
\* access that is out.
QueueSafe ==
    /\ QueueBooks /\ FaultFreeHere /\ ChainsStayHere /\ NoFault
    /\ Routed(queue, flags) /\ OutFound(queue, out)

LEMMA SafeInit ==
  ASSUME ChainsStay, \A c \in Configs : FaultFree(c), Init
  PROVE  QueueSafe
<1>1. QueueBooks /\ WaitsIn(queue) = {}
  BY BooksInit, SoundInit
<1>2. ConfigOk
  BY <1>1 DEF QueueBooks, QueueSound
<1>3. FaultFreeHere /\ ChainsStayHere
  BY <1>2, FaultFreeConfig
<1>4. Routed(queue, flags)
  BY <1>1 DEF Routed, WaitsIn
<1>5. OutFound(queue, out) /\ NoFault
  BY DEF Init, OutFound, NoFault
<1> QED BY <1>1, <1>3, <1>4, <1>5 DEF QueueSafe

LEMMA SafeStep == QueueSafe /\ [Next]_vars => QueueSafe'
<1> SUFFICES ASSUME QueueSafe, [Next]_vars PROVE QueueSafe'
  OBVIOUS
<1> DEFINE Goal == /\ config' = config /\ fault' = fault
                   /\ Routed(queue', flags') /\ OutFound(queue', out')
<1>0. /\ QueueBooks /\ QueueSound /\ FaultFreeHere /\ Routed(queue, flags) /\ OutFound(queue, out)
      /\ CountedIn(queue) /\ (concatmax = 0 => PlainIn(queue)) /\ (NoMoves \/ PlainIn(queue))
      /\ out \in SUBSET [lead : Reqs, flags : SUBSET Flags] /\ ConfigOk
  BY DEF QueueSafe, QueueBooks, ChainsStayHere, QueueSound
<1>00. pri_scheme # "ALLEQUAL" \/ to_scheme # "NOTIMEOUT" => PlainIn(queue)
  BY <1>0 DEF NoMoves
<1>1. ASSUME NEW r \in Reqs, AddNewRequest(r) PROVE Goal
  <2>1. SameOut(queue, queue') /\ Routed(queue', flags')
    BY <1>0, <1>1, AddOrderly, AddRouted
  <2>2. OutFound(queue', out)
    BY <1>0, <2>1, SameOutFound
  <2> QED BY <1>1, <2>1, <2>2 DEF AddNewRequest
<1>2. ASSUME NEW r \in Reqs, RaisePriority(r) PROVE Goal
  <2>1. SameOut(queue, queue') /\ Routed(queue', flags')
    BY <1>0, <1>00, <1>2, RaiseOrderly, RaiseRouted
  <2>2. OutFound(queue', out)
    BY <1>0, <2>1, SameOutFound
  <2> QED BY <1>2, <2>1, <2>2 DEF RaisePriority
<1>3. ASSUME GetNextRequest PROVE Goal
  <2>1. Routed(queue', flags') /\ OutFound(queue', out')
    BY <1>0, <1>3, HandOutFound
  <2> QED BY <1>3, <2>1 DEF GetNextRequest
<1>4. ASSUME NEW o \in out, PhysicalAccessDone(o) PROVE Goal
  <2>1. Found(queue, o)
    BY <1>0 DEF OutFound
  <2>2. comboverlaps # 0 => PlainIn(queue)
    BY <1>0 DEF FaultFreeHere
  <2>3. fault' = fault /\ \E s, i, H : s = CompletionQueue(o.flags) /\ DoneWith(o, s, i, H)
    BY <1>0, <1>4, <2>1, <2>2, DoneDoes
  <2>4. PICK s, i, H : s = CompletionQueue(o.flags) /\ DoneWith(o, s, i, H)
    BY <2>3
  <2>5. config' = config /\ flags' = flags
    BY <1>4 DEF PhysicalAccessDone
  <2>6. Routed(queue', flags') /\ OutFound(queue', out')
    BY <1>0, <2>4, <2>5, DoneFound
  <2> QED BY <2>3, <2>5, <2>6
<1>5. ASSUME Tick PROVE Goal
  <2>1. TimeoutsDone.null = FALSE /\ Routed(TimeoutsDone.q, TimeoutsDone.flags)
    BY <1>0, <1>00, TimeoutsDoneOrder DEF FaultFreeHere
  <2>2. queue' = TimeoutsDone.q /\ flags' = TimeoutsDone.flags /\ fault' = fault
        /\ config' = config /\ out' = out
    BY <1>5, <2>1 DEF Tick
  <2>3. Routed(queue', flags')
    BY <2>1, <2>2
  <2>4. SameOut(queue, queue')
    BY <1>0, <1>5, TickOrderly
  <2>5. OutFound(queue', out)
    BY <1>0, <2>4, SameOutFound
  <2> QED BY <2>2, <2>3, <2>5
<1>6. ASSUME IdleDetected PROVE Goal
  BY <1>0, <1>6 DEF IdleDetected
<1>7. ASSUME ResetIdledetecter PROVE Goal
  BY <1>0, <1>7 DEF ResetIdledetecter
<1>8. ASSUME Advance PROVE Goal
  BY <1>0, <1>8 DEF Advance
<1>9. ASSUME UNCHANGED vars PROVE Goal
  BY <1>0, <1>9 DEF vars
<1>10. Goal
  <2> HIDE DEF Goal
  <2> QED BY <1>1, <1>2, <1>3, <1>4, <1>5, <1>6, <1>7, <1>8, <1>9 DEF Next
<1>11. QueueBooks'
  BY <1>0, BooksStep
<1>12. (FaultFreeHere /\ ChainsStayHere)'
  BY <1>10 DEF QueueSafe, FaultFreeHere, ChainsStayHere, NoMoves, comboverlaps, concatmax,
               pri_scheme, to_scheme, ArrivalFlags
<1>13. Routed(queue, flags)'
  BY <1>10 DEF Routed, WaitsOf, WaitsAt, CompletionQueue, pri_scheme, to_scheme
<1>14. OutFound(queue, out)'
  <2>1. \A fl : CompletionQueue(fl)' = CompletionQueue(fl)
    BY <1>10 DEF CompletionQueue, pri_scheme, to_scheme
  <2>2. \A o \in out' : \E x \in RunsOf(queue'[CompletionQueue(o.flags)]) : Head(x[1]) = o.lead
    BY <1>10 DEF OutFound, Found
  <2>3. \A o \in out' : Found(queue, o)'
    BY <2>1, <2>2 DEF Found, RunsOf, RunsAt, PendAt
  <2>4. \A o, p \in out' : o.lead = p.lead => o = p
    BY <1>10 DEF OutFound
  <2> QED BY <2>3, <2>4 DEF OutFound
<1>15. NoFault'
  BY <1>10 DEF QueueSafe, NoFault
<1> QED BY <1>11, <1>12, <1>13, <1>14, <1>15 DEF QueueSafe

\* Where a chain never moves, overlaps are not sought among concatenated requests
\* and half timed out requests have a priority queue to go to, every completed
\* access is found where its flags lead, every request completed by overlap
\* stands alone, and no walk over the timeouts leaves its list (NoFault).
THEOREM QueueNeverFaults ==
  ASSUME ChainsStay, \A c \in Configs : FaultFree(c)
  PROVE  Spec => []NoFault
<1>1. Init => QueueSafe
  BY SafeInit
<1>2. QueueSafe /\ [Next]_vars => QueueSafe'
  BY SafeStep
<1>3. QueueSafe => NoFault
  BY DEF QueueSafe
<1> QED BY <1>1, <1>2, <1>3, PTL DEF Spec
=============================================================================
