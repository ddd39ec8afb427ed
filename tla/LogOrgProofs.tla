---------------------------- MODULE LogOrgProofs ----------------------------
(***************************************************************************)
(* Proofs about the logical organisations.                                  *)
(*   - What they count about their accesses is true of them, in every order *)
(*     of completions (OrgInv): an inductive invariant of requests whose     *)
(*     mappings fit (Fits), and that the mappings do: striped, interleaved,  *)
(*     on copies, with a parity disk or with parity that rotates, for disks, *)
(*     units and requests of any size.                                       *)
(*   - Reads that take the copies in turn use them equally often             *)
(*     (CopiesInTurn).                                                       *)
(*   - Without rotating parity, a request that is done has touched the       *)
(*     blocks it names and the parity that protects them (RightBlocks).      *)
(***************************************************************************)
EXTENDS LogOrg, ListProofs

\* The write w as the disk of p gets it
Sent(p, w) == Physical(w, p, w.devno)

\* An outstanding request p of entry q, its accesses A under way, and iss those
\* ever issued
OutFits(o, p, q, A, iss) ==
    LET held == DOMAIN q.waits
    IN /\ IsFiniteSet(A) /\ A \subseteq iss
       /\ held \subseteq OnMembers(o) /\ IsFiniteSet(held)
       /\ q.numreqs = Cardinality(A) + Cardinality(held) /\ q.numreqs # 0
       /\ IsFiniteSet(q.depend)
       /\ \A e \in q.depend : e.deps \subseteq held /\ \E a \in A : a.read /\ SamePlace(a, e)
       /\ \A e, f \in q.depend : SamePlace(e, f) => e = f
       /\ \A w \in held : /\ q.waits[w] = Cardinality({e \in q.depend : w \in e.deps})
                          /\ q.waits[w] # 0
       /\ \A w \in held : ~w.read /\ Sent(p, w) \notin iss
       /\ \A w \in held : \A e \in q.depend : SamePlace(w, e) => w \in e.deps
       /\ \A a \in A : \A e \in q.depend : SamePlace(a, e) => a.read

\* Physical accesses of the organisation
OnDisks(o) ==
    {a \in [opid : Nat, devno : Disks(o), blkno : Nat, bcount : Nat \ {0}, read : BOOLEAN] :
        a.blkno + a.bcount <= o.actualblksperpart}

\* The requests that any of the organisations may be sent
ReqSet == UNION {Workload(o, n) : o \in Orgs, n \in 1..MaxRequests}

\* What keeps its type, and which accesses belong to which request
OrgTypes ==
    /\ org \in Orgs
    /\ requests \in Seq(ReqSet)
    /\ reduntoggle \in 0..org.copies - 1
    /\ DOMAIN outstandq \subseteq 0..Len(requests) - 1
    /\ IsFiniteSet(out) /\ out \subseteq issued /\ issued \subseteq OnDisks(org)
    /\ \A a \in issued : a.opid < Len(requests)
    /\ \A a \in out : a.opid \in DOMAIN outstandq
    /\ numout \in [Disks(org) -> Int] /\ fault = FALSE

\* The inductive invariant: every request that is outstanding counts what it has under
\* way and holds up, and each entry for a place is that of a read under way.
OrgSound ==
    /\ OrgTypes
    /\ \A p \in DOMAIN outstandq : OutFits(org, p, outstandq[p], AccessesOf(p), issued)

\* The organisations that hold no write up
Counted(o) == o.reduntype # "PARITY_TABLE" /\ ~ReadsOld(o, <<[read |-> FALSE]>>)

\* The second: with no writes held up, numout is the number of accesses under way.
CountsOut ==
    Counted(org) => /\ \A p \in DOMAIN outstandq : DOMAIN outstandq[p].waits = {}
                    /\ \A d \in Disks(org) : numout[d] = Cardinality({a \in out : a.devno = d})

\* What goes to the disk d of the accesses in the set X, and the writes among it
ToDisk(X, d)   == {a \in X : a.devno = d}
WritesTo(X, d) == {a \in X : ~a.read /\ a.devno = d}

\* The organisations that send no write at once
AllReleased(o) == o.reduntype # "PARITY_TABLE" /\ ReadsOld(o, <<[read |-> FALSE]>>)

\* The number n for the disk d falls short of what is under way there, A, by the
\* writes ever issued that were not counted: all of them, or no more than those.
FallsShort(o, n, A, iss, d) ==
    LET under   == Cardinality(ToDisk(A, d))
        written == Cardinality(WritesTo(iss, d))
    IN /\ IsFiniteSet(WritesTo(iss, d))
       /\ n <= under /\ under <= n + written
       /\ AllReleased(o) => under = n + written

\* The third: so it is for every disk, where writes are held up and where not.
CountsShort == \A d \in Disks(org) : FallsShort(org, numout[d], out, issued, d)

(***************************************************************************)
(* The organisation after logorg_initialize.                                *)
(***************************************************************************)

\* Its fields
OrgOK(o) ==
    /\ o.maptype \in {"ASIS", "STRIPED"} /\ o.addrbyparts \in BOOLEAN
    /\ o.reduntype \in {"NO_REDUN", "SHADOWED", "PARITY_DISK", "PARITY_ROTATED", "PARITY_TABLE"}
    /\ o.copies \in Nat \ {0, 1} /\ o.stripeunit \in Nat /\ o.parityunit \in Nat \ {0}
    /\ o.copychoice \in {"PRIMARY", "ROUNDROBIN", "RANDOM"} /\ o.writesync \in BOOLEAN
    /\ o.rottype \in {"LEFT", "RIGHT"}
    /\ o.actualnumdisks \in Nat \ {0} /\ o.actualblksperpart \in Nat \ {0} /\ o.numdisks \in Nat

\* What is left for data
DataLeft(o) ==
    /\ o.maptype = "ASIS" => o.addrbyparts
    /\ o.reduntype \in {"NO_REDUN", "SHADOWED", "PARITY_DISK"} => o.blksperpart = o.actualblksperpart
    /\ o.reduntype = "NO_REDUN" => o.numdisks = o.actualnumdisks
    /\ o.reduntype = "SHADOWED" => o.numdisks * o.copies = o.actualnumdisks
    /\ o.reduntype = "PARITY_DISK" => /\ o.numdisks = o.actualnumdisks - 1
                                      /\ o.maptype = "ASIS" \/ o.stripeunit = 0
    /\ o.reduntype = "PARITY_ROTATED" =>
          /\ o.maptype = "ASIS"
          /\ o.numdisks = o.actualnumdisks
          /\ o.blksperpart = ((o.actualblksperpart * (o.numdisks - 1)) \div o.numdisks) - o.parityunit
    /\ o.maptype = "STRIPED" /\ o.stripeunit # 0 =>
          /\ o.numfull = o.blksperpart \div o.stripeunit
          /\ o.stripeunit <= o.blksperpart

\* A configuration that is not tabular keeps all fields but these.
LEMMA InitializedPlain ==
  ASSUME NEW c, Configurable(c), ~Tabular(c)
  PROVE  /\ \A f \in DOMAIN c \ {"numdisks", "blksperpart", "numfull"} : Initialized(c)[f] = c[f]
         /\ Initialized(c).numdisks = CASE c.reduntype = "SHADOWED"    -> c.numdisks \div c.copies
                                         [] c.reduntype = "PARITY_DISK" -> c.numdisks - 1
                                         [] OTHER                       -> c.numdisks
         /\ Initialized(c).blksperpart =
              IF c.reduntype = "PARITY_ROTATED"
                THEN ((c.blksperpart * (c.numdisks - 1)) \div c.numdisks) - c.parityunit
                ELSE c.blksperpart
         /\ c.maptype = "STRIPED" /\ c.stripeunit # 0 =>
              Initialized(c).numfull = c.blksperpart \div c.stripeunit
<1> DEFINE nd == CASE c.reduntype = "SHADOWED"    -> c.numdisks \div c.copies
                   [] c.reduntype = "PARITY_DISK" -> c.numdisks - 1
                   [] OTHER                       -> c.numdisks
           bp == IF c.reduntype = "PARITY_ROTATED"
                   THEN ((c.blksperpart * (c.numdisks - 1)) \div c.numdisks) - c.parityunit
                   ELSE c.blksperpart
           nf == CASE c.maptype = "STRIPED" /\ c.stripeunit # 0 -> c.blksperpart \div c.stripeunit
                   [] c.maptype = "ASIS" /\ c.reduntype = "PARITY_ROTATED" ->
                         c.actualblksperpart \div c.parityunit
                   [] OTHER -> 0
<1>1. Initialized(c) = [c EXCEPT !.maptype = @, !.reduntype = @, !.numdisks = nd,
                                 !.blksperpart = bp, !.numfull = nf]
  BY DEF Initialized, Configurable, ConfigSet
<1> HIDE DEF nd, bp
<1>2. {"maptype", "reduntype", "numdisks", "blksperpart", "numfull"} \subseteq DOMAIN c
  BY DEF Configurable, ConfigSet
<1>3. /\ \A f \in DOMAIN c \ {"numdisks", "blksperpart", "numfull"} : Initialized(c)[f] = c[f]
      /\ Initialized(c).numdisks = nd /\ Initialized(c).blksperpart = bp
      /\ c.maptype = "STRIPED" /\ c.stripeunit # 0 =>
              Initialized(c).numfull = c.blksperpart \div c.stripeunit
  BY <1>1, <1>2
<1> QED BY <1>3 DEF nd, bp

\* One with a table keeps the numbers of disks and blocks.
LEMMA InitializedTable ==
  ASSUME NEW c, Configurable(c), Tabular(c)
  PROVE  /\ \A f \in DOMAIN c \ {"maptype", "reduntype", "numdisks", "blksperpart", "numfull",
                                 "tablestripes", "tablesize", "partsperstripe", "table"} :
               Initialized(c)[f] = c[f]
         /\ Initialized(c).maptype = "ASIS" /\ Initialized(c).reduntype = "PARITY_TABLE"
         /\ Initialized(c).numdisks \in Nat
<1> DEFINE d == CreateTable(c)
           nd == CASE c.reduntype = "SHADOWED"    -> c.numdisks \div c.copies
                   [] c.reduntype = "PARITY_DISK" -> c.numdisks - 1
                   [] OTHER                       -> c.numdisks
           bp == IF c.reduntype = "PARITY_ROTATED"
                   THEN ((c.blksperpart * (c.numdisks - 1)) \div c.numdisks) - 0
                   ELSE c.blksperpart
           nf == (c.actualblksperpart \div c.stripeunit) * c.stripeunit
<1>1. /\ DOMAIN d = DOMAIN c /\ d.numdisks = c.numdisks /\ d.blksperpart = c.blksperpart
      /\ \A f \in DOMAIN c \ {"tablestripes", "tablesize", "partsperstripe", "table"} : d[f] = c[f]
  BY DEF CreateTable, Configurable, ConfigSet
<1> HIDE DEF d
<1>2. Initialized(c) = [d EXCEPT !.maptype = "ASIS", !.reduntype = "PARITY_TABLE", !.numdisks = nd,
                                 !.blksperpart = bp, !.numfull = nf]
  <2>1. Initialized(c) =
          [d EXCEPT !.maptype = "ASIS", !.reduntype = "PARITY_TABLE",
             !.numdisks = CASE c.reduntype = "SHADOWED"    -> d.numdisks \div c.copies
                            [] c.reduntype = "PARITY_DISK" -> d.numdisks - 1
                            [] OTHER                       -> d.numdisks,
             !.blksperpart = IF c.reduntype = "PARITY_ROTATED"
                               THEN ((d.blksperpart * (c.numdisks - 1)) \div c.numdisks) - 0
                               ELSE d.blksperpart,
             !.numfull = nf]
    BY Zenon DEF Initialized, d, nf
  <2> QED BY <1>1, <2>1
<1>3. nd \in Nat
  BY DEF Configurable, ConfigSet, Tabular
<1> HIDE DEF nd, bp, nf
<1>4. {"maptype", "reduntype", "numdisks", "blksperpart", "numfull"} \subseteq DOMAIN d
  BY <1>1 DEF Configurable, ConfigSet
<1>5. /\ \A f \in DOMAIN d \ {"maptype", "reduntype", "numdisks", "blksperpart", "numfull"} :
             Initialized(c)[f] = d[f]
      /\ Initialized(c).maptype = "ASIS" /\ Initialized(c).reduntype = "PARITY_TABLE"
      /\ Initialized(c).numdisks = nd
  BY <1>2, <1>4
<1> QED BY <1>1, <1>3, <1>5

\* Every organisation is one of these.
LEMMA OrgFacts ==
  ASSUME FirstAtZero, NEW o \in Orgs
  PROVE  OrgOK(o) /\ o.firstdisk = 0 /\ (o.reduntype # "PARITY_TABLE" => DataLeft(o))
<1>1. PICK c \in Organizations : o = Initialized(c)
  BY DEF Orgs
<1>2. Configurable(c) /\ c.firstdisk = 0
  BY LogOrgAssumption DEF FirstAtZero
<1>3. /\ DOMAIN c = {"maptype", "addrbyparts", "arraydisk", "firstdisk", "reduntype", "numdisks",
            "actualnumdisks", "blksperpart", "actualblksperpart", "copies", "copychoice", "writesync",
            "stripeunit", "parityunit", "rottype", "rmwpoint", "numfull", "partsperstripe",
            "tablestripes", "tablesize", "table"}
      /\ c.maptype \in {"ASIS", "STRIPED"} /\ c.addrbyparts \in BOOLEAN
      /\ c.reduntype \in {"NO_REDUN", "SHADOWED", "PARITY_DISK", "PARITY_ROTATED"}
      /\ c.copies \in Nat \ {0, 1} /\ c.stripeunit \in Nat /\ c.parityunit \in Nat \ {0}
      /\ c.copychoice \in {"PRIMARY", "ROUNDROBIN", "RANDOM"} /\ c.writesync \in BOOLEAN
      /\ c.rottype \in {"LEFT", "RIGHT"}
      /\ c.numdisks \in Nat \ {0} /\ c.blksperpart \in Nat \ {0}
  BY <1>2 DEF Configurable, ConfigSet
<1>4. /\ c.maptype = "ASIS" => c.addrbyparts
      /\ c.actualnumdisks = c.numdisks /\ c.actualblksperpart = c.blksperpart
      /\ c.stripeunit <= c.blksperpart /\ c.parityunit <= c.blksperpart
      /\ c.reduntype = "SHADOWED" => c.numdisks % c.copies = 0
      /\ c.reduntype = "PARITY_ROTATED" /\ c.maptype = "STRIPED" => Tabular(c)
  BY <1>2 DEF Configurable
<1>5. CASE Tabular(c)
  <2>1. /\ o.addrbyparts = c.addrbyparts /\ o.copies = c.copies /\ o.stripeunit = c.stripeunit
        /\ o.parityunit = c.parityunit /\ o.copychoice = c.copychoice /\ o.writesync = c.writesync
        /\ o.rottype = c.rottype /\ o.actualnumdisks = c.numdisks /\ o.firstdisk = 0
        /\ o.actualblksperpart = c.blksperpart
        /\ o.maptype = "ASIS" /\ o.reduntype = "PARITY_TABLE" /\ o.numdisks \in Nat
    BY <1>1, <1>2, <1>3, <1>4, <1>5, InitializedTable
  <2> QED BY <1>3, <2>1 DEF OrgOK
<1>6. CASE ~Tabular(c)
  <2>1. /\ o.addrbyparts = c.addrbyparts /\ o.copies = c.copies /\ o.stripeunit = c.stripeunit
        /\ o.parityunit = c.parityunit /\ o.copychoice = c.copychoice /\ o.writesync = c.writesync
        /\ o.rottype = c.rottype /\ o.actualnumdisks = c.numdisks /\ o.firstdisk = 0
        /\ o.actualblksperpart = c.blksperpart
        /\ o.maptype = c.maptype /\ o.reduntype = c.reduntype
    BY <1>1, <1>2, <1>3, <1>4, <1>6, InitializedPlain
  <2>2. /\ o.numdisks = CASE c.reduntype = "SHADOWED"    -> c.numdisks \div c.copies
                          [] c.reduntype = "PARITY_DISK" -> c.numdisks - 1
                          [] OTHER                       -> c.numdisks
        /\ o.blksperpart =
              IF c.reduntype = "PARITY_ROTATED"
                THEN ((c.blksperpart * (c.numdisks - 1)) \div c.numdisks) - c.parityunit
                ELSE c.blksperpart
        /\ c.maptype = "STRIPED" /\ c.stripeunit # 0 => o.numfull = c.blksperpart \div c.stripeunit
    BY <1>1, <1>2, <1>6, InitializedPlain
  <2>3. c.reduntype = "SHADOWED" =>
           c.numdisks \div c.copies \in Nat /\ (c.numdisks \div c.copies) * c.copies = c.numdisks
    BY <1>3, <1>4
  <2>4. o.numdisks \in Nat
    BY <1>3, <2>2, <2>3
  <2>5. OrgOK(o)
    BY <1>3, <2>1, <2>4 DEF OrgOK
  <2>6. DataLeft(o)
    <3>1. o.maptype = "ASIS" => o.addrbyparts
      BY <1>4, <2>1
    <3>2. o.reduntype \in {"NO_REDUN", "SHADOWED", "PARITY_DISK"} => o.blksperpart = o.actualblksperpart
      BY <2>1, <2>2
    <3>3. o.reduntype = "NO_REDUN" => o.numdisks = o.actualnumdisks
      BY <2>1, <2>2
    <3>4. o.reduntype = "SHADOWED" => o.numdisks * o.copies = o.actualnumdisks
      BY <2>1, <2>2, <2>3
    <3>5. o.reduntype = "PARITY_DISK" => /\ o.numdisks = o.actualnumdisks - 1
                                         /\ o.maptype = "ASIS" \/ o.stripeunit = 0
      BY <1>3, <1>6, <2>1, <2>2 DEF Tabular
    <3>6. o.reduntype = "PARITY_ROTATED" =>
            /\ o.maptype = "ASIS"
            /\ o.numdisks = o.actualnumdisks
            /\ o.blksperpart = ((o.actualblksperpart * (o.numdisks - 1)) \div o.numdisks) - o.parityunit
      BY <1>3, <1>4, <1>6, <2>1, <2>2
    <3>7. o.maptype = "STRIPED" /\ o.stripeunit # 0 =>
            /\ o.numfull = o.blksperpart \div o.stripeunit
            /\ o.stripeunit <= o.blksperpart
      <4>1. c.maptype = "STRIPED" => c.reduntype # "PARITY_ROTATED" \/ c.stripeunit = 0
        BY <1>4, <1>6
      <4> QED BY <1>4, <2>1, <2>2, <4>1
    <3> QED BY <3>1, <3>2, <3>3, <3>4, <3>5, <3>6, <3>7 DEF DataLeft
  <2> QED BY <2>1, <2>5, <2>6
<1> QED BY <1>5, <1>6

\* A rest is less than what was divided by.
LEMMA ModRange ==
  ASSUME NEW x \in Int, NEW n \in Nat \ {0}
  PROVE  x % n \in 0..n - 1
  OBVIOUS

(***************************************************************************)
(* A request begins.                                                        *)
(***************************************************************************)

\* Accesses of p as the disks of an organisation that begins with disk 0 get them
LEMMA SentFacts ==
  ASSUME NEW o, NEW p \in Nat, NEW w \in OnMembers(o), NEW v \in OnMembers(o), OrgOK(o)
  PROVE  /\ Sent(p, w) \in OnDisks(o) /\ SamePlace(Sent(p, w), w)
         /\ Sent(p, w).read = w.read /\ Sent(p, w).opid = p /\ Sent(p, w).devno = w.devno
         /\ Sent(p, w) = Sent(p, v) => w = v
<1>1. /\ w.devno \in Disks(o) /\ w.blkno \in Nat /\ w.bcount \in Nat \ {0} /\ w.read \in BOOLEAN
      /\ w.blkno + w.bcount <= o.actualblksperpart
      /\ w = [devno |-> w.devno, blkno |-> w.blkno, bcount |-> w.bcount, read |-> w.read]
      /\ v = [devno |-> v.devno, blkno |-> v.blkno, bcount |-> v.bcount, read |-> v.read]
  BY DEF OnMembers
<1>2. Sent(p, w) = [opid |-> p, devno |-> w.devno, blkno |-> w.blkno, bcount |-> w.bcount, read |-> w.read]
  BY DEF Sent, Physical
<1>3. Sent(p, v) = [opid |-> p, devno |-> v.devno, blkno |-> v.blkno, bcount |-> v.bcount, read |-> v.read]
  BY DEF Sent, Physical
<1>4. Sent(p, w) \in OnDisks(o)
  BY <1>1, <1>2 DEF OnDisks
<1>5. Sent(p, w) = Sent(p, v) => w = v
  <2>1. SUFFICES ASSUME Sent(p, w) = Sent(p, v) PROVE w = v
    OBVIOUS
  <2>2. w.devno = v.devno /\ w.blkno = v.blkno /\ w.bcount = v.bcount /\ w.read = v.read
    BY <1>2, <1>3, <2>1
  <2> QED BY <1>1, <2>2
<1> QED BY <1>1, <1>2, <1>4, <1>5 DEF SamePlace

\* A set of writes held up gives as many accesses.
LEMMA SentCount ==
  ASSUME NEW o, NEW p \in Nat, OrgOK(o), NEW W, W \subseteq OnMembers(o), IsFiniteSet(W)
  PROVE  LET A == {Sent(p, w) : w \in W}
         IN IsFiniteSet(A) /\ Cardinality(A) = Cardinality(W)
<1> DEFINE A == {Sent(p, w) : w \in W}
           f == [w \in W |-> Sent(p, w)]
<1>1. f \in Bijection(W, A)
  <2>1. f \in [W -> A]
    OBVIOUS
  <2>2. \A w, v \in W : f[w] = f[v] => w = v
    <3> TAKE w, v \in W
    <3>1. Sent(p, w) = Sent(p, v) => w = v
      BY SentFacts
    <3> QED BY <3>1
  <2>3. \A a \in A : \E w \in W : f[w] = a
    OBVIOUS
  <2> HIDE DEF f, A
  <2> QED BY <2>1, <2>2, <2>3 DEF Bijection, Injection, Surjection, IsInjective
<1>2. ExistsBijection(W, A)
  BY <1>1 DEF ExistsBijection
<1> HIDE DEF A, f
<1>3. IsFiniteSet(A) /\ Cardinality(A) = Cardinality(W)
  BY <1>2, FS_Bijection
<1> QED BY <1>3 DEF A

\* The disks found are those meant.
LEMMA DevnosMeant ==
  ASSUME NEW o, OrgOK(o), o.firstdisk = 0, NEW m \in Seq(OnMembers(o)), m # <<>>,
         NEW f \in DevnosOf(o, m)
  PROVE  \A i \in DOMAIN m : f[i] = m[i].devno
<1>1. DOMAIN m = 1..Len(m) /\ 1 \in DOMAIN m
  OBVIOUS
<1>2. \A i \in DOMAIN m : m[i].devno \in Disks(o) /\ m[i].devno \in Int
  <2> TAKE i \in DOMAIN m
  <2>1. m[i] \in OnMembers(o)
    BY <1>1
  <2>2. m[i].devno \in Disks(o)
    BY <2>1 DEF OnMembers
  <2>3. \A d \in Disks(o) : d \in Int
    BY DEF Disks
  <2> QED BY <2>2, <2>3
<1>3. f[1] = m[1].devno
  BY <1>1, <1>2 DEF DevnosOf
<1>4. ASSUME NEW i \in 2..Len(m) PROVE f[i] = m[i].devno
  <2>1. f[i] \in TableEntry(o, m[i].devno)
    BY <1>1, <1>2 DEF DevnosOf
  <2>2. TableEntry(o, m[i].devno) = {m[i].devno}
    BY <1>1, <1>2 DEF TableEntry
  <2> QED BY <2>1, <2>2
<1> QED BY <1>1, <1>3, <1>4

\* The accesses sent of a mapping that fits
FirstSent(p, s) == {Sent(p, s[i]) : i \in DOMAIN s}

\* They are as many as the mapping has, on the disks, and new.
LEMMA FirstSentFacts ==
  ASSUME NEW o, OrgOK(o), NEW p \in Nat, NEW s \in Seq(OnMembers(o)), IsInjective(s)
  PROVE  /\ FirstSent(p, s) \subseteq OnDisks(o) /\ IsFiniteSet(FirstSent(p, s))
         /\ Cardinality(FirstSent(p, s)) = Len(s)
         /\ \A a \in FirstSent(p, s) : a.opid = p
<1> DEFINE f == [i \in 1..Len(s) |-> Sent(p, s[i])]
<1>1. /\ DOMAIN s = 1..Len(s) /\ Len(s) \in Nat
      /\ \A i \in 1..Len(s) : s[i] \in OnMembers(o)
  OBVIOUS
<1>2. f \in Bijection(1..Len(s), FirstSent(p, s))
  <2>1. f \in [1..Len(s) -> FirstSent(p, s)]
    BY <1>1 DEF FirstSent
  <2>2. \A i, j \in 1..Len(s) : f[i] = f[j] => i = j
    <3> TAKE i, j \in 1..Len(s)
    <3>1. Sent(p, s[i]) = Sent(p, s[j]) => s[i] = s[j]
      BY <1>1, SentFacts
    <3>2. s[i] = s[j] => i = j
      BY <1>1 DEF IsInjective
    <3> QED BY <3>1, <3>2
  <2>3. \A a \in FirstSent(p, s) : \E i \in 1..Len(s) : f[i] = a
    BY <1>1 DEF FirstSent
  <2> HIDE DEF f
  <2> QED BY <2>1, <2>2, <2>3 DEF Bijection, Injection, Surjection, IsInjective
<1> HIDE DEF f
<1>3. ExistsBijection(1..Len(s), FirstSent(p, s))
  BY <1>2 DEF ExistsBijection
<1>4. IsFiniteSet(1..Len(s)) /\ Cardinality(1..Len(s)) = Len(s)
  <2> DEFINE n == Len(s)
  <2>1. n \in Nat /\ 1 \in Int /\ n \in Int
    BY <1>1
  <2> HIDE DEF n
  <2>2. IsFiniteSet(1..n) /\ Cardinality(1..n) = n
    BY <2>1, FS_Interval
  <2> QED BY <2>2 DEF n
<1>5. IsFiniteSet(FirstSent(p, s)) /\ Cardinality(FirstSent(p, s)) = Len(s)
  BY <1>3, <1>4, FS_Bijection
<1>6. \A i \in DOMAIN s : Sent(p, s[i]) \in OnDisks(o) /\ Sent(p, s[i]).opid = p
  BY <1>1, SentFacts
<1> QED BY <1>5, <1>6 DEF FirstSent

\* The entry of a request that has just been mapped
NewEntry(m) == [numreqs |-> Len(m.sent) + Cardinality(DOMAIN m.waits),
                depend |-> m.depend, waits |-> m.waits]

\* A request that has just been mapped is counted rightly.
LEMMA NewFits ==
  ASSUME NEW o, OrgOK(o), NEW p \in Nat, NEW m, Fits(o, m), NEW iss, \A a \in iss : a.opid # p
  PROVE  OutFits(o, p, NewEntry(m), FirstSent(p, m.sent), iss \cup FirstSent(p, m.sent))
<1> DEFINE q == NewEntry(m)
           held == DOMAIN m.waits
           A == FirstSent(p, m.sent)
           s == m.sent
<1>1. q.numreqs = Len(s) + Cardinality(held) /\ q.depend = m.depend /\ q.waits = m.waits
  BY DEF NewEntry
<1>2. s \in Seq(OnMembers(o)) /\ s # <<>> /\ IsInjective(s) /\ DOMAIN s = 1..Len(s) /\ Len(s) \in Nat \ {0}
  BY DEF Fits
<1>3. held \subseteq OnMembers(o) /\ IsFiniteSet(held) /\ Cardinality(held) \in Nat
  BY FS_CardinalityType DEF Fits
<1>4. /\ A \subseteq OnDisks(o) /\ IsFiniteSet(A) /\ Cardinality(A) = Len(s)
      /\ \A a \in A : a.opid = p
  BY <1>2, FirstSentFacts
<1>5. \A w \in held : ~w.read /\ w \notin SetOf(s)
  BY DEF Fits
<1>6. /\ IsFiniteSet(m.depend)
      /\ \A e \in m.depend : /\ e.deps \subseteq held
                             /\ \E a \in SetOf(s) : a.read /\ SamePlace(a, e)
      /\ \A e, f \in m.depend : SamePlace(e, f) => e = f
      /\ \A w \in held : /\ m.waits[w] = Cardinality({e \in m.depend : w \in e.deps})
                         /\ m.waits[w] # 0
      /\ \A w \in SetOf(s) \cup held : \A e \in m.depend :
            SamePlace(w, e) => w.read \/ w \in e.deps
  BY DEF Fits, HeldUpRightly
<1>7. \A i \in DOMAIN s : s[i] \in OnMembers(o) /\ s[i] \in SetOf(s)
  BY <1>2 DEF SetOf
<1>8. \A a \in A : \E b \in SetOf(s) : b \in OnMembers(o) /\ a = Sent(p, b)
  BY <1>7 DEF FirstSent
<1>9. \A b \in SetOf(s) : b \in OnMembers(o) /\ Sent(p, b) \in A
  BY <1>7 DEF FirstSent, SetOf
<1> HIDE DEF held, A, s
<1>10. \A e \in m.depend : \E a \in A : a.read /\ SamePlace(a, e)
  <2> TAKE e \in m.depend
  <2>1. PICK b \in SetOf(s) : b.read /\ SamePlace(b, e)
    BY <1>6
  <2>2. Sent(p, b) \in A /\ Sent(p, b).read = b.read /\ SamePlace(Sent(p, b), b)
    BY <1>9, SentFacts
  <2> QED BY <2>1, <2>2 DEF SamePlace
<1>11. \A w \in held : Sent(p, w) \notin iss \cup A
  <2> TAKE w \in held
  <2>1. Sent(p, w) \notin iss
    BY <1>3, SentFacts
  <2>2. ASSUME Sent(p, w) \in A PROVE FALSE
    <3>1. PICK b \in SetOf(s) : b \in OnMembers(o) /\ Sent(p, w) = Sent(p, b)
      BY <1>8, <2>2
    <3>2. w = b
      BY <1>3, <3>1, SentFacts
    <3> QED BY <1>5, <3>1, <3>2
  <2> QED BY <2>1, <2>2
<1>12. \A w \in held : \A e \in m.depend : SamePlace(w, e) => w \in e.deps
  BY <1>5, <1>6
<1>13. \A a \in A : \A e \in m.depend : SamePlace(a, e) => a.read
  <2> TAKE a \in A
  <2> TAKE e \in m.depend
  <2>1. PICK b \in SetOf(s) : b \in OnMembers(o) /\ a = Sent(p, b)
    BY <1>8
  <2>2. a.read = b.read /\ SamePlace(a, b)
    BY <2>1, SentFacts
  <2>3. SamePlace(a, e) => SamePlace(b, e)
    BY <2>2 DEF SamePlace
  <2>4. SamePlace(b, e) => b.read \/ b \in held
    BY <1>6
  <2> QED BY <1>5, <2>2, <2>3, <2>4
<1>14. q.numreqs # 0 /\ q.numreqs = Cardinality(A) + Cardinality(held)
  BY <1>1, <1>2, <1>3, <1>4
<1> HIDE DEF q
<1>15. OutFits(o, p, q, A, iss \cup A)
  BY <1>1, <1>3, <1>4, <1>5, <1>6, <1>10, <1>11, <1>12, <1>13, <1>14 DEF OutFits, held
<1> QED BY <1>15 DEF q, A, s

(***************************************************************************)
(* An access completes.                                                     *)
(***************************************************************************)

\* The writes that its completion releases, and what is under way then
ReleasedBy(p, q, a) == {Sent(p, w) : w \in Released(q, a)}
AfterCompletion(p, q, A, a) == (A \ {a}) \cup ReleasedBy(p, q, a)

\* What completing a does to the entries of p and the writes they hold up
LEMMA EntriesTaken ==
  ASSUME OrgOK(org), org.firstdisk = 0, NEW p \in Nat, NEW q, NEW A, NEW iss,
         A \subseteq OnDisks(org), NEW a \in A, OutFits(org, p, q, A, iss)
  PROVE  /\ Entries(q, a) = {e \in q.depend : SamePlace(a, e)}
         /\ Released(q, a) \subseteq DOMAIN q.waits
         /\ \A e \in Checked(q, a).depend : e.deps \cap Released(q, a) = {}
         /\ \A w \in DOMAIN Checked(q, a).waits :
              /\ Checked(q, a).waits[w] = Cardinality({e \in Checked(q, a).depend : w \in e.deps})
              /\ Checked(q, a).waits[w] # 0
<1> DEFINE held == DOMAIN q.waits
           E == Entries(q, a)
           H == HeldUpBy(q, a)
           R == Released(q, a)
           N(w) == {e \in q.depend : w \in e.deps}
<1>1. /\ IsFiniteSet(q.depend)
      /\ \A e \in q.depend : e.deps \subseteq held
      /\ \A e, f \in q.depend : SamePlace(e, f) => e = f
      /\ \A w \in held : q.waits[w] = Cardinality(N(w)) /\ q.waits[w] # 0
  BY DEF OutFits
<1>2. a.devno \in Int
  BY DEF OnDisks, Disks, OrgOK
<1>3. E = {e \in q.depend : SamePlace(a, e)}
  BY <1>2 DEF Entries, SamePlace
<1>4. \A e, f \in E : e = f
  BY <1>1, <1>3 DEF SamePlace
<1>5. \A w : w \in H <=> \E e \in E : w \in e.deps
  BY DEF HeldUpBy
<1>6. R = {w \in H : q.waits[w] = 1}
  BY DEF Released
<1>7. R \subseteq held /\ H \subseteq held
  BY <1>1, <1>3, <1>5, <1>6
<1>8. /\ Checked(q, a).depend = q.depend \ E
      /\ DOMAIN Checked(q, a).waits = held \ R
      /\ \A w \in held \ R : Checked(q, a).waits[w] = IF w \in H THEN q.waits[w] - 1 ELSE q.waits[w]
  BY DEF Checked
<1> HIDE DEF E, H, R
<1>9. ASSUME NEW w \in held
      PROVE  IsFiniteSet(N(w)) /\ Cardinality(N(w)) \in Nat
  <2>1. N(w) \in SUBSET q.depend
    OBVIOUS
  <2>2. IsFiniteSet(N(w))
    BY <1>1, <2>1, FS_Subset
  <2> HIDE DEF N
  <2> QED BY <2>2, FS_CardinalityType
<1>10. ASSUME NEW w \in R, NEW e \in q.depend \ E, w \in e.deps PROVE FALSE
  <2>1. PICK e1 \in E : w \in e1.deps
    BY <1>5, <1>6
  <2>2. Cardinality(N(w)) = 1 /\ IsFiniteSet(N(w))
    BY <1>1, <1>6, <1>7, <1>9
  <2>3. e \in N(w) /\ e1 \in N(w) /\ e # e1
    BY <1>3, <1>10, <2>1
  <2> HIDE DEF N
  <2>4. PICK x : N(w) = {x}
    BY <2>2, FS_Singleton
  <2> QED BY <2>3, <2>4
<1>11. ASSUME NEW w \in held \ R
       PROVE  /\ Checked(q, a).waits[w] = Cardinality({e \in q.depend \ E : w \in e.deps})
              /\ Checked(q, a).waits[w] # 0
  <2>1. IsFiniteSet(N(w)) /\ Cardinality(N(w)) \in Nat /\ q.waits[w] = Cardinality(N(w)) /\ q.waits[w] # 0
    BY <1>1, <1>9
  <2>2. CASE w \notin H
    <3>1. {e \in q.depend \ E : w \in e.deps} = N(w)
      BY <1>5, <2>2
    <3> QED BY <1>8, <2>1, <2>2, <3>1
  <2>3. CASE w \in H
    <3>1. PICK e1 \in E : w \in e1.deps
      BY <1>5, <2>3
    <3>2. {e \in q.depend \ E : w \in e.deps} = N(w) \ {e1} /\ e1 \in N(w)
      BY <1>3, <1>4, <3>1
    <3> HIDE DEF N
    <3>3. Cardinality(N(w) \ {e1}) = Cardinality(N(w)) - 1
      BY <2>1, <3>2, FS_RemoveElement
    <3>4. q.waits[w] # 1
      BY <1>6, <2>3
    <3>5. Cardinality({e \in q.depend \ E : w \in e.deps}) = Cardinality(N(w)) - 1
      BY <3>2, <3>3
    <3>6. Checked(q, a).waits[w] = q.waits[w] - 1
      BY <1>8, <2>3
    <3> QED BY <2>1, <3>4, <3>5, <3>6
  <2> QED BY <2>2, <2>3
<1>12. \A e \in Checked(q, a).depend : e.deps \cap R = {}
  BY <1>8, <1>10
<1>13. \A w \in DOMAIN Checked(q, a).waits :
          /\ Checked(q, a).waits[w] = Cardinality({e \in Checked(q, a).depend : w \in e.deps})
          /\ Checked(q, a).waits[w] # 0
  BY <1>8, <1>11
<1> QED BY <1>3, <1>7, <1>12, <1>13 DEF E, R

\* Every write held up still waits for the entries that name it.
LEMMA CompletionCounts ==
  ASSUME OrgOK(org), org.firstdisk = 0, NEW p \in Nat, NEW q, NEW A, NEW iss,
         A \subseteq OnDisks(org), NEW a \in A, OutFits(org, p, q, A, iss)
  PROVE  /\ IsFiniteSet(AfterCompletion(p, q, A, a)) /\ IsFiniteSet(DOMAIN Checked(q, a).waits)
         /\ Checked(q, a).numreqs = Cardinality(AfterCompletion(p, q, A, a))
                                    + Cardinality(DOMAIN Checked(q, a).waits)
         /\ ReleasedBy(p, q, a) \cap iss = {}
         /\ ReleasedBy(p, q, a) \subseteq OnDisks(org)
<1> DEFINE held == DOMAIN q.waits
           R == Released(q, a)
           W == ReleasedBy(p, q, a)
<1>1. /\ IsFiniteSet(A) /\ A \subseteq iss /\ held \subseteq OnMembers(org) /\ IsFiniteSet(held)
      /\ q.numreqs = Cardinality(A) + Cardinality(held)
      /\ \A w \in held : Sent(p, w) \notin iss
  BY DEF OutFits
<1>2. R \subseteq held
  BY EntriesTaken
<1>3. DOMAIN Checked(q, a).waits = held \ R /\ Checked(q, a).numreqs = q.numreqs - 1
  BY DEF Checked
<1>4. W = {Sent(p, w) : w \in R}
  BY DEF ReleasedBy
<1> HIDE DEF held, R, W
<1>5. IsFiniteSet(R) /\ R \subseteq OnMembers(org)
  BY <1>1, <1>2, FS_Subset
<1>6. IsFiniteSet(W) /\ Cardinality(W) = Cardinality(R)
  BY <1>4, <1>5, SentCount
<1>7. W \cap iss = {}
  BY <1>1, <1>2, <1>4
<1>8. W \subseteq OnDisks(org)
  BY <1>4, <1>5, SentFacts
<1>9. IsFiniteSet(A \ {a}) /\ Cardinality(A \ {a}) = Cardinality(A) - 1
  BY <1>1, FS_RemoveElement
<1>10. /\ IsFiniteSet((A \ {a}) \cup W)
       /\ Cardinality((A \ {a}) \cup W) = Cardinality(A \ {a}) + Cardinality(W)
  <2>1. (A \ {a}) \cap W = {}
    BY <1>1, <1>7
  <2>2. Cardinality((A \ {a}) \cap W) = 0
    BY <2>1, FS_EmptySet
  <2>3. /\ IsFiniteSet((A \ {a}) \cup W)
        /\ Cardinality((A \ {a}) \cup W)
             = Cardinality(A \ {a}) + Cardinality(W) - Cardinality((A \ {a}) \cap W)
    BY <1>6, <1>9, FS_Union
  <2>4. Cardinality(A \ {a}) \in Nat /\ Cardinality(W) \in Nat
    BY <1>6, <1>9, FS_CardinalityType
  <2> QED BY <2>2, <2>3, <2>4
<1>11. IsFiniteSet(held \ R) /\ Cardinality(held \ R) = Cardinality(held) - Cardinality(R)
  <2>1. held \cap R = R
    BY <1>2
  <2>2. IsFiniteSet(held \ R) /\ Cardinality(held \ R) = Cardinality(held) - Cardinality(held \cap R)
    BY <1>1, FS_Difference
  <2> QED BY <2>1, <2>2
<1>12. Cardinality(A) \in Nat /\ Cardinality(held) \in Nat /\ Cardinality(R) \in Nat
  BY <1>1, <1>5, FS_CardinalityType
<1>13. q.numreqs - 1 = Cardinality((A \ {a}) \cup W) + Cardinality(held \ R)
  BY <1>1, <1>6, <1>9, <1>10, <1>11, <1>12
<1>14. AfterCompletion(p, q, A, a) = (A \ {a}) \cup W
  BY DEF AfterCompletion, W
<1> QED BY <1>3, <1>7, <1>8, <1>10, <1>11, <1>13, <1>14 DEF W

\* A request of which an access completes, but not the last, is counted rightly.
LEMMA CompletionFits ==
  ASSUME OrgOK(org), org.firstdisk = 0, NEW p \in Nat, NEW q, NEW A, NEW iss,
         A \subseteq OnDisks(org), NEW a \in A, OutFits(org, p, q, A, iss),
         Checked(q, a).numreqs # 0
  PROVE  OutFits(org, p, Checked(q, a), AfterCompletion(p, q, A, a), iss \cup ReleasedBy(p, q, a))
<1> DEFINE held == DOMAIN q.waits
           R == Released(q, a)
           W == ReleasedBy(p, q, a)
           d == Checked(q, a)
           B == AfterCompletion(p, q, A, a)
<1>1. /\ A \subseteq iss /\ held \subseteq OnMembers(org) /\ IsFiniteSet(q.depend)
      /\ \A e \in q.depend : e.deps \subseteq held /\ \E b \in A : b.read /\ SamePlace(b, e)
      /\ \A e, f \in q.depend : SamePlace(e, f) => e = f
      /\ \A w \in held : ~w.read /\ Sent(p, w) \notin iss
      /\ \A w \in held : \A e \in q.depend : SamePlace(w, e) => w \in e.deps
      /\ \A b \in A : \A e \in q.depend : SamePlace(b, e) => b.read
  BY DEF OutFits
<1>2. /\ Entries(q, a) = {e \in q.depend : SamePlace(a, e)} /\ R \subseteq held
      /\ \A e \in d.depend : e.deps \cap R = {}
      /\ \A w \in DOMAIN d.waits :
            /\ d.waits[w] = Cardinality({e \in d.depend : w \in e.deps}) /\ d.waits[w] # 0
  BY EntriesTaken
<1>3. /\ IsFiniteSet(B) /\ IsFiniteSet(DOMAIN d.waits)
      /\ d.numreqs = Cardinality(B) + Cardinality(DOMAIN d.waits)
      /\ W \cap iss = {}
  BY CompletionCounts
<1>4. DOMAIN d.waits = held \ R /\ d.depend = q.depend \ Entries(q, a)
  BY DEF Checked
<1>5. W = {Sent(p, w) : w \in R} /\ B = (A \ {a}) \cup W
  BY DEF ReleasedBy, AfterCompletion
<1>6. d.numreqs # 0
  OBVIOUS
<1> HIDE DEF held, R, W, d, B
<1>7. IsFiniteSet(d.depend)
  BY <1>1, <1>4, FS_Subset
<1>8. \A e \in d.depend : e.deps \subseteq held \ R /\ \E b \in B : b.read /\ SamePlace(b, e)
  <2> TAKE e \in d.depend
  <2>1. e \in q.depend /\ ~SamePlace(a, e)
    BY <1>2, <1>4
  <2>2. PICK b \in A : b.read /\ SamePlace(b, e)
    BY <1>1, <2>1
  <2>3. b \in B
    BY <1>5, <2>1, <2>2
  <2> QED BY <1>1, <1>2, <2>1, <2>2, <2>3
<1>9. \A w \in held \ R : ~w.read /\ Sent(p, w) \notin iss \cup W
  <2> TAKE w \in held \ R
  <2>1. \A v \in R : Sent(p, w) # Sent(p, v)
    BY <1>1, <1>2, SentFacts
  <2> QED BY <1>1, <1>5, <2>1
<1>10. \A b \in B : \A e \in d.depend : SamePlace(b, e) => b.read
  <2> TAKE b \in B
  <2> TAKE e \in d.depend
  <2>1. CASE b \in A
    BY <1>1, <1>4, <2>1
  <2>2. CASE b \in W
    <3>1. PICK w \in R : b = Sent(p, w)
      BY <1>5, <2>2
    <3>2. SamePlace(b, w)
      BY <1>1, <1>2, <3>1, SentFacts
    <3>3. ASSUME SamePlace(b, e) PROVE FALSE
      <4>1. SamePlace(w, e)
        BY <3>2, <3>3 DEF SamePlace
      <4>2. w \in e.deps
        BY <1>1, <1>2, <1>4, <4>1
      <4> QED BY <1>2, <4>2
    <3> QED BY <3>3
  <2> QED BY <1>5, <2>1, <2>2
<1>11. B \subseteq iss \cup W
  BY <1>1, <1>5
<1>12. \A e, f \in d.depend : SamePlace(e, f) => e = f
  BY <1>1, <1>4
<1>13. \A w \in held \ R : \A e \in d.depend : SamePlace(w, e) => w \in e.deps
  BY <1>1, <1>4
<1>14. held \ R \subseteq OnMembers(org)
  BY <1>1
<1>15. OutFits(org, p, d, B, iss \cup W)
  BY <1>2, <1>3, <1>4, <1>6, <1>7, <1>8, <1>9, <1>10, <1>11, <1>12, <1>13, <1>14 DEF OutFits
<1> QED BY <1>15 DEF d, B, W

(***************************************************************************)
(* The steps.                                                               *)
(***************************************************************************)

\* Every mapping made fits.
AllFit ==
    \A o \in Orgs : \A n \in 1..MaxRequests : \A r \in Workload(o, n) : \A turn \in 0..o.copies - 1 :
        Covers(o, r) => \A m \in Mappings(o, Within(o, r), turn) : Fits(o, m)

\* What other requests are sent leaves p as it is.
LEMMA OthersSent ==
  ASSUME NEW o, NEW p, NEW q, NEW A, NEW iss, OutFits(o, p, q, A, iss),
         NEW X, \A a \in X : a.opid # p
  PROVE  OutFits(o, p, q, A, iss \cup X)
<1>1. \A w : Sent(p, w).opid = p
  BY DEF Sent, Physical
<1>2. \A w \in DOMAIN q.waits : Sent(p, w) \notin iss
  BY DEF OutFits
<1>3. \A w \in DOMAIN q.waits : Sent(p, w) \notin iss \cup X
  BY <1>1, <1>2
<1>4. A \subseteq iss \cup X
  BY DEF OutFits
<1> QED BY <1>3, <1>4 DEF OutFits

\* What logorg_maprequest does, its mapping m
Maps(r, m) ==
    LET opid == Len(requests)
    IN /\ requests' = Append(requests, r)
       /\ out' = out \cup FirstSent(opid, m.sent)
       /\ issued' = issued \cup FirstSent(opid, m.sent)
       /\ numout' = [d \in Disks(org) |->
                        numout[d] + Cardinality({i \in DOMAIN m.sent : m.sent[i].devno = d})]
       /\ reduntoggle' = IF org.reduntype = "SHADOWED" /\ r.read /\ org.copychoice = "ROUNDROBIN"
                           THEN (reduntoggle + Len(m.sent)) % org.copies ELSE reduntoggle
       /\ DOMAIN outstandq' = DOMAIN outstandq \cup {opid}
       /\ \A p \in DOMAIN outstandq : p # opid => outstandq'[p] = outstandq[p]
       /\ outstandq'[opid] = NewEntry(m)
       /\ UNCHANGED <<org, fault>>

\* logorg_maprequest makes a mapping that fits, of a request that is new.
LEMMA RequestMaps ==
  ASSUME FirstAtZero, AllFit, OrgTypes, NEW r \in Workload(org, Len(requests) + 1), MapRequest(r)
  PROVE  /\ Len(requests) \in 0..MaxRequests - 1 /\ Len(requests) + 1 \in 1..MaxRequests
         /\ r \in ReqSet /\ Covers(org, r)
         /\ \E m \in Mappings(org, Within(org, r), reduntoggle) : Fits(org, m) /\ Maps(r, m)
<1> DEFINE opid == Len(requests)
<1>1. org \in Orgs /\ requests \in Seq(ReqSet) /\ reduntoggle \in 0..org.copies - 1
  BY DEF OrgTypes
<1>2. OrgOK(org) /\ org.firstdisk = 0
  BY <1>1, OrgFacts
<1>3. opid \in Nat /\ opid < MaxRequests /\ MaxRequests \in Nat
  BY <1>1, LogOrgAssumption DEF MapRequest
<1>4. opid \in 0..MaxRequests - 1 /\ opid + 1 \in 1..MaxRequests
  BY <1>3
<1>5. r \in ReqSet
  BY <1>1, <1>4 DEF ReqSet
<1>6. Covers(org, r)
  BY DEF MapRequest
<1> DEFINE Effect(m, f) ==
        LET sent == {Physical(m.sent[i], opid, f[i]) : i \in DOMAIN m.sent}
        IN /\ out' = out \cup sent
           /\ issued' = issued \cup sent
           /\ numout' = NumoutUp(f)
           /\ reduntoggle' = IF org.reduntype = "SHADOWED" /\ r.read
                                /\ org.copychoice = "ROUNDROBIN"
                               THEN (reduntoggle + Len(m.sent)) % org.copies ELSE reduntoggle
           /\ outstandq' = [p \in DOMAIN outstandq \cup {opid} |->
                IF p # opid THEN outstandq[p]
                ELSE [numreqs |-> Len(m.sent) + Cardinality(DOMAIN m.waits),
                      depend |-> m.depend, waits |-> m.waits]]
<1>7. PICK m \in Mappings(org, Within(org, r), reduntoggle) :
         IF m = Unclosed
           THEN fault' = TRUE /\ UNCHANGED <<reduntoggle, outstandq, out, issued, numout>>
           ELSE SendOut(r, m) /\ UNCHANGED fault
  BY DEF MapRequest
<1>8. Fits(org, m)
  BY <1>1, <1>4, <1>6 DEF AllFit
<1>17. m # Unclosed
  BY <1>8 DEF Fits, Unclosed
<1>18. SendOut(r, m) /\ UNCHANGED fault
  BY <1>7, <1>17
<1>16. PICK f \in DevnosOf(org, m.sent) : Effect(m, f)
  BY <1>18 DEF SendOut
<1>9. m.sent \in Seq(OnMembers(org)) /\ m.sent # <<>>
  BY <1>8 DEF Fits
<1>10. \A i \in DOMAIN m.sent : f[i] = m.sent[i].devno
  BY <1>2, <1>9, DevnosMeant
<1>11. {Physical(m.sent[i], opid, f[i]) : i \in DOMAIN m.sent} = FirstSent(opid, m.sent)
  BY <1>10 DEF FirstSent, Sent
<1>12. DOMAIN f = DOMAIN m.sent
  BY <1>9 DEF DevnosOf
<1>13. NumoutUp(f) = [d \in Disks(org) |->
           numout[d] + Cardinality({i \in DOMAIN m.sent : m.sent[i].devno = d})]
  <2>1. \A i \in DOMAIN m.sent : f[i] - org.firstdisk = m.sent[i].devno
    <3> TAKE i \in DOMAIN m.sent
    <3>1. m.sent[i] \in OnMembers(org)
      BY <1>9
    <3>2. m.sent[i].devno \in Int
      BY <1>2, <3>1 DEF OnMembers, Disks, OrgOK
    <3> QED BY <1>2, <1>10, <3>2
  <2>2. \A d : {i \in DOMAIN f : f[i] - org.firstdisk = d} = {i \in DOMAIN m.sent : m.sent[i].devno = d}
    BY <1>12, <2>1
  <2> QED BY <2>2 DEF NumoutUp
<1>14. UNCHANGED <<org, fault>> /\ requests' = Append(requests, r)
  BY <1>18 DEF MapRequest
<1>15. Maps(r, m)
  BY <1>16, <1>11, <1>13, <1>14 DEF Maps, NewEntry
<1> QED BY <1>4, <1>5, <1>6, <1>8, <1>15

\* It keeps the types
LEMMA MapsTypes ==
  ASSUME FirstAtZero, OrgTypes, NEW r \in ReqSet, NEW m, Fits(org, m), Maps(r, m)
  PROVE  OrgTypes'
<1> DEFINE opid == Len(requests)
           X == FirstSent(opid, m.sent)
<1>1. /\ org \in Orgs /\ requests \in Seq(ReqSet) /\ reduntoggle \in 0..org.copies - 1
      /\ DOMAIN outstandq \subseteq 0..Len(requests) - 1
      /\ IsFiniteSet(out) /\ out \subseteq issued /\ issued \subseteq OnDisks(org)
      /\ \A a \in issued : a.opid < Len(requests)
      /\ \A a \in out : a.opid \in DOMAIN outstandq
      /\ numout \in [Disks(org) -> Int] /\ fault = FALSE
  BY DEF OrgTypes
<1>2. OrgOK(org)
  BY <1>1, OrgFacts
<1>3. opid \in Nat
  BY <1>1
<1>4. /\ X \subseteq OnDisks(org) /\ IsFiniteSet(X) /\ \A a \in X : a.opid = opid
  BY <1>2, <1>3, FirstSentFacts DEF Fits
<1>5. /\ requests' = Append(requests, r) /\ out' = out \cup X /\ issued' = issued \cup X
      /\ DOMAIN outstandq' = DOMAIN outstandq \cup {opid} /\ org' = org /\ fault' = fault
  BY DEF Maps
<1>6. requests' \in Seq(ReqSet) /\ Len(requests') = opid + 1
  BY <1>1, <1>5
<1>7. reduntoggle' \in 0..org.copies - 1
  <2>1. Len(m.sent) \in Nat
    BY DEF Fits
  <2>2. org.copies \in Nat \ {0}
    BY <1>2 DEF OrgOK
  <2>3. reduntoggle + Len(m.sent) \in Int
    BY <1>1, <2>1, <2>2
  <2>4. (reduntoggle + Len(m.sent)) % org.copies \in 0..org.copies - 1
    BY <2>2, <2>3, ModRange
  <2> QED BY <1>1, <2>4 DEF Maps
<1>8. numout' \in [Disks(org) -> Int]
  <2>1. ASSUME NEW d PROVE Cardinality({i \in DOMAIN m.sent : m.sent[i].devno = d}) \in Nat
    <3>1. DOMAIN m.sent = 1..Len(m.sent) /\ Len(m.sent) \in Nat
      BY DEF Fits
    <3> DEFINE n == Len(m.sent)
               S == {i \in DOMAIN m.sent : m.sent[i].devno = d}
    <3>2. n \in Int /\ 1 \in Int /\ S \subseteq 1..n
      BY <3>1
    <3> HIDE DEF n, S
    <3>3. IsFiniteSet(1..n)
      BY <3>2, FS_Interval
    <3>4. IsFiniteSet(S)
      BY <3>2, <3>3, FS_Subset
    <3>5. Cardinality(S) \in Nat
      BY <3>4, FS_CardinalityType
    <3> QED BY <3>5 DEF S
  <2>2. \A d \in Disks(org) : numout[d] \in Int
    BY <1>1
  <2>3. \A d \in Disks(org) : numout[d] + Cardinality({i \in DOMAIN m.sent : m.sent[i].devno = d}) \in Int
    <3> DEFINE C(d) == Cardinality({i \in DOMAIN m.sent : m.sent[i].devno = d})
    <3>1. \A d : C(d) \in Nat
      BY <2>1
    <3> HIDE DEF C
    <3>2. \A d \in Disks(org) : numout[d] + C(d) \in Int
      BY <2>2, <3>1
    <3> QED BY <3>2 DEF C
  <2> QED BY <2>3 DEF Maps
<1> HIDE DEF opid, X
<1>9. DOMAIN outstandq' \subseteq 0..Len(requests') - 1
  <2>1. 0..opid - 1 \subseteq 0..(opid + 1) - 1 /\ opid \in 0..(opid + 1) - 1
    BY <1>3
  <2> QED BY <1>1, <1>5, <1>6, <2>1 DEF opid
<1>10. IsFiniteSet(out')
  BY <1>1, <1>4, <1>5, FS_Union
<1>11. out' \subseteq issued' /\ issued' \subseteq OnDisks(org')
  BY <1>1, <1>4, <1>5
<1>12. \A a \in issued' : a.opid < Len(requests')
  <2>1. \A a \in issued : a.opid \in Nat /\ a.opid < opid
    BY <1>1 DEF OnDisks, opid
  <2> QED BY <1>3, <1>4, <1>5, <1>6, <2>1
<1>13. \A a \in out' : a.opid \in DOMAIN outstandq'
  BY <1>1, <1>4, <1>5
<1> QED BY <1>1, <1>5, <1>6, <1>7, <1>8, <1>9, <1>10, <1>11, <1>12, <1>13 DEF OrgTypes

\* and the invariant.
LEMMA MapsSound ==
  ASSUME FirstAtZero, OrgSound, NEW r \in ReqSet, NEW m, Fits(org, m), Maps(r, m)
  PROVE  OrgSound'
<1> DEFINE opid == Len(requests)
           X == FirstSent(opid, m.sent)
<1>1. OrgTypes /\ OrgTypes'
  BY MapsTypes DEF OrgSound
<1>2. /\ org \in Orgs /\ requests \in Seq(ReqSet)
      /\ DOMAIN outstandq \subseteq 0..Len(requests) - 1
      /\ out \subseteq issued /\ issued \subseteq OnDisks(org)
      /\ \A a \in issued : a.opid < Len(requests)
      /\ \A a \in out : a.opid \in DOMAIN outstandq
  BY <1>1 DEF OrgTypes
<1>3. OrgOK(org) /\ opid \in Nat
  BY <1>2, OrgFacts
<1>4. \A a \in X : a.opid = opid
  BY <1>3, FirstSentFacts DEF Fits
<1>5. /\ out' = out \cup X /\ issued' = issued \cup X /\ org' = org
      /\ DOMAIN outstandq' = DOMAIN outstandq \cup {opid}
      /\ \A p \in DOMAIN outstandq : p # opid => outstandq'[p] = outstandq[p]
      /\ outstandq'[opid] = NewEntry(m)
  BY DEF Maps
<1>6. opid \notin DOMAIN outstandq /\ \A a \in issued : a.opid # opid
  <2>1. \A a \in issued : a.opid \in Nat
    BY <1>2 DEF OnDisks
  <2> QED BY <1>2, <1>3, <2>1
<1>7. OutFits(org, opid, NewEntry(m), X, issued \cup X)
  BY <1>3, <1>6, NewFits
<1>8. {a \in out' : a.opid = opid} = X
  BY <1>2, <1>4, <1>5, <1>6
<1>9. ASSUME NEW p \in DOMAIN outstandq
      PROVE  OutFits(org, p, outstandq'[p], AccessesOf(p)', issued')
  <2>1. p # opid
    BY <1>6
  <2>2. OutFits(org, p, outstandq[p], AccessesOf(p), issued)
    BY DEF OrgSound
  <2>3. AccessesOf(p)' = AccessesOf(p)
    BY <1>4, <1>5, <2>1 DEF AccessesOf
  <2>4. OutFits(org, p, outstandq[p], AccessesOf(p), issued \cup X)
    BY <1>4, <2>1, <2>2, OthersSent
  <2> QED BY <1>5, <2>1, <2>3, <2>4
<1> HIDE DEF opid, X
<1>10. \A p \in DOMAIN outstandq' : OutFits(org', p, outstandq'[p], {a \in out' : a.opid = p}, issued')
  <2> TAKE p \in DOMAIN outstandq'
  <2>1. CASE p = opid
    BY <1>5, <1>7, <1>8, <2>1
  <2>2. CASE p # opid
    BY <1>5, <1>9, <2>2 DEF AccessesOf
  <2> QED BY <2>1, <2>2
<1> QED BY <1>1, <1>10 DEF OrgSound, AccessesOf

\* What logorg_mapcomplete does about a request p of entry q
Completes(p, q, a) ==
    /\ a.devno \in Disks(org)
    /\ out' = (out \ {a}) \cup ReleasedBy(p, q, a)
    /\ issued' = issued \cup ReleasedBy(p, q, a)
    /\ numout' = [numout EXCEPT ![a.devno] = @ - 1]
    /\ outstandq' = IF Checked(q, a).numreqs = 0
                      THEN [x \in DOMAIN outstandq \ {p} |-> outstandq[x]]
                      ELSE [outstandq EXCEPT ![p] = Checked(q, a)]
    /\ UNCHANGED <<org, requests, reduntoggle, fault>>

\* logorg_mapcomplete finds the request outstanding.
LEMMA AccessCompletes ==
  ASSUME FirstAtZero, OrgSound, NEW a \in out, MapComplete(a), NEW p, p = a.opid,
         NEW q, q = outstandq[p]
  PROVE  /\ OrgOK(org) /\ org.firstdisk = 0 /\ p \in DOMAIN outstandq /\ p \in Nat
         /\ OutFits(org, p, q, AccessesOf(p), issued)
         /\ a \in AccessesOf(p) /\ AccessesOf(p) \subseteq OnDisks(org)
         /\ \A b \in ReleasedBy(p, q, a) : b.opid = p
         /\ Completes(p, q, a)
<1>1. /\ org \in Orgs /\ issued \subseteq OnDisks(org) /\ out \subseteq issued
      /\ \A b \in out : b.opid \in DOMAIN outstandq
  BY DEF OrgSound, OrgTypes
<1>2. OrgOK(org) /\ org.firstdisk = 0 /\ p \in DOMAIN outstandq /\ p \in Nat
  BY <1>1, OrgFacts DEF OnDisks
<1>3. OutFits(org, p, q, AccessesOf(p), issued) /\ a \in AccessesOf(p) /\ AccessesOf(p) \subseteq OnDisks(org)
  BY <1>1, <1>2 DEF OrgSound, AccessesOf
<1>4. a.devno - org.firstdisk = a.devno
  <2>1. a.devno \in Int
    BY <1>1, <1>2 DEF OnDisks, Disks, OrgOK
  <2> QED BY <1>2, <2>1
<1>5. \A w \in Released(q, a) : org.firstdisk + w.devno = w.devno
  <2>1. Released(q, a) \subseteq DOMAIN q.waits
    BY <1>2, <1>3, EntriesTaken
  <2>2. DOMAIN q.waits \subseteq OnMembers(org)
    BY <1>3 DEF OutFits
  <2> TAKE w \in Released(q, a)
  <2>3. w.devno \in Int
    BY <1>2, <2>1, <2>2 DEF OnMembers, Disks, OrgOK
  <2> QED BY <1>2, <2>3
<1>6. {Physical(w, p, org.firstdisk + w.devno) : w \in Released(q, a)} = ReleasedBy(p, q, a)
  BY <1>5 DEF ReleasedBy, Sent
<1>7. Completes(p, q, a)
  BY <1>4, <1>6 DEF MapComplete, Completes
<1>8. \A b \in ReleasedBy(p, q, a) : b.opid = p
  BY DEF ReleasedBy, Sent, Physical
<1> QED BY <1>2, <1>3, <1>7, <1>8

\* The last access of a request leaves none.
LEMMA LastCompletes ==
  ASSUME OrgOK(org), org.firstdisk = 0, NEW p \in Nat, NEW q, NEW A, NEW iss,
         A \subseteq OnDisks(org), NEW a \in A, OutFits(org, p, q, A, iss),
         Checked(q, a).numreqs = 0
  PROVE  A = {a} /\ ReleasedBy(p, q, a) = {}
<1> DEFINE B == AfterCompletion(p, q, A, a)
           D == DOMAIN Checked(q, a).waits
<1>1. IsFiniteSet(B) /\ IsFiniteSet(D) /\ Checked(q, a).numreqs = Cardinality(B) + Cardinality(D)
  BY CompletionCounts
<1> HIDE DEF B, D
<1>2. Cardinality(B) \in Nat /\ Cardinality(D) \in Nat
  BY <1>1, FS_CardinalityType
<1>3. Cardinality(B) = 0
  BY <1>1, <1>2
<1>4. B = {}
  BY <1>1, <1>3, FS_EmptySet
<1> QED BY <1>4 DEF B, AfterCompletion

\* It keeps the types
LEMMA CompleteTypes ==
  ASSUME FirstAtZero, OrgSound, NEW a \in out, MapComplete(a)
  PROVE  OrgTypes'
<1>0. PICK p, q : p = a.opid /\ q = outstandq[p]
  OBVIOUS
<1> DEFINE W == ReleasedBy(p, q, a)
<1>1. /\ org \in Orgs /\ requests \in Seq(ReqSet) /\ reduntoggle \in 0..org.copies - 1
      /\ DOMAIN outstandq \subseteq 0..Len(requests) - 1
      /\ IsFiniteSet(out) /\ out \subseteq issued /\ issued \subseteq OnDisks(org)
      /\ \A b \in issued : b.opid < Len(requests)
      /\ \A b \in out : b.opid \in DOMAIN outstandq
      /\ numout \in [Disks(org) -> Int] /\ fault = FALSE
  BY DEF OrgSound, OrgTypes
<1>2. /\ OrgOK(org) /\ org.firstdisk = 0 /\ p \in DOMAIN outstandq /\ p \in Nat
      /\ OutFits(org, p, q, AccessesOf(p), issued)
      /\ a \in AccessesOf(p) /\ AccessesOf(p) \subseteq OnDisks(org)
      /\ \A b \in W : b.opid = p
      /\ Completes(p, q, a)
  BY <1>0, AccessCompletes
<1>3. /\ IsFiniteSet(AfterCompletion(p, q, AccessesOf(p), a))
      /\ W \cap issued = {} /\ W \subseteq OnDisks(org)
  BY <1>2, CompletionCounts
<1>4. /\ out' = (out \ {a}) \cup W /\ issued' = issued \cup W
      /\ numout' = [numout EXCEPT ![a.devno] = @ - 1] /\ a.devno \in Disks(org)
      /\ UNCHANGED <<org, requests, reduntoggle, fault>>
  BY <1>2 DEF Completes
<1>5. Checked(q, a).numreqs = 0 => AccessesOf(p) = {a} /\ W = {} /\ DOMAIN outstandq' = DOMAIN outstandq \ {p}
  BY <1>2, LastCompletes DEF Completes
<1>6. Checked(q, a).numreqs # 0 => DOMAIN outstandq' = DOMAIN outstandq
  BY <1>2 DEF Completes
<1>7. W \subseteq AfterCompletion(p, q, AccessesOf(p), a)
  BY DEF AfterCompletion
<1> HIDE DEF W
<1>8. IsFiniteSet(out')
  <2>1. IsFiniteSet(W)
    BY <1>3, <1>7, FS_Subset
  <2>2. IsFiniteSet(out \ {a})
    BY <1>1, FS_Subset
  <2> QED BY <1>4, <2>1, <2>2, FS_Union
<1>9. numout' \in [Disks(org) -> Int]
  BY <1>1, <1>4
<1>10. out' \subseteq issued' /\ issued' \subseteq OnDisks(org')
  BY <1>1, <1>3, <1>4
<1>11. DOMAIN outstandq' \subseteq 0..Len(requests') - 1
  BY <1>1, <1>4, <1>5, <1>6
<1>12. \A b \in issued' : b.opid < Len(requests')
  <2>1. p < Len(requests)
    BY <1>0, <1>1
  <2> QED BY <1>1, <1>2, <1>4, <2>1
<1>13. \A b \in out' : b.opid \in DOMAIN outstandq'
  <2>1. CASE Checked(q, a).numreqs = 0
    <3>1. \A b \in out' : b \in out /\ b.opid # p
      BY <1>4, <1>5, <2>1 DEF AccessesOf
    <3> QED BY <1>1, <1>5, <2>1, <3>1
  <2>2. CASE Checked(q, a).numreqs # 0
    BY <1>1, <1>2, <1>4, <1>6, <2>2
  <2> QED BY <2>1, <2>2
<1> QED BY <1>1, <1>4, <1>8, <1>9, <1>10, <1>11, <1>12, <1>13 DEF OrgTypes

\* and the invariant.
LEMMA CompleteSound ==
  ASSUME FirstAtZero, OrgSound, NEW a \in out, MapComplete(a)
  PROVE  OrgSound'
<1>0. PICK p, q : p = a.opid /\ q = outstandq[p]
  OBVIOUS
<1> DEFINE W == ReleasedBy(p, q, a)
<1>1. OrgTypes'
  BY CompleteTypes
<1>2. /\ OrgOK(org) /\ org.firstdisk = 0 /\ p \in DOMAIN outstandq /\ p \in Nat
      /\ OutFits(org, p, q, AccessesOf(p), issued)
      /\ a \in AccessesOf(p) /\ AccessesOf(p) \subseteq OnDisks(org)
      /\ \A b \in W : b.opid = p
      /\ Completes(p, q, a)
  BY <1>0, AccessCompletes
<1>3. /\ out' = (out \ {a}) \cup W /\ issued' = issued \cup W /\ org' = org
      /\ outstandq' = IF Checked(q, a).numreqs = 0
                        THEN [x \in DOMAIN outstandq \ {p} |-> outstandq[x]]
                        ELSE [outstandq EXCEPT ![p] = Checked(q, a)]
  BY <1>2 DEF Completes
<1>4. ASSUME NEW x \in DOMAIN outstandq', x # p
      PROVE  OutFits(org', x, outstandq'[x], {b \in out' : b.opid = x}, issued')
  <2>1. x \in DOMAIN outstandq /\ outstandq'[x] = outstandq[x]
    BY <1>2, <1>3, <1>4
  <2>2. OutFits(org, x, outstandq[x], AccessesOf(x), issued)
    BY <2>1 DEF OrgSound
  <2>3. {b \in out' : b.opid = x} = AccessesOf(x)
    BY <1>0, <1>2, <1>3, <1>4 DEF AccessesOf
  <2>4. OutFits(org, x, outstandq[x], AccessesOf(x), issued \cup W)
    BY <1>2, <1>4, <2>2, OthersSent
  <2> QED BY <1>3, <2>1, <2>3, <2>4
<1>5. ASSUME p \in DOMAIN outstandq'
      PROVE  OutFits(org', p, outstandq'[p], {b \in out' : b.opid = p}, issued')
  <2>1. Checked(q, a).numreqs # 0
    BY <1>3, <1>5
  <2>2. outstandq'[p] = Checked(q, a)
    BY <1>2, <1>3, <2>1
  <2>3. {b \in out' : b.opid = p} = AfterCompletion(p, q, AccessesOf(p), a)
    BY <1>2, <1>3 DEF AfterCompletion, AccessesOf
  <2>4. OutFits(org, p, Checked(q, a), AfterCompletion(p, q, AccessesOf(p), a), issued \cup W)
    BY <1>2, <2>1, CompletionFits
  <2> QED BY <1>3, <2>2, <2>3, <2>4
<1>6. \A x \in DOMAIN outstandq' : OutFits(org', x, outstandq'[x], {b \in out' : b.opid = x}, issued')
  BY <1>4, <1>5
<1> QED BY <1>1, <1>6 DEF OrgSound, AccessesOf

\* The invariant holds at first
LEMMA SoundInit == ASSUME FirstAtZero PROVE Init => OrgSound
<1> SUFFICES ASSUME Init PROVE OrgSound
  OBVIOUS
<1>1. org \in Orgs
  BY DEF Init, Orgs
<1>2. OrgOK(org)
  BY <1>1, OrgFacts
<1>3. /\ requests = <<>> /\ reduntoggle = 0 /\ outstandq = <<>> /\ out = {} /\ issued = {}
      /\ numout = [d \in Disks(org) |-> 0] /\ fault = FALSE
  BY DEF Init
<1>4. requests \in Seq(ReqSet) /\ DOMAIN outstandq = {}
  BY <1>3
<1>5. reduntoggle \in 0..org.copies - 1
  BY <1>2, <1>3 DEF OrgOK
<1>6. IsFiniteSet(out)
  BY <1>3, FS_EmptySet
<1> QED BY <1>1, <1>3, <1>4, <1>5, <1>6 DEF OrgSound, OrgTypes

\* and is kept by every step.
LEMMA SoundStep ==
  ASSUME FirstAtZero, AllFit, OrgSound, [Next]_vars
  PROVE  OrgSound'
<1>1. ASSUME NEW r \in Workload(org, Len(requests) + 1), MapRequest(r) PROVE OrgSound'
  <2>1. /\ r \in ReqSet
        /\ \E m \in Mappings(org, Within(org, r), reduntoggle) : Fits(org, m) /\ Maps(r, m)
    BY <1>1, RequestMaps DEF OrgSound
  <2> QED BY <2>1, MapsSound
<1>2. ASSUME NEW a \in out, MapComplete(a) PROVE OrgSound'
  BY <1>2, CompleteSound
<1>3. CASE UNCHANGED vars
  BY <1>3 DEF vars, OrgSound, OrgTypes, AccessesOf
<1> QED BY <1>1, <1>2, <1>3 DEF Next

(***************************************************************************)
(* The numbers of accesses that the time stamps report.                     *)
(***************************************************************************)

\* What is sent to the disk d of the accesses in the sequence s
Aimed(s, d)  == {i \in DOMAIN s : s[i].devno = d}

\* As many accesses come to a disk as the mapping aims at it.
LEMMA SentToDisk ==
  ASSUME NEW o, OrgOK(o), NEW p \in Nat, NEW s \in Seq(OnMembers(o)), IsInjective(s), NEW d
  PROVE  Cardinality(Aimed(s, d)) = Cardinality(ToDisk(FirstSent(p, s), d))
<1> DEFINE I == {i \in DOMAIN s : s[i].devno = d}
           A == {a \in FirstSent(p, s) : a.devno = d}
           f == [i \in I |-> Sent(p, s[i])]
<1>1. /\ DOMAIN s = 1..Len(s) /\ Len(s) \in Nat
      /\ \A i \in DOMAIN s : s[i] \in OnMembers(o)
  OBVIOUS
<1>2. \A i \in DOMAIN s : Sent(p, s[i]).devno = s[i].devno
  BY <1>1, SentFacts
<1>3. f \in Bijection(I, A)
  <2>1. f \in [I -> A]
    BY <1>2 DEF FirstSent
  <2>2. \A i, j \in I : f[i] = f[j] => i = j
    <3> TAKE i, j \in I
    <3>1. Sent(p, s[i]) = Sent(p, s[j]) => s[i] = s[j]
      BY <1>1, SentFacts
    <3>2. s[i] = s[j] => i = j
      BY DEF IsInjective
    <3> QED BY <3>1, <3>2
  <2>3. \A a \in A : \E i \in I : f[i] = a
    BY <1>2 DEF FirstSent
  <2> HIDE DEF f, I, A
  <2> QED BY <2>1, <2>2, <2>3 DEF Bijection, Injection, Surjection, IsInjective
<1>4. IsFiniteSet(I)
  <2> DEFINE n == Len(s)
  <2>1. n \in Int /\ 1 \in Int /\ I \subseteq 1..n
    BY <1>1
  <2> HIDE DEF n, I
  <2>2. IsFiniteSet(1..n)
    BY <2>1, FS_Interval
  <2> QED BY <2>1, <2>2, FS_Subset
<1>5. ExistsBijection(I, A)
  BY <1>3 DEF ExistsBijection
<1> HIDE DEF I, A
<1>6. Cardinality(A) = Cardinality(I)
  BY <1>4, <1>5, FS_Bijection
<1> QED BY <1>6 DEF I, A, Aimed, ToDisk

\* Where old values are not read, no write is held up.
LEMMA CountedHoldsNone ==
  ASSUME NEW o, Counted(o), NEW r, NEW turn, NEW m \in Mappings(o, r, turn)
  PROVE  DOMAIN m.waits = {}
<1>1. o.reduntype # "PARITY_TABLE"
  BY DEF Counted
<1>2. ~(o.reduntype = "PARITY_ROTATED" \/ (o.reduntype = "PARITY_DISK" /\ o.maptype = "ASIS"))
  BY DEF Counted, ReadsOld
<1>3. \A l : ~ReadsOld(o, l)
  BY <1>2 DEF ReadsOld
<1>4. \E l \in Layouts(o, r, turn) : m = [sent |-> l, depend |-> {}, waits |-> <<>>]
  BY <1>1, <1>3 DEF Mappings
<1>5. m.waits = <<>>
  BY <1>4
<1> QED BY <1>5

\* Without writes held up, numout stays exact.
LEMMA CountsStep ==
  ASSUME FirstAtZero, AllFit, OrgSound, CountsOut, [Next]_vars
  PROVE  CountsOut'
<1> USE DEF Counted, ReadsOld
<1>0. OrgOK(org) /\ org.firstdisk = 0 /\ IsFiniteSet(out) /\ out \subseteq OnDisks(org) /\ out \subseteq issued
      /\ \A a \in issued : a.opid < Len(requests)
      /\ requests \in Seq(ReqSet) /\ numout \in [Disks(org) -> Int]
  BY OrgFacts DEF OrgSound, OrgTypes
<1>1. ASSUME NEW r \in Workload(org, Len(requests) + 1), MapRequest(r) PROVE CountsOut'
  <2> DEFINE p == Len(requests)
  <2>1. PICK m \in Mappings(org, Within(org, r), reduntoggle) : Fits(org, m) /\ Maps(r, m)
    BY <1>1, RequestMaps DEF OrgSound
  <2>2. SUFFICES ASSUME Counted(org')
                 PROVE  /\ \A x \in DOMAIN outstandq' : DOMAIN outstandq'[x].waits = {}
                        /\ \A d \in Disks(org') : numout'[d] = Cardinality({a \in out' : a.devno = d})
    BY DEF CountsOut
  <2>3. org' = org /\ Counted(org)
    BY <2>1, <2>2 DEF Maps
  <2> HIDE DEF Counted
  <2>4. DOMAIN m.waits = {}
    BY <2>3, CountedHoldsNone
  <2>5. \A x \in DOMAIN outstandq' : DOMAIN outstandq'[x].waits = {}
    BY <2>1, <2>3, <2>4 DEF Maps, CountsOut, NewEntry
  <2>6. p \in Nat /\ m.sent \in Seq(OnMembers(org)) /\ IsInjective(m.sent)
    BY <1>0, <2>1 DEF Fits
  <2>7. ASSUME NEW d \in Disks(org) PROVE numout'[d] = Cardinality({a \in out' : a.devno = d})
    <3> DEFINE X == FirstSent(p, m.sent)
               O == {a \in out : a.devno = d}
               N == {a \in X : a.devno = d}
    <3>1. numout'[d] = numout[d] + Cardinality({i \in DOMAIN m.sent : m.sent[i].devno = d}) /\ out' = out \cup X
      BY <2>1 DEF Maps
    <3>2. Cardinality({i \in DOMAIN m.sent : m.sent[i].devno = d}) = Cardinality(N)
      <4> HIDE DEF p
      <4>1. Cardinality(Aimed(m.sent, d)) = Cardinality(ToDisk(FirstSent(p, m.sent), d))
        BY <1>0, <2>6, SentToDisk
      <4> QED BY <4>1 DEF Aimed, ToDisk
    <3>3. numout[d] = Cardinality(O)
      BY <2>3 DEF CountsOut
    <3>4. IsFiniteSet(X) /\ \A a \in X : a.opid = p
      BY <1>0, <2>6, FirstSentFacts
    <3>5. {a \in out' : a.devno = d} = O \cup N
      BY <3>1
    <3>6. O \cap N = {}
      <4>1. \A a \in out : a.opid # p
        BY <1>0, <2>6 DEF OnDisks
      <4> QED BY <3>4, <4>1
    <3> HIDE DEF X
    <3>7. IsFiniteSet(O) /\ IsFiniteSet(N)
      BY <1>0, <3>4, FS_Subset
    <3> HIDE DEF O, N
    <3>8. Cardinality(O \cup N) = Cardinality(O) + Cardinality(N) - Cardinality(O \cap N)
      BY <3>7, FS_Union
    <3>9. Cardinality(O \cap N) = 0 /\ Cardinality(O) \in Nat /\ Cardinality(N) \in Nat
      BY <3>6, <3>7, FS_CardinalityType, FS_EmptySet
    <3>10. numout'[d] = Cardinality(O) + Cardinality(N)
      BY <3>1, <3>2, <3>3
    <3>11. Cardinality({a \in out' : a.devno = d}) = Cardinality(O \cup N)
      BY <3>5
    <3> QED BY <3>8, <3>9, <3>10, <3>11
  <2> QED BY <2>3, <2>5, <2>7
<1>2. ASSUME NEW a \in out, MapComplete(a) PROVE CountsOut'
  <2>0. PICK p, q : p = a.opid /\ q = outstandq[p]
    OBVIOUS
  <2>1. /\ p \in DOMAIN outstandq /\ p \in Nat
        /\ OutFits(org, p, q, AccessesOf(p), issued)
        /\ a \in AccessesOf(p) /\ AccessesOf(p) \subseteq OnDisks(org)
        /\ Completes(p, q, a)
    BY <1>2, <2>0, AccessCompletes
  <2>2. SUFFICES ASSUME Counted(org')
                 PROVE  /\ \A x \in DOMAIN outstandq' : DOMAIN outstandq'[x].waits = {}
                        /\ \A d \in Disks(org') : numout'[d] = Cardinality({b \in out' : b.devno = d})
    BY DEF CountsOut
  <2>3. org' = org /\ Counted(org)
    BY <2>1, <2>2 DEF Completes
  <2> HIDE DEF Counted
  <2>4. DOMAIN q.waits = {}
    BY <2>0, <2>1, <2>3 DEF CountsOut
  <2>5. Released(q, a) = {}
    BY <1>0, <2>1, <2>4, EntriesTaken
  <2>6. ReleasedBy(p, q, a) = {} /\ DOMAIN Checked(q, a).waits = {}
    BY <2>4, <2>5 DEF ReleasedBy, Checked
  <2>7. out' = out \ {a} /\ numout' = [numout EXCEPT ![a.devno] = @ - 1]
    BY <2>1, <2>6 DEF Completes
  <2>8. \A x \in DOMAIN outstandq' : DOMAIN outstandq'[x].waits = {}
    BY <2>1, <2>3, <2>6 DEF Completes, CountsOut
  <2>9. ASSUME NEW d \in Disks(org) PROVE numout'[d] = Cardinality({b \in out' : b.devno = d})
    <3> DEFINE O == {b \in out : b.devno = d}
    <3>1. numout[d] = Cardinality(O) /\ IsFiniteSet(O)
      <4>1. IsFiniteSet(O)
        BY <1>0, FS_Subset
      <4> QED BY <2>3, <4>1 DEF CountsOut
    <3>2. CASE d = a.devno
      <4>1. {b \in out' : b.devno = d} = O \ {a} /\ a \in O
        BY <2>7, <3>2
      <4> HIDE DEF O
      <4>2. Cardinality(O \ {a}) = Cardinality(O) - 1
        BY <3>1, <4>1, FS_RemoveElement
      <4> QED BY <1>0, <2>7, <3>1, <3>2, <4>1, <4>2
    <3>3. CASE d # a.devno
      <4>1. {b \in out' : b.devno = d} = O
        BY <2>7, <3>3
      <4> QED BY <1>0, <2>7, <3>1, <3>3, <4>1
    <3> QED BY <3>2, <3>3
  <2> QED BY <2>3, <2>8, <2>9
<1>3. CASE UNCHANGED vars
  BY <1>3 DEF vars, CountsOut
<1> QED BY <1>1, <1>2, <1>3 DEF Next

\* Nothing is under way at first.
LEMMA CountsInit == ASSUME FirstAtZero, Init PROVE CountsOut
<1>1. org \in Orgs /\ outstandq = <<>> /\ out = {} /\ numout = [d \in Disks(org) |-> 0]
  BY DEF Init, Orgs
<1>2. DOMAIN outstandq = {}
  BY <1>1
<1>3. ASSUME NEW d \in Disks(org) PROVE numout[d] = Cardinality({a \in out : a.devno = d})
  <2>1. {a \in out : a.devno = d} = {}
    BY <1>1
  <2>2. Cardinality({a \in out : a.devno = d}) = 0
    BY <2>1, FS_EmptySet
  <2> QED BY <1>1, <2>2
<1> QED BY <1>2, <1>3 DEF CountsOut

\* What is kept about every outstanding request is true of its accesses, and
\* one of them is under way.
LEMMA SoundCounts ==
  ASSUME OrgSound
  PROVE  CountsMatch
<1> SUFFICES ASSUME NEW p \in 0..Len(requests) - 1
             PROVE  IF p \in DOMAIN outstandq
                      THEN /\ outstandq[p].numreqs = Cardinality(AccessesOf(p))
                                                     + Cardinality(DOMAIN outstandq[p].waits)
                           /\ AccessesOf(p) # {}
                      ELSE AccessesOf(p) = {}
  BY DEF CountsMatch
<1>1. CASE p \in DOMAIN outstandq
  <2> DEFINE q == outstandq[p]
             held == DOMAIN q.waits
  <2>1. OutFits(org, p, q, AccessesOf(p), issued)
    BY <1>1 DEF OrgSound
  <2> HIDE DEF q
  <2>2. q.numreqs = Cardinality(AccessesOf(p)) + Cardinality(held) /\ q.numreqs # 0
    BY <2>1 DEF OutFits
  <2>3. \A e \in q.depend : \E a \in AccessesOf(p) : a.read /\ SamePlace(a, e)
    BY <2>1 DEF OutFits
  <2>4. \A w \in held : Cardinality({e \in q.depend : w \in e.deps}) # 0
    BY <2>1 DEF OutFits
  <2>5. ASSUME AccessesOf(p) = {} PROVE FALSE
    <3>1. Cardinality(AccessesOf(p)) = 0
      BY <2>5, FS_EmptySet
    <3>2. held # {}
      <4>1. ASSUME held = {} PROVE FALSE
        <5>1. Cardinality(held) = 0
          BY <4>1, FS_EmptySet
        <5> QED BY <2>2, <3>1, <5>1
      <4> QED BY <4>1
    <3>3. PICK w \in held : TRUE
      BY <3>2
    <3>4. {e \in q.depend : w \in e.deps} = {}
      BY <2>3, <2>5
    <3>5. Cardinality({e \in q.depend : w \in e.deps}) = 0
      BY <3>4, FS_EmptySet
    <3> QED BY <2>4, <3>3, <3>5
  <2>6. /\ outstandq[p].numreqs = Cardinality(AccessesOf(p)) + Cardinality(DOMAIN outstandq[p].waits)
        /\ AccessesOf(p) # {}
    BY <2>2, <2>5 DEF q
  <2> QED BY <1>1, <2>6
<1>2. CASE p \notin DOMAIN outstandq
  <2>1. AccessesOf(p) = {}
    BY <1>2 DEF OrgSound, OrgTypes, AccessesOf
  <2> QED BY <1>2, <2>1
<1> QED BY <1>1, <1>2

\* The invariants give OrgInv.
LEMMA SoundOrgInv ==
  ASSUME FirstAtZero, OrgSound, CountsOut, CountsShort
  PROVE  OrgInv
<1>1. OrgTypes /\ OrgOK(org) /\ org.firstdisk = 0
  BY OrgFacts DEF OrgSound, OrgTypes
<1>2. issued \subseteq OnDisks(org) /\ out \subseteq issued
  BY <1>1 DEF OrgTypes
<1>3. issued \subseteq PhysicalSet
  BY <1>1, <1>2 DEF OnDisks, PhysicalSet, Disks, OrgOK
<1>4. reduntoggle \in 0..org.copies
  BY <1>1 DEF OrgTypes, OrgOK
<1>5. TypeOK
  BY <1>1, <1>2, <1>3, <1>4 DEF TypeOK, OrgTypes
<1>6. AccessesOnMembers
  BY <1>1, <1>2 DEF AccessesOnMembers, OnDisks, Disks, OrgOK
<1>7. NumoutExact
  <2>1. \A a \in issued : a.devno - org.firstdisk = a.devno
    BY <1>1, <1>2 DEF OnDisks, Disks
  <2>2. ASSUME NEW d \in Disks(org)
        PROVE  LET short == Cardinality(UnderWay(d)) - numout[d]
               IN CASE org.reduntype = "PARITY_TABLE"      -> short \in 0..Cardinality(WrittenTo(d))
                    [] ReadsOld(org, <<[read |-> FALSE]>>) -> short = Cardinality(WrittenTo(d))
                    [] OTHER                               -> short = 0
    <3> DEFINE O == ToDisk(out, d)
               W == WritesTo(issued, d)
               n == numout[d]
    <3>1. UnderWay(d) = O /\ WrittenTo(d) = W
      BY <1>2, <2>1 DEF UnderWay, WrittenTo, ToDisk, WritesTo
    <3>2. /\ IsFiniteSet(W) /\ n <= Cardinality(O) /\ Cardinality(O) <= n + Cardinality(W)
          /\ AllReleased(org) => Cardinality(O) = n + Cardinality(W)
      BY DEF CountsShort, FallsShort
    <3>3. Counted(org) => n = Cardinality(O)
      BY DEF CountsOut, ToDisk
    <3>4. IsFiniteSet(O)
      BY <1>1, FS_Subset DEF OrgTypes, ToDisk
    <3>5. n \in Int
      BY <1>1 DEF OrgTypes
    <3> HIDE DEF O, W, n
    <3>6. Cardinality(O) \in Nat /\ Cardinality(W) \in Nat
      BY <3>2, <3>4, FS_CardinalityType
    <3>7. Cardinality(O) - n \in 0..Cardinality(W)
      BY <3>2, <3>5, <3>6
    <3>8. AllReleased(org) => Cardinality(O) - n = Cardinality(W)
      BY <3>2, <3>5, <3>6
    <3>9. Counted(org) => Cardinality(O) - n = 0
      BY <3>3, <3>5, <3>6
    <3> DEFINE T   == org.reduntype = "PARITY_TABLE"
               old == ReadsOld(org, <<[read |-> FALSE]>>)
    <3>10. /\ T => Cardinality(UnderWay(d)) - numout[d] \in 0..Cardinality(WrittenTo(d))
           /\ ~T /\ old => Cardinality(UnderWay(d)) - numout[d] = Cardinality(WrittenTo(d))
           /\ ~T /\ ~old => Cardinality(UnderWay(d)) - numout[d] = 0
      BY <3>1, <3>7, <3>8, <3>9 DEF n, AllReleased, Counted
    <3>11. ~(T /\ old)
      BY DEF ReadsOld
    <3> HIDE DEF T, old
    <3>12. LET short == Cardinality(UnderWay(d)) - numout[d]
           IN CASE T     -> short \in 0..Cardinality(WrittenTo(d))
                [] old   -> short = Cardinality(WrittenTo(d))
                [] OTHER -> short = 0
      BY <3>10, <3>11
    <3> QED BY <3>12 DEF T, old
  <2> QED BY <2>2 DEF NumoutExact
<1>8. ~fault
  BY <1>1 DEF OrgTypes
<1> QED BY <1>5, <1>6, <1>7, <1>8, SoundCounts DEF OrgInv

(***************************************************************************)
(* Multiples and quotients.                                                 *)
(***************************************************************************)

\* Multiples keep the order.
LEMMA MulMono ==
  ASSUME NEW a \in Int, NEW b \in Int, a <= b, NEW n \in Nat
  PROVE  a * n <= b * n
OBVIOUS

\* Quotient and rest make up the number.
LEMMA DivFacts ==
  ASSUME NEW x \in Int, NEW n \in Nat \ {0}
  PROVE  /\ x \div n \in Int /\ x % n \in 0..n - 1
         /\ x = (x \div n) * n + (x % n)
OBVIOUS

\* and only the smaller has the smaller multiple.
LEMMA MulLess ==
  ASSUME NEW a \in Int, NEW b \in Int, NEW n \in Nat \ {0}, a * n < b * n
  PROVE  a < b
BY MulMono

\* Bounds of a quotient are those of the number.
LEMMA DivBelow ==
  ASSUME NEW x \in Int, NEW y \in Int, NEW n \in Nat \ {0}, x < y * n
  PROVE  x \div n < y
<1> DEFINE q == x \div n
<1>1. q \in Int /\ x % n \in 0..n - 1 /\ x = q * n + (x % n)
  BY DivFacts
<1> HIDE DEF q
<1>2. q * n < y * n
  BY <1>1
<1>3. q < y
  BY <1>1, <1>2, MulLess
<1> QED BY <1>3 DEF q

LEMMA DivAbove ==
  ASSUME NEW x \in Int, NEW y \in Int, NEW n \in Nat \ {0}, y * n <= x
  PROVE  y <= x \div n
<1> DEFINE q == x \div n
<1>1. q \in Int /\ x % n \in 0..n - 1 /\ x = q * n + (x % n)
  BY DivFacts
<1> HIDE DEF q
<1>2. (q + 1) * n = q * n + n
  BY <1>1
<1>3. y * n < (q + 1) * n
  BY <1>1, <1>2
<1>4. y < q + 1
  BY <1>1, <1>3, MulLess
<1> QED BY <1>1, <1>4 DEF q

\* Quotient and rest are what they look like.
LEMMA DivIs ==
  ASSUME NEW q \in Int, NEW n \in Nat \ {0}, NEW e \in 0..n - 1, NEW x \in Int, x = q * n + e
  PROVE  x \div n = q /\ x % n = e
<1>1. x \div n \in Int /\ x % n \in 0..n - 1 /\ x = (x \div n) * n + (x % n)
  BY DivFacts
<1>2. q * n <= x
  OBVIOUS
<1>3. q <= x \div n
  BY <1>2, DivAbove
<1>4. (q + 1) * n = q * n + n
  OBVIOUS
<1>5. x < (q + 1) * n
  BY <1>4
<1>6. x \div n < q + 1
  BY <1>5, DivBelow
<1>7. x \div n = q
  BY <1>1, <1>3, <1>6
<1> QED BY <1>1, <1>7

\* A rest, and one turn more
LEMMA ModOnce ==
  ASSUME NEW n \in Nat \ {0}, NEW e \in 0..n - 1
  PROVE  e % n = e /\ (e + n) % n = e
<1> DEFINE q == 1
           z == 0
<1>1. q \in Int /\ e + n \in Int /\ e + n = q * n + e
  OBVIOUS
<1>2. z \in Int /\ e \in Int /\ e = z * n + e
  OBVIOUS
<1> HIDE DEF q, z
<1>3. (e + n) % n = e
  BY <1>1, DivIs
<1>4. e % n = e
  BY <1>2, DivIs
<1> QED BY <1>3, <1>4

(***************************************************************************)
(* Every mapping but those by a table fits.                                 *)
(***************************************************************************)

\* The accesses of a scheme before it is decided which are held up: on the disks,
\* no two at the same place, all reads or all writes
Layout(o, m) ==
    /\ m \in Seq(OnMembers(o)) /\ m # <<>>
    /\ \A i, j \in DOMAIN m : SamePlace(m[i], m[j]) => i = j
    /\ \A i \in DOMAIN m : m[i].read = m[1].read

\* Sent at once, they fit.
LEMMA PlainFits ==
  ASSUME NEW o, NEW m, Layout(o, m),
         NEW f, f.sent = m, f.depend = {}, DOMAIN f.waits = {}
  PROVE  Fits(o, f)
<1>1. m \in Seq(OnMembers(o)) /\ m # <<>>
  BY DEF Layout
<1>2. IsInjective(m)
  BY DEF Layout, IsInjective, SamePlace
<1>3. IsFiniteSet({})
  BY FS_EmptySet
<1>4. HeldUpRightly(f)
  BY <1>3 DEF HeldUpRightly
<1> QED BY <1>1, <1>2, <1>3, <1>4 DEF Fits

\* The ith access and its entry where old values are read
OldRead(m, i) == [m[i] EXCEPT !.read = TRUE]
HoldsUp(o, m, i) == IF o.writesync \/ i = 1 THEN SetOf(m) ELSE {m[i]}
EntryOf(o, m, i) == [devno |-> m[i].devno, blkno |-> m[i].blkno, deps |-> HoldsUp(o, m, i)]

\* The entries of D that hold the write w up
Holding(D, w) == {e \in D : w \in e.deps}

\* The entries that hold a write up are those of all accesses, or of the first and its own.
LEMMA EntriesHold ==
  ASSUME NEW o, NEW m, Layout(o, m), NEW k \in DOMAIN m
  PROVE  /\ IsFiniteSet(Depend(o, m))
         /\ Waits(o, m)[m[k]] = Cardinality(Holding(Depend(o, m), m[k]))
         /\ Waits(o, m)[m[k]] # 0
<1> DEFINE D == Depend(o, m)
           n == Len(m)
           H == Holding(D, m[k])
           E(i) == EntryOf(o, m, i)
<1>1. DOMAIN m = 1..n /\ n \in Nat \ {0} /\ n >= 1 /\ 1 \in DOMAIN m
  BY DEF Layout
<1>2. D = {E(i) : i \in 1..n}
  BY <1>1 DEF Depend, EntryOf, HoldsUp
<1>3. \A i, j \in 1..n : E(i) = E(j) => i = j
  BY <1>1 DEF EntryOf, Layout, SamePlace
<1>4. \A i, j \in 1..n : m[i] = m[j] => i = j
  BY <1>1 DEF Layout, SamePlace
<1>5. \A i \in 1..n : m[k] \in E(i).deps <=> o.writesync \/ i = 1 \/ i = k
  BY <1>1, <1>4 DEF EntryOf, HoldsUp, SetOf
<1>6. Waits(o, m)[m[k]] = IF o.writesync THEN n ELSE IF k = 1 THEN 1 ELSE 2
  BY <1>1, <1>4 DEF Waits, SetOf
<1> HIDE DEF D, E, H
<1>7. D \subseteq {E(i) : i \in 1..n} /\ Cardinality(D) = n /\ IsFiniteSet(D)
  <2> DEFINE f == [i \in 1..n |-> E(i)]
  <2>1. f \in [1..n -> D] /\ (\A i, j \in 1..n : f[i] = f[j] => i = j) /\ (\A e \in D : \E i \in 1..n : f[i] = e)
    BY <1>2, <1>3
  <2>2. n \in Int /\ 1 \in Int
    BY <1>1
  <2> HIDE DEF f, n
  <2>3. f \in Bijection(1..n, D)
    BY <2>1 DEF Bijection, Injection, Surjection, IsInjective
  <2>4. IsFiniteSet(1..n) /\ Cardinality(1..n) = n
    <3>1. n >= 1
      BY <1>1
    <3>2. Cardinality(1..n) = IF 1 > n THEN 0 ELSE n - 1 + 1
      BY <2>2, FS_Interval
    <3>3. IsFiniteSet(1..n)
      BY <2>2, FS_Interval
    <3> QED BY <2>2, <3>1, <3>2, <3>3
  <2>5. ExistsBijection(1..n, D)
    BY <2>3 DEF ExistsBijection
  <2>6. IsFiniteSet(D) /\ Cardinality(D) = Cardinality(1..n)
    BY <2>4, <2>5, FS_Bijection
  <2> QED BY <1>2, <2>4, <2>6
<1>8. CASE o.writesync
  <2>1. H = D
    BY <1>2, <1>5, <1>8 DEF H, Holding
  <2> QED BY <1>1, <1>6, <1>7, <1>8, <2>1 DEF H, D
<1>9. CASE ~o.writesync /\ k = 1
  <2>1. H = {E(1)}
    BY <1>1, <1>2, <1>5, <1>9 DEF H, Holding
  <2>2. Cardinality({E(1)}) = 1
    BY FS_Singleton
  <2>3. Waits(o, m)[m[k]] = Cardinality(H) /\ Waits(o, m)[m[k]] # 0
    BY <1>6, <1>9, <2>1, <2>2
  <2> QED BY <1>7, <2>3 DEF H, D
<1>10. CASE ~o.writesync /\ k # 1
  <2>1. H = {E(1), E(k)} /\ E(1) # E(k)
    BY <1>1, <1>2, <1>3, <1>5, <1>10 DEF H, Holding
  <2>2. Cardinality({E(1), E(k)}) = 2
    <3>1. IsFiniteSet({E(1)}) /\ Cardinality({E(1)}) = 1
      BY FS_Singleton
    <3>2. Cardinality({E(1)} \cup {E(k)}) = Cardinality({E(1)}) + 1
      BY <2>1, <3>1, FS_AddElement
    <3>3. {E(1)} \cup {E(k)} = {E(1), E(k)}
      OBVIOUS
    <3> QED BY <3>1, <3>2, <3>3
  <2>3. Waits(o, m)[m[k]] = Cardinality(H) /\ Waits(o, m)[m[k]] # 0
    BY <1>6, <1>10, <2>1, <2>2
  <2> QED BY <1>7, <2>3 DEF H, D
<1> QED BY <1>8, <1>9, <1>10

\* Where the old values are read first, they fit too.
LEMMA OldFits ==
  ASSUME NEW o, NEW m, Layout(o, m), ~m[1].read,
         NEW f, DOMAIN f.sent = DOMAIN m, f.sent \in Seq(OnMembers(o)),
         \A i \in DOMAIN m : f.sent[i] = OldRead(m, i),
         f.depend = Depend(o, m), f.waits = Waits(o, m)
  PROVE  Fits(o, f)
<1>1. DOMAIN m = 1..Len(m) /\ Len(m) \in Nat \ {0} /\ 1 \in DOMAIN m
  BY DEF Layout
<1>2. \A i \in DOMAIN m : m[i] \in OnMembers(o) /\ m[i].read = FALSE
  BY <1>1 DEF Layout, OnMembers
<1>3. \A i \in DOMAIN m : /\ OldRead(m, i).read /\ OldRead(m, i).devno = m[i].devno
                          /\ OldRead(m, i).blkno = m[i].blkno
  BY <1>2 DEF OldRead, OnMembers
<1>4. \A i, j \in DOMAIN m : SamePlace(m[i], m[j]) => i = j
  BY DEF Layout
<1>5. DOMAIN f.waits = SetOf(m)
  BY DEF Waits
<1>6. SetOf(m) \subseteq OnMembers(o) /\ IsFiniteSet(SetOf(m))
  <2>1. \A w \in SetOf(m) : w \in OnMembers(o)
    BY <1>2 DEF SetOf
  <2>2. SetOf(m) = {m[i] : i \in 1..Len(m)}
    BY <1>1 DEF SetOf
  <2> DEFINE n == Len(m)
             g == [i \in 1..n |-> m[i]]
  <2>3. n \in Int /\ 1 \in Int
    BY <1>1
  <2>4. g \in Surjection(1..n, SetOf(m))
    BY <2>2 DEF Surjection
  <2> HIDE DEF n, g
  <2>5. IsFiniteSet(1..n)
    BY <2>3, FS_Interval
  <2>6. IsFiniteSet(SetOf(m))
    BY <2>4, <2>5, FS_Surjection
  <2> QED BY <2>1, <2>6
<1>7. IsInjective(f.sent) /\ f.sent # <<>>
  <2>1. \A i, j \in DOMAIN m : f.sent[i] = f.sent[j] => i = j
    BY <1>3, <1>4 DEF SamePlace
  <2> QED BY <1>1, <2>1 DEF IsInjective
<1>8. \A w \in SetOf(m) : ~w.read /\ w \notin SetOf(f.sent)
  BY <1>2, <1>3 DEF SetOf
<1>9. HeldUpRightly(f)
  <2>1. IsFiniteSet(f.depend)
    <3>1. IsFiniteSet(Depend(o, m))
      BY <1>1, EntriesHold
    <3> QED BY <3>1
  <2>2. \A e \in f.depend : \E i \in DOMAIN m : e = EntryOf(o, m, i)
    BY DEF Depend, EntryOf, HoldsUp
  <2>3. \A i \in DOMAIN m : /\ EntryOf(o, m, i).deps \subseteq SetOf(m) /\ m[i] \in EntryOf(o, m, i).deps
                            /\ SamePlace(f.sent[i], EntryOf(o, m, i)) /\ SamePlace(m[i], EntryOf(o, m, i))
    BY <1>3 DEF EntryOf, HoldsUp, SetOf, SamePlace
  <2>4. \A e \in f.depend : e.deps \subseteq SetOf(m) /\ \E a \in SetOf(f.sent) : a.read /\ SamePlace(a, e)
    <3> TAKE e \in f.depend
    <3>1. PICK i \in DOMAIN m : e = EntryOf(o, m, i)
      BY <2>2
    <3>2. f.sent[i] \in SetOf(f.sent) /\ f.sent[i].read
      BY <1>3 DEF SetOf
    <3> QED BY <2>3, <3>1, <3>2
  <2>5. \A e, g \in f.depend : SamePlace(e, g) => e = g
    <3> TAKE e, g \in f.depend
    <3> HAVE SamePlace(e, g)
    <3>1. PICK i \in DOMAIN m : e = EntryOf(o, m, i)
      BY <2>2
    <3>2. PICK j \in DOMAIN m : g = EntryOf(o, m, j)
      BY <2>2
    <3>3. SamePlace(m[i], m[j])
      BY <2>3, <3>1, <3>2 DEF SamePlace
    <3>4. i = j
      BY <1>4, <3>3
    <3> QED BY <3>1, <3>2, <3>4
  <2>6. \A w \in SetOf(m) : /\ f.waits[w] = Cardinality({e \in f.depend : w \in e.deps}) /\ f.waits[w] # 0
    <3> TAKE w \in SetOf(m)
    <3>1. PICK k \in DOMAIN m : w = m[k]
      BY DEF SetOf
    <3>2. Waits(o, m)[m[k]] = Cardinality(Holding(Depend(o, m), m[k])) /\ Waits(o, m)[m[k]] # 0
      BY EntriesHold
    <3>3. f.waits[w] = Cardinality(Holding(f.depend, w)) /\ f.waits[w] # 0
      BY <3>1, <3>2
    <3> QED BY <3>3 DEF Holding
  <2>7. \A w \in SetOf(f.sent) \cup SetOf(m) : \A e \in f.depend : SamePlace(w, e) => w.read \/ w \in e.deps
    <3> TAKE w \in SetOf(f.sent) \cup SetOf(m)
    <3> TAKE e \in f.depend
    <3> HAVE SamePlace(w, e)
    <3>1. CASE w \in SetOf(f.sent)
      BY <1>3, <3>1 DEF SetOf
    <3>2. CASE w \in SetOf(m)
      <4>1. PICK k \in DOMAIN m : w = m[k]
        BY <3>2 DEF SetOf
      <4>2. PICK i \in DOMAIN m : e = EntryOf(o, m, i)
        BY <2>2
      <4>3. SamePlace(m[k], m[i])
        BY <2>3, <4>1, <4>2 DEF SamePlace
      <4>4. k = i
        BY <1>4, <4>3
      <4> QED BY <2>3, <4>1, <4>2, <4>4
    <3> QED BY <3>1, <3>2
  <2> QED BY <1>5, <2>1, <2>4, <2>5, <2>6, <2>7 DEF HeldUpRightly
<1> QED BY <1>5, <1>6, <1>7, <1>8, <1>9 DEF Fits

(***************************************************************************)
(* Parity that rotates.                                                     *)
(***************************************************************************)

\* How often the parity turns from disk p until it is on disk d
Turns(o, d, p) ==
    IF o.rottype = "LEFT" THEN IF p >= d THEN p - d ELSE p - d + o.numdisks
                          ELSE IF d >= p THEN d - p ELSE d - p + o.numdisks

LEMMA TurnTo ==
  ASSUME NEW o, o.numdisks \in Nat \ {0}, NEW p \in 0..o.numdisks - 1
  PROVE  /\ o.rottype = "LEFT" => Turn(o, p) = IF p = 0 THEN o.numdisks - 1 ELSE p - 1
         /\ o.rottype # "LEFT" => Turn(o, p) = IF p = o.numdisks - 1 THEN 0 ELSE p + 1
<1> DEFINE n == o.numdisks
<1>1. n \in Nat \ {0} /\ p \in 0..n - 1
  OBVIOUS
<1> HIDE DEF n
<1>2. p # 0 => (p + (n - 1)) % n = p - 1
  <2> SUFFICES ASSUME p # 0 PROVE (p + (n - 1)) % n = p - 1
    OBVIOUS
  <2>1. p - 1 \in 0..n - 1 /\ p + (n - 1) = (p - 1) + n
    BY <1>1
  <2> QED BY <1>1, <2>1, ModOnce
<1>3. p = 0 => (p + (n - 1)) % n = n - 1
  <2> SUFFICES ASSUME p = 0 PROVE (p + (n - 1)) % n = n - 1
    OBVIOUS
  <2>1. n - 1 \in 0..n - 1 /\ p + (n - 1) = n - 1
    BY <1>1
  <2> QED BY <1>1, <2>1, ModOnce
<1>4. p # n - 1 => (p + 1) % n = p + 1
  <2> SUFFICES ASSUME p # n - 1 PROVE (p + 1) % n = p + 1
    OBVIOUS
  <2>1. p + 1 \in 0..n - 1
    BY <1>1
  <2> QED BY <1>1, <2>1, ModOnce
<1>5. p = n - 1 => (p + 1) % n = 0
  <2> SUFFICES ASSUME p = n - 1 PROVE (p + 1) % n = 0
    OBVIOUS
  <2>1. 0 \in 0..n - 1 /\ p + 1 = 0 + n
    BY <1>1
  <2> QED BY <1>1, <2>1, ModOnce
<1>6. Turn(o, p) = (IF o.rottype = "LEFT" THEN p + (n - 1) ELSE p + 1) % n
  BY DEF Turn, n
<1>7. /\ o.rottype = "LEFT" => Turn(o, p) = IF p = 0 THEN n - 1 ELSE p - 1
      /\ o.rottype # "LEFT" => Turn(o, p) = IF p = n - 1 THEN 0 ELSE p + 1
  BY <1>2, <1>3, <1>4, <1>5, <1>6
<1> QED BY <1>7 DEF n

\* Every turn brings the parity nearer, and once past it is farthest.
LEMMA TurnFacts ==
  ASSUME NEW o, o.numdisks \in Nat \ {0, 1}, NEW d \in 0..o.numdisks - 1, NEW p \in 0..o.numdisks - 1
  PROVE  /\ Turn(o, p) \in 0..o.numdisks - 1
         /\ p # d => /\ Turns(o, d, p) \in 1..o.numdisks - 1
                     /\ Turn(o, p) = d => Turns(o, d, p) = 1
                     /\ Turn(o, p) # d => Turns(o, d, Turn(o, p)) = Turns(o, d, p) - 1
         /\ p = d => Turn(o, p) # d /\ Turns(o, d, Turn(o, p)) = o.numdisks - 1
<1> DEFINE n == o.numdisks
<1>1. n \in Nat \ {0, 1} /\ p \in 0..n - 1 /\ d \in 0..n - 1
  OBVIOUS
<1>2. /\ o.rottype = "LEFT" => Turn(o, p) = IF p = 0 THEN n - 1 ELSE p - 1
      /\ o.rottype # "LEFT" => Turn(o, p) = IF p = n - 1 THEN 0 ELSE p + 1
  BY TurnTo
<1> HIDE DEF n
<1>3. \A x : /\ o.rottype = "LEFT" => Turns(o, d, x) = IF x >= d THEN x - d ELSE x - d + n
             /\ o.rottype # "LEFT" => Turns(o, d, x) = IF d >= x THEN d - x ELSE d - x + n
  BY DEF Turns, n
<1>4. CASE o.rottype = "LEFT"
  <2>1. /\ Turn(o, p) \in 0..n - 1
        /\ p # d => /\ Turns(o, d, p) \in 1..n - 1
                    /\ Turn(o, p) = d => Turns(o, d, p) = 1
                    /\ Turn(o, p) # d => Turns(o, d, Turn(o, p)) = Turns(o, d, p) - 1
        /\ p = d => Turn(o, p) # d /\ Turns(o, d, Turn(o, p)) = n - 1
    BY <1>1, <1>2, <1>3, <1>4
  <2> QED BY <2>1 DEF n
<1>5. CASE o.rottype # "LEFT"
  <2>1. /\ Turn(o, p) \in 0..n - 1
        /\ p # d => /\ Turns(o, d, p) \in 1..n - 1
                    /\ Turn(o, p) = d => Turns(o, d, p) = 1
                    /\ Turn(o, p) # d => Turns(o, d, Turn(o, p)) = Turns(o, d, p) - 1
        /\ p = d => Turn(o, p) # d /\ Turns(o, d, Turn(o, p)) = n - 1
    BY <1>1, <1>2, <1>3, <1>5
  <2> QED BY <2>1 DEF n
<1> QED BY <1>4, <1>5

\* it is the function by which the loop of logorg_parity_rotate_updates recurs.
RotatesOver(o, r, b, s0, n, it) ==
    it = [k \in 0..n |-> IF k = 0 THEN s0 ELSE RotateUnit(o, r, b, it[k - 1])]

\* There is such a function.
LEMMA RotatesExist ==
  ASSUME NEW o, NEW r, NEW b, NEW s0, NEW n \in Nat
  PROVE  \E it : RotatesOver(o, r, b, s0, n, it)
<1> DEFINE Step(s) == RotateUnit(o, r, b, s)
           S == {m \in Nat : \E it : RotatesOver(o, r, b, s0, m, it)}
<1>1. 0 \in S
  <2> DEFINE it == [k \in 0..0 |-> s0]
  <2>1. it = [k \in 0..0 |-> IF k = 0 THEN s0 ELSE RotateUnit(o, r, b, it[k - 1])]
    <3>1. \A k \in 0..0 : k = 0
      OBVIOUS
    <3> QED BY <3>1
  <2> QED BY <2>1 DEF RotatesOver
<1>2. ASSUME NEW m \in Nat, m \in S PROVE m + 1 \in S
  <2>1. PICK it : RotatesOver(o, r, b, s0, m, it)
    BY <1>2
  <2>2. it = [k \in 0..m |-> IF k = 0 THEN s0 ELSE Step(it[k - 1])]
    BY <2>1 DEF RotatesOver
  <2> HIDE DEF Step
  <2> DEFINE jt == [k \in 0..m + 1 |-> IF k = m + 1 THEN Step(it[m]) ELSE it[k]]
  <2>3. \A k \in 0..m + 1 : jt[k] = IF k = 0 THEN s0 ELSE Step(jt[k - 1])
    <3> SUFFICES ASSUME NEW k \in 0..m + 1 PROVE jt[k] = IF k = 0 THEN s0 ELSE Step(jt[k - 1])
      OBVIOUS
    <3>1. CASE k = m + 1
      BY <3>1
    <3>2. CASE k # m + 1
      <4>1. k \in 0..m /\ jt[k] = it[k] /\ (k # 0 => k - 1 \in 0..m + 1 /\ k - 1 # m + 1)
        BY <3>2
      <4>2. k # 0 => jt[k - 1] = it[k - 1]
        BY <4>1
      <4>3. it[k] = IF k = 0 THEN s0 ELSE Step(it[k - 1])
        BY <2>2, <4>1
      <4> QED BY <4>1, <4>2, <4>3
    <3> QED BY <3>1, <3>2
  <2>4. jt = [k \in 0..m + 1 |-> jt[k]]
    OBVIOUS
  <2> HIDE DEF jt
  <2>5. jt = [k \in 0..m + 1 |-> IF k = 0 THEN s0 ELSE Step(jt[k - 1])]
    BY <2>3, <2>4
  <2>6. RotatesOver(o, r, b, s0, m + 1, jt)
    BY <2>5 DEF RotatesOver, Step
  <2>7. m + 1 \in Nat
    OBVIOUS
  <2> QED BY <2>6, <2>7
<1> HIDE DEF S
<1>3. n \in S
  BY <1>1, <1>2, AllNaturals
<1> QED BY <1>3 DEF S

\* The loop is in state s: k units of the disk are behind it, gone of them with
\* parity, and the updates made are in order and end where the loop is.
Rotating(o, r, b, s) ==
    LET n  == o.numdisks
        u  == o.parityunit
        at == b + s.bcount - s.left
    IN /\ s = [parity |-> s.parity, bcount |-> s.bcount, left |-> s.left, room |-> s.room,
               updates |-> s.updates]
       /\ s.parity \in 0..n - 1 /\ s.parity # r.devno
       /\ s.bcount \in Nat /\ s.left \in 1..s.bcount /\ s.room \in 1..u
       /\ \E k \in Nat, gone \in Nat :
            /\ at = k * u + (u - s.room)
            /\ b + s.bcount = r.blkno + r.bcount + gone * u
            /\ n * gone <= k + Turns(o, r.devno, s.parity)
       /\ s.updates \in Seq([devno : (0..n - 1) \ {r.devno}, blkno : Nat, bcount : Nat \ {0},
                             read : {r.read}])
       /\ \A i \in DOMAIN s.updates : s.updates[i].blkno + s.updates[i].bcount <= at
       /\ \A i, j \in DOMAIN s.updates : i < j => s.updates[i].blkno < s.updates[j].blkno

\* What is asked of a request to rotated parity
Rotatable(o, r) ==
    /\ o.numdisks \in Nat \ {0, 1} /\ o.parityunit \in Nat \ {0}
    /\ r.devno \in 0..o.numdisks - 1 /\ r.blkno \in Nat /\ r.bcount \in Nat \ {0} /\ r.read \in BOOLEAN

\* One step of the loop keeps it so.
LEMMA RotateStep ==
  ASSUME NEW o, NEW r, Rotatable(o, r), NEW b \in Nat, NEW s, Rotating(o, r, b, s)
  PROVE  Rotating(o, r, b, RotateUnit(o, r, b, s))
<1> DEFINE n == o.numdisks
           u == o.parityunit
           d == r.devno
           at == b + s.bcount - s.left
           Upd == [devno : (0..n - 1) \ {d}, blkno : Nat, bcount : Nat \ {0}, read : {r.read}]
           new == RotateUnit(o, r, b, s)
           e == Update(r, b, s, s.room)
           next == Turn(o, s.parity)
<1>0. n \in Nat \ {0, 1} /\ u \in Nat \ {0} /\ d \in 0..n - 1
  BY DEF Rotatable
<1>1. /\ n \in Nat \ {0, 1} /\ u \in Nat \ {0} /\ d \in 0..n - 1
      /\ s.parity \in 0..n - 1 /\ s.parity # d
      /\ s.bcount \in Nat /\ s.left \in 1..s.bcount /\ s.room \in 1..u
      /\ at = b + s.bcount - s.left /\ at \in Nat
  <2>1. /\ s.parity \in 0..n - 1 /\ s.parity # d
        /\ s.bcount \in Nat /\ s.left \in 1..s.bcount /\ s.room \in 1..u
    BY DEF Rotating
  <2> HIDE DEF n, u, d
  <2>2. at \in Nat
    BY <2>1
  <2> QED BY <1>0, <2>1, <2>2
<1>2. s = [parity |-> s.parity, bcount |-> s.bcount, left |-> s.left, room |-> s.room,
           updates |-> s.updates]
  BY DEF Rotating
<1>3. PICK k \in Nat, gone \in Nat :
            /\ at = k * u + (u - s.room)
            /\ b + s.bcount = r.blkno + r.bcount + gone * u
            /\ n * gone <= k + Turns(o, d, s.parity)
  BY DEF Rotating
<1>4. /\ s.updates \in Seq(Upd)
      /\ \A i \in DOMAIN s.updates : s.updates[i].blkno + s.updates[i].bcount <= at
      /\ \A i, j \in DOMAIN s.updates : i < j => s.updates[i].blkno < s.updates[j].blkno
  BY DEF Rotating
<1>5. SUFFICES ASSUME s.left > s.room PROVE Rotating(o, r, b, new)
  BY <1>1 DEF RotateUnit
<1>6. e = [devno |-> s.parity, blkno |-> at, bcount |-> s.room, read |-> r.read]
  BY DEF Update, Access
<1> HIDE DEF e
<1>7. e \in Upd
  BY <1>1, <1>6
<1> HIDE DEF n, u, d, at, Upd
<1> DEFINE upd == Append(s.updates, e)
           to == at + s.room
<1>8. /\ upd \in Seq(Upd)
      /\ \A i \in DOMAIN upd : upd[i].blkno + upd[i].bcount <= to
      /\ \A i, j \in DOMAIN upd : i < j => upd[i].blkno < upd[j].blkno
  <2> DEFINE l == Len(s.updates)
  <2>1. /\ upd \in Seq(Upd) /\ l \in Nat /\ DOMAIN s.updates = 1..l /\ DOMAIN upd = 1..l + 1
        /\ upd[l + 1] = e /\ \A i \in 1..l : upd[i] = s.updates[i] /\ upd[i] \in Upd
    <3> DEFINE v == s.updates
    <3>1. v \in Seq(Upd)
      BY <1>4
    <3> HIDE DEF v
    <3>2. /\ Append(v, e) \in Seq(Upd) /\ Len(v) \in Nat /\ DOMAIN v = 1..Len(v)
          /\ DOMAIN Append(v, e) = 1..Len(v) + 1 /\ Append(v, e)[Len(v) + 1] = e
      BY <1>7, <3>1
    <3>3. \A i \in 1..Len(v) : Append(v, e)[i] = v[i] /\ v[i] \in Upd
      BY <1>7, <3>1
    <3> QED BY <3>2, <3>3 DEF v
  <2> HIDE DEF upd, l
  <2>2. \A i \in 1..l : upd[i].blkno + upd[i].bcount <= at /\ upd[i].blkno < at
    <3> TAKE i \in 1..l
    <3>1. upd[i].blkno \in Nat /\ upd[i].bcount \in Nat \ {0}
      BY <2>1 DEF Upd
    <3>2. upd[i].blkno + upd[i].bcount <= at
      BY <1>4, <2>1
    <3> QED BY <1>1, <3>1, <3>2
  <2>3. e.blkno = at /\ e.bcount = s.room
    BY <1>6
  <2>4. \A i \in 1..l + 1 : upd[i].blkno + upd[i].bcount <= to
    <3> TAKE i \in 1..l + 1
    <3>1. CASE i \in 1..l
      <4>1. upd[i].blkno \in Nat /\ upd[i].bcount \in Nat \ {0}
        BY <2>1, <3>1 DEF Upd
      <4> QED BY <1>1, <2>2, <3>1, <4>1
    <3>2. CASE i = l + 1
      BY <1>1, <2>1, <2>3, <3>2
    <3> QED BY <2>1, <3>1, <3>2
  <2>5. \A i, j \in 1..l + 1 : i < j => upd[i].blkno < upd[j].blkno
    <3> SUFFICES ASSUME NEW i \in 1..l + 1, NEW j \in 1..l + 1, i < j PROVE upd[i].blkno < upd[j].blkno
      OBVIOUS
    <3>0. i \in 1..l
      BY <2>1
    <3>1. CASE j \in 1..l
      BY <1>4, <2>1, <3>0, <3>1
    <3>2. CASE j = l + 1
      BY <2>1, <2>2, <2>3, <3>0, <3>2
    <3> QED BY <2>1, <3>1, <3>2
  <2> QED BY <2>1, <2>4, <2>5
<1> DEFINE m == [s EXCEPT !.updates = Append(@, e), !.left = @ - s.room, !.room = u]
<1>9. new = PassParity(o, r, m)
  BY <1>1, <1>5 DEF RotateUnit, e, u
<1>10. m = [parity |-> s.parity, bcount |-> s.bcount, left |-> s.left - s.room, room |-> u, updates |-> upd]
  <2> DEFINE pa == s.parity
             bc == s.bcount
             le == s.left
             ro == s.room
             up == s.updates
  <2>1. s = [parity |-> pa, bcount |-> bc, left |-> le, room |-> ro, updates |-> up]
    BY <1>2
  <2>2. m = [s EXCEPT !.updates = Append(up, e), !.left = le - ro, !.room = u] /\ upd = Append(up, e)
    BY <2>1
  <2> HIDE DEF pa, bc, le, ro, up, m, upd
  <2>3. m = [parity |-> pa, bcount |-> bc, left |-> le - ro, room |-> u, updates |-> upd]
    BY <2>1, <2>2
  <2> QED BY <2>3 DEF pa, bc, le, ro
<1> HIDE DEF m, upd, new
<1>11. /\ next \in 0..n - 1 /\ Turns(o, d, s.parity) \in 1..n - 1
       /\ next = d => Turns(o, d, s.parity) = 1
       /\ next # d => Turns(o, d, next) = Turns(o, d, s.parity) - 1
       /\ Turn(o, d) \in 0..n - 1 /\ Turn(o, d) # d /\ Turns(o, d, Turn(o, d)) = n - 1
  BY <1>1, TurnFacts DEF n, d
<1>12. s.left - s.room \in 1..s.bcount /\ u \in 1..u /\ to \in Nat
  BY <1>1, <1>5
<1>13. CASE next # d
  <2>1. new = [parity |-> next, bcount |-> s.bcount, left |-> s.left - s.room, room |-> u, updates |-> upd]
    BY <1>9, <1>10, <1>13 DEF PassParity, d, u
  <2>2. b + new.bcount - new.left = to
    BY <1>1, <2>1 DEF at
  <2>3. to = (k + 1) * u + (u - u) /\ k + 1 \in Nat
    <3>1. (k + 1) * u = k * u + u
      BY <1>1
    <3>2. k * u \in Int
      BY <1>1
    <3> QED BY <1>1, <1>3, <3>1, <3>2
  <2>4. n * gone <= (k + 1) + Turns(o, d, next)
    <3>1. n * gone \in Int
      BY <1>1
    <3> QED BY <1>3, <1>11, <1>13, <3>1
  <2>5. \E k1 \in Nat, g1 \in Nat :
            /\ b + new.bcount - new.left = k1 * u + (u - new.room)
            /\ b + new.bcount = r.blkno + r.bcount + g1 * u
            /\ n * g1 <= k1 + Turns(o, d, new.parity)
    BY <1>3, <2>1, <2>2, <2>3, <2>4
  <2> HIDE DEF to
  <2>6. /\ new.parity \in 0..n - 1 /\ new.parity # d /\ new.bcount \in Nat
        /\ new.left \in 1..new.bcount /\ new.room \in 1..u
        /\ new = [parity |-> new.parity, bcount |-> new.bcount, left |-> new.left, room |-> new.room,
                  updates |-> new.updates]
        /\ new.updates = upd
    BY <1>1, <1>11, <1>12, <1>13, <2>1
  <2> QED BY <1>8, <2>2, <2>5, <2>6 DEF Rotating, n, u, d, Upd
<1>14. CASE next = d
  <2>1. new = [parity |-> Turn(o, d), bcount |-> s.bcount + u, left |-> s.left - s.room, room |-> u,
               updates |-> upd]
    BY <1>9, <1>10, <1>14 DEF PassParity, d, u
  <2>2. b + new.bcount - new.left = to + u
    BY <1>1, <2>1 DEF at
  <2>3. to + u = (k + 2) * u + (u - u) /\ k + 2 \in Nat
    <3>1. (k + 2) * u = k * u + u + u
      BY <1>1
    <3>2. k * u \in Int
      BY <1>1
    <3> QED BY <1>1, <1>3, <3>1, <3>2
  <2>4. n * (gone + 1) <= (k + 2) + Turns(o, d, Turn(o, d)) /\ gone + 1 \in Nat
    <3>1. n * gone \in Int /\ n * (gone + 1) = n * gone + n
      BY <1>1
    <3> QED BY <1>1, <1>3, <1>11, <1>14, <3>1
  <2>5. b + new.bcount = r.blkno + r.bcount + (gone + 1) * u
    <3>1. (gone + 1) * u = gone * u + u /\ gone * u \in Int
      BY <1>1
    <3>2. r.blkno \in Nat /\ r.bcount \in Nat
      BY DEF Rotatable
    <3>3. new.bcount = s.bcount + u
      BY <2>1
    <3> DEFINE g == gone * u
    <3>4. b + s.bcount = r.blkno + r.bcount + g /\ (gone + 1) * u = g + u /\ g \in Int
      BY <1>3, <3>1
    <3> HIDE DEF g
    <3>6. b \in Int /\ s.bcount \in Int /\ u \in Int /\ g \in Int /\ r.blkno + r.bcount \in Int
      BY <1>1, <3>2, <3>4
    <3>7. b + s.bcount = (r.blkno + r.bcount) + g
      BY <3>4
    <3>8. \A x, y, z, v, w \in Int : x + y = w + z => x + (y + v) = w + (z + v)
      OBVIOUS
    <3>5. b + (s.bcount + u) = r.blkno + r.bcount + (g + u)
      BY <3>6, <3>7, <3>8
    <3> QED BY <3>3, <3>4, <3>5
  <2>6. \E k1 \in Nat, g1 \in Nat :
            /\ b + new.bcount - new.left = k1 * u + (u - new.room)
            /\ b + new.bcount = r.blkno + r.bcount + g1 * u
            /\ n * g1 <= k1 + Turns(o, d, new.parity)
    BY <2>1, <2>2, <2>3, <2>4, <2>5
  <2>7. /\ new.parity \in 0..n - 1 /\ new.parity # d /\ new.bcount \in Nat
        /\ new.left \in 1..new.bcount /\ new.room \in 1..u
        /\ new = [parity |-> new.parity, bcount |-> new.bcount, left |-> new.left, room |-> new.room,
                  updates |-> new.updates]
        /\ new.updates = upd
    BY <1>1, <1>11, <1>12, <1>14, <2>1
  <2>8. \A i \in DOMAIN upd : upd[i].blkno + upd[i].bcount <= to + u
    <3> TAKE i \in DOMAIN upd
    <3>1. upd[i] \in Upd
      BY <1>8
    <3>2. upd[i].blkno \in Nat /\ upd[i].bcount \in Nat
      BY <3>1 DEF Upd
    <3> HIDE DEF to
    <3> QED BY <1>1, <1>8, <1>12, <3>2
  <2> HIDE DEF to
  <2> QED BY <1>8, <2>2, <2>6, <2>7, <2>8 DEF Rotating, n, u, d, Upd
<1> QED BY <1>13, <1>14

\* The loop of r starts in state s at block b of the disk: before it are Q turns of
\* the rotation, row more rows and, if skip = 1, the disk's own parity.
Rotates(o, r, Q, row, p, skip, b, s) ==
    LET data == o.parityunit * (o.numdisks - 1)
    IN /\ Q = r.blkno \div data
       /\ row = (r.blkno % data) \div o.parityunit
       /\ p = IF o.rottype = "LEFT" THEN o.numdisks - row - 1 ELSE row
       /\ skip \in {0, 1}
       /\ skip = 1 <=> IF o.rottype = "LEFT" THEN r.devno >= p ELSE r.devno <= p
       /\ b = r.blkno + Q * o.parityunit + skip * o.parityunit
       /\ s = [parity |-> IF skip = 1 THEN Turn(o, p) ELSE p, bcount |-> r.bcount,
               left |-> r.bcount, room |-> o.parityunit - (b % o.parityunit), updates |-> <<>>]

\* So it is where the loop begins.
LEMMA RotateStart ==
  ASSUME NEW o, NEW r, Rotatable(o, r), NEW Q, NEW row, NEW p, NEW skip, NEW b, NEW s,
         Rotates(o, r, Q, row, p, skip, b, s)
  PROVE  b \in Nat /\ Rotating(o, r, b, s)
<1> DEFINE n == o.numdisks
           u == o.parityunit
           d == r.devno
           D == u * (n - 1)
           R == r.blkno % D
           x == R % u
           L == r.blkno
<1> HIDE DEF D, R, x
<1>0. /\ n \in Nat \ {0, 1} /\ u \in Nat \ {0} /\ d \in 0..n - 1 /\ L \in Nat
      /\ r.bcount \in Nat \ {0}
  BY DEF Rotatable
<1>1. /\ n \in Nat \ {0, 1} /\ u \in Nat \ {0} /\ d \in 0..n - 1 /\ L \in Nat /\ n - 1 \in Nat \ {0}
      /\ r.bcount \in Nat \ {0}
  <2> HIDE DEF n, u, d, L
  <2> QED BY <1>0
<1>2. D \in Nat \ {0} /\ D = (n - 1) * u
  <2> HIDE DEF n, u
  <2>1. D \in Nat /\ D = (n - 1) * u
    BY <1>1 DEF D
  <2>2. 1 <= n - 1 /\ 1 \in Int /\ n - 1 \in Int /\ u \in Nat
    BY <1>1
  <2>3. 1 * u <= (n - 1) * u
    BY <2>2, MulMono
  <2> QED BY <1>1, <2>1, <2>3
<1>3. Q = L \div D /\ row = R \div u /\ R = L % D /\ x = R % u
  BY DEF D, R, x, L, u, n, Rotates
<1>4. p = IF o.rottype = "LEFT" THEN n - row - 1 ELSE row
  BY DEF n, Rotates
<1>5. b = L + Q * u + skip * u
  BY DEF L, u, Rotates
<1>6. skip \in {0, 1} /\ (skip = 1 <=> IF o.rottype = "LEFT" THEN d >= p ELSE d <= p)
  BY DEF d, Rotates
<1> HIDE DEF n, u, d, D, L
<1>7. Q \in Nat /\ R \in 0..D - 1 /\ L = Q * D + R
  <2>1. Q \in Int /\ R \in 0..D - 1 /\ L = Q * D + R
    <3>1. L \div D \in Int /\ L % D \in 0..D - 1 /\ L = (L \div D) * D + (L % D)
      <4>1. L \in Int /\ D \in Nat \ {0}
        BY <1>1, <1>2
      <4> QED BY <4>1, DivFacts
    <3> QED BY <1>3, <3>1
  <2>2. 0 * D <= L /\ 0 \in Int /\ L \in Int
    BY <1>1, <1>2
  <2>3. 0 <= L \div D
    BY <1>2, <2>2, DivAbove
  <2> QED BY <1>3, <2>1, <2>3
<1>8. row \in 0..n - 2 /\ x \in 0..u - 1 /\ R = row * u + x
  <2>1. row \in Int /\ x \in 0..u - 1 /\ R = row * u + x
    <3>1. R \div u \in Int /\ R % u \in 0..u - 1 /\ R = (R \div u) * u + (R % u)
      BY <1>1, <1>7, DivFacts
    <3> QED BY <1>3, <3>1
  <2>2. 0 * u <= R /\ 0 \in Int /\ R \in Int
    BY <1>1, <1>7
  <2>3. 0 <= R \div u
    BY <1>1, <2>2, DivAbove
  <2>4. R < (n - 1) * u /\ n - 1 \in Int
    BY <1>1, <1>2, <1>7
  <2>5. R \div u < n - 1
    BY <1>1, <2>2, <2>4, DivBelow
  <2> QED BY <1>1, <1>3, <2>1, <2>3, <2>5
<1> DEFINE k == Q * n + row + skip
           gone == Q + skip
<1>9. k \in Nat /\ gone \in Nat
  <2>1. Q * n \in Nat
    BY <1>1, <1>7
  <2> QED BY <1>6, <1>7, <1>8, <2>1
<1>10. b = k * u + x /\ b \in Nat
  <2>1. Q * D = Q * (n * u) - Q * u
    <3>1. D = n * u - u
      BY <1>1, <1>2
    <3> QED BY <1>1, <1>7, <3>1
  <2>2. k * u = Q * (n * u) + row * u + skip * u
    <3> DEFINE a == Q * n
    <3>1. a \in Int /\ a * u = Q * (n * u)
      BY <1>1, <1>7
    <3> HIDE DEF a
    <3>2. (a + row + skip) * u = a * u + row * u + skip * u
      BY <1>1, <1>6, <1>8, <3>1
    <3> QED BY <3>1, <3>2 DEF a
  <2>3. Q * (n * u) \in Int /\ Q * u \in Int /\ row * u \in Int /\ skip * u \in Int /\ x \in Int
    BY <1>1, <1>6, <1>7, <1>8
  <2>4. b = k * u + x
    <3> DEFINE e == Q * (n * u)
               f == Q * u
               g == row * u
               i == skip * u
               j == k * u
    <3>1. L = (e - f) + (g + x) /\ b = L + f + i /\ j = e + g + i
      BY <1>5, <1>7, <1>8, <2>1, <2>2
    <3>2. e \in Int /\ f \in Int /\ g \in Int /\ i \in Int /\ x \in Int
      BY <2>3
    <3> HIDE DEF e, f, g, i, j, k
    <3>3. b = j + x
      BY <3>1, <3>2
    <3> QED BY <3>3 DEF j
  <2>5. k * u \in Nat
    BY <1>1, <1>9
  <2> HIDE DEF k
  <2> QED BY <1>8, <2>4, <2>5
<1>11. b % u = x
  <2> HIDE DEF k
  <2>1. k \in Int /\ u \in Nat \ {0} /\ x \in 0..u - 1 /\ b \in Int /\ b = k * u + x
    BY <1>1, <1>8, <1>9, <1>10
  <2>2. b \div u = k /\ b % u = x
    BY <2>1, DivIs
  <2> QED BY <2>2
<1>12. p \in 0..n - 1
  BY <1>1, <1>4, <1>8
<1>13. s = [parity |-> IF skip = 1 THEN Turn(o, p) ELSE p, bcount |-> r.bcount, left |-> r.bcount,
            room |-> u - x, updates |-> <<>>]
  BY <1>11 DEF u, Rotates
<1>14. /\ s.parity \in 0..n - 1 /\ s.parity # d
       /\ (n - 1) * skip <= row + Turns(o, d, s.parity)
  <2>1. /\ o.rottype = "LEFT" => Turn(o, p) = IF p = 0 THEN n - 1 ELSE p - 1
        /\ o.rottype # "LEFT" => Turn(o, p) = IF p = n - 1 THEN 0 ELSE p + 1
    BY <1>1, <1>12, TurnTo DEF n
  <2>2. \A y : /\ o.rottype = "LEFT" => Turns(o, d, y) = IF y >= d THEN y - d ELSE y - d + n
               /\ o.rottype # "LEFT" => Turns(o, d, y) = IF d >= y THEN d - y ELSE d - y + n
    BY DEF Turns, n
  <2>3. s.parity = IF skip = 1 THEN Turn(o, p) ELSE p
    BY <1>13
  <2>4. (n - 1) * 0 = 0 /\ (n - 1) * 1 = n - 1
    BY <1>1
  <2>5. CASE skip = 0 /\ o.rottype = "LEFT"
    <3>1. s.parity = p /\ p = n - row - 1 /\ p > d
      BY <1>1, <1>4, <1>6, <1>8, <2>3, <2>5
    <3>2. Turns(o, d, p) = p - d
      BY <1>1, <1>12, <2>2, <2>5, <3>1
    <3>4. (n - 1) * skip = 0
      BY <2>4, <2>5
    <3>5. s.parity \in 0..n - 1 /\ s.parity # d
      BY <1>1, <1>8, <1>12, <3>1
    <3> QED BY <1>1, <1>8, <1>12, <3>1, <3>2, <3>4, <3>5
  <2>6. CASE skip = 0 /\ o.rottype # "LEFT"
    <3>1. s.parity = p /\ p = row /\ p < d
      BY <1>1, <1>4, <1>6, <1>8, <2>3, <2>6
    <3>2. Turns(o, d, p) = d - p
      BY <1>1, <1>12, <2>2, <2>6, <3>1
    <3>4. (n - 1) * skip = 0
      BY <2>4, <2>6
    <3>5. s.parity \in 0..n - 1 /\ s.parity # d
      BY <1>1, <1>8, <1>12, <3>1
    <3> QED BY <1>1, <1>8, <1>12, <3>1, <3>2, <3>4, <3>5
  <2>7. CASE skip = 1 /\ o.rottype = "LEFT"
    <3>1. p = n - row - 1 /\ p <= d
      BY <1>1, <1>4, <1>6, <1>8, <2>7
    <3>2. s.parity = p - 1 /\ p # 0
      BY <1>1, <1>8, <2>1, <2>3, <2>7, <3>1
    <3>3. Turns(o, d, p - 1) = p - 1 - d + n
      BY <1>1, <1>12, <2>2, <2>7, <3>1
    <3>4. (n - 1) * skip = n - 1
      BY <2>4, <2>7
    <3>5. s.parity \in 0..n - 1 /\ s.parity # d
      BY <1>1, <1>8, <1>12, <3>1, <3>2
    <3> QED BY <1>1, <1>8, <1>12, <3>1, <3>2, <3>3, <3>4, <3>5
  <2>8. CASE skip = 1 /\ o.rottype # "LEFT"
    <3>1. p = row /\ p >= d
      BY <1>1, <1>4, <1>6, <1>8, <2>8
    <3>2. s.parity = p + 1 /\ p # n - 1
      BY <1>1, <1>8, <2>1, <2>3, <2>8, <3>1
    <3>3. Turns(o, d, p + 1) = d - (p + 1) + n
      BY <1>1, <1>12, <2>2, <2>8, <3>1
    <3>4. (n - 1) * skip = n - 1
      BY <2>4, <2>8
    <3>5. s.parity \in 0..n - 1 /\ s.parity # d
      BY <1>1, <1>8, <1>12, <3>1, <3>2
    <3> QED BY <1>1, <1>8, <1>12, <3>1, <3>2, <3>3, <3>4, <3>5
  <2> QED BY <1>6, <2>5, <2>6, <2>7, <2>8
<1>15. n * gone <= k + Turns(o, d, s.parity)
  <2>1. n * gone = Q * n + n * skip /\ Q * n \in Int /\ n * skip \in Int
    BY <1>1, <1>6, <1>7
  <2>2. (n - 1) * skip = n * skip - skip
    BY <1>1, <1>6
  <2>3. Turns(o, d, s.parity) \in Int
    <3> DEFINE q == s.parity
    <3>1. q \in Int
      BY <1>1, <1>14
    <3> HIDE DEF q
    <3>2. q - d \in Int /\ q - d + n \in Int /\ d - q \in Int /\ d - q + n \in Int
      BY <1>1, <3>1
    <3>3. Turns(o, d, q) \in {q - d, q - d + n, d - q, d - q + n}
      BY DEF Turns, n
    <3>4. Turns(o, d, q) \in Int
      BY <3>2, <3>3
    <3> QED BY <3>4 DEF q
  <2> DEFINE e == Q * n
             f == n * skip
             g == Turns(o, d, s.parity)
  <2>4. n * gone = e + f /\ e \in Int /\ f \in Int /\ f - skip <= row + g /\ g \in Int
    BY <1>14, <2>1, <2>2, <2>3
  <2> HIDE DEF e, f, g, gone
  <2>5. n * gone <= e + row + skip + g
    BY <1>6, <1>8, <2>4
  <2> QED BY <2>5 DEF e, g
<1>16. b + s.bcount = L + r.bcount + gone * u
  <2>1. gone * u = Q * u + skip * u /\ Q * u \in Int /\ skip * u \in Int
    BY <1>1, <1>6, <1>7
  <2>2. s.bcount = r.bcount
    BY <1>13
  <2>3. \A y, z, v, w \in Int : y + z + v + w = y + w + (z + v)
    OBVIOUS
  <2> QED BY <1>1, <1>5, <2>1, <2>2, <2>3
<1>17. b + s.bcount - s.left = k * u + (u - s.room)
  <2>1. k * u \in Int
    BY <1>1, <1>9
  <2>2. s.bcount = r.bcount /\ s.left = r.bcount /\ s.room = u - x
    BY <1>13
  <2> HIDE DEF k
  <2> QED BY <1>1, <1>8, <1>10, <2>1, <2>2
<1>18. s.updates = <<>> /\ s.bcount \in Nat /\ s.left \in 1..s.bcount /\ s.room \in 1..u
       /\ s = [parity |-> s.parity, bcount |-> s.bcount, left |-> s.left, room |-> s.room,
               updates |-> s.updates]
  BY <1>1, <1>8, <1>13
<1> HIDE DEF k, gone
<1>19. \E k1 \in Nat, g1 \in Nat :
            /\ b + s.bcount - s.left = k1 * u + (u - s.room)
            /\ b + s.bcount = L + r.bcount + g1 * u
            /\ n * g1 <= k1 + Turns(o, d, s.parity)
  BY <1>9, <1>15, <1>16, <1>17
<1> QED BY <1>10, <1>14, <1>18, <1>19 DEF Rotating, n, u, d, L

\* The accesses of a request of which the loop ends in state s
Rotated(r, b, s) ==
    <<Access(r.devno, b, s.bcount, r.read)>>
    \o IF r.read THEN <<>> ELSE Append(s.updates, Update(r, b, s, s.left))

\* So it is where the loop ends.
LEMMA RotateRuns ==
  ASSUME NEW o, NEW r, Rotatable(o, r)
  PROVE  \E b \in Nat : \E s : Rotating(o, r, b, s) /\ RotateUpdates(o, r) = Rotated(r, b, s)
<1> DEFINE data   == o.parityunit * (o.numdisks - 1)
           Q      == r.blkno \div data
           row    == (r.blkno % data) \div o.parityunit
           parity == IF o.rottype = "LEFT" THEN o.numdisks - row - 1 ELSE row
           skips  == IF o.rottype = "LEFT" THEN r.devno >= parity ELSE r.devno <= parity
           skip   == IF skips THEN 1 ELSE 0
           b      == r.blkno + Q * o.parityunit + IF skips THEN o.parityunit ELSE 0
           s0     == [parity |-> IF skips THEN Turn(o, parity) ELSE parity, bcount |-> r.bcount,
                      left |-> r.bcount, room |-> o.parityunit - (b % o.parityunit), updates |-> <<>>]
           n      == r.bcount
           it     == CHOOSE it : RotatesOver(o, r, b, s0, n, it)
<1>1. n \in Nat \ {0} /\ n \in Nat /\ o.parityunit \in Nat
  BY DEF Rotatable
<1>2. RotateUpdates(o, r) = Rotated(r, b, it[n])
  <2>1. it = CHOOSE f : f = [k \in 0..n |-> IF k = 0 THEN s0 ELSE RotateUnit(o, r, b, f[k - 1])]
    BY DEF RotatesOver
  <2>2. RotateUpdates(o, r) = Rotated(r, b,
          (CHOOSE f : f = [k \in 0..n |-> IF k = 0 THEN s0 ELSE RotateUnit(o, r, b, f[k - 1])])[n])
    BY DEF RotateUpdates, Rotated
  <2> HIDE DEF it, b, s0
  <2> QED BY <2>1, <2>2
<1>3. RotatesOver(o, r, b, s0, n, it)
  <2> HIDE DEF b, s0, n
  <2> QED BY <1>1, RotatesExist
<1>4. Rotates(o, r, Q, row, parity, skip, b, s0)
  <2> HIDE DEF Q, row
  <2>1. skip * o.parityunit = IF skips THEN o.parityunit ELSE 0
    BY <1>1
  <2>2. b = r.blkno + Q * o.parityunit + skip * o.parityunit
    BY <2>1
  <2>3. /\ skip \in {0, 1} /\ (skip = 1 <=> skips)
        /\ s0 = [parity |-> IF skip = 1 THEN Turn(o, parity) ELSE parity, bcount |-> r.bcount,
                 left |-> r.bcount, room |-> o.parityunit - (b % o.parityunit), updates |-> <<>>]
    OBVIOUS
  <2>4. Q = r.blkno \div data /\ row = (r.blkno % data) \div o.parityunit
    BY DEF Q, row
  <2> HIDE DEF b, s0, skip
  <2> QED BY <2>2, <2>3, <2>4 DEF Rotates
<1> HIDE DEF Q, row, parity, skip, b, s0, it
<1>5. b \in Nat /\ Rotating(o, r, b, s0)
  BY <1>4, RotateStart
<1> DEFINE S == {k \in 0..n : Rotating(o, r, b, it[k])}
<1>6. it = [k \in 0..n |-> IF k = 0 THEN s0 ELSE RotateUnit(o, r, b, it[k - 1])]
  BY <1>3 DEF RotatesOver
<1> HIDE DEF n
<1>7. 0 \in S
  <2>1. it[0] = s0
    BY <1>1, <1>6
  <2> QED BY <1>1, <1>5, <2>1
<1>8. \A k \in 0..n - 1 : k \in S => k + 1 \in S
  <2> SUFFICES ASSUME NEW k \in 0..n - 1, k \in S PROVE k + 1 \in S
    OBVIOUS
  <2>1. k + 1 \in 0..n /\ k + 1 # 0 /\ (k + 1) - 1 = k
    BY <1>1
  <2>2. it[k + 1] = RotateUnit(o, r, b, it[k])
    BY <1>6, <2>1
  <2>3. Rotating(o, r, b, RotateUnit(o, r, b, it[k]))
    BY <1>5, RotateStep
  <2> QED BY <2>1, <2>2, <2>3
<1> HIDE DEF S
<1>9. n \in S
  BY <1>1, <1>7, <1>8, AllUpTo
<1> QED BY <1>2, <1>5, <1>9 DEF S

\* What parity takes up before the end X of a request leaves it on the disk: A is the
\* disk's size, E the end in blocks of data.
LEMMA RotateEnds ==
  ASSUME NEW n \in Nat \ {0, 1}, NEW u \in Nat \ {0}, NEW A \in Nat, NEW E \in Nat, NEW X \in Nat,
         NEW k \in Nat, NEW gone \in Nat,
         E <= ((A * (n - 1)) \div n) - u, X = E + gone * u, n * gone <= k + (n - 1), k * u <= X
  PROVE  X <= A
<1> DEFINE B == A * (n - 1)
           q == B \div n
<1>1. B \in Int /\ E + u <= q /\ n \in Nat \ {0}
  <2>1. B \in Int
    OBVIOUS
  <2>2. E <= q - u
    OBVIOUS
  <2> HIDE DEF q, B
  <2>3. q \in Int
    <3>1. B \div n \in Int
      BY <2>1, DivFacts
    <3> QED BY <3>1 DEF q
  <2> QED BY <2>1, <2>2, <2>3
<1> HIDE DEF B
<1>2. q \in Int /\ q * n <= B
  <2>1. B \div n \in Int /\ B % n \in 0..n - 1 /\ B = (B \div n) * n + (B % n)
    BY <1>1, DivFacts
  <2> QED BY <2>1
<1> HIDE DEF q
<1>3. (E + u) * n <= q * n
  <2>1. E + u \in Int /\ n \in Nat
    OBVIOUS
  <2> QED BY <1>1, <1>2, <2>1, MulMono
<1>4. (n * gone) * u <= (k + (n - 1)) * u
  <2>1. n * gone \in Int /\ k + (n - 1) \in Int /\ u \in Nat
    OBVIOUS
  <2> QED BY <2>1, MulMono
<1> DEFINE a == n * E
           b == n * u
           c == n * (gone * u)
           d == k * u
<1>5. /\ (E + u) * n = a + b /\ (n * gone) * u = c /\ (k + (n - 1)) * u = d + (b - u) /\ n * X = a + c
      /\ a \in Int /\ b \in Int /\ c \in Int /\ d \in Int /\ d <= X
  <2>1. (E + u) * n = n * E + n * u
    OBVIOUS
  <2>2. (n * gone) * u = n * (gone * u)
    OBVIOUS
  <2>3. (k + (n - 1)) * u = k * u + (n * u - u)
    OBVIOUS
  <2>4. n * X = n * E + n * (gone * u)
    OBVIOUS
  <2>5. n * E \in Int /\ n * u \in Int /\ n * (gone * u) \in Int /\ k * u \in Int /\ k * u <= X
    OBVIOUS
  <2> QED BY <2>1, <2>2, <2>3, <2>4, <2>5
<1> HIDE DEF a, b, c, d
<1>6. n * X <= B - u + X
  <2>1. a + b <= B /\ c <= d + (b - u)
    BY <1>1, <1>2, <1>3, <1>4, <1>5
  <2>2. a + c <= B - u + X
    BY <1>1, <1>5, <2>1
  <2> QED BY <1>5, <2>2
<1>7. X * (n - 1) < A * (n - 1)
  <2>1. X * (n - 1) = n * X - X /\ n * X \in Int
    OBVIOUS
  <2>2. X * (n - 1) < B
    BY <1>1, <1>6, <2>1
  <2> QED BY <2>2 DEF B
<1>8. n - 1 \in Nat \ {0}
  OBVIOUS
<1>9. X < A
  BY <1>7, <1>8, MulLess
<1> QED BY <1>9

\* The request r, of a device of the organisation, keeps to the blocks of data.
Kept(o, r) ==
    /\ r.devno \in Nat /\ r.blkno \in Nat /\ r.bcount \in Nat \ {0} /\ r.read \in BOOLEAN
    /\ IF o.addrbyparts THEN r.devno <= o.numdisks - 1 /\ r.blkno + r.bcount <= o.blksperpart
                        ELSE r.blkno + r.bcount <= o.blksperpart * o.numdisks

\* A sequence and one element before it
LEMMA HeadAndTail ==
  ASSUME NEW S, NEW x \in S, NEW t \in Seq(S)
  PROVE  /\ <<x>> \o t \in Seq(S) /\ Len(<<x>> \o t) = Len(t) + 1 /\ (<<x>> \o t)[1] = x
         /\ \A i \in 1..Len(t) : (<<x>> \o t)[i + 1] = t[i]
<1> DEFINE w == <<x>>
<1>1. w \in Seq(S) /\ Len(w) = 1 /\ w[1] = x
  OBVIOUS
<1> HIDE DEF w
<1>2. /\ w \o t \in Seq(S) /\ Len(w \o t) = Len(w) + Len(t)
      /\ \A i \in 1..Len(w) + Len(t) : (w \o t)[i] = IF i <= Len(w) THEN w[i] ELSE t[i - Len(w)]
  BY <1>1, ConcatProperties
<1>3. Len(t) \in Nat
  OBVIOUS
<1>4. \A i \in 1..Len(t) : i + 1 \in 1..1 + Len(t) /\ ~(i + 1 <= 1) /\ (i + 1) - 1 = i
  BY <1>3
<1>5. 1 \in 1..1 + Len(t) /\ 1 + Len(t) = Len(t) + 1
  BY <1>3
<1>6. \A i \in 1..Len(t) : (w \o t)[i + 1] = t[i]
  BY <1>1, <1>2, <1>4
<1>7. w \o t \in Seq(S) /\ Len(w \o t) = Len(t) + 1 /\ (w \o t)[1] = x
  BY <1>1, <1>2, <1>5
<1> QED BY <1>6, <1>7 DEF w

\* Where the loop ends, the accesses are on the disks, no two at the same place.
LEMMA RotatedLayout ==
  ASSUME NEW o, OrgOK(o), DataLeft(o), o.reduntype = "PARITY_ROTATED", NEW r, Kept(o, r)
  PROVE  Layout(o, RotateUpdates(o, r)) /\ RotateUpdates(o, r)[1].read = r.read
<1> DEFINE n == o.numdisks
           u == o.parityunit
           A == o.actualblksperpart
           d == r.devno
           E == r.blkno + r.bcount
<1>1. /\ n = o.actualnumdisks /\ n \in Nat \ {0} /\ u \in Nat \ {0} /\ A \in Nat \ {0}
      /\ d \in Nat /\ r.blkno \in Nat /\ r.bcount \in Nat \ {0} /\ r.read \in BOOLEAN /\ E \in Nat
      /\ d <= n - 1 /\ E <= ((A * (n - 1)) \div n) - u
  BY DEF OrgOK, DataLeft, Kept
<1> HIDE DEF n, u, A, E, d
<1>2. n # 1
  <2>1. SUFFICES ASSUME n = 1 PROVE FALSE
    OBVIOUS
  <2>2. A * (n - 1) = 0
    BY <1>1, <2>1
  <2>3. (A * (n - 1)) \div n = 0
    BY <2>1, <2>2
  <2> QED BY <1>1, <2>3
<1>3. Rotatable(o, r)
  BY <1>1, <1>2 DEF Rotatable, n, u, d
<1>30. PICK b \in Nat : \E s : Rotating(o, r, b, s) /\ RotateUpdates(o, r) = Rotated(r, b, s)
  BY <1>3, RotateRuns
<1>4. PICK s : Rotating(o, r, b, s) /\ RotateUpdates(o, r) = Rotated(r, b, s)
  BY <1>30
<1> DEFINE X == b + s.bcount
           at == b + s.bcount - s.left
           Upd == [devno : (0..n - 1) \ {d}, blkno : Nat, bcount : Nat \ {0}, read : {r.read}]
           head == Access(d, b, s.bcount, r.read)
           last == Update(r, b, s, s.left)
           upd == Append(s.updates, last)
<1>5. /\ s.parity \in 0..n - 1 /\ s.parity # d
      /\ s.bcount \in Nat /\ s.left \in 1..s.bcount /\ s.room \in 1..u
  BY <1>4 DEF Rotating, n, u, d
<1>6. PICK k \in Nat, gone \in Nat :
            /\ at = k * u + (u - s.room)
            /\ X = r.blkno + r.bcount + gone * u
            /\ n * gone <= k + Turns(o, d, s.parity)
  BY <1>4 DEF Rotating, n, u, d
<1>7. /\ s.updates \in Seq(Upd)
      /\ \A i \in DOMAIN s.updates : s.updates[i].blkno + s.updates[i].bcount <= at
      /\ \A i, j \in DOMAIN s.updates : i < j => s.updates[i].blkno < s.updates[j].blkno
  BY <1>4 DEF Rotating, n, d
<1>8. at \in Nat /\ X = at + s.left /\ X \in Nat
  BY <1>5
<1>9. X <= A
  <2>1. Turns(o, d, s.parity) <= n - 1 /\ Turns(o, d, s.parity) \in Int
    <3>1. Turns(o, d, s.parity) \in 1..n - 1
      <4>1. n \in Nat \ {0, 1} /\ d \in 0..n - 1
        BY <1>1, <1>2
      <4> QED BY <1>5, <4>1, TurnFacts DEF n
    <3> QED BY <1>1, <3>1
  <2>2. n * gone <= k + (n - 1)
    <3>1. n * gone \in Int
      BY <1>1
    <3> QED BY <1>1, <1>6, <2>1, <3>1
  <2>3. k * u <= X
    <3>1. k * u \in Int
      BY <1>1
    <3> HIDE DEF at, X
    <3> QED BY <1>1, <1>5, <1>6, <1>8, <3>1
  <2>4. X = E + gone * u
    BY <1>6 DEF E
  <2> HIDE DEF X
  <2>5. n \in Nat \ {0, 1} /\ A \in Nat
    BY <1>1, <1>2
  <2> QED BY <1>1, <1>8, <2>2, <2>3, <2>4, <2>5, RotateEnds
<1> HIDE DEF X, at, Upd
<1>10. head = [devno |-> d, blkno |-> b, bcount |-> s.bcount, read |-> r.read]
  BY DEF Access
<1>11. last = [devno |-> s.parity, blkno |-> at, bcount |-> s.left, read |-> r.read]
  BY DEF Update, Access, at
<1>12. head \in OnMembers(o) /\ b + s.bcount = X
  <2>1. d \in Disks(o)
    BY <1>1 DEF Disks, n
  <2>2. s.bcount \in Nat \ {0} /\ b + s.bcount = X
    BY <1>5 DEF X
  <2> QED BY <1>1, <1>9, <1>10, <2>1, <2>2 DEF OnMembers, A
<1> HIDE DEF head
<1>13. ASSUME NEW e \in Upd, e.blkno + e.bcount <= X
       PROVE  e \in OnMembers(o) /\ e.devno # d /\ e.read = r.read
  <2>1. e.devno \in (0..n - 1) \ {d} /\ e.blkno \in Nat /\ e.bcount \in Nat \ {0} /\ e.read = r.read
    BY DEF Upd
  <2>2. e \in [devno : Disks(o), blkno : Nat, bcount : Nat \ {0}, read : BOOLEAN]
    <3>1. 0..n - 1 \subseteq Disks(o)
      BY <1>1 DEF Disks, n
    <3> QED BY <1>1, <3>1 DEF Upd
  <2>3. e.blkno + e.bcount <= A
    BY <1>1, <1>8, <1>9, <1>13, <2>1
  <2> QED BY <2>1, <2>2, <2>3 DEF OnMembers, A
<1>14. last \in Upd /\ last.blkno = at /\ last.blkno + last.bcount <= X
  BY <1>1, <1>5, <1>8, <1>11 DEF Upd
<1> HIDE DEF last
<1> DEFINE l == Len(s.updates)
<1>15. /\ l \in Nat /\ upd \in Seq(Upd) /\ Len(upd) = l + 1 /\ upd[l + 1] = last
       /\ \A i \in 1..l : upd[i] = s.updates[i] /\ upd[i] \in Upd /\ i \in DOMAIN s.updates
  <2> DEFINE v == s.updates
  <2>1. v \in Seq(Upd)
    BY <1>7
  <2> HIDE DEF v
  <2>2. /\ Append(v, last) \in Seq(Upd) /\ Len(v) \in Nat /\ DOMAIN v = 1..Len(v)
        /\ Len(Append(v, last)) = Len(v) + 1 /\ Append(v, last)[Len(v) + 1] = last
    BY <1>14, <2>1
  <2>3. \A i \in 1..Len(v) : Append(v, last)[i] = v[i] /\ v[i] \in Upd
    BY <1>14, <2>1
  <2> QED BY <2>2, <2>3 DEF v
<1> HIDE DEF upd, l
<1>16. \A i \in 1..l : upd[i].blkno \in Nat /\ upd[i].bcount \in Nat \ {0} /\ upd[i].blkno < at
                       /\ upd[i].blkno + upd[i].bcount <= X
  <2> TAKE i \in 1..l
  <2>1. upd[i].blkno \in Nat /\ upd[i].bcount \in Nat \ {0}
    BY <1>15 DEF Upd
  <2>2. upd[i].blkno + upd[i].bcount <= at
    BY <1>7, <1>15
  <2> QED BY <1>5, <1>8, <2>1, <2>2
<1>17. \A i \in 1..l + 1 : upd[i] \in OnMembers(o) /\ upd[i].devno # d /\ upd[i].read = r.read
  <2> TAKE i \in 1..l + 1
  <2>1. CASE i \in 1..l
    BY <1>13, <1>15, <1>16, <2>1
  <2>2. CASE i = l + 1
    BY <1>13, <1>14, <1>15, <2>2
  <2> QED BY <1>15, <2>1, <2>2
<1>18. \A i, j \in 1..l + 1 : i < j => upd[i].blkno < upd[j].blkno
  <2> SUFFICES ASSUME NEW i \in 1..l + 1, NEW j \in 1..l + 1, i < j PROVE upd[i].blkno < upd[j].blkno
    OBVIOUS
  <2>0. i \in 1..l
    BY <1>15
  <2>1. CASE j \in 1..l
    BY <1>7, <1>15, <2>0, <2>1
  <2>2. CASE j = l + 1
    BY <1>14, <1>15, <1>16, <2>0, <2>2
  <2> QED BY <1>15, <2>1, <2>2
<1> DEFINE m == Rotated(r, b, s)
<1>19. CASE r.read
  <2>1. m = <<head>> \o <<>>
    BY <1>19 DEF Rotated, head, d
  <2>2. m = <<head>>
    BY <2>1
  <2> HIDE DEF m
  <2>3. Len(m) = 1 /\ DOMAIN m = {1} /\ m[1] = head /\ m \in Seq(OnMembers(o))
    BY <1>12, <2>2
  <2>4. m # <<>> /\ head.read = r.read
    BY <1>10, <2>2
  <2>5. Layout(o, m)
    BY <2>3, <2>4 DEF Layout
  <2> QED BY <1>4, <2>3, <2>4, <2>5 DEF m
<1>20. CASE ~r.read
  <2>1. m = <<head>> \o upd
    BY <1>20 DEF Rotated, head, d, upd, last
  <2>2. upd \in Seq(OnMembers(o))
    <3>1. \A i \in 1..Len(upd) : upd[i] \in OnMembers(o)
      BY <1>15, <1>17
    <3>2. upd \in Seq(Upd)
      BY <1>15
    <3>3. upd = [i \in 1..Len(upd) |-> upd[i]] /\ Len(upd) \in Nat
      BY <3>2
    <3> QED BY <3>1, <3>3
  <2> HIDE DEF m
  <2>3. /\ m \in Seq(OnMembers(o)) /\ Len(m) = l + 2 /\ m[1] = head /\ m # <<>> /\ DOMAIN m = 1..l + 2
        /\ \A i \in 1..l + 1 : m[i + 1] = upd[i]
    <3>1. /\ m \in Seq(OnMembers(o)) /\ Len(m) = Len(upd) + 1 /\ m[1] = head
          /\ \A i \in 1..Len(upd) : m[i + 1] = upd[i]
      BY <1>12, <2>1, <2>2, HeadAndTail
    <3> QED BY <1>15, <3>1
  <2>4. head.devno = d /\ head.read = r.read
    BY <1>10
  <2>5. \A i \in 2..l + 2 : i - 1 \in 1..l + 1 /\ m[i] = upd[i - 1]
    BY <1>15, <2>3
  <2>6. \A i \in DOMAIN m : m[i].read = r.read
    BY <1>15, <1>17, <2>3, <2>4, <2>5
  <2>7. \A i, j \in DOMAIN m : SamePlace(m[i], m[j]) => i = j
    <3> SUFFICES ASSUME NEW i \in 1..l + 2, NEW j \in 1..l + 2, i < j, SamePlace(m[i], m[j]) PROVE FALSE
      BY <1>15, <2>3 DEF SamePlace
    <3>1. j \in 2..l + 2
      BY <1>15
    <3>2. CASE i = 1
      BY <1>17, <2>3, <2>4, <2>5, <3>1, <3>2 DEF SamePlace
    <3>3. CASE i # 1
      <4>1. i \in 2..l + 2 /\ i - 1 < j - 1
        BY <1>15, <3>3
      <4>2. upd[i - 1].blkno < upd[j - 1].blkno
        BY <1>18, <2>5, <3>1, <4>1
      <4>3. upd[i - 1].blkno = upd[j - 1].blkno
        BY <2>5, <3>1, <4>1 DEF SamePlace
      <4>4. upd[i - 1].blkno \in Nat
        BY <1>17, <2>5, <4>1 DEF OnMembers
      <4> QED BY <4>2, <4>3, <4>4
    <3> QED BY <3>2, <3>3
  <2>8. Layout(o, m)
    <3>1. 1 \in DOMAIN m
      BY <1>15, <2>3
    <3> QED BY <2>3, <2>6, <2>7, <3>1 DEF Layout
  <2> QED BY <1>4, <2>3, <2>4, <2>8 DEF m
<1> QED BY <1>19, <1>20

(***************************************************************************)
(* Data without parity, copies and a parity disk.                           *)
(***************************************************************************)

\* Accesses to the disks of data
DataAccess(o) == [devno : 0..o.numdisks - 1, blkno : Nat, bcount : Nat \ {0}, read : BOOLEAN]

\* The accesses to the data alone: at most one for each disk
Dealt(o, r, m) ==
    /\ m \in Seq(DataAccess(o)) /\ m # <<>>
    /\ \A i \in DOMAIN m : m[i].blkno + m[i].bcount <= o.actualblksperpart /\ m[i].read = r.read
    /\ \A i, j \in DOMAIN m : m[i].devno = m[j].devno => i = j

\* What that says of each access
LEMMA DealtFacts ==
  ASSUME NEW o, OrgOK(o), NEW r, NEW m, Dealt(o, r, m)
  PROVE  /\ Len(m) \in Nat \ {0} /\ DOMAIN m = 1..Len(m) /\ 1 \in DOMAIN m /\ o.numdisks \in Nat \ {0}
         /\ \A i \in DOMAIN m : /\ m[i] \in DataAccess(o) /\ m[i].devno \in 0..o.numdisks - 1 /\ m[i].blkno \in Nat
                                /\ m[i].bcount \in Nat \ {0} /\ m[i].read = r.read /\ r.read \in BOOLEAN
                                /\ m[i].blkno + m[i].bcount <= o.actualblksperpart
<1>1. Len(m) \in Nat \ {0} /\ DOMAIN m = 1..Len(m) /\ 1 \in DOMAIN m
  BY DEF Dealt
<1>2. \A i \in DOMAIN m : m[i] \in DataAccess(o)
  BY DEF Dealt
<1>3. \A i \in DOMAIN m : /\ m[i].devno \in 0..o.numdisks - 1 /\ m[i].blkno \in Nat
                          /\ m[i].bcount \in Nat \ {0} /\ m[i].read \in BOOLEAN
  BY <1>2 DEF DataAccess
<1>4. o.numdisks \in Nat \ {0}
  <2>1. m[1].devno \in 0..o.numdisks - 1 /\ o.numdisks \in Nat
    BY <1>1, <1>3 DEF OrgOK
  <2> QED BY <2>1
<1> QED BY <1>1, <1>2, <1>3, <1>4 DEF Dealt

\* The accesses alone are a layout, if the data may be on all the disks.
LEMMA DealtLayout ==
  ASSUME NEW o, OrgOK(o), NEW r, NEW m, Dealt(o, r, m), o.numdisks <= o.actualnumdisks
  PROVE  Layout(o, m) /\ m[1].read = r.read
<1>1. \A i \in DOMAIN m : m[i] \in OnMembers(o)
  <2>1. 0..o.numdisks - 1 \subseteq Disks(o)
    BY DEF OrgOK, Disks
  <2> TAKE i \in DOMAIN m
  <2>2. m[i] \in [devno : Disks(o), blkno : Nat, bcount : Nat \ {0}, read : BOOLEAN]
    BY <2>1, DealtFacts DEF DataAccess
  <2> QED BY <2>2, DealtFacts DEF OnMembers
<1>2. m \in Seq(OnMembers(o))
  <2>1. m = [i \in 1..Len(m) |-> m[i]] /\ Len(m) \in Nat /\ DOMAIN m = 1..Len(m)
    BY DEF Dealt
  <2> QED BY <1>1, <2>1
<1> QED BY <1>2, DealtFacts DEF Layout, Dealt, SamePlace

\* An access on a copy is on a disk of the organisation, and tells which copy.
LEMMA OnCopyFacts ==
  ASSUME NEW o, OrgOK(o), o.numdisks * o.copies = o.actualnumdisks, NEW r, NEW m, Dealt(o, r, m),
         NEW i \in DOMAIN m, NEW c \in 0..o.copies - 1
  PROVE  /\ OnCopy(o, m[i], c) \in OnMembers(o) /\ OnCopy(o, m[i], c).read = r.read
         /\ OnCopy(o, m[i], c).devno % o.numdisks = m[i].devno
         /\ OnCopy(o, m[i], c).devno \div o.numdisks = c
<1> DEFINE n == o.numdisks
           C == o.copies
           d == m[i].devno
           a == OnCopy(o, m[i], c)
<1>1. n \in Nat \ {0} /\ C \in Nat \ {0, 1} /\ d \in 0..n - 1 /\ n * C = o.actualnumdisks
  BY DealtFacts DEF OrgOK
<1>2. m[i] \in DataAccess(o) /\ m[i].read = r.read /\ m[i].blkno + m[i].bcount <= o.actualblksperpart
  BY DealtFacts
<1> HIDE DEF n, C
<1>3. a = [m[i] EXCEPT !.devno = d + c * n]
  BY DEF OnCopy, n
<1>4. d + c * n \in 0..n * C - 1
  <2>1. c * n \in Nat
    BY <1>1 DEF C
  <2>2. c <= C - 1 /\ c \in Int /\ C - 1 \in Int /\ n \in Nat
    BY <1>1 DEF C
  <2>3. c * n <= (C - 1) * n
    BY <2>2, MulMono
  <2>4. (C - 1) * n = n * C - n /\ n * C \in Int
    BY <1>1
  <2> HIDE DEF d
  <2> QED BY <1>1, <2>1, <2>3, <2>4
<1> HIDE DEF a, d
<1>5. a.devno = d + c * n /\ a.blkno = m[i].blkno /\ a.bcount = m[i].bcount /\ a.read = m[i].read
  BY <1>2, <1>3 DEF DataAccess
<1>6. a \in OnMembers(o)
  <2>1. d + c * n \in Disks(o)
    BY <1>1, <1>4 DEF Disks
  <2>2. a \in [devno : Disks(o), blkno : Nat, bcount : Nat \ {0}, read : BOOLEAN]
    BY <1>2, <1>3, <2>1 DEF DataAccess
  <2> QED BY <1>2, <1>5, <2>2 DEF OnMembers
<1>7. (d + c * n) \div n = c /\ (d + c * n) % n = d
  <2>1. c \in Int /\ n \in Nat \ {0} /\ d \in 0..n - 1 /\ d + c * n \in Int
    BY <1>1, <1>4
  <2>2. d + c * n = c * n + d
    <3>1. c * n \in Int /\ d \in Int
      BY <2>1
    <3> QED BY <3>1
  <2> QED BY <2>1, <2>2, DivIs
<1>8. a.devno % n = d /\ a.devno \div n = c
  BY <1>5, <1>7
<1> QED BY <1>2, <1>5, <1>6, <1>8 DEF a, d, n

\* Each access is sent to the copy that c names.
OnCopies(o, m, c) == [i \in DOMAIN m |-> OnCopy(o, m[i], c[i])]

\* Whatever copies are read
LEMMA ShadowReads ==
  ASSUME NEW o, OrgOK(o), o.numdisks * o.copies = o.actualnumdisks, NEW r, NEW m, Dealt(o, r, m),
         NEW turn \in 0..o.copies - 1, NEW c \in CopyChoices(o, Len(m), turn),
         NEW l, l = OnCopies(o, m, c)
  PROVE  Layout(o, l) /\ l[1].read = r.read
<1>1. Len(m) \in Nat \ {0} /\ DOMAIN m = 1..Len(m) /\ 1 \in DOMAIN m
  BY DealtFacts
<1>2. \A i \in 1..Len(m) : c[i] \in 0..o.copies - 1
  <2>1. o.copies \in Nat \ {0}
    BY DEF OrgOK
  <2>2. CASE o.copychoice = "PRIMARY"
    BY <2>1, <2>2 DEF CopyChoices
  <2>3. CASE o.copychoice = "ROUNDROBIN"
    <3>1. c = [i \in 1..Len(m) |-> (turn + (i - 1)) % o.copies]
      BY <2>3 DEF CopyChoices
    <3>2. \A i \in 1..Len(m) : turn + (i - 1) \in Int
      BY <2>1
    <3>3. \A x \in Int : x % o.copies \in 0..o.copies - 1
      BY <2>1, ModRange
    <3> QED BY <3>1, <3>2, <3>3
  <2>4. CASE o.copychoice \notin {"PRIMARY", "ROUNDROBIN"}
    <3>1. c \in [1..Len(m) -> 0..o.copies - 1]
      BY <2>4 DEF CopyChoices
    <3> QED BY <3>1
  <2> QED BY <2>2, <2>3, <2>4
<1>3. \A i \in DOMAIN m : /\ l[i] \in OnMembers(o) /\ l[i].read = r.read
                          /\ l[i].devno % o.numdisks = m[i].devno
  <2> TAKE i \in DOMAIN m
  <2>1. c[i] \in 0..o.copies - 1
    BY <1>1, <1>2
  <2>2. l[i] = OnCopy(o, m[i], c[i])
    BY DEF OnCopies
  <2>3. /\ OnCopy(o, m[i], c[i]) \in OnMembers(o) /\ OnCopy(o, m[i], c[i]).read = r.read
        /\ OnCopy(o, m[i], c[i]).devno % o.numdisks = m[i].devno
    BY <2>1, OnCopyFacts
  <2> QED BY <2>2, <2>3
<1>4. DOMAIN l = 1..Len(m) /\ l = [i \in 1..Len(m) |-> l[i]]
  BY <1>1 DEF OnCopies
<1>5. l \in Seq(OnMembers(o)) /\ l # <<>>
  <2> DEFINE k == Len(m)
  <2>1. k \in Nat \ {0} /\ DOMAIN l = 1..k /\ l = [i \in 1..k |-> l[i]] /\ \A i \in 1..k : l[i] \in OnMembers(o)
    BY <1>1, <1>3, <1>4
  <2> HIDE DEF k
  <2> QED BY <2>1
<1>6. \A i, j \in DOMAIN l : SamePlace(l[i], l[j]) => i = j
  BY <1>1, <1>3, <1>4 DEF SamePlace, Dealt
<1> QED BY <1>1, <1>3, <1>4, <1>5, <1>6 DEF Layout

\* Every copy is written.
LEMMA ShadowWrites ==
  ASSUME NEW o, OrgOK(o), o.numdisks * o.copies = o.actualnumdisks, NEW r, NEW m, Dealt(o, r, m)
  PROVE  Layout(o, OnEveryCopy(o, m)) /\ OnEveryCopy(o, m)[1].read = r.read
<1> DEFINE C == o.copies
           N == Len(m) * C
           l == OnEveryCopy(o, m)
           at(i) == ((i - 1) \div C) + 1
           copy(i) == (i - 1) % C
<1>1. C \in Nat \ {0} /\ Len(m) \in Nat \ {0} /\ DOMAIN m = 1..Len(m)
  BY DealtFacts DEF OrgOK
<1>2. N \in Nat /\ 1 \in 1..N
  <2> DEFINE k == Len(m)
  <2>1. k \in Nat \ {0} /\ 1 \in Int /\ k \in Int /\ 1 <= k /\ C \in Nat
    BY <1>1
  <2> HIDE DEF k, C
  <2>2. 1 * C <= k * C /\ k * C \in Nat
    BY <2>1, MulMono
  <2>3. k * C \in Nat /\ 1 \in 1..k * C
    BY <1>1, <2>2
  <2> QED BY <2>3 DEF k
<1>3. l = [i \in 1..N |-> OnCopy(o, m[at(i)], copy(i))]
  BY DEF OnEveryCopy
<1> HIDE DEF l, N, C
<1>4. \A i \in 1..N : at(i) \in DOMAIN m /\ copy(i) \in 0..C - 1 /\ i - 1 = (at(i) - 1) * C + copy(i)
  <2> TAKE i \in 1..N
  <2>1. i - 1 \in Nat /\ i - 1 < N
    BY <1>2
  <2> DEFINE x == i - 1
             k == Len(m)
  <2>2. x \in Int /\ 0 * C <= x /\ x < k * C /\ 0 \in Int /\ k \in Int
    BY <1>1, <2>1 DEF N
  <2> HIDE DEF x, k
  <2>3. 0 <= x \div C /\ x \div C < k
    BY <1>1, <2>2, DivAbove, DivBelow
  <2>4. x \div C \in Int /\ x % C \in 0..C - 1 /\ x = (x \div C) * C + (x % C)
    BY <1>1, <2>2, DivFacts
  <2> DEFINE q == x \div C
  <2>5. q \in Int /\ q >= 0 /\ q < k /\ x = q * C + (x % C)
    BY <2>3, <2>4
  <2> HIDE DEF q
  <2>6. q + 1 \in 1..k /\ (q + 1) - 1 = q
    BY <2>2, <2>5
  <2>7. q + 1 \in 1..k /\ x = ((q + 1) - 1) * C + (x % C)
    BY <2>5, <2>6
  <2> QED BY <1>1, <2>4, <2>7 DEF x, k, q
<1> HIDE DEF at, copy
<1>5. \A i \in 1..N : /\ l[i] \in OnMembers(o) /\ l[i].read = r.read
                      /\ l[i].devno % o.numdisks = m[at(i)].devno /\ l[i].devno \div o.numdisks = copy(i)
  <2> TAKE i \in 1..N
  <2>1. at(i) \in DOMAIN m /\ copy(i) \in 0..o.copies - 1
    BY <1>4 DEF C
  <2>2. /\ OnCopy(o, m[at(i)], copy(i)) \in OnMembers(o) /\ OnCopy(o, m[at(i)], copy(i)).read = r.read
        /\ OnCopy(o, m[at(i)], copy(i)).devno % o.numdisks = m[at(i)].devno
        /\ OnCopy(o, m[at(i)], copy(i)).devno \div o.numdisks = copy(i)
    BY <2>1, OnCopyFacts
  <2>3. l[i] = OnCopy(o, m[at(i)], copy(i))
    BY <1>3
  <2> QED BY <2>2, <2>3
<1>6. \A i, j \in 1..N : SamePlace(l[i], l[j]) => i = j
  <2> TAKE i, j \in 1..N
  <2> HAVE SamePlace(l[i], l[j])
  <2>1. m[at(i)].devno = m[at(j)].devno /\ copy(i) = copy(j)
    BY <1>5 DEF SamePlace
  <2>2. at(i) = at(j)
    BY <1>4, <2>1 DEF Dealt
  <2>3. i - 1 = j - 1
    BY <1>4, <2>1, <2>2
  <2> QED BY <1>2, <2>3
<1>7. l \in Seq(OnMembers(o)) /\ l # <<>> /\ DOMAIN l = 1..N
  <2>1. l = [i \in 1..N |-> l[i]] /\ DOMAIN l = 1..N
    BY <1>3
  <2> QED BY <1>2, <1>5, <2>1
<1>8. Layout(o, l)
  BY <1>2, <1>5, <1>6, <1>7 DEF Layout
<1> QED BY <1>2, <1>5, <1>8 DEF l

\* The parity disk comes second.
LEMMA ParityDiskLayout ==
  ASSUME NEW o, OrgOK(o), o.numdisks = o.actualnumdisks - 1, NEW r, NEW m, Dealt(o, r, m)
  PROVE  Layout(o, ParityDisk(o, m)) /\ ParityDisk(o, m)[1].read = r.read
<1>1. /\ Len(m) \in Nat \ {0} /\ DOMAIN m = 1..Len(m) /\ 1 \in DOMAIN m
      /\ \A i \in DOMAIN m : m[i].read = r.read
  BY DealtFacts
<1>2. Layout(o, m)
  <2>1. o.numdisks <= o.actualnumdisks
    BY DEF OrgOK
  <2> QED BY <2>1, DealtLayout
<1>3. CASE m[1].read
  BY <1>1, <1>2, <1>3 DEF ParityDisk
<1>4. CASE ~m[1].read
  <2> DEFINE p == [m[1] EXCEPT !.devno = o.numdisks]
             t == Tail(m)
             l == ParityDisk(o, m)
             k == Len(m)
  <2>0. o.numdisks \in Nat \ {0} /\ o.numdisks \in Disks(o)
    BY DealtFacts DEF Disks, OrgOK
  <2>1. /\ p \in OnMembers(o) /\ p.devno = o.numdisks /\ p.read = r.read
    <3>1. m[1] \in DataAccess(o) /\ m[1].read = r.read /\ m[1].blkno + m[1].bcount <= o.actualblksperpart
      BY <1>1, DealtFacts
    <3>2. p \in [devno : Disks(o), blkno : Nat, bcount : Nat \ {0}, read : BOOLEAN]
      BY <2>0, <3>1 DEF DataAccess
    <3>3. p.blkno = m[1].blkno /\ p.bcount = m[1].bcount /\ p.devno = o.numdisks /\ p.read = r.read
      BY <3>1 DEF DataAccess
    <3> QED BY <3>1, <3>2, <3>3 DEF OnMembers
  <2> HIDE DEF p
  <2>2. /\ m \in Seq(OnMembers(o)) /\ t \in Seq(OnMembers(o)) /\ Len(t) = k - 1
        /\ \A i \in 1..k - 1 : t[i] = m[i + 1]
    BY <1>1, <1>2 DEF Layout
  <2>3. l = <<m[1], p>> \o t
    BY <1>4 DEF ParityDisk, p
  <2> HIDE DEF t
  <2>4. /\ l \in Seq(OnMembers(o)) /\ Len(l) = k + 1 /\ l[1] = m[1] /\ l[2] = p
        /\ \A i \in 3..k + 1 : l[i] = m[i - 1]
    <3> DEFINE w == <<m[1], p>>
    <3>1. w \in Seq(OnMembers(o)) /\ Len(w) = 2 /\ w[1] = m[1] /\ w[2] = p
      BY <1>1, <2>1, <2>2
    <3> HIDE DEF w
    <3>2. /\ w \o t \in Seq(OnMembers(o)) /\ Len(w \o t) = Len(w) + Len(t)
          /\ \A i \in 1..Len(w) + Len(t) : (w \o t)[i] = IF i <= Len(w) THEN w[i] ELSE t[i - Len(w)]
      BY <2>2, <3>1, ConcatProperties
    <3>3. l = w \o t
      BY <2>3 DEF w
    <3> HIDE DEF l
    <3>4. Len(l) = k + 1 /\ 2 + (k - 1) = k + 1 /\ 1 \in 1..k + 1 /\ 2 \in 1..k + 1
      BY <1>1, <2>2, <3>1, <3>2, <3>3
    <3>5. l[1] = m[1] /\ l[2] = p
      BY <2>2, <3>1, <3>2, <3>3, <3>4
    <3>6. \A i \in 3..k + 1 : l[i] = m[i - 1]
      <4> TAKE i \in 3..k + 1
      <4>1. i \in 1..k + 1 /\ ~(i <= 2) /\ i - 2 \in 1..k - 1 /\ (i - 2) + 1 = i - 1
        BY <1>1
      <4>2. l[i] = t[i - 2]
        BY <2>2, <3>1, <3>2, <3>3, <3>4, <4>1
      <4>3. t[i - 2] = m[(i - 2) + 1]
        BY <2>2, <4>1
      <4> QED BY <4>1, <4>2, <4>3
    <3> QED BY <3>2, <3>3, <3>4, <3>5, <3>6
  <2> HIDE DEF l
  <2>5. DOMAIN l = 1..k + 1 /\ l # <<>> /\ 1 \in 1..k + 1
    BY <1>1, <2>4
  <2>6. \A i \in 1..k + 1 : l[i].read = r.read
    <3> TAKE i \in 1..k + 1
    <3>1. CASE i = 1
      BY <1>1, <2>4, <3>1
    <3>2. CASE i = 2
      BY <2>1, <2>4, <3>2
    <3>3. CASE i \in 3..k + 1
      <4>1. i - 1 \in DOMAIN m
        BY <1>1, <3>3
      <4> QED BY <1>1, <2>4, <3>3, <4>1
    <3> QED BY <1>1, <3>1, <3>2, <3>3
  <2>7. \A i, j \in 1..k + 1 : l[i].devno = l[j].devno => i = j
    <3> SUFFICES ASSUME NEW i \in 1..k + 1, NEW j \in 1..k + 1, i < j, l[i].devno = l[j].devno PROVE FALSE
      BY <1>1
    <3> DEFINE old(x) == IF x = 1 THEN 1 ELSE x - 1
    <3>1. \A x \in 1..k + 1 : x # 2 => old(x) \in DOMAIN m /\ l[x] = m[old(x)]
      <4> SUFFICES ASSUME NEW x \in 1..k + 1, x # 2 PROVE old(x) \in DOMAIN m /\ l[x] = m[old(x)]
        OBVIOUS
      <4>1. CASE x = 1
        BY <1>1, <2>4, <4>1
      <4>2. CASE x # 1
        <5>1. x \in 3..k + 1 /\ x - 1 \in 1..k
          BY <1>1, <4>2
        <5> QED BY <1>1, <2>4, <4>2, <5>1
      <4> QED BY <4>1, <4>2
    <3>2. \A x \in DOMAIN m : m[x].devno # o.numdisks
      <4>1. \A x \in DOMAIN m : m[x].devno \in 0..o.numdisks - 1
        BY DealtFacts
      <4> QED BY <2>0, <4>1
    <3>3. CASE i = 2 \/ j = 2
      BY <2>1, <2>4, <3>1, <3>2, <3>3
    <3>4. CASE i # 2 /\ j # 2
      <4>1. old(i) = old(j)
        BY <3>1, <3>4 DEF Dealt
      <4> QED BY <1>1, <3>4, <4>1
    <3> QED BY <3>3, <3>4
  <2>8. Layout(o, l)
    BY <1>1, <2>4, <2>5, <2>6, <2>7 DEF Layout, SamePlace
  <2> QED BY <1>1, <2>4, <2>8 DEF l
<1> QED BY <1>3, <1>4

\* A request that is sent as it is
LEMMA AsisDealt ==
  ASSUME NEW o, OrgOK(o), o.addrbyparts, o.blksperpart <= o.actualblksperpart, o.blksperpart \in Int,
         NEW r, Kept(o, r)
  PROVE  Dealt(o, r, <<Access(r.devno, r.blkno, r.bcount, r.read)>>)
<1> DEFINE a == Access(r.devno, r.blkno, r.bcount, r.read)
<1>1. a = [devno |-> r.devno, blkno |-> r.blkno, bcount |-> r.bcount, read |-> r.read]
  BY DEF Access
<1>2. /\ r.devno \in 0..o.numdisks - 1 /\ r.blkno \in Nat /\ r.bcount \in Nat \ {0} /\ r.read \in BOOLEAN
      /\ r.blkno + r.bcount <= o.actualblksperpart
  BY DEF Kept, OrgOK
<1> HIDE DEF a
<1>3. a \in DataAccess(o) /\ a.blkno + a.bcount <= o.actualblksperpart /\ a.read = r.read
  BY <1>1, <1>2 DEF DataAccess
<1> DEFINE m == <<a>>
<1>4. m \in Seq(DataAccess(o)) /\ m # <<>> /\ DOMAIN m = {1} /\ m[1] = a
  BY <1>3
<1> HIDE DEF m
<1>5. Dealt(o, r, m)
  BY <1>3, <1>4 DEF Dealt
<1> QED BY <1>5 DEF m, a

\* The request q names blocks of the array, all its disks together.
InArray(o, q) ==
    /\ q.blkno \in Nat /\ q.bcount \in Nat \ {0} /\ q.read \in BOOLEAN
    /\ q.blkno + q.bcount <= o.actualblksperpart * o.numdisks

LEMMA KeptInArray ==
  ASSUME NEW o, OrgOK(o), o.blksperpart = o.actualblksperpart, NEW r, Kept(o, r)
  PROVE  /\ ~o.addrbyparts => InArray(o, r)
         /\ o.addrbyparts => \A q : q.blkno = r.devno * o.blksperpart + r.blkno /\ q.bcount = r.bcount
                                    /\ q.read = r.read => InArray(o, q)
<1> DEFINE B == o.actualblksperpart
           n == o.numdisks
           d == r.devno
<1>1. B \in Nat \ {0} /\ n \in Nat /\ d \in Nat /\ r.blkno \in Nat /\ r.bcount \in Nat \ {0} /\ r.read \in BOOLEAN
  BY DEF OrgOK, Kept
<1>2. o.addrbyparts \in BOOLEAN
  BY DEF OrgOK
<1>3. CASE ~o.addrbyparts
  BY <1>3 DEF Kept, InArray
<1>4. CASE o.addrbyparts
  <2>1. d <= n - 1 /\ r.blkno + r.bcount <= B
    BY <1>4 DEF Kept
  <2> HIDE DEF B, n, d
  <2>2. d + 1 \in Int /\ n \in Int /\ d + 1 <= n
    BY <1>1, <2>1
  <2>3. (d + 1) * B <= n * B
    BY <1>1, <2>2, MulMono
  <2>4. (d + 1) * B = d * B + B /\ d * B \in Nat /\ n * B = B * n /\ n * B \in Int
    BY <1>1
  <2>5. d * B + r.blkno \in Nat /\ d * B + r.blkno + r.bcount <= B * n
    <3> DEFINE x == d * B
    <3>1. x \in Nat /\ x + B <= B * n /\ B * n \in Int
      BY <2>3, <2>4
    <3> HIDE DEF x
    <3>2. x + r.blkno \in Nat /\ x + r.blkno + r.bcount <= B * n
      BY <1>1, <2>1, <3>1
    <3> QED BY <3>2 DEF x
  <2> QED BY <1>1, <1>4, <2>5 DEF InArray, B, n, d
<1> QED BY <1>2, <1>3, <1>4

\* Blocks that are dealt one by one
LEMMA InterleavedDealt ==
  ASSUME NEW o, OrgOK(o), o.numdisks # 0, NEW r, InArray(o, r)
  PROVE  Dealt(o, r, MapInterleaved(o, r))
<1> DEFINE n == o.numdisks
           B == o.actualblksperpart
           first == r.blkno \div n
           x == r.bcount + (r.blkno - first * n) + (n - 1)
           count == x \div n
           m == MapInterleaved(o, r)
<1>1. /\ n \in Nat \ {0} /\ B \in Nat /\ r.blkno \in Nat /\ r.bcount \in Nat \ {0} /\ r.read \in BOOLEAN
      /\ r.blkno + r.bcount <= B * n
  BY DEF OrgOK, InArray
<1>2. m = [i \in 1..n |-> [devno |-> i - 1, blkno |-> first, bcount |-> count, read |-> r.read]]
  BY DEF MapInterleaved, Access
<1> HIDE DEF m, n, B
<1>3. first \in Nat /\ first * n <= r.blkno /\ first * n \in Int
  <2>1. /\ r.blkno \div n \in Int /\ r.blkno % n \in 0..n - 1
        /\ r.blkno = (r.blkno \div n) * n + (r.blkno % n)
    <3>1. r.blkno \in Int
      BY <1>1
    <3> QED BY <1>1, <3>1, DivFacts
  <2>2. 0 <= first
    <3>1. 0 * n <= r.blkno /\ 0 \in Int /\ r.blkno \in Int
      BY <1>1
    <3> QED BY <1>1, <3>1, DivAbove
  <2> HIDE DEF first
  <2>3. first \in Int /\ r.blkno % n \in 0..n - 1 /\ r.blkno = first * n + (r.blkno % n)
    BY <2>1 DEF first
  <2>4. first * n \in Int
    BY <1>1, <2>3
  <2> QED BY <1>1, <2>2, <2>3, <2>4
<1> HIDE DEF first
<1>4. x \in Int /\ 1 * n <= x /\ x < (B + 1 - first) * n
  <2> DEFINE f == first * n
             g == B * n
  <2>1. f \in Int /\ f <= r.blkno /\ g \in Int /\ r.blkno + r.bcount <= g
        /\ x = r.bcount + (r.blkno - f) + (n - 1) /\ (B + 1 - first) * n = g + n - f
    <3>1. (B + 1 - first) * n = B * n + n - first * n
      BY <1>1, <1>3
    <3>2. B * n \in Int
      BY <1>1
    <3> QED BY <1>1, <1>3, <3>1, <3>2
  <2> HIDE DEF f, g, x
  <2>2. x \in Int /\ n <= x /\ x < g + n - f
    BY <1>1, <2>1
  <2> QED BY <1>1, <2>1, <2>2
<1> HIDE DEF x
<1>5. count \in Nat \ {0} /\ first + count <= B
  <2>1. count \in Int
    BY <1>1, <1>4, DivFacts
  <2>2. 1 <= count
    <3>1. 1 \in Int
      OBVIOUS
    <3> QED BY <1>1, <1>4, <3>1, DivAbove
  <2>3. count < B + 1 - first
    <3>1. B + 1 - first \in Int
      BY <1>1, <1>3
    <3> QED BY <1>1, <1>4, <3>1, DivBelow
  <2> HIDE DEF count
  <2> QED BY <1>1, <1>3, <2>1, <2>2, <2>3
<1> HIDE DEF count
<1>6. \A i \in 1..n : /\ m[i] \in DataAccess(o) /\ m[i].devno = i - 1
                      /\ m[i].blkno + m[i].bcount <= B /\ m[i].read = r.read
  <2> TAKE i \in 1..n
  <2>1. m[i] = [devno |-> i - 1, blkno |-> first, bcount |-> count, read |-> r.read]
    BY <1>2
  <2>2. i - 1 \in 0..n - 1
    BY <1>1
  <2> QED BY <1>1, <1>3, <1>5, <2>1, <2>2 DEF DataAccess, n
<1>7. DOMAIN m = 1..n /\ m = [i \in 1..n |-> m[i]]
  BY <1>2
<1>8. m \in Seq(DataAccess(o)) /\ m # <<>>
  <2>1. n \in Nat \ {0} /\ \A i \in 1..n : m[i] \in DataAccess(o)
    BY <1>1, <1>6
  <2> QED BY <1>7, <2>1
<1>9. \A i, j \in 1..n : m[i].devno = m[j].devno => i = j
  BY <1>1, <1>6
<1>10. Dealt(o, r, m)
  BY <1>6, <1>7, <1>8, <1>9 DEF Dealt, B
<1> QED BY <1>10 DEF m

(***************************************************************************)
(* Striping.                                                                *)
(***************************************************************************)

\* The units of the stripe T
UnitAt(o, T) == IF T = o.numfull THEN o.blksperpart - o.numfull * o.stripeunit ELSE o.stripeunit

\* The disks are cut into units; the last may be shorter, or nothing.
Striping(o) ==
    /\ o.numdisks \in Nat \ {0} /\ o.stripeunit \in Nat \ {0} /\ o.numfull \in Nat
    /\ o.blksperpart \in Nat /\ o.actualblksperpart = o.blksperpart
    /\ o.numfull * o.stripeunit <= o.blksperpart
    /\ o.blksperpart < o.numfull * o.stripeunit + o.stripeunit

\* So they are after logorg_initialize.
LEMMA StripingHolds ==
  ASSUME NEW o, OrgOK(o), o.numdisks # 0, o.blksperpart = o.actualblksperpart, o.stripeunit # 0,
         o.numfull = o.blksperpart \div o.stripeunit
  PROVE  Striping(o)
<1> DEFINE B == o.blksperpart
           u == o.stripeunit
           F == o.numfull
<1>1. o.numdisks \in Nat \ {0} /\ u \in Nat \ {0} /\ B \in Nat /\ F = B \div u /\ o.actualblksperpart = B
  BY DEF OrgOK
<1> HIDE DEF B, u, F
<1>2. B \in Int /\ 0 * u <= B /\ 0 \in Int
  BY <1>1
<1>3. F \in Int /\ B % u \in 0..u - 1 /\ B = F * u + (B % u)
  <2>1. B \div u \in Int /\ B % u \in 0..u - 1 /\ B = (B \div u) * u + (B % u)
    BY <1>1, <1>2, DivFacts
  <2> QED BY <1>1, <2>1
<1>4. 0 <= F
  BY <1>1, <1>2, DivAbove
<1>5. F * u <= B /\ B < F * u + u
  <2>1. F * u \in Int
    BY <1>1, <1>3
  <2> QED BY <1>1, <1>3, <2>1
<1> QED BY <1>1, <1>3, <1>4, <1>5 DEF Striping, B, u, F

\* The unit that at describes, with the block b in it
InUnit(o, b, at) ==
    /\ at.stripeno \in 0..o.numfull /\ at.unit = UnitAt(o, at.stripeno) /\ at.unit \in Nat \ {0}
    /\ at.devno \in 0..o.numdisks - 1 /\ at.offset \in 0..at.unit - 1
    /\ b = at.stripeno * (o.numdisks * o.stripeunit) + at.devno * at.unit + at.offset

\* logorg_mapstriped finds the unit of the first block.
LEMMA UnitFacts ==
  ASSUME NEW o, Striping(o), NEW b \in Nat, b < o.blksperpart * o.numdisks
  PROVE  InUnit(o, b, UnitOf(o, b))
<1> DEFINE n == o.numdisks
           u == o.stripeunit
           B == o.blksperpart
           F == o.numfull
           v == b \div u
           T == v \div n
           at == UnitOf(o, b)
           rest == B - F * u
<1>1. /\ n \in Nat \ {0} /\ u \in Nat \ {0} /\ B \in Nat /\ F \in Nat /\ F * u <= B /\ B < F * u + u
      /\ b < B * n
  BY DEF Striping
<1>2. /\ at.stripeno = T
      /\ T = F => at.unit = rest /\ at.devno = ((b - T * n * u) \div rest) % n /\ at.offset = (b - T * n * u) % rest
      /\ T # F => at.unit = u /\ at.devno = ((b - 0) \div u) % n /\ at.offset = (b - 0) % u
  BY DEF UnitOf
<1>3. UnitAt(o, T) = IF T = F THEN rest ELSE u
  BY DEF UnitAt
<1> HIDE DEF at, n, u, B, F, T, v
<1>4. v \in Nat /\ b % u \in 0..u - 1 /\ b = v * u + (b % u)
  <2>1. b \in Int /\ 0 \in Int /\ 0 * u <= b
    BY <1>1
  <2>2. b \div u \in Int /\ b % u \in 0..u - 1 /\ b = (b \div u) * u + (b % u)
    BY <1>1, <2>1, DivFacts
  <2>3. 0 <= b \div u
    BY <1>1, <2>1, DivAbove
  <2> QED BY <2>2, <2>3 DEF v
<1>5. T \in Nat /\ v % n \in 0..n - 1 /\ v = T * n + (v % n)
  <2>1. v \in Int /\ 0 \in Int /\ 0 * n <= v
    BY <1>1, <1>4
  <2>2. v \div n \in Int /\ v % n \in 0..n - 1 /\ v = (v \div n) * n + (v % n)
    BY <1>1, <2>1, DivFacts
  <2>3. 0 <= v \div n
    BY <1>1, <2>1, DivAbove
  <2> QED BY <2>2, <2>3 DEF T
<1> DEFINE w == v % n
           x == b % u
<1>6. b = T * (n * u) + w * u + x /\ w \in 0..n - 1 /\ x \in 0..u - 1
  <2> HIDE DEF w, x
  <2>1. v = T * n + w /\ b = v * u + x /\ w \in 0..n - 1 /\ x \in 0..u - 1
    BY <1>4, <1>5 DEF w, x
  <2>2. v * u = (T * n) * u + w * u
    <3>1. T * n \in Int
      BY <1>1, <1>5
    <3> DEFINE y == T * n
    <3> HIDE DEF y
    <3>2. y \in Int /\ v = y + w
      BY <2>1, <3>1 DEF y
    <3>4. w \in Int /\ u \in Int
      BY <1>1, <2>1
    <3>5. (y + w) * u = y * u + w * u
      BY <3>2, <3>4
    <3>3. v * u = y * u + w * u
      BY <3>2, <3>5
    <3> QED BY <3>3 DEF y
  <2>3. (T * n) * u = T * (n * u)
    BY <1>1, <1>5
  <2> QED BY <2>1, <2>2, <2>3
<1>7. T * (n * u) <= b /\ T * (n * u) \in Nat
  <2>1. w * u \in Nat /\ T * (n * u) \in Nat
    BY <1>1, <1>5, <1>6
  <2> DEFINE y == w * u
             z == T * (n * u)
  <2> HIDE DEF w, x, y, z
  <2>2. b = z + y + x /\ y \in Nat /\ x \in Nat /\ z \in Nat
    BY <1>1, <1>6, <2>1 DEF y, z
  <2>3. z <= b
    BY <2>2
  <2> QED BY <2>2, <2>3 DEF z
<1>8. T <= F
  <2>1. (T * u) * n < B * n
    <3>1. (T * u) * n = T * (n * u)
      BY <1>1, <1>5
    <3>2. B * n \in Int
      BY <1>1
    <3> QED BY <1>1, <1>7, <3>1, <3>2
  <2>2. T * u \in Int /\ B \in Int
    BY <1>1, <1>5
  <2>3. T * u < B
    BY <1>1, <2>1, <2>2, MulLess
  <2>4. T * u < (F + 1) * u
    <3>1. (F + 1) * u = F * u + u /\ F * u \in Int
      BY <1>1
    <3> QED BY <1>1, <2>2, <2>3, <3>1
  <2>5. T \in Int /\ F + 1 \in Int
    BY <1>1, <1>5
  <2>6. T < F + 1
    BY <1>1, <2>4, <2>5, MulLess
  <2> QED BY <1>1, <2>5, <2>6
<1>9. CASE T # F
  <2>1. at.unit = u /\ at.devno = w /\ at.offset = x
    <3>1. b - 0 = b
      OBVIOUS
    <3> QED BY <1>2, <1>9, <3>1 DEF v
  <2> HIDE DEF w, x
  <2>2. InUnit(o, b, at)
    BY <1>1, <1>2, <1>3, <1>5, <1>6, <1>8, <1>9, <2>1 DEF InUnit, n, u, F
  <2> QED BY <2>2 DEF at
<1>10. CASE T = F
  <2> DEFINE c == b - T * (n * u)
  <2>1. T * n * u = T * (n * u)
    BY <1>1, <1>5
  <2>2. at.unit = rest /\ at.devno = (c \div rest) % n /\ at.offset = c % rest
    BY <1>2, <1>10, <2>1
  <2>3. rest \in Nat /\ c \in Nat /\ c < n * rest
    <3>1. F * u \in Int
      BY <1>1
    <3>2. rest \in Nat
      BY <1>1, <3>1
    <3>3. n * rest = B * n - F * (n * u)
      <4>1. n * rest = n * B - n * (F * u)
        BY <1>1, <3>1
      <4>2. n * (F * u) = F * (n * u) /\ n * B = B * n
        BY <1>1
      <4> QED BY <4>1, <4>2
    <3>4. c < n * rest
      <4> DEFINE z == T * (n * u)
      <4>1. z \in Nat /\ z <= b /\ c = b - z /\ n * rest = B * n - z /\ B * n \in Int
        BY <1>1, <1>7, <1>10, <3>3
      <4> HIDE DEF z, c, rest
      <4> QED BY <1>1, <4>1
    <3> DEFINE z == T * (n * u)
    <3>5. c = b - z /\ z \in Nat /\ z <= b
      BY <1>7
    <3> HIDE DEF z, c
    <3>6. c \in Nat
      BY <3>5
    <3> QED BY <3>2, <3>4, <3>6
  <2> HIDE DEF c, rest
  <2>4. rest # 0
    <3>1. n * 0 = 0
      BY <1>1
    <3> QED BY <2>3, <3>1
  <2> DEFINE y == c \div rest
             z == c % rest
  <2>5. y \in 0..n - 1 /\ z \in 0..rest - 1 /\ c = y * rest + z
    <3>1. c \in Int /\ n \in Int /\ 0 \in Int /\ rest \in Nat \ {0} /\ c < n * rest /\ 0 * rest <= c
      BY <1>1, <2>3, <2>4
    <3>2. y \in Int /\ z \in 0..rest - 1 /\ c = y * rest + z
      BY <3>1, DivFacts
    <3>3. 0 <= y
      BY <3>1, DivAbove
    <3>4. y < n
      BY <3>1, DivBelow
    <3> HIDE DEF y, z
    <3> QED BY <1>1, <3>2, <3>3, <3>4
  <2> HIDE DEF y, z
  <2>6. y % n = y
    BY <1>1, <2>5, ModOnce
  <2>7. at.devno = y /\ at.offset = z
    BY <2>2, <2>6 DEF y, z
  <2>8. b = T * (n * u) + y * rest + z
    <3> DEFINE e == T * (n * u)
               g == y * rest
    <3>1. e \in Int /\ g \in Int /\ c = b - e /\ c = g + z /\ z \in Int /\ b \in Int
      BY <1>1, <1>7, <2>3, <2>5 DEF c
    <3> HIDE DEF e, g
    <3>2. b = e + g + z
      BY <3>1
    <3> QED BY <3>2 DEF e, g
  <2>10. /\ at.stripeno = T /\ at.unit = rest /\ UnitAt(o, T) = rest /\ rest \in Nat \ {0}
         /\ T \in 0..F /\ at.devno \in 0..n - 1 /\ at.offset \in 0..rest - 1
    BY <1>1, <1>2, <1>3, <1>5, <1>8, <1>10, <2>2, <2>3, <2>4, <2>5, <2>7
  <2>11. b = T * (n * u) + at.devno * rest + at.offset
    BY <2>7, <2>8
  <2>9. InUnit(o, b, at)
    BY <2>10, <2>11 DEF InUnit, n, u, F
  <2> QED BY <2>9 DEF at
<1> QED BY <1>9, <1>10

\* Where the access to the disk d starts
StartOn(o, at, d) ==
    at.stripeno * o.stripeunit
    + IF d = at.devno THEN at.offset ELSE IF d < at.devno THEN o.stripeunit ELSE 0

\* The loop has dealt something to the disk d before unit devno + e of its stripe.
Passed(at, s, e, d) ==
    \/ s.stripeno = at.stripeno /\ at.devno <= d /\ d < s.devno + e
    \/ s.stripeno = at.stripeno + 1 /\ (at.devno <= d \/ d < s.devno + e)
    \/ s.stripeno > at.stripeno + 1

\* The disk d is before the request in its first stripe.
Before(at, s, d) == s.stripeno = at.stripeno /\ d < at.devno

\* The loop is at unit devno + e of a stripe, to deal what is left of the blocks up
\* to E; what each disk has got reaches from its start up to there.
Spreading(o, E, at, s, e) ==
    /\ s = [devno |-> s.devno, stripeno |-> s.stripeno, unit |-> s.unit, left |-> s.left,
            numstripes |-> s.numstripes, sizes |-> s.sizes]
    /\ s.devno \in 0..o.numdisks - 1 /\ s.stripeno \in at.stripeno..o.numfull
    /\ s.unit = UnitAt(o, s.stripeno) /\ s.unit \in Nat \ {0}
    /\ s.left \in Nat \ {0} /\ s.numstripes \in Nat \ {0, 1}
    /\ E = s.stripeno * (o.numdisks * o.stripeunit) + (s.devno + e) * s.unit + s.left
    /\ s.stripeno * o.numdisks + s.devno + e = at.stripeno * o.numdisks + at.devno + s.numstripes - 1
    /\ s.sizes \in [0..o.numdisks - 1 -> Nat]
    /\ \A d \in 0..o.numdisks - 1 :
         /\ Passed(at, s, e, d) => s.sizes[d] # 0
         /\ Before(at, s, d) => s.sizes[d] = 0
         /\ ~Before(at, s, d) =>
              StartOn(o, at, d) + s.sizes[d]
                = s.stripeno * o.stripeunit + IF d < s.devno + e THEN s.unit ELSE 0

\* The next unit of the same stripe
LEMMA NextOfStripe ==
  ASSUME NEW o, Striping(o), NEW b, NEW at, InUnit(o, b, at), NEW E, NEW s, Spreading(o, E, at, s, 1),
         s.devno + 1 < o.numdisks
  PROVE  Spreading(o, E, at, NextUnit(o, s), 0)
<1> DEFINE n == o.numdisks
           new == NextUnit(o, s)
<1>1. n \in Nat \ {0} /\ s.devno \in 0..n - 1
  BY DEF Striping, Spreading
<1>2. new = [s EXCEPT !.devno = @ + 1]
  BY DEF NextUnit
<1>3. new = [devno |-> s.devno + 1, stripeno |-> s.stripeno, unit |-> s.unit, left |-> s.left,
             numstripes |-> s.numstripes, sizes |-> s.sizes]
  <2> DEFINE d == s.devno
             t == s.stripeno
             u == s.unit
             l == s.left
             k == s.numstripes
             z == s.sizes
  <2>1. s = [devno |-> d, stripeno |-> t, unit |-> u, left |-> l, numstripes |-> k, sizes |-> z]
    BY DEF Spreading
  <2>2. new = [s EXCEPT !.devno = d + 1]
    BY <1>2
  <2> HIDE DEF d, t, u, l, k, z, new
  <2>3. new = [devno |-> d + 1, stripeno |-> t, unit |-> u, left |-> l, numstripes |-> k, sizes |-> z]
    BY <2>1, <2>2
  <2> QED BY <2>3 DEF d, t, u, l, k, z
<1> HIDE DEF new
<1>4. /\ new.devno = s.devno + 1 /\ new.stripeno = s.stripeno /\ new.unit = s.unit /\ new.left = s.left
      /\ new.numstripes = s.numstripes /\ new.sizes = s.sizes
      /\ new = [devno |-> new.devno, stripeno |-> new.stripeno, unit |-> new.unit, left |-> new.left,
                numstripes |-> new.numstripes, sizes |-> new.sizes]
  BY <1>3
<1>5. new.devno + 0 = s.devno + 1 /\ new.devno \in 0..n - 1
  BY <1>1, <1>4
<1>6. E = new.stripeno * (o.numdisks * o.stripeunit) + (new.devno + 0) * new.unit + new.left
  BY <1>4, <1>5 DEF Spreading
<1>7. new.stripeno * o.numdisks + new.devno + 0 = at.stripeno * o.numdisks + at.devno + new.numstripes - 1
  <2> DEFINE x == s.stripeno * o.numdisks
  <2>1. x \in Int /\ x + s.devno + 1 = at.stripeno * o.numdisks + at.devno + s.numstripes - 1
    BY <1>1 DEF Spreading, Striping, InUnit
  <2> HIDE DEF x
  <2>2. x + s.devno + 1 = x + new.devno + 0
    BY <1>1, <1>4, <2>1
  <2> QED BY <1>4, <2>1, <2>2 DEF x
<1>8. ASSUME NEW d \in 0..n - 1
      PROVE  /\ Passed(at, new, 0, d) => new.sizes[d] # 0
             /\ Before(at, new, d) => new.sizes[d] = 0
             /\ ~Before(at, new, d) =>
                  StartOn(o, at, d) + new.sizes[d]
                    = new.stripeno * o.stripeunit + IF d < new.devno + 0 THEN new.unit ELSE 0
  <2>1. Passed(at, new, 0, d) <=> Passed(at, s, 1, d)
    BY <1>4, <1>5 DEF Passed
  <2>2. Before(at, new, d) <=> Before(at, s, d)
    BY <1>4 DEF Before
  <2>3. /\ Passed(at, s, 1, d) => s.sizes[d] # 0
        /\ Before(at, s, d) => s.sizes[d] = 0
        /\ ~Before(at, s, d) =>
             StartOn(o, at, d) + s.sizes[d]
               = s.stripeno * o.stripeunit + IF d < s.devno + 1 THEN s.unit ELSE 0
    BY DEF Spreading
  <2> QED BY <1>4, <1>5, <2>1, <2>2, <2>3
<1>9. /\ new.stripeno \in at.stripeno..o.numfull /\ new.unit = UnitAt(o, new.stripeno)
      /\ new.unit \in Nat \ {0} /\ new.left \in Nat \ {0} /\ new.numstripes \in Nat \ {0, 1}
      /\ new.sizes \in [0..n - 1 -> Nat]
  BY <1>4 DEF Spreading
<1>10. Spreading(o, E, at, new, 0)
  BY <1>4, <1>5, <1>6, <1>7, <1>8, <1>9 DEF Spreading
<1> QED BY <1>10 DEF new

\* The first unit of the next stripe: there is one, for the blocks are in the array.
LEMMA NextStripe ==
  ASSUME NEW o, Striping(o), NEW b, NEW at, InUnit(o, b, at), NEW E \in Nat,
         E <= o.blksperpart * o.numdisks, NEW s, Spreading(o, E, at, s, 1),
         ~(s.devno + 1 < o.numdisks)
  PROVE  Spreading(o, E, at, NextUnit(o, s), 0)
<1> DEFINE n == o.numdisks
           u == o.stripeunit
           B == o.blksperpart
           F == o.numfull
           T == s.stripeno
           new == NextUnit(o, s)
<1>1. /\ n \in Nat \ {0} /\ u \in Nat \ {0} /\ B \in Nat /\ F \in Nat /\ F * u <= B /\ B < F * u + u
      /\ s.devno \in 0..n - 1 /\ T \in at.stripeno..F /\ at.stripeno \in 0..F /\ at.devno \in 0..n - 1
      /\ s.unit \in Nat \ {0} /\ s.left \in Nat \ {0} /\ s.numstripes \in Nat \ {0, 1}
  BY DEF Striping, Spreading, InUnit
<1>2. s.devno + 1 = n /\ T \in Nat
  <2> DEFINE d == s.devno
             T0 == at.stripeno
  <2>1. n \in Nat \ {0} /\ d \in 0..n - 1 /\ ~(d + 1 < n)
    BY <1>1
  <2>2. F \in Nat /\ T0 \in 0..F /\ T \in T0..F
    BY <1>1
  <2> HIDE DEF n, d, T0, T, F
  <2>3. d + 1 = n
    BY <2>1
  <2>4. T \in Nat
    BY <2>2
  <2> QED BY <2>3, <2>4 DEF d
<1>3. s.unit = IF T = F THEN B - F * u ELSE u
  BY DEF Spreading, UnitAt
<1>4. E = T * (n * u) + n * s.unit + s.left /\ E <= B * n
  <2>1. E = T * (n * u) + (s.devno + 1) * s.unit + s.left
    BY DEF Spreading
  <2> QED BY <1>2, <2>1
<1> HIDE DEF n, u, B, F, T
<1>5. T # F
  <2>1. SUFFICES ASSUME T = F PROVE FALSE
    OBVIOUS
  <2>2. n * s.unit = B * n - F * (n * u)
    <3>1. s.unit = B - F * u /\ F * u \in Int
      BY <1>1, <1>3, <2>1
    <3>2. n * s.unit = n * B - n * (F * u)
      BY <1>1, <3>1
    <3>3. n * (F * u) = F * (n * u) /\ n * B = B * n
      BY <1>1
    <3> QED BY <3>2, <3>3
  <2> DEFINE x == F * (n * u)
             y == B * n
             z == n * s.unit
  <2>3. x \in Int /\ y \in Int /\ z = y - x /\ E = x + z + s.left /\ E <= y
    BY <1>1, <1>4, <2>1, <2>2
  <2> HIDE DEF x, y, z
  <2> QED BY <1>1, <2>3
<1>6. T + 1 \in 0..F /\ s.unit = u
  BY <1>1, <1>2, <1>3, <1>5
<1>7. E = (T + 1) * (n * u) + s.left
  <2>1. (T + 1) * (n * u) = T * (n * u) + n * u
    BY <1>1, <1>2
  <2> QED BY <1>4, <1>6, <2>1
<1> DEFINE V == UnitAt(o, T + 1)
<1>8. V = IF T + 1 = F THEN B - F * u ELSE u
  BY DEF UnitAt, F, u, B
<1> HIDE DEF V
<1>9. V \in Nat \ {0}
  <2>1. CASE T + 1 # F
    BY <1>1, <1>8, <2>1
  <2>2. CASE T + 1 = F
    <3>1. V = B - F * u /\ F * u \in Int
      BY <1>1, <1>8, <2>2
    <3>2. n * V = B * n - F * (n * u)
      <4>1. n * V = n * B - n * (F * u)
        BY <1>1, <3>1
      <4>2. n * (F * u) = F * (n * u) /\ n * B = B * n
        BY <1>1
      <4> QED BY <4>1, <4>2
    <3>3. V # 0
      <4>1. SUFFICES ASSUME V = 0 PROVE FALSE
        OBVIOUS
      <4> DEFINE x == F * (n * u)
                 y == B * n
      <4>2. n * V = 0
        BY <1>1, <4>1
      <4>3. x \in Int /\ y \in Int /\ 0 = y - x /\ E = x + s.left /\ E <= y
        BY <1>1, <1>4, <1>7, <2>2, <3>2, <4>2
      <4> HIDE DEF x, y
      <4> QED BY <1>1, <4>3
    <3>4. V \in Nat
      BY <1>1, <3>1
    <3> QED BY <3>3, <3>4
  <2> QED BY <2>1, <2>2
<1>10. new = [s EXCEPT !.devno = 0, !.stripeno = T + 1, !.unit = V]
  <2>1. new = [s EXCEPT !.devno = 0, !.stripeno = @ + 1,
                        !.unit = IF T + 1 = F THEN B - F * s.unit ELSE @]
    BY DEF NextUnit, T, F, B
  <2>2. V = IF T + 1 = F THEN B - F * s.unit ELSE s.unit
    BY <1>6, <1>8
  <2> HIDE DEF new
  <2> QED BY <2>1, <2>2 DEF T
<1>11. new = [devno |-> 0, stripeno |-> T + 1, unit |-> V, left |-> s.left,
              numstripes |-> s.numstripes, sizes |-> s.sizes]
  <2> DEFINE d == s.devno
             t == s.stripeno
             w == s.unit
             l == s.left
             k == s.numstripes
             z == s.sizes
  <2>1. s = [devno |-> d, stripeno |-> t, unit |-> w, left |-> l, numstripes |-> k, sizes |-> z]
    BY DEF Spreading
  <2> HIDE DEF d, t, w, l, k, z, new
  <2>3. new = [devno |-> 0, stripeno |-> T + 1, unit |-> V, left |-> l, numstripes |-> k, sizes |-> z]
    BY <1>10, <2>1
  <2> QED BY <2>3 DEF l, k, z
<1> HIDE DEF new
<1>12. /\ new.devno = 0 /\ new.stripeno = T + 1 /\ new.unit = V /\ new.left = s.left
       /\ new.numstripes = s.numstripes /\ new.sizes = s.sizes
       /\ new = [devno |-> new.devno, stripeno |-> new.stripeno, unit |-> new.unit, left |-> new.left,
                 numstripes |-> new.numstripes, sizes |-> new.sizes]
  BY <1>11
<1>13. E = new.stripeno * (n * u) + (new.devno + 0) * new.unit + new.left
  <2>1. (new.devno + 0) * new.unit = 0
    BY <1>9, <1>12
  <2> DEFINE x == (T + 1) * (n * u)
  <2>2. x \in Int /\ E = x + s.left
    BY <1>1, <1>2, <1>7
  <2> HIDE DEF x
  <2>3. E = x + 0 + s.left
    BY <2>2
  <2> QED BY <1>12, <2>1, <2>3 DEF x
<1>14. new.stripeno * n + new.devno + 0 = at.stripeno * n + at.devno + new.numstripes - 1
  <2>1. T * n + s.devno + 1 = at.stripeno * n + at.devno + s.numstripes - 1
    BY DEF Spreading, T, n
  <2>2. (T + 1) * n = T * n + n /\ T * n \in Int
    BY <1>1, <1>2
  <2> DEFINE x == T * n
             y == at.stripeno * n + at.devno + s.numstripes - 1
             z == (T + 1) * n
  <2>3. x + s.devno + 1 = y /\ z = x + n /\ x \in Int
    BY <2>1, <2>2
  <2> HIDE DEF x, y, z
  <2>4. z + 0 + 0 = y
    BY <1>1, <1>2, <2>3
  <2>5. new.stripeno * n + new.devno + 0 = z + 0 + 0
    BY <1>12 DEF z
  <2> QED BY <1>12, <2>4, <2>5 DEF y
<1>15. ASSUME NEW d \in 0..n - 1
       PROVE  /\ Passed(at, new, 0, d) => new.sizes[d] # 0
              /\ ~Before(at, new, d)
              /\ StartOn(o, at, d) + new.sizes[d] = (T + 1) * u
  <2>1. d < s.devno + 1 /\ d \in Int
    BY <1>1, <1>2
  <2>2. /\ Passed(at, s, 1, d) => s.sizes[d] # 0
        /\ Before(at, s, d) => s.sizes[d] = 0
        /\ ~Before(at, s, d) => StartOn(o, at, d) + s.sizes[d] = T * u + s.unit
    BY <2>1 DEF Spreading, T, u, n
  <2>3. Passed(at, new, 0, d) => Passed(at, s, 1, d)
    <3>1. T = s.stripeno
      BY DEF T
    <3> QED BY <1>1, <1>2, <1>12, <2>1, <3>1 DEF Passed
  <2>4. ~Before(at, new, d)
    BY <1>1, <1>12 DEF Before
  <2>5. (T + 1) * u = T * u + u /\ T * u \in Int
    BY <1>1, <1>2
  <2>6. CASE ~Before(at, s, d)
    BY <1>6, <1>12, <2>2, <2>3, <2>4, <2>5, <2>6
  <2>7. CASE Before(at, s, d)
    <3>1. T = at.stripeno /\ d < at.devno /\ s.sizes[d] = 0
      BY <2>2, <2>7 DEF Before, T
    <3>2. StartOn(o, at, d) = T * u + u
      BY <1>1, <2>1, <3>1 DEF StartOn, u
    <3> QED BY <1>1, <1>12, <2>2, <2>3, <2>4, <2>5, <3>1, <3>2
  <2> QED BY <2>6, <2>7
<1>16. ASSUME NEW d \in 0..n - 1
       PROVE  /\ Passed(at, new, 0, d) => new.sizes[d] # 0
              /\ Before(at, new, d) => new.sizes[d] = 0
              /\ ~Before(at, new, d) =>
                   StartOn(o, at, d) + new.sizes[d]
                     = new.stripeno * u + IF d < new.devno + 0 THEN new.unit ELSE 0
  <2>1. ~(d < new.devno + 0)
    BY <1>1, <1>12
  <2>2. (T + 1) * u + 0 = (T + 1) * u
    <3>1. (T + 1) * u \in Int
      BY <1>1, <1>2
    <3> QED BY <3>1
  <2> QED BY <1>12, <1>15, <2>1, <2>2
<1>17. /\ new.devno \in 0..n - 1 /\ new.stripeno \in at.stripeno..F /\ new.unit = UnitAt(o, new.stripeno)
       /\ new.unit \in Nat \ {0} /\ new.left \in Nat \ {0} /\ new.numstripes \in Nat \ {0, 1}
  <2>1. 0 \in 0..n - 1 /\ T + 1 \in at.stripeno..F
    BY <1>1, <1>6
  <2> QED BY <1>1, <1>9, <1>12, <2>1 DEF V
<1>18. new.sizes \in [0..n - 1 -> Nat]
  BY <1>12 DEF Spreading, n
<1>19. Spreading(o, E, at, new, 0)
  BY <1>12, <1>13, <1>14, <1>16, <1>17, <1>18 DEF Spreading, n, u, F
<1> QED BY <1>19 DEF new

\* The unit at s has been dealt to its disk.
WithUnit(s) == [s EXCEPT !.sizes[s.devno] = @ + s.unit, !.left = @ - s.unit, !.numstripes = @ + 1]

\* Dealing it leaves the loop after the unit.
LEMMA DealUnit ==
  ASSUME NEW o, Striping(o), NEW b, NEW at, InUnit(o, b, at), NEW E, NEW s, Spreading(o, E, at, s, 0),
         s.unit < s.left
  PROVE  Spreading(o, E, at, WithUnit(s), 1) /\ WithUnit(s).left = s.left - s.unit
<1> DEFINE n == o.numdisks
           d == s.devno
           t == s.stripeno
           w == s.unit
           l == s.left
           k == s.numstripes
           z == s.sizes
           new == WithUnit(s)
<1>1. /\ n \in Nat \ {0} /\ d \in 0..n - 1 /\ t \in at.stripeno..o.numfull /\ w \in Nat \ {0}
      /\ l \in Nat \ {0} /\ k \in Nat \ {0, 1} /\ z \in [0..n - 1 -> Nat] /\ w < l /\ w = UnitAt(o, t)
      /\ at.stripeno \in Nat /\ o.numfull \in Nat /\ at.devno \in 0..n - 1 /\ o.stripeunit \in Nat
      /\ t \in Nat
  <2>1. /\ n \in Nat \ {0} /\ d \in 0..n - 1 /\ t \in at.stripeno..o.numfull /\ w \in Nat \ {0}
        /\ l \in Nat \ {0} /\ k \in Nat \ {0, 1} /\ z \in [0..n - 1 -> Nat] /\ w < l /\ w = UnitAt(o, t)
        /\ at.stripeno \in 0..o.numfull /\ o.numfull \in Nat /\ at.devno \in 0..n - 1 /\ o.stripeunit \in Nat
    BY DEF Striping, InUnit, Spreading
  <2> HIDE DEF n, d, t, w, l, k, z
  <2> DEFINE F == o.numfull
             T == at.stripeno
  <2>2. F \in Nat /\ T \in 0..F /\ t \in T..F
    BY <2>1
  <2> HIDE DEF F, T
  <2>3. T \in Nat /\ t \in Nat
    BY <2>2
  <2> QED BY <2>1, <2>3 DEF T
<1>2. s = [devno |-> d, stripeno |-> t, unit |-> w, left |-> l, numstripes |-> k, sizes |-> z]
  BY DEF Spreading
<1>3. new = [s EXCEPT !.sizes[d] = @ + w, !.left = @ - w, !.numstripes = @ + 1]
  BY DEF WithUnit
<1>4. E = t * (n * o.stripeunit) + (d + 0) * w + l
  BY DEF Spreading
<1>5. t * n + d + 0 = at.stripeno * n + at.devno + k - 1
  BY DEF Spreading
<1>6. \A x \in 0..n - 1 :
         /\ Passed(at, s, 0, x) => z[x] # 0
         /\ Before(at, s, x) => z[x] = 0
         /\ ~Before(at, s, x) =>
              StartOn(o, at, x) + z[x] = t * o.stripeunit + IF x < d + 0 THEN w ELSE 0
  BY DEF Spreading
<1>7. /\ \A x, e : Passed(at, s, e, x) <=> \/ t = at.stripeno /\ at.devno <= x /\ x < d + e
                                           \/ t = at.stripeno + 1 /\ (at.devno <= x \/ x < d + e)
                                           \/ t > at.stripeno + 1
      /\ \A x : Before(at, s, x) <=> t = at.stripeno /\ x < at.devno
  BY DEF Passed, Before
<1> HIDE DEF n, d, t, w, l, k, z, new
<1> DEFINE y == [z EXCEPT ![d] = @ + w]
<1>8. new = [devno |-> d, stripeno |-> t, unit |-> w, left |-> l - w, numstripes |-> k + 1, sizes |-> y]
  BY <1>2, <1>3
<1>9. y \in [0..n - 1 -> Nat] /\ y[d] = z[d] + w /\ \A x \in 0..n - 1 : x # d => y[x] = z[x]
  BY <1>1
<1> HIDE DEF y
<1>10. /\ new.devno = d /\ new.stripeno = t /\ new.unit = w /\ new.left = l - w
       /\ new.numstripes = k + 1 /\ new.sizes = y
       /\ new = [devno |-> new.devno, stripeno |-> new.stripeno, unit |-> new.unit, left |-> new.left,
                 numstripes |-> new.numstripes, sizes |-> new.sizes]
  BY <1>8
<1>11. E = t * (n * o.stripeunit) + (d + 1) * w + (l - w)
  <2>1. (d + 1) * w = d * w + w /\ (d + 0) * w = d * w /\ d * w \in Int
    BY <1>1
  <2> DEFINE x == t * (n * o.stripeunit)
  <2>2. x \in Int
    BY <1>1
  <2> DEFINE g == d * w
  <2>3. E = x + g + l /\ g \in Int /\ (d + 1) * w = g + w
    BY <1>4, <2>1
  <2> HIDE DEF x, g
  <2>4. x + g + l = x + (g + w) + (l - w)
    BY <1>1, <2>2, <2>3
  <2> QED BY <2>3, <2>4 DEF x
<1>12. t * n + d + 1 = at.stripeno * n + at.devno + (k + 1) - 1
  <2> DEFINE x == t * n
             g == at.stripeno * n
  <2>1. x \in Int /\ g \in Int /\ x + d + 0 = g + at.devno + k - 1
    BY <1>1, <1>5
  <2> DEFINE f == at.devno
  <2>2. d \in Int /\ k \in Int /\ f \in Int /\ x + d + 0 = g + f + k - 1
    BY <1>1, <2>1
  <2> HIDE DEF x, g, f
  <2>3. x + d + 1 = g + f + (k + 1) - 1
    BY <2>1, <2>2
  <2> QED BY <2>3 DEF x, g, f
<1>13. ~Before(at, s, d)
  <2>1. SUFFICES ASSUME t = at.stripeno, d < at.devno PROVE FALSE
    BY <1>7
  <2> DEFINE x == t * n
  <2>2. x \in Int /\ x + d + 0 = x + at.devno + k - 1
    BY <1>1, <1>5, <2>1
  <2> HIDE DEF x
  <2> QED BY <1>1, <2>1, <2>2
<1>14. ASSUME NEW x \in 0..n - 1
       PROVE  /\ Passed(at, new, 1, x) => y[x] # 0
              /\ Before(at, new, x) => y[x] = 0
              /\ ~Before(at, new, x) =>
                   StartOn(o, at, x) + y[x] = t * o.stripeunit + IF x < d + 1 THEN w ELSE 0
  <2>1. Before(at, new, x) <=> Before(at, s, x)
    BY <1>7, <1>10 DEF Before
  <2>2. Passed(at, new, 1, x) <=> Passed(at, s, 1, x)
    BY <1>7, <1>10 DEF Passed
  <2>3. CASE x = d
    <3>1. z[d] \in Nat /\ y[x] = z[d] + w
      BY <1>1, <1>9, <2>3
    <3>2. StartOn(o, at, x) + z[d] = t * o.stripeunit + 0
      <4>1. ~(d < d + 0)
        BY <1>1
      <4> QED BY <1>1, <1>6, <1>13, <2>3, <4>1
    <3>3. StartOn(o, at, x) \in Int
      <4>1. at.offset \in Int
        BY DEF InUnit
      <4> DEFINE g == at.stripeno * o.stripeunit
                 h == IF x = at.devno THEN at.offset ELSE IF x < at.devno THEN o.stripeunit ELSE 0
      <4>2. g \in Int
        BY <1>1
      <4>3. h \in Int
        BY <1>1, <4>1
      <4>4. StartOn(o, at, x) = g + h
        BY DEF StartOn
      <4> HIDE DEF g, h
      <4> QED BY <4>2, <4>3, <4>4
    <3> DEFINE f == StartOn(o, at, x)
               g == t * o.stripeunit
    <3>4. g \in Int /\ f \in Int /\ f + z[d] = g + 0
      BY <1>1, <3>2, <3>3
    <3> HIDE DEF f, g
    <3>5. f + (z[d] + w) = g + w
      BY <1>1, <3>1, <3>4
    <3>6. x < d + 1
      BY <1>1, <2>3
    <3>7. f + y[x] = g + IF x < d + 1 THEN w ELSE 0
      BY <3>1, <3>5, <3>6
    <3>8. y[x] # 0
      BY <1>1, <3>1
    <3>9. ~Before(at, new, x)
      BY <1>13, <2>1, <2>3
    <3> QED BY <3>7, <3>8, <3>9 DEF f, g
  <2>4. CASE x # d
    <3>1. y[x] = z[x] /\ (x < d + 1 <=> x < d + 0)
      BY <1>1, <1>9, <2>4
    <3>2. Passed(at, s, 1, x) <=> Passed(at, s, 0, x)
      BY <1>7, <3>1
    <3> QED BY <1>6, <2>1, <2>2, <3>1, <3>2
  <2> QED BY <2>3, <2>4
<1>15. l - w \in Nat \ {0} /\ k + 1 \in Nat \ {0, 1}
  BY <1>1
<1>16. Spreading(o, E, at, new, 1)
  BY <1>1, <1>9, <1>10, <1>11, <1>12, <1>14, <1>15 DEF Spreading, n
<1> QED BY <1>10, <1>16 DEF new, l, w

\* The next unit, where the array goes on
LEMMA NextKeepsLeft ==
  ASSUME NEW o, NEW E, NEW at, NEW s, Spreading(o, E, at, s, 1)
  PROVE  NextUnit(o, s).left = s.left
<1>1. CASE s.devno + 1 < o.numdisks
  <2>1. NextUnit(o, s) = [s EXCEPT !.devno = @ + 1]
    BY <1>1 DEF NextUnit
  <2> QED BY <2>1 DEF Spreading
<1>2. CASE ~(s.devno + 1 < o.numdisks)
  <2> DEFINE w == IF s.stripeno + 1 = o.numfull THEN o.blksperpart - o.numfull * s.unit ELSE s.unit
             t == s.stripeno + 1
  <2>1. NextUnit(o, s) = [s EXCEPT !.devno = 0, !.stripeno = t, !.unit = w]
    BY <1>2 DEF NextUnit
  <2> HIDE DEF w, t
  <2> QED BY <2>1 DEF Spreading
<1> QED BY <1>1, <1>2

\* The loop goes on to the next unit.
LEMMA NextSpreads ==
  ASSUME NEW o, Striping(o), NEW b, NEW at, InUnit(o, b, at), NEW E \in Nat,
         E <= o.blksperpart * o.numdisks, NEW s, Spreading(o, E, at, s, 1)
  PROVE  Spreading(o, E, at, NextUnit(o, s), 0)
<1>1. CASE s.devno + 1 < o.numdisks
  BY <1>1, NextOfStripe
<1>2. CASE ~(s.devno + 1 < o.numdisks)
  BY <1>2, NextStripe
<1> QED BY <1>1, <1>2

\* One step of the loop brings its end nearer.
LEMMA SpreadStep ==
  ASSUME NEW o, Striping(o), NEW b, NEW at, InUnit(o, b, at), NEW E \in Nat,
         E <= o.blksperpart * o.numdisks, NEW s, Spreading(o, E, at, s, 0)
  PROVE  /\ Spreading(o, E, at, SpreadUnit(o, s), 0)
         /\ s.left <= s.unit => SpreadUnit(o, s) = s
         /\ s.unit < s.left => SpreadUnit(o, s).left <= s.left - 1
<1>1. s.left \in Nat /\ s.unit \in Nat \ {0}
  BY DEF Spreading
<1>2. CASE s.left <= s.unit
  <2>1. SpreadUnit(o, s) = s
    BY <1>2 DEF SpreadUnit
  <2> QED BY <1>1, <1>2, <2>1
<1>3. CASE s.unit < s.left
  <2>1. ~(s.left <= s.unit)
    BY <1>1, <1>3
  <2>2. SpreadUnit(o, s) = NextUnit(o, WithUnit(s))
    BY <2>1 DEF SpreadUnit, WithUnit
  <2>3. Spreading(o, E, at, WithUnit(s), 1) /\ WithUnit(s).left = s.left - s.unit
    BY <1>3, DealUnit
  <2>4. Spreading(o, E, at, NextUnit(o, WithUnit(s)), 0)
    BY <2>3, NextSpreads
  <2>5. NextUnit(o, WithUnit(s)).left = s.left - s.unit
    BY <2>3, NextKeepsLeft
  <2>6. s.left - s.unit <= s.left - 1
    BY <1>1
  <2> QED BY <2>1, <2>2, <2>4, <2>5, <2>6
<1> QED BY <1>1, <1>2, <1>3

\* it is the function by which the loop of logorg_mapstriped recurs.
SpreadsOver(o, s0, n, it) ==
    it = [k \in 0..n |-> IF k = 0 THEN s0 ELSE SpreadUnit(o, it[k - 1])]

\* There is such a function.
LEMMA SpreadsExist ==
  ASSUME NEW o, NEW s0, NEW n \in Nat
  PROVE  \E it : SpreadsOver(o, s0, n, it)
<1> DEFINE Step(s) == SpreadUnit(o, s)
           S == {m \in Nat : \E it : SpreadsOver(o, s0, m, it)}
<1>1. 0 \in S
  <2> DEFINE it == [k \in 0..0 |-> s0]
  <2>1. it = [k \in 0..0 |-> IF k = 0 THEN s0 ELSE SpreadUnit(o, it[k - 1])]
    <3>1. \A k \in 0..0 : k = 0
      OBVIOUS
    <3> QED BY <3>1
  <2> QED BY <2>1 DEF SpreadsOver
<1>2. ASSUME NEW m \in Nat, m \in S PROVE m + 1 \in S
  <2>1. PICK it : SpreadsOver(o, s0, m, it)
    BY <1>2
  <2>2. it = [k \in 0..m |-> IF k = 0 THEN s0 ELSE Step(it[k - 1])]
    BY <2>1 DEF SpreadsOver
  <2> HIDE DEF Step
  <2> DEFINE jt == [k \in 0..m + 1 |-> IF k = m + 1 THEN Step(it[m]) ELSE it[k]]
  <2>3. \A k \in 0..m + 1 : jt[k] = IF k = 0 THEN s0 ELSE Step(jt[k - 1])
    <3> SUFFICES ASSUME NEW k \in 0..m + 1 PROVE jt[k] = IF k = 0 THEN s0 ELSE Step(jt[k - 1])
      OBVIOUS
    <3>1. CASE k = m + 1
      BY <3>1
    <3>2. CASE k # m + 1
      <4>1. k \in 0..m /\ jt[k] = it[k] /\ (k # 0 => k - 1 \in 0..m + 1 /\ k - 1 # m + 1)
        BY <3>2
      <4>2. k # 0 => jt[k - 1] = it[k - 1]
        BY <4>1
      <4>3. it[k] = IF k = 0 THEN s0 ELSE Step(it[k - 1])
        BY <2>2, <4>1
      <4> QED BY <4>1, <4>2, <4>3
    <3> QED BY <3>1, <3>2
  <2>4. jt = [k \in 0..m + 1 |-> jt[k]]
    OBVIOUS
  <2> HIDE DEF jt
  <2>5. jt = [k \in 0..m + 1 |-> IF k = 0 THEN s0 ELSE Step(jt[k - 1])]
    BY <2>3, <2>4
  <2>6. SpreadsOver(o, s0, m + 1, jt)
    BY <2>5 DEF SpreadsOver, Step
  <2>7. m + 1 \in Nat
    OBVIOUS
  <2> QED BY <2>6, <2>7
<1> HIDE DEF S
<1>3. n \in S
  BY <1>1, <1>2, AllNaturals
<1> QED BY <1>3 DEF S

\* What is left is a number, and so is the size of a unit.
LEMMA LeftInUnits ==
  ASSUME NEW o, NEW E, NEW at, NEW s, NEW e, Spreading(o, E, at, s, e)
  PROVE  s.left \in Int /\ s.unit \in Int
<1>1. s.left \in Nat \ {0} /\ s.unit \in Nat \ {0}
  BY DEF Spreading
<1> QED BY <1>1

\* The loop ends, and what is left fits in the unit it has come to.
LEMMA SpreadRuns ==
  ASSUME NEW o, Striping(o), NEW b, NEW at, InUnit(o, b, at), NEW E \in Nat,
         E <= o.blksperpart * o.numdisks, NEW s0, Spreading(o, E, at, s0, 0)
  PROVE  Spreading(o, E, at, Spread(o, s0), 0) /\ Spread(o, s0).left <= Spread(o, s0).unit
<1> DEFINE n  == s0.left
           it == CHOOSE it : SpreadsOver(o, s0, n, it)
           S  == {k \in 0..n : /\ Spreading(o, E, at, it[k], 0)
                               /\ it[k].left <= it[k].unit \/ it[k].left <= n - k}
<1>1. n \in Nat
  BY DEF Spreading
<1>2. Spread(o, s0) = it[n]
  <2>1. it = CHOOSE f : f = [k \in 0..n |-> IF k = 0 THEN s0 ELSE SpreadUnit(o, f[k - 1])]
    BY DEF SpreadsOver
  <2>2. Spread(o, s0) = (CHOOSE f : f = [k \in 0..n |-> IF k = 0 THEN s0 ELSE SpreadUnit(o, f[k - 1])])[n]
    BY DEF Spread
  <2> HIDE DEF it
  <2> QED BY <2>1, <2>2
<1>3. SpreadsOver(o, s0, n, it)
  <2> HIDE DEF n
  <2> QED BY <1>1, SpreadsExist
<1> HIDE DEF it
<1>4. it = [k \in 0..n |-> IF k = 0 THEN s0 ELSE SpreadUnit(o, it[k - 1])]
  BY <1>3 DEF SpreadsOver
<1>5. 0 \in S
  <2>1. it[0] = s0
    BY <1>1, <1>4
  <2>2. s0.left <= n - 0
    BY <1>1
  <2> QED BY <1>1, <2>1, <2>2
<1> HIDE DEF n
<1>6. \A k \in 0..n - 1 : k \in S => k + 1 \in S
  <2> SUFFICES ASSUME NEW k \in 0..n - 1, k \in S PROVE k + 1 \in S
    OBVIOUS
  <2>1. k + 1 \in 0..n /\ k + 1 # 0 /\ (k + 1) - 1 = k /\ n - (k + 1) = (n - k) - 1 /\ n - k \in Int
    BY <1>1
  <2>2. it[k + 1] = SpreadUnit(o, it[k])
    BY <1>4, <2>1
  <2>3. Spreading(o, E, at, it[k], 0)
    OBVIOUS
  <2>4. /\ Spreading(o, E, at, it[k + 1], 0)
        /\ it[k].left <= it[k].unit => it[k + 1] = it[k]
        /\ it[k].unit < it[k].left => it[k + 1].left <= it[k].left - 1
    BY <2>2, <2>3, SpreadStep
  <2>5. it[k].left \in Int /\ it[k].unit \in Int /\ it[k + 1].left \in Int
    BY <2>3, <2>4, LeftInUnits
  <2>6. CASE it[k].left <= it[k].unit
    BY <2>1, <2>4, <2>6
  <2>7. CASE it[k].unit < it[k].left
    <3>1. it[k].left <= n - k /\ it[k + 1].left <= it[k].left - 1
      BY <2>4, <2>5, <2>7
    <3>2. it[k + 1].left <= n - (k + 1)
      BY <2>1, <2>5, <3>1
    <3> QED BY <2>1, <2>4, <3>2
  <2> QED BY <2>5, <2>6, <2>7
<1> HIDE DEF S
<1>7. n \in S
  BY <1>1, <1>5, <1>6, AllUpTo
<1>8. Spreading(o, E, at, it[n], 0) /\ (it[n].left <= it[n].unit \/ it[n].left <= n - n)
  BY <1>7 DEF S
<1>9. it[n].left \in Nat \ {0}
  BY <1>8 DEF Spreading
<1>10. ~(it[n].left <= n - n)
  BY <1>1, <1>9
<1> QED BY <1>2, <1>8, <1>10

\* The first unit has been dealt, of a request for c blocks.
FirstUnit(o, at, c) ==
    [devno |-> at.devno, stripeno |-> at.stripeno, unit |-> at.unit,
     left |-> c - (at.unit - at.offset), numstripes |-> 2,
     sizes |-> [d \in 0..o.numdisks - 1 |-> IF d = at.devno THEN at.unit - at.offset ELSE 0]]

\* The loop starts after the first unit.
LEMMA SpreadStart ==
  ASSUME NEW o, Striping(o), NEW b \in Nat, NEW at, InUnit(o, b, at), NEW c \in Nat,
         at.unit - at.offset < c
  PROVE  Spreading(o, b + c, at, FirstUnit(o, at, c), 1)
<1> DEFINE n == o.numdisks
           d == at.devno
           t == at.stripeno
           w == at.unit
           f == at.offset
           l == c - (w - f)
           z == [x \in 0..n - 1 |-> IF x = d THEN w - f ELSE 0]
           new == FirstUnit(o, at, c)
<1>1. /\ n \in Nat \ {0} /\ d \in 0..n - 1 /\ o.numfull \in Nat /\ t \in 0..o.numfull /\ w \in Nat \ {0}
      /\ f \in 0..w - 1 /\ w = UnitAt(o, t) /\ o.stripeunit \in Nat /\ w - f < c
  BY DEF Striping, InUnit
<1>2. b = t * (n * o.stripeunit) + d * w + f
  BY DEF InUnit
<1>3. new = [devno |-> d, stripeno |-> t, unit |-> w, left |-> l, numstripes |-> 2, sizes |-> z]
  BY DEF FirstUnit
<1>4. \A e, x, s : Passed(at, s, e, x) <=> \/ s.stripeno = t /\ d <= x /\ x < s.devno + e
                                           \/ s.stripeno = t + 1 /\ (d <= x \/ x < s.devno + e)
                                           \/ s.stripeno > t + 1
  BY DEF Passed
<1>5. \A x, s : Before(at, s, x) <=> s.stripeno = t /\ x < d
  BY DEF Before
<1>6. \A x : StartOn(o, at, x) = t * o.stripeunit + IF x = d THEN f ELSE IF x < d THEN o.stripeunit ELSE 0
  BY DEF StartOn
<1> HIDE DEF n, d, t, w, f, new
<1>7. l \in Nat \ {0} /\ w - f \in Nat \ {0}
  BY <1>1
<1>8. z \in [0..n - 1 -> Nat] /\ z[d] = w - f /\ \A x \in 0..n - 1 : x # d => z[x] = 0
  BY <1>1, <1>7
<1>9. b + c = t * (n * o.stripeunit) + (d + 1) * w + l
  <2>1. (d + 1) * w = d * w + w /\ d * w \in Int
    BY <1>1
  <2> DEFINE x == t * (n * o.stripeunit)
             y == d * w
  <2>2. x \in Int /\ y \in Int /\ b = x + y + f /\ (d + 1) * w = y + w
    BY <1>1, <1>2, <2>1
  <2> HIDE DEF x, y
  <2>3. x + y + f + c = x + (y + w) + (c - (w - f))
    BY <1>1, <2>2
  <2> QED BY <2>2, <2>3 DEF x
<1> HIDE DEF l, z
<1>10. /\ new.devno = d /\ new.stripeno = t /\ new.unit = w /\ new.left = l
       /\ new.numstripes = 2 /\ new.sizes = z
       /\ new = [devno |-> new.devno, stripeno |-> new.stripeno, unit |-> new.unit, left |-> new.left,
                 numstripes |-> new.numstripes, sizes |-> new.sizes]
  BY <1>3
<1>11. t * n + d + 1 = t * n + d + 2 - 1
  <2>1. t * n \in Int
    BY <1>1
  <2> QED BY <1>1, <2>1
<1>12. ASSUME NEW x \in 0..n - 1
       PROVE  /\ Passed(at, new, 1, x) => z[x] # 0
              /\ Before(at, new, x) => z[x] = 0
              /\ ~Before(at, new, x) =>
                   StartOn(o, at, x) + z[x] = t * o.stripeunit + IF x < d + 1 THEN w ELSE 0
  <2>1. Passed(at, new, 1, x) => x = d
    BY <1>1, <1>4, <1>10
  <2>2. Before(at, new, x) <=> x < d
    BY <1>5, <1>10
  <2> DEFINE g == t * o.stripeunit
  <2>3. StartOn(o, at, x) = g + IF x = d THEN f ELSE IF x < d THEN o.stripeunit ELSE 0
    BY <1>6
  <2>4. g \in Int
    BY <1>1
  <2> HIDE DEF g
  <2>5. CASE x = d
    <3>1. z[x] = w - f /\ ~(x < d) /\ x < d + 1
      BY <1>1, <1>8, <2>5
    <3>2. g + f + (w - f) = g + w
      BY <1>1, <2>4
    <3> QED BY <1>7, <2>2, <2>3, <2>5, <3>1, <3>2 DEF g
  <2>6. CASE x # d
    <3>1. z[x] = 0 /\ (x < d + 1 => x < d)
      BY <1>1, <1>8, <2>6
    <3>2. g + 0 + 0 = g + 0
      BY <2>4
    <3> QED BY <2>1, <2>2, <2>3, <2>6, <3>1, <3>2 DEF g
  <2> QED BY <2>5, <2>6
<1>13. t \in t..o.numfull /\ 2 \in Nat \ {0, 1}
  BY <1>1
<1>14. Spreading(o, b + c, at, new, 1)
  BY <1>1, <1>7, <1>8, <1>9, <1>10, <1>11, <1>12, <1>13 DEF Spreading, n, d, t
<1> QED BY <1>14 DEF new

\* A unit of a stripe ends on the disk.
LEMMA UnitEnds ==
  ASSUME NEW o, Striping(o), NEW t \in 0..o.numfull
  PROVE  t * o.stripeunit \in Nat /\ t * o.stripeunit + UnitAt(o, t) <= o.blksperpart
<1> DEFINE u == o.stripeunit
           B == o.blksperpart
           F == o.numfull
<1>1. u \in Nat \ {0} /\ B \in Nat /\ F \in Nat /\ F * u <= B /\ t \in Nat /\ t <= F
  BY DEF Striping
<1>2. UnitAt(o, t) = IF t = F THEN B - F * u ELSE u
  BY DEF UnitAt
<1> HIDE DEF u, B, F
<1>3. t * u \in Nat /\ F * u \in Int
  BY <1>1
<1>4. CASE t = F
  <2>1. UnitAt(o, t) = B - F * u
    BY <1>2, <1>4
  <2> DEFINE x == F * u
  <2>2. x \in Int /\ t * u = x /\ UnitAt(o, t) = B - x
    BY <1>3, <1>4, <2>1
  <2> HIDE DEF x
  <2>3. t * u + UnitAt(o, t) <= B
    BY <1>1, <2>2
  <2> QED BY <1>3, <2>3 DEF u, B
<1>5. CASE t # F
  <2>1. t + 1 <= F /\ t + 1 \in Int /\ F \in Int
    BY <1>1, <1>5
  <2>2. (t + 1) * u <= F * u
    BY <1>1, <2>1, MulMono
  <2>3. (t + 1) * u = t * u + u
    BY <1>1
  <2>4. t * u + u <= B
    BY <1>1, <1>3, <2>2, <2>3
  <2> QED BY <1>2, <1>3, <1>5, <2>4 DEF u, B
<1> QED BY <1>4, <1>5

\* The disk of the ith access
DiskOf(o, at, i) == (at.devno + (i - 1)) % o.numdisks

\* It is found without a division, for i is at most the number of disks.
LEMMA DiskOfFacts ==
  ASSUME NEW o, NEW at, o.numdisks \in Nat \ {0}, at.devno \in 0..o.numdisks - 1,
         NEW i \in 1..o.numdisks
  PROVE  /\ DiskOf(o, at, i) \in 0..o.numdisks - 1
         /\ DiskOf(o, at, i) = IF at.devno + (i - 1) < o.numdisks THEN at.devno + (i - 1)
                                                       ELSE at.devno + (i - 1) - o.numdisks
<1> DEFINE n == o.numdisks
           d == at.devno
<1>1. n \in Nat \ {0} /\ d \in 0..n - 1 /\ i \in 1..n
  OBVIOUS
<1>2. DiskOf(o, at, i) = (d + (i - 1)) % n
  BY DEF DiskOf
<1> HIDE DEF n, d
<1>3. CASE d + (i - 1) < n
  <2>1. d + (i - 1) \in 0..n - 1
    BY <1>1, <1>3
  <2>2. (d + (i - 1)) % n = d + (i - 1)
    BY <1>1, <2>1, ModOnce
  <2> QED BY <1>2, <1>3, <2>1, <2>2 DEF n, d
<1>4. CASE ~(d + (i - 1) < n)
  <2> DEFINE e == d + (i - 1) - n
  <2>1. e \in 0..n - 1 /\ d + (i - 1) = e + n
    BY <1>1, <1>4
  <2> HIDE DEF e
  <2>2. (e + n) % n = e
    BY <1>1, <2>1, ModOnce
  <2>3. DiskOf(o, at, i) = e
    BY <1>2, <2>1, <2>2
  <2> QED BY <1>4, <2>1, <2>3 DEF e, n, d
<1> QED BY <1>3, <1>4

\* No disk comes twice.
LEMMA DisksDiffer ==
  ASSUME NEW o, NEW at, o.numdisks \in Nat \ {0}, at.devno \in 0..o.numdisks - 1,
         NEW i \in 1..o.numdisks, NEW j \in 1..o.numdisks, DiskOf(o, at, i) = DiskOf(o, at, j)
  PROVE  i = j
<1> DEFINE n == o.numdisks
           d == at.devno
           y == DiskOf(o, at, i)
           x == d + (i - 1)
           z == d + (j - 1)
<1>1. n \in Int /\ d \in Int /\ i \in Int /\ j \in Int
      /\ 0 <= d /\ d < n /\ 1 <= i /\ i <= n /\ 1 <= j /\ j <= n
  OBVIOUS
<1>2. (y = IF x < n THEN x ELSE x - n) /\ (y = IF z < n THEN z ELSE z - n)
  BY DiskOfFacts
<1>3. x \in Int /\ z \in Int /\ d <= x /\ x < d + n /\ d <= z /\ z < d + n /\ (x = z => i = j)
  BY <1>1
<1> HIDE DEF n, d, y, x, z
<1>4. x = z
  <2>1. CASE x < n /\ z < n
    BY <1>2, <2>1
  <2>2. CASE x < n /\ ~(z < n)
    <3>1. x = z - n
      BY <1>2, <2>2
    <3> QED BY <1>1, <1>3, <3>1
  <2>3. CASE ~(x < n) /\ z < n
    <3>1. x - n = z
      BY <1>2, <2>3
    <3> QED BY <1>1, <1>3, <3>1
  <2>4. CASE ~(x < n) /\ ~(z < n)
    <3>1. x - n = z - n
      BY <1>2, <2>4
    <3> QED BY <1>1, <1>3, <3>1
  <2> QED BY <2>1, <2>2, <2>3, <2>4
<1> QED BY <1>3, <1>4

\* The block of the disk d that the array has come to with the block f of the unit D
\* of the stripe T
Cut(o, T, D, f, d) == T * o.stripeunit + IF d < D THEN UnitAt(o, T) ELSE IF d = D THEN f ELSE 0

\* What the disk d gets when the loop ends at s
Share(s, d) == IF d = s.devno THEN s.sizes[d] + s.left ELSE s.sizes[d]

\* Every disk that an access goes to gets some blocks, up to the last that the request
\* names there, and the disk has them.
LEMMA UnitsEnd ==
  ASSUME NEW o, Striping(o), NEW b, NEW at, InUnit(o, b, at), NEW E, NEW s, Spreading(o, E, at, s, 0),
         s.left <= s.unit, NEW i \in 1..o.numdisks, i <= s.numstripes
  PROVE  /\ Share(s, DiskOf(o, at, i)) \in Nat \ {0} /\ StartOn(o, at, DiskOf(o, at, i)) \in Nat
         /\ StartOn(o, at, DiskOf(o, at, i)) + Share(s, DiskOf(o, at, i)) <= o.blksperpart
         /\ StartOn(o, at, DiskOf(o, at, i)) + Share(s, DiskOf(o, at, i))
              = Cut(o, s.stripeno, s.devno, s.left, DiskOf(o, at, i))
<1> DEFINE n == o.numdisks
           d == DiskOf(o, at, i)
           c == Share(s, d)
           u == o.stripeunit
           t == s.stripeno
           T == at.stripeno
           D == at.devno
           k == s.numstripes
           x == s.devno
<1>1. /\ n \in Nat \ {0} /\ u \in Nat /\ o.numfull \in Nat /\ T \in 0..o.numfull /\ D \in 0..n - 1
      /\ t \in T..o.numfull /\ x \in 0..n - 1 /\ k \in Nat \ {0, 1} /\ s.unit \in Nat \ {0}
      /\ s.unit = UnitAt(o, t) /\ s.left \in Nat \ {0} /\ s.sizes \in [0..n - 1 -> Nat]
      /\ i \in 1..n /\ i <= k /\ s.left <= s.unit
  BY DEF Striping, InUnit, Spreading
<1>2. d \in 0..n - 1 /\ d = IF D + (i - 1) < n THEN D + (i - 1) ELSE D + (i - 1) - n
  BY <1>1, DiskOfFacts
<1>3. t * n + x + 0 = T * n + D + k - 1
  BY DEF Spreading
<1>4. /\ Passed(at, s, 0, d) => s.sizes[d] # 0
      /\ ~Before(at, s, d) => StartOn(o, at, d) + s.sizes[d] = t * u + IF d < x + 0 THEN s.unit ELSE 0
  BY <1>2 DEF Spreading
<1>5. /\ Passed(at, s, 0, d) <=> \/ t = T /\ D <= d /\ d < x + 0
                                 \/ t = T + 1 /\ (D <= d \/ d < x + 0)
                                 \/ t > T + 1
      /\ Before(at, s, d) <=> t = T /\ d < D
  BY DEF Passed, Before
<1>6. StartOn(o, at, d) \in Nat
  <2>1. at.offset \in Nat
    <3>1. at.unit \in Nat /\ at.offset \in 0..at.unit - 1
      BY DEF InUnit
    <3> QED BY <3>1
  <2> DEFINE g == T * u
             h == IF d = D THEN at.offset ELSE IF d < D THEN u ELSE 0
  <2>2. T \in Nat /\ u \in Nat
    <3> HIDE DEF T, u
    <3> QED BY <1>1
  <2>3. g \in Nat
    <3> HIDE DEF T, u
    <3> QED BY <2>2
  <2>4. h \in Nat
    <3> HIDE DEF u, d, D
    <3> QED BY <2>1, <2>2
  <2>5. StartOn(o, at, d) = g + h
    BY DEF StartOn
  <2> HIDE DEF g, h
  <2> QED BY <2>3, <2>4, <2>5
<1>7. t * u \in Nat /\ t * u + s.unit <= o.blksperpart
  <2>1. t \in 0..o.numfull
    BY <1>1
  <2> QED BY <1>1, <2>1, UnitEnds
<1>8. o.blksperpart \in Nat
  BY DEF Striping
<1>15. c = IF d = x THEN s.sizes[d] + s.left ELSE s.sizes[d]
  BY DEF Share
<1> HIDE DEF n, u, t, T, D, k, x, d, c
<1>9. ~Before(at, s, d) /\ (d # x => Passed(at, s, 0, d))
  <2> DEFINE y == t * n
             z == T * n
  <2>1. y \in Int /\ z \in Int /\ y + x = z + D + k - 1 /\ (t = T => y = z) /\ (t = T + 1 => y = z + n)
    <3>1. y \in Int /\ z \in Int
      BY <1>1
    <3>2. (t = T => y = z) /\ (t = T + 1 => y = z + n)
      BY <1>1
    <3>3. y + x + 0 = z + D + k - 1
      BY <1>3
    <3> HIDE DEF y, z
    <3> QED BY <1>1, <3>1, <3>2, <3>3
  <2> HIDE DEF y, z
  <2>2. CASE t = T
    <3>1. x = D + k - 1
      <4>1. x \in Int /\ D \in Int /\ k \in Int /\ y \in Int /\ y + x = y + D + k - 1
        BY <1>1, <2>1, <2>2
      <4> QED BY <4>1
    <3>2. d = D + (i - 1) /\ D <= d /\ d <= x
      <4>2. n \in Nat /\ D \in 0..n - 1 /\ x \in 0..n - 1 /\ k \in Nat /\ i \in 1..n /\ i <= k
        BY <1>1
      <4>1. /\ x \in Int /\ D \in Int /\ k \in Int /\ i \in Int /\ n \in Int /\ 1 <= i /\ i <= k /\ x < n
            /\ x = D + k - 1 /\ d = IF D + (i - 1) < n THEN D + (i - 1) ELSE D + (i - 1) - n
        BY <4>2, <1>2, <3>1
      <4> QED BY <4>1
    <3>3. ~(d < D) /\ (d # x => d < x + 0)
      <4>1. d \in Int /\ D \in Int /\ x \in Int
        BY <1>1, <1>2
      <4> QED BY <3>2, <4>1
    <3> QED BY <1>5, <2>2, <3>2, <3>3
  <2>3. CASE t = T + 1
    <3>1. n + x = D + k - 1
      BY <1>1, <2>1, <2>3
    <3>2. D <= d \/ d <= x
      BY <1>1, <1>2, <3>1
    <3> QED BY <1>1, <1>2, <1>5, <2>3, <3>2
  <2>4. CASE t > T + 1
    BY <1>1, <1>5, <2>4
  <2> QED BY <1>1, <2>2, <2>3, <2>4
<1> DEFINE a == StartOn(o, at, d)
           e == s.sizes[d]
           g == t * u
<1>10. a \in Nat /\ e \in Nat /\ g \in Nat /\ g + s.unit <= o.blksperpart
       /\ a + e = g + IF d < x THEN s.unit ELSE 0
  <2>1. e \in Nat
    BY <1>1, <1>2
  <2>2. d < x + 0 <=> d < x
    BY <1>1
  <2>3. a + e = g + IF d < x THEN s.unit ELSE 0
    BY <1>4, <1>9, <2>2 DEF u, t, x
  <2> QED BY <1>6, <1>7, <2>1, <2>3 DEF u, t
<1>11. d # x => e # 0
  BY <1>4, <1>9
<1>12. c = IF d = x THEN e + s.left ELSE e
  BY <1>15
<1> DEFINE B == o.blksperpart
           w == s.unit
           l == s.left
<1>16. /\ B \in Nat /\ w \in Nat \ {0} /\ l \in Nat \ {0} /\ l <= w /\ d \in Int /\ x \in Int
       /\ a \in Nat /\ e \in Nat /\ g \in Nat /\ g + w <= B /\ a + e = g + IF d < x THEN w ELSE 0
       /\ c = IF d = x THEN e + l ELSE e
  BY <1>1, <1>2, <1>8, <1>10, <1>12
<1>17. Cut(o, t, x, l, d) = g + IF d < x THEN w ELSE IF d = x THEN l ELSE 0
  BY <1>1 DEF Cut, u
<1> HIDE DEF a, e, g, B, w, l
<1>13. CASE d = x
  <2>1. c = e + l /\ a + e = g
    BY <1>16, <1>13
  <2>2. c \in Nat \ {0} /\ a + c <= B /\ a + c = g + l
    BY <1>16, <2>1
  <2>3. Cut(o, t, x, l, d) = g + l
    BY <1>13, <1>16, <1>17
  <2> QED BY <1>16, <2>2, <2>3 DEF a, B, c, d, t, x, l
<1>14. CASE d # x
  <2>1. c = e /\ a + e <= g + w
    BY <1>16, <1>14
  <2>2. c \in Nat \ {0} /\ a + c <= B
    BY <1>11, <1>14, <1>16, <2>1
  <2>3. Cut(o, t, x, l, d) = a + c
    BY <1>14, <1>16, <1>17, <2>1
  <2> QED BY <1>16, <2>2, <2>3 DEF a, B, c, d, t, x, l
<1> QED BY <1>13, <1>14

\* The request r is in the unit at.
OneUnit(o, at, r, m) ==
    /\ r.bcount <= at.unit - at.offset
    /\ m = <<Access(at.devno, at.stripeno * o.stripeunit + at.offset, r.bcount, r.read)>>

\* It goes on to the disks that the loop has come to when it ends at s.
ManyUnits(o, at, s, r, m) ==
    /\ Spreading(o, r.blkno + r.bcount, at, s, 0) /\ s.left <= s.unit
    /\ m = [i \in 1..Least(s.numstripes, o.numdisks) |->
              Access(DiskOf(o, at, i), StartOn(o, at, DiskOf(o, at, i)), Share(s, DiskOf(o, at, i)), r.read)]

\* The accesses that logorg_mapstriped makes
LEMMA UnitsAre ==
  ASSUME NEW o, Striping(o), NEW r, InArray(o, r)
  PROVE  LET at == UnitOf(o, r.blkno)
         IN /\ InUnit(o, r.blkno, at)
            /\ OneUnit(o, at, r, MapUnits(o, r)) \/ \E s : ManyUnits(o, at, s, r, MapUnits(o, r))
<1> DEFINE n    == o.numdisks
           B    == o.blksperpart
           b    == r.blkno
           c    == r.bcount
           at   == UnitOf(o, b)
           row  == at.stripeno * o.stripeunit
           slop == at.unit - at.offset
           s    == Spread(o, NextUnit(o, FirstUnit(o, at, c)))
           sizes == [s.sizes EXCEPT ![s.devno] = @ + s.left]
           disk(i) == (at.devno + (i - 1)) % n
           start(i) == IF i = 1 THEN row + at.offset
                       ELSE IF disk(i) < at.devno THEN row + o.stripeunit ELSE row
           m == MapUnits(o, r)
<1>1. /\ n \in Nat \ {0} /\ B \in Nat /\ o.actualblksperpart = B /\ b \in Nat /\ c \in Nat \ {0}
      /\ r.read \in BOOLEAN /\ b + c <= B * n /\ o.stripeunit \in Nat /\ o.numfull \in Nat
  BY DEF Striping, InArray
<1>2. m = IF c <= slop THEN <<Access(at.devno, row + at.offset, c, r.read)>>
          ELSE [i \in 1..Least(s.numstripes, n) |-> Access(disk(i), start(i), sizes[disk(i)], r.read)]
  BY DEF MapUnits, FirstUnit
<1>3. InUnit(o, b, at)
  <2>1. b < B * n
    <3>1. B * n \in Int
      BY <1>1
    <3> HIDE DEF B, n, b, c
    <3> QED BY <1>1, <3>1
  <2> HIDE DEF at
  <2> QED BY <1>1, <2>1, UnitFacts DEF at
<1>4. /\ at.stripeno \in 0..o.numfull /\ at.unit = UnitAt(o, at.stripeno) /\ at.unit \in Nat \ {0}
      /\ at.devno \in 0..n - 1 /\ at.offset \in 0..at.unit - 1
  BY <1>3 DEF InUnit
<1>5. row \in Nat /\ row + at.unit <= B
  BY <1>4, UnitEnds
<1>6. CASE c <= slop
  <2>1. OneUnit(o, at, r, m)
    BY <1>2, <1>6 DEF OneUnit
  <2> QED BY <1>3, <2>1
<1>7. CASE ~(c <= slop)
  <2> DEFINE E == b + c
             k == Least(s.numstripes, n)
  <2>1. E \in Nat /\ E <= B * n
    BY <1>1
  <2>2. Spreading(o, E, at, FirstUnit(o, at, c), 1)
    <3> HIDE DEF at, b, c, n, B, m
    <3>1. slop < c /\ c \in Nat
      BY <1>1, <1>4, <1>7
    <3> QED BY <1>1, <1>3, <3>1, SpreadStart
  <2>3. Spreading(o, E, at, NextUnit(o, FirstUnit(o, at, c)), 0)
    <3> HIDE DEF at, E, c
    <3> QED BY <1>3, <2>1, <2>2, NextSpreads
  <2>4. Spreading(o, E, at, s, 0) /\ s.left <= s.unit
    <3> DEFINE s0 == NextUnit(o, FirstUnit(o, at, c))
    <3>1. Spreading(o, E, at, s0, 0)
      BY <2>3
    <3> HIDE DEF at, E, c, s0
    <3>2. Spreading(o, E, at, Spread(o, s0), 0) /\ Spread(o, s0).left <= Spread(o, s0).unit
      BY <1>3, <2>1, <3>1, SpreadRuns
    <3> QED BY <3>2 DEF s0
  <2>5. m = [i \in 1..k |-> Access(disk(i), start(i), sizes[disk(i)], r.read)]
    BY <1>2, <1>7
  <2> HIDE DEF at, s, m, B
  <2>6. /\ s.devno \in 0..n - 1 /\ s.left \in Nat \ {0} /\ s.numstripes \in Nat \ {0, 1}
        /\ s.sizes \in [0..n - 1 -> Nat]
    BY <2>4 DEF Spreading
  <2>7. k \in 1..n
    BY <1>1, <2>6 DEF Least
  <2>8. \A i \in 1..n : /\ disk(i) = DiskOf(o, at, i) /\ disk(i) \in 0..n - 1
                        /\ disk(i) = IF at.devno + (i - 1) < n THEN at.devno + (i - 1)
                                                               ELSE at.devno + (i - 1) - n
    <3> TAKE i \in 1..n
    <3>1. disk(i) = DiskOf(o, at, i)
      BY DEF DiskOf
    <3>2. /\ DiskOf(o, at, i) \in 0..n - 1
          /\ DiskOf(o, at, i) = IF at.devno + (i - 1) < n THEN at.devno + (i - 1)
                                                          ELSE at.devno + (i - 1) - n
      BY <1>1, <1>4, DiskOfFacts
    <3> QED BY <3>1, <3>2
  <2>10. \A d \in 0..n - 1 : sizes[d] = Share(s, d)
    BY <2>6 DEF Share
  <2>11. \A i \in 1..n : start(i) = StartOn(o, at, disk(i))
    <3> TAKE i \in 1..n
    <3>1. disk(i) = at.devno <=> i = 1
      <4> HIDE DEF disk
      <4> DEFINE d == at.devno
                 y == disk(i)
      <4>1. /\ n \in Int /\ d \in 0..n - 1 /\ i \in 1..n
            /\ y = IF d + (i - 1) < n THEN d + (i - 1) ELSE d + (i - 1) - n
        BY <1>1, <1>4, <2>8
      <4> HIDE DEF n, d, y
      <4>2. y = d <=> i = 1
        BY <4>1
      <4> QED BY <4>2 DEF y, d
    <3>2. row + 0 = row
      BY <1>5
    <3>3. StartOn(o, at, disk(i)) = row + IF disk(i) = at.devno THEN at.offset
                                          ELSE IF disk(i) < at.devno THEN o.stripeunit ELSE 0
      BY DEF StartOn
    <3> HIDE DEF row, disk
    <3> QED BY <3>1, <3>2, <3>3
  <2> HIDE DEF disk, start, sizes
  <2>12. \A i \in 1..k : Access(disk(i), start(i), sizes[disk(i)], r.read)
                         = Access(DiskOf(o, at, i), StartOn(o, at, DiskOf(o, at, i)), Share(s, DiskOf(o, at, i)), r.read)
    <3> TAKE i \in 1..k
    <3>1. i \in 1..n
      <4> HIDE DEF n, k
      <4> QED BY <1>1, <2>7
    <3>2. disk(i) = DiskOf(o, at, i) /\ disk(i) \in 0..n - 1
      BY <2>8, <3>1
    <3>3. sizes[disk(i)] = Share(s, disk(i)) /\ start(i) = StartOn(o, at, disk(i))
      BY <2>10, <2>11, <3>1, <3>2
    <3> QED BY <3>2, <3>3
  <2>13. m = [i \in 1..Least(s.numstripes, o.numdisks) |->
              Access(DiskOf(o, at, i), StartOn(o, at, DiskOf(o, at, i)), Share(s, DiskOf(o, at, i)), r.read)]
    BY <2>5, <2>12
  <2>14. ManyUnits(o, at, s, r, m)
    BY <2>4, <2>13 DEF ManyUnits
  <2> QED BY <1>3, <2>14 DEF at, m
<1> QED BY <1>6, <1>7

\* How many there are
LEMMA ManyUnitsFacts ==
  ASSUME NEW o, Striping(o), NEW at, NEW s, NEW r, NEW m, ManyUnits(o, at, s, r, m)
  PROVE  /\ Len(m) \in 1..o.numdisks /\ Len(m) <= s.numstripes /\ DOMAIN m = 1..Len(m)
         /\ Len(m) = o.numdisks \/ Len(m) = s.numstripes
         /\ m = [i \in 1..Len(m) |-> m[i]]
         /\ \A i \in 1..Len(m) :
              m[i] = [devno |-> DiskOf(o, at, i), blkno |-> StartOn(o, at, DiskOf(o, at, i)),
                      bcount |-> Share(s, DiskOf(o, at, i)), read |-> r.read]
<1> DEFINE n == o.numdisks
           N == s.numstripes
           k == Least(N, n)
<1>1. n \in Nat \ {0} /\ N \in Nat \ {0, 1}
  BY DEF Striping, ManyUnits, Spreading
<1>2. m = [i \in 1..k |-> Access(DiskOf(o, at, i), StartOn(o, at, DiskOf(o, at, i)), Share(s, DiskOf(o, at, i)), r.read)]
  BY DEF ManyUnits
<1> HIDE DEF n, N
<1>3. k \in 1..n /\ k <= N /\ (k = n \/ k = N)
  BY <1>1 DEF Least
<1> HIDE DEF k
<1>4. DOMAIN m = 1..k /\ Len(m) = k /\ k \in Nat
  BY <1>1, <1>2, <1>3
<1>5. \A i \in 1..k : m[i] = [devno |-> DiskOf(o, at, i), blkno |-> StartOn(o, at, DiskOf(o, at, i)),
                              bcount |-> Share(s, DiskOf(o, at, i)), read |-> r.read]
  BY <1>2 DEF Access
<1>6. m = [i \in 1..k |-> m[i]]
  BY <1>2
<1> QED BY <1>3, <1>4, <1>5, <1>6 DEF n, N

\* A request of striped blocks
LEMMA UnitsDealt ==
  ASSUME NEW o, OrgOK(o), Striping(o), NEW r, InArray(o, r)
  PROVE  Dealt(o, r, MapUnits(o, r))
<1> DEFINE n  == o.numdisks
           B  == o.blksperpart
           at == UnitOf(o, r.blkno)
           m  == MapUnits(o, r)
<1>1. /\ n \in Nat \ {0} /\ B \in Nat /\ o.actualblksperpart = B /\ r.bcount \in Nat \ {0}
      /\ r.read \in BOOLEAN /\ o.stripeunit \in Nat /\ o.numfull \in Nat
  BY DEF Striping, InArray
<1>2. InUnit(o, r.blkno, at) /\ (OneUnit(o, at, r, m) \/ \E s : ManyUnits(o, at, s, r, m))
  BY UnitsAre
<1> HIDE DEF at, m
<1>3. /\ at.stripeno \in 0..o.numfull /\ at.unit = UnitAt(o, at.stripeno) /\ at.unit \in Nat \ {0}
      /\ at.devno \in 0..n - 1 /\ at.offset \in 0..at.unit - 1
  BY <1>2 DEF InUnit
<1>4. CASE OneUnit(o, at, r, m)
  <2> DEFINE row == at.stripeno * o.stripeunit
             c   == r.bcount
             a   == Access(at.devno, row + at.offset, c, r.read)
  <2>1. m = <<a>> /\ c <= at.unit - at.offset
    BY <1>4 DEF OneUnit
  <2>2. a = [devno |-> at.devno, blkno |-> row + at.offset, bcount |-> c, read |-> r.read]
    BY DEF Access
  <2>3. row \in Nat /\ row + at.unit <= B
    BY <1>3, UnitEnds
  <2> HIDE DEF a, row, n, B, c
  <2>4. row + at.offset \in Nat /\ row + at.offset + c <= B
    BY <1>1, <1>3, <2>1, <2>3 DEF c
  <2>5. a \in DataAccess(o) /\ a.blkno + a.bcount <= B /\ a.read = r.read
    BY <1>1, <1>3, <2>2, <2>4 DEF DataAccess, n, c
  <2>6. m \in Seq(DataAccess(o)) /\ m # <<>> /\ DOMAIN m = {1} /\ m[1] = a
    BY <2>1, <2>5
  <2> QED BY <1>1, <2>5, <2>6 DEF Dealt, m
<1>5. ASSUME NEW s, ManyUnits(o, at, s, r, m)
      PROVE  Dealt(o, r, m)
  <2> DEFINE k == Len(m)
  <2>1. /\ k \in 1..n /\ k <= s.numstripes /\ DOMAIN m = 1..k /\ m = [i \in 1..k |-> m[i]]
        /\ \A i \in 1..k : m[i] = [devno |-> DiskOf(o, at, i), blkno |-> StartOn(o, at, DiskOf(o, at, i)),
                                   bcount |-> Share(s, DiskOf(o, at, i)), read |-> r.read]
    BY <1>5, ManyUnitsFacts
  <2> HIDE DEF k
  <2>2. s.numstripes \in Nat /\ Spreading(o, r.blkno + r.bcount, at, s, 0) /\ s.left <= s.unit
    BY <1>5 DEF ManyUnits, Spreading
  <2>3. \A i \in 1..k : i \in 1..n /\ i <= s.numstripes
    <3> DEFINE N == s.numstripes
    <3>1. n \in Nat /\ N \in Nat /\ k \in 1..n /\ k <= N
      BY <1>1, <2>1, <2>2
    <3> HIDE DEF n, N
    <3>2. \A i \in 1..k : i \in 1..n /\ i <= N
      BY <3>1
    <3> QED BY <3>2 DEF N
  <2>4. \A i \in 1..k : /\ m[i] \in DataAccess(o) /\ m[i].blkno + m[i].bcount <= B /\ m[i].read = r.read
                        /\ m[i].devno = DiskOf(o, at, i)
    <3> TAKE i \in 1..k
    <3> DEFINE d == DiskOf(o, at, i)
               e == StartOn(o, at, d)
               g == Share(s, d)
    <3>1. m[i] = [devno |-> d, blkno |-> e, bcount |-> g, read |-> r.read]
      BY <2>1
    <3>2. g \in Nat \ {0} /\ e \in Nat /\ e + g <= B
      BY <1>2, <2>2, <2>3, UnitsEnd
    <3>3. d \in 0..n - 1
      BY <1>1, <1>3, <2>3, DiskOfFacts
    <3> HIDE DEF d, e, g
    <3>4. m[i] \in DataAccess(o) /\ m[i].blkno + m[i].bcount <= B /\ m[i].read = r.read /\ m[i].devno = d
      BY <1>1, <3>1, <3>2, <3>3 DEF DataAccess, n
    <3> QED BY <3>4 DEF d
  <2>5. m \in Seq(DataAccess(o)) /\ m # <<>>
    <3>1. k \in Nat \ {0}
      BY <1>1, <2>1
    <3>2. \A i \in 1..k : m[i] \in DataAccess(o)
      BY <2>4
    <3> QED BY <2>1, <3>1, <3>2
  <2>6. \A i, j \in 1..k : m[i].devno = m[j].devno => i = j
    <3> TAKE i, j \in 1..k
    <3>1. i \in 1..n /\ j \in 1..n /\ m[i].devno = DiskOf(o, at, i) /\ m[j].devno = DiskOf(o, at, j)
      BY <2>3, <2>4
    <3>2. DiskOf(o, at, i) = DiskOf(o, at, j) => i = j
      BY <1>1, <1>3, <3>1, DisksDiffer
    <3> QED BY <3>1, <3>2
  <2> QED BY <1>1, <2>1, <2>4, <2>5, <2>6 DEF Dealt
<1> QED BY <1>2, <1>4, <1>5 DEF m

(***************************************************************************)
(* All the mappings.                                                        *)
(***************************************************************************)

\* The first disk of the organisation is the first of all.
LEMMA WithinSelf ==
  ASSUME NEW o, o.firstdisk = 0, NEW r \in RequestSet
  PROVE  Within(o, r) = r
<1>1. r.devno \in Nat /\ r.devno - 0 = r.devno
  BY DEF RequestSet
<1>2. [r EXCEPT !.devno = r.devno - 0] = r
  BY <1>1 DEF RequestSet
<1> QED BY <1>2 DEF Within

\* A request that the organisation covers keeps to the data.
LEMMA CoveredKept ==
  ASSUME NEW o, OrgOK(o), DataLeft(o), o.firstdisk = 0, o.reduntype # "PARITY_TABLE",
         NEW r \in RequestSet, Covers(o, r), o.addrbyparts => r.blkno + r.bcount <= o.blksperpart
  PROVE  Kept(o, r) /\ o.numdisks # 0
<1>1. /\ r.devno \in Nat /\ r.blkno \in Nat /\ r.bcount \in Nat \ {0} /\ r.read \in BOOLEAN
      /\ o.numdisks \in Nat /\ o.addrbyparts \in BOOLEAN
  BY DEF RequestSet, OrgOK
<1>2. CASE o.addrbyparts
  <2>1. PICK d \in 0..o.numdisks - 1 : r.devno = 0 + d
    BY <1>2 DEF Covers
  <2>2. r.devno <= o.numdisks - 1 /\ o.numdisks # 0
    BY <1>1, <2>1
  <2> QED BY <1>1, <1>2, <2>2 DEF Kept
<1>3. CASE ~o.addrbyparts
  <2>1. r.blkno + r.bcount < o.blksperpart * o.numdisks
    BY <1>3 DEF Covers
  <2>2. o.blksperpart \in Nat
    <3>1. o.reduntype \in {"NO_REDUN", "SHADOWED", "PARITY_DISK"}
      BY <1>3 DEF OrgOK, DataLeft
    <3> QED BY <3>1 DEF OrgOK, DataLeft
  <2> DEFINE x == o.blksperpart * o.numdisks
  <2>3. x \in Int /\ (o.numdisks = 0 => x = 0) /\ r.blkno + r.bcount < x
    BY <1>1, <2>1, <2>2
  <2> HIDE DEF x
  <2>4. r.blkno + r.bcount <= x /\ o.numdisks # 0
    BY <1>1, <2>3
  <2> QED BY <1>1, <1>3, <2>4 DEF Kept, x
<1> QED BY <1>1, <1>2, <1>3

\* The accesses to the data, in the schemes that compute no places of parity
DataOf(o, r) ==
    IF o.maptype = "STRIPED" THEN MapStriped(o, r)
                             ELSE <<Access(r.devno, r.blkno, r.bcount, r.read)>>

\* They are one for each disk at most.
LEMMA DataDealt ==
  ASSUME NEW o, OrgOK(o), DataLeft(o), o.numdisks # 0,
         o.reduntype \in {"NO_REDUN", "SHADOWED", "PARITY_DISK"}, NEW r \in RequestSet, Kept(o, r)
  PROVE  Dealt(o, r, DataOf(o, r))
<1>1. /\ o.blksperpart = o.actualblksperpart /\ o.blksperpart \in Nat
      /\ (o.maptype = "ASIS" => o.addrbyparts) /\ o.maptype \in {"ASIS", "STRIPED"}
      /\ o.maptype = "STRIPED" /\ o.stripeunit # 0 => o.numfull = o.blksperpart \div o.stripeunit
  BY DEF OrgOK, DataLeft
<1>2. CASE o.maptype = "ASIS"
  <2>1. DataOf(o, r) = <<Access(r.devno, r.blkno, r.bcount, r.read)>>
    BY <1>2 DEF DataOf
  <2>2. o.addrbyparts /\ o.blksperpart <= o.actualblksperpart /\ o.blksperpart \in Int
    BY <1>1, <1>2
  <2>3. Dealt(o, r, <<Access(r.devno, r.blkno, r.bcount, r.read)>>)
    BY <2>2, AsisDealt
  <2> QED BY <2>1, <2>3
<1>3. CASE o.maptype = "STRIPED"
  <2> DEFINE q == IF o.addrbyparts THEN [r EXCEPT !.blkno = r.devno * o.blksperpart + r.blkno] ELSE r
             m == IF o.stripeunit = 0 THEN MapInterleaved(o, q) ELSE MapUnits(o, q)
  <2>1. DataOf(o, r) = m
    BY <1>3 DEF DataOf, MapStriped
  <2>2. q.read = r.read /\ InArray(o, q)
    <3>1. CASE o.addrbyparts
      <4> DEFINE x == r.devno * o.blksperpart + r.blkno
      <4>1. q = [r EXCEPT !.blkno = x]
        BY <3>1
      <4> HIDE DEF x, q
      <4>2. q.blkno = x /\ q.bcount = r.bcount /\ q.read = r.read
        BY <4>1 DEF RequestSet
      <4> QED BY <1>1, <3>1, <4>2, KeptInArray DEF x
    <3>2. CASE ~o.addrbyparts
      BY <1>1, <3>2, KeptInArray
    <3> QED BY <3>1, <3>2
  <2> HIDE DEF q
  <2>3. Dealt(o, q, m)
    <3>1. CASE o.stripeunit = 0
      BY <2>2, <3>1, InterleavedDealt
    <3>2. CASE o.stripeunit # 0
      <4>1. Striping(o)
        BY <1>1, <1>3, <3>2, StripingHolds
      <4> QED BY <2>2, <3>2, <4>1, UnitsDealt
    <3> QED BY <3>1, <3>2
  <2> HIDE DEF m
  <2>4. Dealt(o, r, m)
    BY <2>2, <2>3 DEF Dealt
  <2> QED BY <2>1, <2>4
<1> QED BY <1>1, <1>2, <1>3

\* Whatever the scheme, and whichever copies are read
LEMMA LayoutsHold ==
  ASSUME NEW o, OrgOK(o), DataLeft(o), o.numdisks # 0, o.reduntype # "PARITY_TABLE",
         NEW r \in RequestSet, Kept(o, r), NEW turn \in 0..o.copies - 1, NEW l \in Layouts(o, r, turn)
  PROVE  Layout(o, l) /\ l[1].read = r.read
<1> DEFINE m == DataOf(o, r)
<1>1. Layouts(o, r, turn) =
        CASE o.reduntype = "NO_REDUN" -> {m}
          [] o.reduntype = "SHADOWED" ->
               IF r.read THEN {[i \in DOMAIN m |-> OnCopy(o, m[i], c[i])] :
                                 c \in CopyChoices(o, Len(m), turn)}
                         ELSE {OnEveryCopy(o, m)}
          [] o.reduntype = "PARITY_DISK"    -> {ParityDisk(o, m)}
          [] o.reduntype = "PARITY_ROTATED" -> {RotateUpdates(o, r)}
  BY DEF Layouts, DataOf
<1> HIDE DEF m
<1>2. o.reduntype \in {"NO_REDUN", "SHADOWED", "PARITY_DISK", "PARITY_ROTATED"}
  BY DEF OrgOK
<1>3. o.reduntype # "PARITY_ROTATED" => Dealt(o, r, m)
  BY <1>2, DataDealt DEF m
<1>4. CASE o.reduntype = "NO_REDUN"
  <2>1. l = m
    BY <1>1, <1>4
  <2>2. o.numdisks <= o.actualnumdisks
    BY <1>4 DEF OrgOK, DataLeft
  <2> QED BY <1>3, <1>4, <2>1, <2>2, DealtLayout
<1>5. CASE o.reduntype = "SHADOWED" /\ r.read
  <2>1. PICK c \in CopyChoices(o, Len(m), turn) : l = OnCopies(o, m, c)
    BY <1>1, <1>5 DEF OnCopies
  <2>2. o.numdisks * o.copies = o.actualnumdisks
    BY <1>5 DEF DataLeft
  <2> QED BY <1>3, <1>5, <2>1, <2>2, ShadowReads
<1>6. CASE o.reduntype = "SHADOWED" /\ ~r.read
  <2>1. l = OnEveryCopy(o, m)
    BY <1>1, <1>6
  <2>2. o.numdisks * o.copies = o.actualnumdisks
    BY <1>6 DEF DataLeft
  <2> QED BY <1>3, <1>6, <2>1, <2>2, ShadowWrites
<1>7. CASE o.reduntype = "PARITY_DISK"
  <2>1. l = ParityDisk(o, m)
    BY <1>1, <1>7
  <2>2. o.numdisks = o.actualnumdisks - 1
    BY <1>7 DEF DataLeft
  <2> QED BY <1>3, <1>7, <2>1, <2>2, ParityDiskLayout
<1>8. CASE o.reduntype = "PARITY_ROTATED"
  <2>1. l = RotateUpdates(o, r)
    BY <1>1, <1>8
  <2> QED BY <1>8, <2>1, RotatedLayout
<1> QED BY <1>2, <1>4, <1>5, <1>6, <1>7, <1>8

\* Sent at once or after the reads of what they destroy
LEMMA MappingsFit ==
  ASSUME NEW o, OrgOK(o), DataLeft(o), o.numdisks # 0, o.reduntype # "PARITY_TABLE",
         NEW r \in RequestSet, Kept(o, r), NEW turn \in 0..o.copies - 1, NEW f \in Mappings(o, r, turn)
  PROVE  Fits(o, f)
<1>1. PICK l \in Layouts(o, r, turn) :
        f = IF ReadsOld(o, l)
              THEN [sent |-> [i \in DOMAIN l |-> [l[i] EXCEPT !.read = TRUE]],
                    depend |-> Depend(o, l), waits |-> Waits(o, l)]
              ELSE [sent |-> l, depend |-> {}, waits |-> <<>>]
  BY DEF Mappings
<1>2. Layout(o, l)
  BY LayoutsHold
<1>3. CASE ~ReadsOld(o, l)
  <2>1. f = [sent |-> l, depend |-> {}, waits |-> <<>>]
    BY <1>1, <1>3
  <2>2. f.sent = l /\ f.depend = {} /\ DOMAIN f.waits = {}
    BY <2>1
  <2> QED BY <1>2, <2>2, PlainFits
<1>4. CASE ReadsOld(o, l)
  <2> DEFINE s == [i \in DOMAIN l |-> [l[i] EXCEPT !.read = TRUE]]
             d == Depend(o, l)
             w == Waits(o, l)
  <2>1. f = [sent |-> s, depend |-> d, waits |-> w]
    BY <1>1, <1>4
  <2>2. DOMAIN s = DOMAIN l /\ \A i \in DOMAIN l : s[i] = OldRead(l, i)
    BY DEF OldRead
  <2> HIDE DEF s, d, w
  <2>3. f.sent = s /\ f.depend = d /\ f.waits = w
    BY <2>1
  <2>4. ~l[1].read
    BY <1>4 DEF ReadsOld
  <2>5. l \in Seq(OnMembers(o)) /\ DOMAIN l = 1..Len(l) /\ Len(l) \in Nat
    BY <1>2 DEF Layout
  <2>6. \A i \in DOMAIN l : s[i] \in OnMembers(o)
    <3> TAKE i \in DOMAIN l
    <3> DEFINE a == l[i]
    <3>1. a \in OnMembers(o) /\ s[i] = [a EXCEPT !.read = TRUE]
      BY <2>2, <2>5 DEF OldRead
    <3> HIDE DEF a
    <3> QED BY <3>1 DEF OnMembers
  <2>7. s = [i \in 1..Len(l) |-> s[i]]
    BY <2>5 DEF s
  <2>8. s \in Seq(OnMembers(o))
    BY <2>5, <2>6, <2>7
  <2> QED BY <1>2, <2>2, <2>3, <2>4, <2>8, OldFits DEF d, w
<1> QED BY <1>3, <1>4

\* What is supposed of the requests makes every mapping fit.
LEMMA AllFits ==
  ASSUME FirstAtZero, RequestsFit, TablesFit
  PROVE  AllFit
<1> SUFFICES ASSUME NEW o \in Orgs, NEW n \in 1..MaxRequests, NEW r \in Workload(o, n),
                    NEW turn \in 0..o.copies - 1, Covers(o, r), NEW f \in Mappings(o, Within(o, r), turn)
             PROVE  Fits(o, f)
  BY DEF AllFit
<1>1. OrgOK(o) /\ o.firstdisk = 0 /\ (o.reduntype # "PARITY_TABLE" => DataLeft(o))
  BY OrgFacts
<1>2. r \in RequestSet /\ (o.addrbyparts => r.blkno + r.bcount <= o.blksperpart)
  BY DEF RequestsFit
<1>3. CASE o.reduntype = "PARITY_TABLE"
  <2>1. f = ParityTable(o, Within(o, r))
    BY <1>3 DEF Mappings
  <2> QED BY <1>3, <2>1 DEF TablesFit
<1>4. CASE o.reduntype # "PARITY_TABLE"
  <2>1. f \in Mappings(o, r, turn)
    BY <1>1, <1>2, WithinSelf
  <2>2. Kept(o, r) /\ o.numdisks # 0
    BY <1>1, <1>2, <1>4, CoveredKept
  <2> QED BY <1>1, <1>2, <1>4, <2>1, <2>2, MappingsFit
<1> QED BY <1>3, <1>4

\* What is added to a finite set is added to its cardinality.
LEMMA Added ==
  ASSUME NEW S, NEW T, IsFiniteSet(S), IsFiniteSet(T), S \cap T = {}
  PROVE  /\ IsFiniteSet(S \cup T) /\ Cardinality(S) \in Nat /\ Cardinality(T) \in Nat
         /\ Cardinality(S \cup T) = Cardinality(S) + Cardinality(T)
<1>1. Cardinality(S \cup T) = Cardinality(S) + Cardinality(T) - Cardinality(S \cap T) /\ IsFiniteSet(S \cup T)
  BY FS_Union
<1>2. Cardinality(S \cap T) = 0 /\ Cardinality(S) \in Nat /\ Cardinality(T) \in Nat
  BY FS_CardinalityType, FS_EmptySet
<1> QED BY <1>1, <1>2

\* An organisation that releases all its writes sends reads at once only.
LEMMA SendsReads ==
  ASSUME NEW o, OrgOK(o), AllReleased(o), DataLeft(o), o.numdisks # 0,
         NEW r \in RequestSet, Kept(o, r), NEW turn \in 0..o.copies - 1, NEW m \in Mappings(o, r, turn)
  PROVE  \A i \in DOMAIN m.sent : m.sent[i].read
<1>1. o.reduntype # "PARITY_TABLE" /\ \A l : ~l[1].read => ReadsOld(o, l)
  BY DEF AllReleased, ReadsOld
<1>2. PICK l \in Layouts(o, r, turn) :
        m = IF ReadsOld(o, l)
              THEN [sent |-> [i \in DOMAIN l |-> [l[i] EXCEPT !.read = TRUE]],
                    depend |-> Depend(o, l), waits |-> Waits(o, l)]
              ELSE [sent |-> l, depend |-> {}, waits |-> <<>>]
  BY <1>1 DEF Mappings
<1>3. Layout(o, l)
  BY <1>1, LayoutsHold
<1>4. CASE ~ReadsOld(o, l)
  <2>1. m.sent = l /\ l[1].read
    BY <1>1, <1>2, <1>4
  <2> QED BY <1>3, <2>1 DEF Layout
<1>5. CASE ReadsOld(o, l)
  <2>1. m.sent = [i \in DOMAIN l |-> [l[i] EXCEPT !.read = TRUE]]
    BY <1>2, <1>5
  <2>2. \A i \in DOMAIN l : l[i] \in OnMembers(o)
    BY <1>3 DEF Layout
  <2>3. ASSUME NEW i \in DOMAIN l PROVE m.sent[i].read
    <3> DEFINE a == l[i]
    <3>1. a \in OnMembers(o) /\ m.sent[i] = [a EXCEPT !.read = TRUE]
      BY <2>1, <2>2, <2>3
    <3> HIDE DEF a
    <3> QED BY <3>1 DEF OnMembers
  <2>4. DOMAIN m.sent = DOMAIN l
    BY <2>1
  <2> QED BY <2>3, <2>4
<1> QED BY <1>4, <1>5

\* A request that is mapped is counted on every disk it goes to.
LEMMA MapsShort ==
  ASSUME FirstAtZero, RequestsFit, AllFit, OrgSound, CountsShort,
         NEW r \in Workload(org, Len(requests) + 1), MapRequest(r)
  PROVE  CountsShort'
<1> DEFINE p == Len(requests)
<1>1. /\ org \in Orgs /\ requests \in Seq(ReqSet) /\ reduntoggle \in 0..org.copies - 1
      /\ IsFiniteSet(out) /\ out \subseteq issued /\ issued \subseteq OnDisks(org)
      /\ \A a \in issued : a.opid < Len(requests)
      /\ numout \in [Disks(org) -> Int]
  BY DEF OrgSound, OrgTypes
<1>2. OrgOK(org) /\ org.firstdisk = 0 /\ (org.reduntype # "PARITY_TABLE" => DataLeft(org)) /\ p \in Nat
  BY <1>1, OrgFacts
<1>3. \A a \in issued : a.opid # p
  BY <1>1, <1>2 DEF OnDisks
<1>4. /\ p + 1 \in 1..MaxRequests /\ Covers(org, r)
      /\ \E m \in Mappings(org, Within(org, r), reduntoggle) : Fits(org, m) /\ Maps(r, m)
  BY RequestMaps DEF OrgSound
<1>5. PICK m \in Mappings(org, Within(org, r), reduntoggle) : Fits(org, m) /\ Maps(r, m)
  BY <1>4
<1>6. m.sent \in Seq(OnMembers(org)) /\ IsInjective(m.sent)
  BY <1>5 DEF Fits
<1> DEFINE X == FirstSent(p, m.sent)
<1>7. /\ out' = out \cup X /\ issued' = issued \cup X /\ org' = org
      /\ \A d \in Disks(org) : numout'[d] = numout[d] + Cardinality(Aimed(m.sent, d))
  BY <1>5 DEF Maps, Aimed
<1>8. IsFiniteSet(X) /\ \A a \in X : a.opid = p
  BY <1>2, <1>6, FirstSentFacts
<1>9. AllReleased(org) => \A a \in X : a.read
  <2> SUFFICES ASSUME AllReleased(org) PROVE \A a \in X : a.read
    OBVIOUS
  <2>1. org.reduntype # "PARITY_TABLE"
    BY DEF AllReleased
  <2>2. r \in RequestSet /\ (org.addrbyparts => r.blkno + r.bcount <= org.blksperpart)
    BY <1>1, <1>4 DEF RequestsFit
  <2>3. DataLeft(org)
    BY <1>2, <2>1
  <2>4. Kept(org, r) /\ org.numdisks # 0 /\ Within(org, r) = r
    BY <1>2, <1>4, <2>1, <2>2, <2>3, CoveredKept, WithinSelf
  <2>5. m \in Mappings(org, r, reduntoggle)
    BY <1>5, <2>4
  <2>6. \A i \in DOMAIN m.sent : m.sent[i].read
    BY <1>1, <1>2, <2>2, <2>3, <2>4, <2>5, SendsReads
  <2>7. \A i \in DOMAIN m.sent : m.sent[i] \in OnMembers(org)
    BY <1>6
  <2>8. \A i \in DOMAIN m.sent : Sent(p, m.sent[i]).read = m.sent[i].read
    BY DEF Sent, Physical
  <2> QED BY <2>6, <2>8 DEF FirstSent
<1> HIDE DEF p, X
<1>10. ASSUME NEW d \in Disks(org) PROVE FallsShort(org, numout'[d], out', issued', d)
  <2> DEFINE O  == ToDisk(out, d)
             N  == ToDisk(X, d)
             W  == WritesTo(issued, d)
             NW == WritesTo(X, d)
             n  == numout[d]
  <2>1. Cardinality(Aimed(m.sent, d)) = Cardinality(N)
    BY <1>2, <1>6, SentToDisk DEF p, X
  <2>2. O \cap N = {} /\ W \cap NW = {}
    BY <1>1, <1>3, <1>8 DEF ToDisk, WritesTo
  <2>3. /\ IsFiniteSet(W) /\ n <= Cardinality(O) /\ Cardinality(O) <= n + Cardinality(W)
        /\ AllReleased(org) => Cardinality(O) = n + Cardinality(W)
    BY DEF CountsShort, FallsShort
  <2>4. ToDisk(out', d) = O \cup N /\ WritesTo(issued', d) = W \cup NW
    BY <1>7 DEF ToDisk, WritesTo
  <2>5. IsFiniteSet(O) /\ IsFiniteSet(N) /\ IsFiniteSet(NW)
    BY <1>1, <1>8, FS_Subset DEF ToDisk, WritesTo
  <2>6. AllReleased(org) => Cardinality(NW) = 0
    <3>1. AllReleased(org) => NW = {}
      BY <1>9 DEF WritesTo
    <3> HIDE DEF NW
    <3> QED BY <3>1, FS_EmptySet
  <2>7. n \in Int /\ numout'[d] = n + Cardinality(N)
    BY <1>1, <1>7, <2>1
  <2> HIDE DEF O, N, W, NW, n
  <2>8. /\ Cardinality(O \cup N) = Cardinality(O) + Cardinality(N)
        /\ Cardinality(O) \in Nat /\ Cardinality(N) \in Nat
    BY <2>2, <2>5, Added
  <2>9. /\ Cardinality(W \cup NW) = Cardinality(W) + Cardinality(NW) /\ IsFiniteSet(W \cup NW)
        /\ Cardinality(W) \in Nat /\ Cardinality(NW) \in Nat
    BY <2>2, <2>3, <2>5, Added
  <2>10. /\ numout'[d] <= Cardinality(O \cup N)
         /\ Cardinality(O \cup N) <= numout'[d] + Cardinality(W \cup NW)
         /\ AllReleased(org) => Cardinality(O \cup N) = numout'[d] + Cardinality(W \cup NW)
    BY <2>3, <2>6, <2>7, <2>8, <2>9
  <2> QED BY <2>4, <2>9, <2>10 DEF FallsShort
<1> QED BY <1>7, <1>10 DEF CountsShort

\* One that completes is taken off the number of its disk; the writes it releases
\* are not counted.
LEMMA CompleteShort ==
  ASSUME FirstAtZero, OrgSound, CountsShort, NEW a \in out, MapComplete(a)
  PROVE  CountsShort'
<1>0. PICK p, q : p = a.opid /\ q = outstandq[p]
  OBVIOUS
<1> DEFINE R == ReleasedBy(p, q, a)
<1>1. /\ IsFiniteSet(out) /\ out \subseteq issued /\ numout \in [Disks(org) -> Int]
  BY DEF OrgSound, OrgTypes
<1>2. /\ OrgOK(org) /\ org.firstdisk = 0 /\ p \in Nat
      /\ OutFits(org, p, q, AccessesOf(p), issued)
      /\ a \in AccessesOf(p) /\ AccessesOf(p) \subseteq OnDisks(org)
      /\ Completes(p, q, a)
  BY <1>0, AccessCompletes
<1>3. IsFiniteSet(AfterCompletion(p, q, AccessesOf(p), a)) /\ R \cap issued = {}
  BY <1>2, CompletionCounts
<1>4. IsFiniteSet(R)
  <2>1. R \subseteq AfterCompletion(p, q, AccessesOf(p), a)
    BY DEF AfterCompletion
  <2> HIDE DEF R
  <2> QED BY <1>3, <2>1, FS_Subset
<1>5. \A w \in R : ~w.read
  <2>1. Released(q, a) \subseteq DOMAIN q.waits
    BY <1>2, EntriesTaken
  <2>2. \A w \in DOMAIN q.waits : ~w.read
    BY <1>2 DEF OutFits
  <2> QED BY <2>1, <2>2 DEF ReleasedBy, Sent, Physical
<1>6. /\ out' = (out \ {a}) \cup R /\ issued' = issued \cup R /\ org' = org
      /\ numout' = [numout EXCEPT ![a.devno] = @ - 1]
  BY <1>2 DEF Completes
<1> HIDE DEF R
<1>7. ASSUME NEW d \in Disks(org) PROVE FallsShort(org, numout'[d], out', issued', d)
  <2> DEFINE O == ToDisk(out, d)
             K == ToDisk(out \ {a}, d)
             N == ToDisk(R, d)
             W == WritesTo(issued, d)
             n == numout[d]
  <2>1. K \cap N = {} /\ W \cap N = {}
    BY <1>1, <1>3 DEF ToDisk, WritesTo
  <2>2. ToDisk(out', d) = K \cup N /\ WritesTo(issued', d) = W \cup N
    BY <1>5, <1>6 DEF ToDisk, WritesTo
  <2>3. /\ IsFiniteSet(W) /\ n <= Cardinality(O) /\ Cardinality(O) <= n + Cardinality(W)
        /\ AllReleased(org) => Cardinality(O) = n + Cardinality(W)
    BY DEF CountsShort, FallsShort
  <2>4. IsFiniteSet(O) /\ IsFiniteSet(K) /\ IsFiniteSet(N)
    <3>1. O \subseteq out /\ K \subseteq out /\ N \subseteq R
      BY DEF ToDisk
    <3> HIDE DEF O, K, N
    <3> QED BY <1>1, <1>4, <3>1, FS_Subset
  <2>5. n \in Int
    BY <1>1
  <2>6. numout'[d] - Cardinality(K) = n - Cardinality(O)
    <3>1. CASE d = a.devno
      <4>1. K = O \ {a} /\ a \in O
        BY <3>1 DEF ToDisk
      <4>2. numout'[d] = n - 1
        BY <1>1, <1>6, <3>1
      <4> HIDE DEF O, K, n
      <4>3. Cardinality(O \ {a}) = Cardinality(O) - 1 /\ Cardinality(O) \in Nat
        BY <2>4, <4>1, FS_RemoveElement, FS_CardinalityType
      <4>4. Cardinality(K) = Cardinality(O) - 1
        BY <4>1, <4>3
      <4> QED BY <2>5, <4>2, <4>3, <4>4
    <3>2. CASE d # a.devno
      <4>1. K = O
        BY <3>2 DEF ToDisk
      <4>2. numout'[d] = n
        BY <1>1, <1>6, <3>2
      <4> HIDE DEF O, K, n
      <4> QED BY <4>1, <4>2
    <3> QED BY <3>1, <3>2
  <2>7. numout'[d] \in Int
    BY <1>1, <1>6
  <2> HIDE DEF O, K, N, W, n
  <2>8. /\ Cardinality(K \cup N) = Cardinality(K) + Cardinality(N)
        /\ Cardinality(K) \in Nat /\ Cardinality(N) \in Nat
    BY <2>1, <2>4, Added
  <2>9. /\ Cardinality(W \cup N) = Cardinality(W) + Cardinality(N) /\ IsFiniteSet(W \cup N)
        /\ Cardinality(W) \in Nat
    BY <2>1, <2>3, <2>4, Added
  <2>10. Cardinality(O) \in Nat
    BY <2>4, FS_CardinalityType
  <2> DEFINE cO == Cardinality(O)
             cK == Cardinality(K)
             cN == Cardinality(N)
             cW == Cardinality(W)
             l  == numout'[d]
             all == AllReleased(org)
  <2>11. /\ n \in Int /\ l \in Int /\ cO \in Nat /\ cK \in Nat /\ cN \in Nat /\ cW \in Nat
         /\ n <= cO /\ cO <= n + cW /\ (all => cO = n + cW) /\ l - cK = n - cO
    BY <2>3, <2>5, <2>6, <2>7, <2>8, <2>9, <2>10
  <2> HIDE DEF cO, cK, cN, cW, l, all
  <2>12. /\ l <= cK + cN /\ cK + cN <= l + (cW + cN)
         /\ all => cK + cN = l + (cW + cN)
    BY ONLY <2>11
  <2>13. /\ numout'[d] <= Cardinality(K \cup N)
         /\ Cardinality(K \cup N) <= numout'[d] + Cardinality(W \cup N)
         /\ AllReleased(org) => Cardinality(K \cup N) = numout'[d] + Cardinality(W \cup N)
    BY <2>8, <2>9, <2>12 DEF cK, cN, cW, l, all
  <2>14. org' = org
    BY <1>6
  <2> QED BY <2>2, <2>9, <2>13, <2>14 DEF FallsShort
<1> QED BY <1>6, <1>7 DEF CountsShort

\* So no step counts more than is under way, or forgets more than the writes.
LEMMA ShortStep ==
  ASSUME FirstAtZero, RequestsFit, AllFit, OrgSound, CountsShort, [Next]_vars
  PROVE  CountsShort'
<1>1. CASE UNCHANGED vars
  BY <1>1 DEF vars, CountsShort
<1>2. CASE Next
  BY <1>2, MapsShort, CompleteShort DEF Next
<1> QED BY <1>1, <1>2

\* Nothing is counted or written at first.
LEMMA ShortInit == ASSUME Init PROVE CountsShort
<1> SUFFICES ASSUME NEW d \in Disks(org) PROVE FallsShort(org, numout[d], out, issued, d)
  BY DEF CountsShort
<1>1. numout[d] = 0 /\ out = {} /\ issued = {}
  BY DEF Init
<1>2. ToDisk(out, d) = {} /\ WritesTo(issued, d) = {}
  BY <1>1 DEF ToDisk, WritesTo
<1>3. Cardinality(ToDisk(out, d)) = 0 /\ Cardinality(WritesTo(issued, d)) = 0 /\ IsFiniteSet(WritesTo(issued, d))
  BY <1>2, FS_EmptySet
<1> QED BY <1>1, <1>3 DEF FallsShort

\* The counts of the logical organisation (logorg_maprequest, logorg_mapcomplete): a
\* request is outstanding as long as, and completes when, none of its accesses is under
\* way or held up; every access is to a disk of the organisation, within its blocks; the
\* number that the time stamps report for a disk is that of its accesses under way, less
\* the writes that were released to it; and no list of accesses is followed beyond its end.
THEOREM OrganisationCounts ==
  ASSUME FirstAtZero, RequestsFit, TablesFit
  PROVE  Spec => []OrgInv
<1>1. AllFit
  BY AllFits
<1>2. Init => OrgSound /\ CountsOut /\ CountsShort
  BY SoundInit, CountsInit, ShortInit
<1>3. OrgSound /\ CountsOut /\ CountsShort /\ [Next]_vars => (OrgSound /\ CountsOut /\ CountsShort)'
  BY <1>1, SoundStep, CountsStep, ShortStep
<1>4. OrgSound /\ CountsOut /\ CountsShort => OrgInv
  BY SoundOrgInv
<1> QED BY <1>2, <1>3, <1>4, PTL DEF Spec

(***************************************************************************)
(* Copies in turn.                                                          *)
(***************************************************************************)

\* The reads of A that went to the copy c
ReadsOn(o, A, c) == {a \in A : a.read /\ a.devno \div o.numdisks = c}

\* Every copy has been read q times, and those before t once more.
EvenReads(o, A, t) ==
    \E q \in Nat : \A c \in 0..o.copies - 1 :
        /\ IsFiniteSet(ReadsOn(o, A, c))
        /\ Cardinality(ReadsOn(o, A, c)) = IF c < t THEN q + 1 ELSE q

\* The fourth inductive invariant: reduntoggle is the copy whose turn it is.
ReadsEven ==
    org.reduntype = "SHADOWED" /\ org.copychoice = "ROUNDROBIN" =>
        EvenReads(org, issued, reduntoggle)

\* The turn goes on by one.
LEMMA TurnOn ==
  ASSUME NEW n \in Nat \ {0}, NEW x \in Int
  PROVE  /\ (x % n) + 1 < n => (x + 1) % n = (x % n) + 1
         /\ (x % n) + 1 >= n => x % n = n - 1 /\ (x + 1) % n = 0
<1> DEFINE q == x \div n
           e == x % n
<1>1. q \in Int /\ e \in 0..n - 1 /\ x = q * n + e
  BY DivFacts
<1> HIDE DEF q, e
<1>2. CASE e + 1 < n
  <2>1. e + 1 \in 0..n - 1 /\ x + 1 \in Int /\ x + 1 = q * n + (e + 1)
    BY <1>1, <1>2
  <2>2. (x + 1) % n = e + 1
    BY <1>1, <2>1, DivIs
  <2> QED BY <1>1, <1>2, <2>2 DEF e
<1>3. CASE e + 1 >= n
  <2>1. e = n - 1
    BY <1>1, <1>3
  <2> DEFINE s == q + 1
             z == 0
  <2>2. s * n = q * n + n
    BY <1>1
  <2> DEFINE y == x + 1
  <2>3. s \in Int /\ z \in 0..n - 1 /\ y \in Int /\ y = s * n + z
    BY <1>1, <2>1, <2>2
  <2> HIDE DEF s, z, y
  <2>4. y % n = z
    BY <2>3, DivIs
  <2> QED BY <1>1, <1>3, <2>1, <2>4 DEF e, y, z
<1> QED BY <1>1, <1>2, <1>3 DEF e

\* A read of the copy whose turn it is
LEMMA OneMoreRead ==
  ASSUME NEW o, OrgOK(o), NEW A, NEW x \in Int, EvenReads(o, A, x % o.copies),
         NEW a, a \notin A, a.read, a.devno \div o.numdisks = x % o.copies
  PROVE  EvenReads(o, A \cup {a}, (x + 1) % o.copies)
<1> DEFINE C == o.copies
           t == x % C
           u == (x + 1) % C
           N(c) == Cardinality(ReadsOn(o, A, c))
           M(c) == Cardinality(ReadsOn(o, A \cup {a}, c))
<1>1. C \in Nat \ {0, 1} /\ C \in Nat \ {0}
  BY DEF OrgOK
<1>2. t \in 0..C - 1 /\ (t + 1 < C => u = t + 1) /\ (t + 1 >= C => t = C - 1 /\ u = 0)
  BY <1>1, ModRange, TurnOn
<1>3. PICK q \in Nat : \A c \in 0..C - 1 :
          IsFiniteSet(ReadsOn(o, A, c)) /\ N(c) = IF c < t THEN q + 1 ELSE q
  BY DEF EvenReads
<1>4. ReadsOn(o, A \cup {a}, t) = ReadsOn(o, A, t) \cup {a} /\ a \notin ReadsOn(o, A, t)
  BY DEF ReadsOn
<1>5. \A c : c # t => ReadsOn(o, A \cup {a}, c) = ReadsOn(o, A, c)
  BY DEF ReadsOn
<1>6. IsFiniteSet(ReadsOn(o, A \cup {a}, t)) /\ M(t) = N(t) + 1
  <2>1. IsFiniteSet(ReadsOn(o, A, t))
    BY <1>2, <1>3
  <2> QED BY <1>4, <2>1, FS_AddElement
<1>7. \A c \in 0..C - 1 : IsFiniteSet(ReadsOn(o, A \cup {a}, c))
  BY <1>3, <1>5, <1>6
<1>8. \A c \in 0..C - 1 : M(c) = IF c = t THEN N(c) + 1 ELSE N(c)
  BY <1>5, <1>6
<1> HIDE DEF C, t, u, N, M
<1>9. \E k \in Nat : \A c \in 0..C - 1 : M(c) = IF c < u THEN k + 1 ELSE k
  <2>1. CASE t + 1 < C
    <3>1. \A c \in 0..C - 1 : M(c) = IF c < u THEN q + 1 ELSE q
      BY <1>1, <1>2, <1>3, <1>8, <2>1
    <3> QED BY <3>1
  <2>2. CASE t + 1 >= C
    <3>1. \A c \in 0..C - 1 : M(c) = IF c < u THEN (q + 1) + 1 ELSE q + 1
      BY <1>1, <1>2, <1>3, <1>8, <2>2
    <3>2. q + 1 \in Nat
      OBVIOUS
    <3> QED BY <3>1, <3>2
  <2>3. (t + 1) \in Int /\ C \in Int
    BY <1>1, <1>2
  <2> QED BY <2>1, <2>2, <2>3
<1> QED BY <1>7, <1>9 DEF EvenReads, C, M, u

\* The access that OnCopies sends
LEMMA OnCopiesAt ==
  ASSUME NEW o, OrgOK(o), o.numdisks * o.copies = o.actualnumdisks, NEW r, NEW m, Dealt(o, r, m),
         NEW c, NEW i \in DOMAIN m, c[i] \in 0..o.copies - 1, NEW p \in Nat,
         NEW a, a = Sent(p, OnCopies(o, m, c)[i])
  PROVE  /\ a.opid = p /\ a.read = r.read
         /\ a.devno % o.numdisks = m[i].devno /\ a.devno \div o.numdisks = c[i]
<1> DEFINE x == c[i]
           w == OnCopy(o, m[i], x)
<1>1. x \in 0..o.copies - 1 /\ OnCopies(o, m, c)[i] = w
  BY DEF OnCopies
<1> HIDE DEF x
<1>2. /\ OnCopy(o, m[i], x) \in OnMembers(o) /\ OnCopy(o, m[i], x).read = r.read
      /\ OnCopy(o, m[i], x).devno % o.numdisks = m[i].devno
      /\ OnCopy(o, m[i], x).devno \div o.numdisks = x
  BY <1>1, OnCopyFacts
<1>3. w \in OnMembers(o)
  BY <1>2
<1> HIDE DEF w
<1>4. Sent(p, w).read = w.read /\ Sent(p, w).opid = p /\ Sent(p, w).devno = w.devno
  BY <1>3, SentFacts
<1> QED BY <1>1, <1>2, <1>4 DEF w, x

\* The first k accesses of s
FirstUpTo(p, s, k) == {Sent(p, s[i]) : i \in 1..k}

\* The accesses of a read go to one copy after the other.
LEMMA ReadsFollow ==
  ASSUME NEW o, OrgOK(o), o.numdisks * o.copies = o.actualnumdisks, NEW r, r.read,
         NEW m, Dealt(o, r, m), NEW t \in 0..o.copies - 1, o.copychoice = "ROUNDROBIN",
         NEW c \in CopyChoices(o, Len(m), t), NEW l, l = OnCopies(o, m, c),
         NEW p \in Nat, NEW A, \A a \in A : a.opid # p, EvenReads(o, A, t)
  PROVE  EvenReads(o, A \cup FirstSent(p, l), (t + Len(l)) % o.copies)
<1> DEFINE n == Len(m)
           S == {k \in 0..n : EvenReads(o, A \cup FirstUpTo(p, l, k), (t + k) % o.copies)}
<1>1. n \in Nat \ {0} /\ n \in Nat /\ DOMAIN m = 1..n /\ o.copies \in Nat \ {0} /\ t \in Int
  <2>1. n \in Nat \ {0} /\ DOMAIN m = 1..n
    BY DealtFacts
  <2>2. o.copies \in Nat \ {0, 1}
    BY DEF OrgOK
  <2>3. t \in Int
    BY <2>2
  <2> HIDE DEF n
  <2> QED BY <2>1, <2>2, <2>3
<1>2. DOMAIN l = 1..n /\ Len(l) = n
  BY <1>1 DEF OnCopies
<1> HIDE DEF S
<1>3. c = [i \in 1..n |-> (t + (i - 1)) % o.copies]
  BY DEF CopyChoices
<1>4. \A i \in 1..n : c[i] = (t + (i - 1)) % o.copies /\ c[i] \in 0..o.copies - 1
  <2> TAKE i \in 1..n
  <2>1. t + (i - 1) \in Int
    BY <1>1
  <2>2. (t + (i - 1)) % o.copies \in 0..o.copies - 1
    BY <1>1, <2>1, ModRange
  <2> QED BY <1>3, <2>2
<1>5. \A i \in 1..n : /\ Sent(p, l[i]).opid = p /\ Sent(p, l[i]).read
                      /\ Sent(p, l[i]).devno % o.numdisks = m[i].devno
                      /\ Sent(p, l[i]).devno \div o.numdisks = c[i]
  <2> TAKE i \in 1..n
  <2>1. c[i] \in 0..o.copies - 1 /\ i \in DOMAIN m /\ Sent(p, l[i]) = Sent(p, OnCopies(o, m, c)[i])
    BY <1>1, <1>4
  <2> QED BY <2>1, OnCopiesAt
<1>6. \A i, j \in 1..n : Sent(p, l[i]) = Sent(p, l[j]) => i = j
  BY <1>1, <1>5 DEF Dealt
<1>7. 0 \in S
  <2>1. FirstUpTo(p, l, 0) = {} /\ A \cup FirstUpTo(p, l, 0) = A
    BY DEF FirstUpTo
  <2>2. t + 0 = t /\ t % o.copies = t
    BY <1>1, ModOnce
  <2>3. EvenReads(o, A \cup FirstUpTo(p, l, 0), (t + 0) % o.copies)
    BY <2>1, <2>2
  <2> QED BY <1>1, <2>3 DEF S
<1>8. \A k \in 0..n - 1 : k \in S => k + 1 \in S
  <2> SUFFICES ASSUME NEW k \in 0..n - 1, k \in S PROVE k + 1 \in S
    OBVIOUS
  <2> DEFINE a == Sent(p, l[k + 1])
             B == A \cup FirstUpTo(p, l, k)
             x == t + k
  <2>1. k + 1 \in 1..n /\ (k + 1) - 1 = k /\ k + 1 \in 0..n /\ x \in Int /\ x + 1 = t + (k + 1)
    BY <1>1
  <2>2. a.opid = p /\ a.read /\ a.devno \div o.numdisks = x % o.copies
    <3>1. c[k + 1] = x % o.copies
      BY <1>4, <2>1
    <3> QED BY <1>5, <2>1, <3>1
  <2>3. \A i \in 1..k : i \in 1..n /\ i # k + 1
    BY <1>1
  <2>4. a \notin B
    BY <1>6, <2>1, <2>2, <2>3 DEF FirstUpTo
  <2>5. A \cup FirstUpTo(p, l, k + 1) = B \cup {a}
    <3>1. 1..k + 1 = (1..k) \cup {k + 1}
      BY <1>1
    <3> QED BY <3>1 DEF FirstUpTo
  <2>6. EvenReads(o, B, x % o.copies)
    BY DEF S
  <2> HIDE DEF a, B, x
  <2>7. EvenReads(o, B \cup {a}, (x + 1) % o.copies)
    BY <2>1, <2>2, <2>4, <2>6, OneMoreRead
  <2> QED BY <2>1, <2>5, <2>7 DEF S
<1> HIDE DEF n
<1>9. n \in S
  <2>1. \A k \in 0..n : k \in S
    BY <1>1, <1>7, <1>8, AllUpTo
  <2> QED BY <1>1, <2>1
<1>10. FirstUpTo(p, l, n) = FirstSent(p, l)
  BY <1>2 DEF FirstUpTo, FirstSent
<1> QED BY <1>2, <1>9, <1>10 DEF S

\* Writes do not take turns.
LEMMA WritesAside ==
  ASSUME NEW o, NEW A, NEW t, NEW X, \A a \in X : ~a.read, EvenReads(o, A, t)
  PROVE  EvenReads(o, A \cup X, t)
<1>1. \A c : ReadsOn(o, A \cup X, c) = ReadsOn(o, A, c)
  BY DEF ReadsOn
<1>2. PICK q \in Nat : \A c \in 0..o.copies - 1 :
          /\ IsFiniteSet(ReadsOn(o, A, c))
          /\ Cardinality(ReadsOn(o, A, c)) = IF c < t THEN q + 1 ELSE q
  BY DEF EvenReads
<1>3. \A c \in 0..o.copies - 1 :
          /\ IsFiniteSet(ReadsOn(o, A \cup X, c))
          /\ Cardinality(ReadsOn(o, A \cup X, c)) = IF c < t THEN q + 1 ELSE q
  BY <1>1, <1>2
<1> QED BY <1>3 DEF EvenReads

\* At first nothing has been read.
LEMMA EvenInit == ASSUME FirstAtZero PROVE Init => ReadsEven
<1> SUFFICES ASSUME Init PROVE EvenReads(org, issued, reduntoggle)
  BY DEF ReadsEven
<1>1. org \in Orgs /\ reduntoggle = 0 /\ issued = {}
  BY DEF Init, Orgs
<1>2. org.copies \in Nat
  BY <1>1, OrgFacts DEF OrgOK
<1>3. \A c \in 0..org.copies - 1 : ReadsOn(org, issued, c) = {} /\ ~(c < reduntoggle)
  BY <1>1, <1>2 DEF ReadsOn
<1>4. IsFiniteSet({}) /\ Cardinality({}) = 0
  BY FS_EmptySet
<1>5. \A c \in 0..org.copies - 1 : /\ IsFiniteSet(ReadsOn(org, issued, c))
                                   /\ Cardinality(ReadsOn(org, issued, c)) = IF c < reduntoggle THEN 0 + 1 ELSE 0
  BY <1>3, <1>4
<1> QED BY <1>5 DEF EvenReads

\* The copies stay even when a request is mapped,
LEMMA MapsEven ==
  ASSUME FirstAtZero, RequestsFit, AllFit, OrgSound, ReadsEven,
         NEW r \in Workload(org, Len(requests) + 1), MapRequest(r)
  PROVE  ReadsEven'
<1> DEFINE p == Len(requests)
           R == org.reduntype = "SHADOWED" /\ org.copychoice = "ROUNDROBIN"
<1>1. /\ org \in Orgs /\ requests \in Seq(ReqSet) /\ reduntoggle \in 0..org.copies - 1
      /\ issued \subseteq OnDisks(org) /\ \A a \in issued : a.opid < Len(requests)
  BY DEF OrgSound, OrgTypes
<1>2. OrgOK(org) /\ org.firstdisk = 0 /\ (org.reduntype # "PARITY_TABLE" => DataLeft(org)) /\ p \in Nat
  BY <1>1, OrgFacts
<1>3. \A a \in issued : a.opid # p
  BY <1>1, <1>2 DEF OnDisks
<1>4. /\ p + 1 \in 1..MaxRequests /\ Covers(org, r)
      /\ \E m \in Mappings(org, Within(org, r), reduntoggle) : Fits(org, m) /\ Maps(r, m)
  BY RequestMaps DEF OrgSound
<1>5. PICK m \in Mappings(org, Within(org, r), reduntoggle) : Fits(org, m) /\ Maps(r, m)
  BY <1>4
<1>6. r \in RequestSet /\ (org.addrbyparts => r.blkno + r.bcount <= org.blksperpart)
  BY <1>1, <1>4 DEF RequestsFit
<1>7. SUFFICES ASSUME R PROVE EvenReads(org, issued', reduntoggle')
  BY <1>5 DEF ReadsEven, Maps
<1>8. org.reduntype = "SHADOWED" /\ org.copychoice = "ROUNDROBIN" /\ EvenReads(org, issued, reduntoggle)
  BY <1>7 DEF ReadsEven
<1>9. DataLeft(org) /\ Within(org, r) = r /\ Kept(org, r) /\ org.numdisks # 0
      /\ org.numdisks * org.copies = org.actualnumdisks
  <2>1. DataLeft(org)
    BY <1>2, <1>8
  <2>2. Kept(org, r) /\ org.numdisks # 0
    BY <1>2, <1>4, <1>6, <1>8, <2>1, CoveredKept
  <2> QED BY <1>2, <1>6, <1>8, <2>1, <2>2, WithinSelf DEF DataLeft
<1>10. PICK l \in Layouts(org, r, reduntoggle) : m.sent = l
  <2>1. \A x : ~ReadsOld(org, x)
    BY <1>8 DEF ReadsOld
  <2>2. \E l \in Layouts(org, r, reduntoggle) : m = [sent |-> l, depend |-> {}, waits |-> <<>>]
    BY <1>5, <1>8, <1>9, <2>1 DEF Mappings
  <2> QED BY <2>2
<1>11. /\ issued' = issued \cup FirstSent(p, l)
       /\ reduntoggle' = IF r.read THEN (reduntoggle + Len(l)) % org.copies ELSE reduntoggle
  BY <1>5, <1>8, <1>10 DEF Maps
<1> DEFINE d == DataOf(org, r)
<1>12. Dealt(org, r, d)
  BY <1>2, <1>6, <1>8, <1>9, DataDealt
<1> HIDE DEF p, d
<1>13. CASE r.read
  <2>1. PICK c \in CopyChoices(org, Len(d), reduntoggle) : l = OnCopies(org, d, c)
    BY <1>8, <1>10, <1>13 DEF Layouts, OnCopies, DataOf, d
  <2>2. EvenReads(org, issued \cup FirstSent(p, l), (reduntoggle + Len(l)) % org.copies)
    BY <1>1, <1>2, <1>3, <1>8, <1>9, <1>12, <1>13, <2>1, ReadsFollow
  <2> QED BY <1>11, <1>13, <2>2
<1>14. CASE ~r.read
  <2>1. Layout(org, l) /\ l[1].read = r.read
    BY <1>1, <1>2, <1>6, <1>8, <1>9, LayoutsHold
  <2>2. \A i \in DOMAIN l : l[i] \in OnMembers(org) /\ l[i].read = r.read
    BY <2>1 DEF Layout
  <2>3. \A a \in FirstSent(p, l) : ~a.read
    <3>1. \A i \in DOMAIN l : Sent(p, l[i]).read = l[i].read
      BY <1>2, <2>2, SentFacts DEF p
    <3> QED BY <1>14, <2>2, <3>1 DEF FirstSent
  <2> QED BY <1>8, <1>11, <1>14, <2>3, WritesAside
<1> QED BY <1>13, <1>14

\* and when an access completes, which releases nothing.
LEMMA CompleteEven ==
  ASSUME FirstAtZero, OrgSound, CountsOut, ReadsEven, NEW a \in out, MapComplete(a)
  PROVE  ReadsEven'
<1>1. PICK p, q : p = a.opid /\ q = outstandq[p]
  OBVIOUS
<1>2. SUFFICES ASSUME org.reduntype = "SHADOWED" PROVE issued' = issued /\ UNCHANGED <<org, reduntoggle>>
  BY DEF ReadsEven, MapComplete
<1>3. /\ OrgOK(org) /\ p \in DOMAIN outstandq
      /\ OutFits(org, p, q, AccessesOf(p), issued) /\ a \in AccessesOf(p) /\ AccessesOf(p) \subseteq OnDisks(org)
      /\ Completes(p, q, a)
  BY <1>1, AccessCompletes
<1>4. DOMAIN q.waits = {}
  <2>1. Counted(org)
    BY <1>2 DEF Counted, ReadsOld
  <2> QED BY <1>1, <1>3, <2>1 DEF CountsOut
<1>5. Released(q, a) \subseteq DOMAIN q.waits
  <2>1. p \in Nat /\ org.firstdisk = 0
    BY <1>1, AccessCompletes
  <2> QED BY <1>3, <2>1, EntriesTaken
<1>6. ReleasedBy(p, q, a) = {}
  BY <1>4, <1>5 DEF ReleasedBy
<1> QED BY <1>3, <1>6 DEF Completes

\* So it is in every step.
LEMMA EvenStep ==
  ASSUME FirstAtZero, RequestsFit, AllFit, OrgSound, CountsOut, ReadsEven, [Next]_vars
  PROVE  ReadsEven'
<1>1. CASE UNCHANGED vars
  BY <1>1 DEF vars, ReadsEven
<1>2. CASE Next
  BY <1>2, MapsEven, CompleteEven DEF Next
<1> QED BY <1>1, <1>2

\* Copies read equally often are read in turn.
LEMMA EvenInTurn ==
  ASSUME FirstAtZero, OrgSound, ReadsEven
  PROVE  CopiesInTurn
<1> SUFFICES ASSUME org.reduntype = "SHADOWED", org.copychoice = "ROUNDROBIN",
                    NEW c \in 0..org.copies - 1, NEW d \in 0..org.copies - 1
             PROVE  Cardinality({a \in issued : a.read /\ (a.devno - org.firstdisk) \div org.numdisks = c})
                    <= Cardinality({a \in issued : a.read /\ (a.devno - org.firstdisk) \div org.numdisks = d}) + 1
  BY DEF CopiesInTurn
<1>1. OrgOK(org) /\ org.firstdisk = 0 /\ issued \subseteq OnDisks(org)
  BY OrgFacts DEF OrgSound, OrgTypes
<1>2. \A a \in issued : a.devno - org.firstdisk = a.devno
  BY <1>1 DEF OnDisks, Disks, OrgOK
<1>3. \A x : {a \in issued : a.read /\ (a.devno - org.firstdisk) \div org.numdisks = x} = ReadsOn(org, issued, x)
  BY <1>2 DEF ReadsOn
<1>4. PICK q \in Nat : \A x \in 0..org.copies - 1 :
          Cardinality(ReadsOn(org, issued, x)) = IF x < reduntoggle THEN q + 1 ELSE q
  BY DEF ReadsEven, EvenReads
<1>5. \A x \in 0..org.copies - 1 : Cardinality(ReadsOn(org, issued, x)) \in {q, q + 1}
  BY <1>4
<1>6. Cardinality(ReadsOn(org, issued, c)) <= Cardinality(ReadsOn(org, issued, d)) + 1
  BY <1>5
<1> QED BY <1>3, <1>6

\* Reads of shadowed disks that take the copies in turn (logorg_shadowed, ROUNDROBIN) use
\* them equally often, whatever number of accesses each makes.
THEOREM CopiesTakeTurns ==
  ASSUME FirstAtZero, RequestsFit, TablesFit
  PROVE  Spec => []CopiesInTurn
<1>1. AllFit
  BY AllFits
<1>2. Init => OrgSound /\ CountsOut /\ ReadsEven
  BY SoundInit, CountsInit, EvenInit
<1>3. OrgSound /\ CountsOut /\ ReadsEven /\ [Next]_vars => (OrgSound /\ CountsOut /\ ReadsEven)'
  BY <1>1, SoundStep, CountsStep, EvenStep
<1>4. OrgSound /\ ReadsEven => CopiesInTurn
  BY EvenInTurn
<1> QED BY <1>2, <1>3, <1>4, PTL DEF Spec

(***************************************************************************)
(* What a request has been sent.                                            *)
(***************************************************************************)

IssuedTo(p, A) == {a \in A : a.opid = p}

\* The writes of p that entries oq hold up, as the disks will get them
HeldTo(p, oq) == IF p \in DOMAIN oq THEN {Sent(p, w) : w \in DOMAIN oq[p].waits} ELSE {}

\* All that p is sent of the mapping m
SentOf(p, m) == FirstSent(p, m.sent) \cup {Sent(p, w) : w \in DOMAIN m.waits}

\* The request r, the nth of the organisation o, keeps to the interface.
Asked(o, r, n) == n \in 1..MaxRequests /\ r \in Workload(o, n) /\ Covers(o, r)

\* What is issued of p and held up is its mapping.
SentAs(o, p, r, X) ==
    /\ Asked(o, r, p + 1)
    /\ \E turn \in 0..o.copies - 1 : \E m \in Mappings(o, Within(o, r), turn) :
          Fits(o, m) /\ X = SentOf(p, m)

\* The fifth inductive invariant: no access is lost, added or changed on the way.
SentRightly ==
    \A p \in 0..Len(requests) - 1 :
        SentAs(org, p, requests[p + 1], IssuedTo(p, issued) \cup HeldTo(p, outstandq))

\* A request that is mapped is sent its mapping, but for what it holds up.
LEMMA MapsSent ==
  ASSUME FirstAtZero, AllFit, OrgSound, SentRightly,
         NEW r \in Workload(org, Len(requests) + 1), MapRequest(r)
  PROVE  SentRightly'
<1> DEFINE n == Len(requests)
<1>1. /\ requests \in Seq(ReqSet) /\ reduntoggle \in 0..org.copies - 1 /\ n \in Nat
      /\ DOMAIN outstandq \subseteq 0..n - 1
      /\ issued \subseteq OnDisks(org) /\ \A a \in issued : a.opid < n
  BY DEF OrgSound, OrgTypes
<1>2. n + 1 \in 1..MaxRequests /\ Covers(org, r) /\ r \in ReqSet
      /\ \E m \in Mappings(org, Within(org, r), reduntoggle) : Fits(org, m) /\ Maps(r, m)
  BY RequestMaps DEF OrgSound
<1>3. PICK m \in Mappings(org, Within(org, r), reduntoggle) : Fits(org, m) /\ Maps(r, m)
  BY <1>2
<1>4. /\ requests' = Append(requests, r) /\ org' = org
      /\ issued' = issued \cup FirstSent(n, m.sent)
      /\ DOMAIN outstandq' = DOMAIN outstandq \cup {n}
      /\ \A p \in DOMAIN outstandq : p # n => outstandq'[p] = outstandq[p]
      /\ outstandq'[n] = NewEntry(m)
  BY <1>3 DEF Maps
<1>5. /\ Len(requests') = n + 1 /\ requests'[n + 1] = r
      /\ \A p \in 0..n - 1 : requests'[p + 1] = requests[p + 1]
  BY <1>1, <1>2, <1>4
<1>6. \A p : IssuedTo(p, FirstSent(n, m.sent)) = IF p = n THEN FirstSent(n, m.sent) ELSE {}
  <2>1. \A w : Sent(n, w).opid = n
    BY DEF Sent, Physical
  <2> QED BY <2>1 DEF IssuedTo, FirstSent
<1>7. \A p : IssuedTo(p, issued') = IssuedTo(p, issued) \cup IssuedTo(p, FirstSent(n, m.sent))
  BY <1>4 DEF IssuedTo
<1>8. IssuedTo(n, issued) = {}
  <2>1. \A a \in issued : a.opid # n
    BY <1>1 DEF OnDisks
  <2> QED BY <2>1 DEF IssuedTo
<1>9. SentAs(org, n, r, IssuedTo(n, issued') \cup HeldTo(n, outstandq'))
  <2>1. HeldTo(n, outstandq') = {Sent(n, w) : w \in DOMAIN m.waits}
    <3>1. outstandq'[n].waits = m.waits
      BY <1>4 DEF NewEntry
    <3> QED BY <1>4, <3>1 DEF HeldTo
  <2>2. IssuedTo(n, issued') \cup HeldTo(n, outstandq') = SentOf(n, m)
    BY <1>6, <1>7, <1>8, <2>1 DEF SentOf
  <2>3. Asked(org, r, n + 1)
    BY <1>2 DEF Asked
  <2> QED BY <1>1, <1>3, <2>2, <2>3 DEF SentAs
<1>10. ASSUME NEW p \in 0..n - 1
       PROVE  SentAs(org, p, requests'[p + 1], IssuedTo(p, issued') \cup HeldTo(p, outstandq'))
  <2>1. p # n
    BY <1>1
  <2>2. IssuedTo(p, issued') = IssuedTo(p, issued)
    BY <1>6, <1>7, <2>1
  <2>3. HeldTo(p, outstandq') = HeldTo(p, outstandq)
    BY <1>4, <2>1 DEF HeldTo
  <2>4. SentAs(org, p, requests[p + 1], IssuedTo(p, issued) \cup HeldTo(p, outstandq))
    BY DEF SentRightly
  <2> QED BY <1>5, <2>2, <2>3, <2>4
<1>11. \A p \in 0..Len(requests') - 1 : p = n \/ p \in 0..n - 1
  BY <1>1, <1>5
<1> HIDE DEF n
<1>12. \A p \in 0..Len(requests') - 1 :
          SentAs(org, p, requests'[p + 1], IssuedTo(p, issued') \cup HeldTo(p, outstandq'))
  <2> TAKE p \in 0..Len(requests') - 1
  <2>1. CASE p = n
    BY <1>5, <1>9, <2>1
  <2>2. CASE p # n
    BY <1>10, <1>11, <2>2
  <2> QED BY <2>1, <2>2
<1> QED BY <1>4, <1>12 DEF SentRightly

\* A completion sends what it releases, and nothing else.
LEMMA CompleteSent ==
  ASSUME FirstAtZero, OrgSound, SentRightly, NEW a \in out, MapComplete(a)
  PROVE  SentRightly'
<1>1. PICK p, q : p = a.opid /\ q = outstandq[p]
  OBVIOUS
<1>2. /\ OrgOK(org) /\ org.firstdisk = 0 /\ p \in DOMAIN outstandq /\ p \in Nat
      /\ OutFits(org, p, q, AccessesOf(p), issued)
      /\ a \in AccessesOf(p) /\ AccessesOf(p) \subseteq OnDisks(org)
      /\ \A b \in ReleasedBy(p, q, a) : b.opid = p
      /\ Completes(p, q, a)
  BY <1>1, AccessCompletes
<1>3. /\ issued' = issued \cup ReleasedBy(p, q, a)
      /\ outstandq' = IF Checked(q, a).numreqs = 0
                      THEN [x \in DOMAIN outstandq \ {p} |-> outstandq[x]]
                      ELSE [outstandq EXCEPT ![p] = Checked(q, a)]
      /\ org' = org /\ requests' = requests
  BY <1>2 DEF Completes
<1>4. Released(q, a) \subseteq DOMAIN q.waits
  BY <1>2, EntriesTaken
<1>5. DOMAIN Checked(q, a).waits = DOMAIN q.waits \ Released(q, a)
  BY DEF Checked
<1>6. \A x : x # p => /\ IssuedTo(x, issued') = IssuedTo(x, issued)
                      /\ HeldTo(x, outstandq') = HeldTo(x, outstandq)
  <2> TAKE x
  <2> HAVE x # p
  <2>1. IssuedTo(x, issued') = IssuedTo(x, issued)
    BY <1>2, <1>3 DEF IssuedTo
  <2>2. CASE Checked(q, a).numreqs = 0
    <3>1. outstandq' = [y \in DOMAIN outstandq \ {p} |-> outstandq[y]]
      BY <1>3, <2>2
    <3> QED BY <2>1, <3>1 DEF HeldTo
  <2>3. CASE Checked(q, a).numreqs # 0
    <3>1. outstandq' = [outstandq EXCEPT ![p] = Checked(q, a)]
      BY <1>3, <2>3
    <3>2. DOMAIN outstandq' = DOMAIN outstandq /\ (x \in DOMAIN outstandq => outstandq'[x] = outstandq[x])
      BY <3>1
    <3> QED BY <2>1, <3>2 DEF HeldTo
  <2> QED BY <2>2, <2>3
<1>7. IssuedTo(p, issued') = IssuedTo(p, issued) \cup ReleasedBy(p, q, a)
  BY <1>2, <1>3 DEF IssuedTo
<1>8. ReleasedBy(p, q, a) \cup HeldTo(p, outstandq') = HeldTo(p, outstandq)
  <2>1. HeldTo(p, outstandq) = {Sent(p, w) : w \in DOMAIN q.waits}
    BY <1>1, <1>2 DEF HeldTo
  <2>2. {Sent(p, w) : w \in DOMAIN q.waits}
          = ReleasedBy(p, q, a) \cup {Sent(p, w) : w \in DOMAIN Checked(q, a).waits}
    BY <1>4, <1>5 DEF ReleasedBy
  <2>3. HeldTo(p, outstandq') = {Sent(p, w) : w \in DOMAIN Checked(q, a).waits}
    <3>1. CASE Checked(q, a).numreqs = 0
      <4>1. DOMAIN Checked(q, a).waits = {}
        <5> DEFINE A == AccessesOf(p)
                   B == AfterCompletion(p, q, A, a)
                   D == DOMAIN Checked(q, a).waits
        <5>1. IsFiniteSet(B) /\ IsFiniteSet(D) /\ Checked(q, a).numreqs = Cardinality(B) + Cardinality(D)
          BY <1>2, CompletionCounts
        <5> HIDE DEF B, D
        <5>2. Cardinality(B) \in Nat /\ Cardinality(D) \in Nat
          BY <5>1, FS_CardinalityType
        <5>3. Cardinality(D) = 0
          BY <3>1, <5>1, <5>2
        <5>4. D = {}
          BY <5>1, <5>3, FS_EmptySet
        <5> QED BY <5>4 DEF D
      <4>2. p \notin DOMAIN outstandq'
        BY <1>3, <3>1
      <4> QED BY <4>1, <4>2 DEF HeldTo
    <3>2. CASE Checked(q, a).numreqs # 0
      <4>1. outstandq' = [outstandq EXCEPT ![p] = Checked(q, a)]
        BY <1>3, <3>2
      <4>2. p \in DOMAIN outstandq' /\ outstandq'[p] = Checked(q, a)
        BY <1>2, <4>1
      <4> QED BY <4>2 DEF HeldTo
    <3> QED BY <3>1, <3>2
  <2> QED BY <2>1, <2>2, <2>3
<1>9. \A x : IssuedTo(x, issued') \cup HeldTo(x, outstandq') = IssuedTo(x, issued) \cup HeldTo(x, outstandq)
  <2> TAKE x
  <2>1. CASE x = p
    BY <1>7, <1>8, <2>1
  <2>2. CASE x # p
    BY <1>6, <2>2
  <2> QED BY <2>1, <2>2
<1>10. \A x \in 0..Len(requests) - 1 :
          SentAs(org, x, requests[x + 1], IssuedTo(x, issued') \cup HeldTo(x, outstandq'))
  BY <1>9 DEF SentRightly
<1> QED BY <1>3, <1>10 DEF SentRightly

\* Every step keeps to the mappings.
LEMMA SentStep ==
  ASSUME FirstAtZero, AllFit, OrgSound, SentRightly, [Next]_vars
  PROVE  SentRightly'
<1>1. CASE UNCHANGED vars
  BY <1>1 DEF vars, SentRightly
<1>2. CASE Next
  BY <1>2, MapsSent, CompleteSent DEF Next
<1> QED BY <1>1, <1>2

\* So does the beginning.
LEMMA SentInit == Init => SentRightly
<1> SUFFICES ASSUME Init PROVE SentRightly
  OBVIOUS
<1>1. Len(requests) = 0
  BY DEF Init
<1>2. 0..Len(requests) - 1 = {}
  BY <1>1
<1> QED BY <1>2 DEF SentRightly

(***************************************************************************)
(* A request that is done has been sent its whole layout.                   *)
(***************************************************************************)

\* The places that the accesses of l touch
PlacesIn(l) == UNION {{<<l[i].devno, b>> : b \in l[i].blkno..l[i].blkno + l[i].bcount - 1} : i \in DOMAIN l}

\* Of its kind, a request is sent the whole of its layout: the old values that a write
\* reads are of the other kind.
LEMMA LayoutSent ==
  ASSUME NEW o, OrgOK(o), NEW p \in Nat, NEW l, Layout(o, l), NEW v, l[1].read = v,
         NEW turn, NEW r, NEW m, o.reduntype # "PARITY_TABLE",
         m = IF ReadsOld(o, l)
              THEN [sent |-> [i \in DOMAIN l |-> [l[i] EXCEPT !.read = TRUE]],
                    depend |-> Depend(o, l), waits |-> Waits(o, l)]
              ELSE [sent |-> l, depend |-> {}, waits |-> <<>>]
  PROVE  {a \in SentOf(p, m) : a.read = v} = FirstSent(p, l)
<1>1. /\ DOMAIN l = 1..Len(l) /\ 1 \in DOMAIN l
      /\ \A i \in DOMAIN l : l[i] \in OnMembers(o) /\ l[i].read = v
  BY DEF Layout
<1>2. \A i \in DOMAIN l : Sent(p, l[i]).read = v
  BY <1>1, SentFacts
<1>3. CASE ~ReadsOld(o, l)
  <2>1. m = [sent |-> l, depend |-> {}, waits |-> <<>>]
    BY <1>3
  <2>2. m.sent = l /\ DOMAIN m.waits = {}
    BY <2>1
  <2>3. SentOf(p, m) = FirstSent(p, l)
    BY <2>2 DEF SentOf
  <2> QED BY <1>2, <2>3 DEF FirstSent
<1>4. CASE ReadsOld(o, l)
  <2> DEFINE s == [i \in DOMAIN l |-> [l[i] EXCEPT !.read = TRUE]]
  <2>1. m = [sent |-> s, depend |-> Depend(o, l), waits |-> Waits(o, l)]
    BY <1>4
  <2>2. v = FALSE
    <3>1. l[1].read \in BOOLEAN
      BY <1>1 DEF OnMembers
    <3> QED BY <1>1, <1>4, <3>1 DEF ReadsOld
  <2>3. \A i \in DOMAIN l : s[i] \in OnMembers(o) /\ s[i].read = TRUE
    <3> TAKE i \in DOMAIN l
    <3> DEFINE a == l[i]
    <3>1. a \in OnMembers(o) /\ s[i] = [a EXCEPT !.read = TRUE]
      BY <1>1
    <3> HIDE DEF a, s
    <3> QED BY <3>1 DEF OnMembers
  <2>4. DOMAIN s = DOMAIN l
    OBVIOUS
  <2> HIDE DEF s
  <2>5. m.sent = s /\ DOMAIN m.waits = SetOf(l)
    BY <2>1 DEF Waits
  <2>6. \A a \in FirstSent(p, s) : a.read = TRUE
    <3>1. \A i \in DOMAIN l : Sent(p, s[i]).read = TRUE
      BY <2>3, SentFacts
    <3> QED BY <2>4, <3>1 DEF FirstSent
  <2>7. {Sent(p, w) : w \in SetOf(l)} = FirstSent(p, l)
    BY DEF SetOf, FirstSent
  <2>8. SentOf(p, m) = FirstSent(p, s) \cup FirstSent(p, l)
    BY <2>5, <2>7 DEF SentOf
  <2>9. \A a \in FirstSent(p, l) : a.read = v
    BY <1>2 DEF FirstSent
  <2> QED BY <2>2, <2>6, <2>8, <2>9
<1> QED BY <1>3, <1>4

\* What the state says of a request of an organisation without a table
LEMMA RequestFacts ==
  ASSUME FirstAtZero, RequestsFit, OrgSound, org.reduntype # "PARITY_TABLE", NEW r, NEW n, Asked(org, r, n)
  PROVE  /\ OrgOK(org) /\ DataLeft(org) /\ org.firstdisk = 0 /\ org.numdisks # 0
         /\ r \in RequestSet /\ Kept(org, r) /\ Within(org, r) = r
<1>1. org \in Orgs /\ n \in 1..MaxRequests /\ r \in Workload(org, n) /\ Covers(org, r)
  BY DEF OrgSound, OrgTypes, Asked
<1>2. OrgOK(org) /\ org.firstdisk = 0 /\ DataLeft(org)
  BY <1>1, OrgFacts
<1>3. r \in RequestSet /\ (org.addrbyparts => r.blkno + r.bcount <= org.blksperpart)
  BY <1>1 DEF RequestsFit
<1>4. Kept(org, r) /\ org.numdisks # 0
  BY <1>1, <1>2, <1>3, CoveredKept
<1> QED BY <1>2, <1>3, <1>4, WithinSelf

\* What is issued of it has touched the places of its layout.
LEMMA DoneTouched ==
  ASSUME FirstAtZero, RequestsFit, OrgSound, SentRightly, org.reduntype # "PARITY_TABLE",
         NEW p \in 0..Len(requests) - 1, p \notin DOMAIN outstandq, NEW r, r = requests[p + 1]
  PROVE  /\ \E n : Asked(org, r, n)
         /\ \E turn \in 0..org.copies - 1 : \E l \in Layouts(org, r, turn) :
               Layout(org, l) /\ Touched(Issued(p, r.read)) = PlacesIn(l)
<1>1. SentAs(org, p, r, IssuedTo(p, issued))
  <2>1. SentAs(org, p, requests[p + 1], IssuedTo(p, issued) \cup HeldTo(p, outstandq))
    BY DEF SentRightly
  <2>2. HeldTo(p, outstandq) = {}
    BY DEF HeldTo
  <2>3. IssuedTo(p, issued) \cup {} = IssuedTo(p, issued)
    OBVIOUS
  <2> HIDE DEF SentAs
  <2> QED BY <2>1, <2>2, <2>3
<1>2. Asked(org, r, p + 1)
  BY <1>1 DEF SentAs
<1>3. PICK turn \in 0..org.copies - 1 : \E m \in Mappings(org, Within(org, r), turn) :
          Fits(org, m) /\ IssuedTo(p, issued) = SentOf(p, m)
  BY <1>1 DEF SentAs
<1>4. /\ OrgOK(org) /\ DataLeft(org) /\ org.firstdisk = 0 /\ org.numdisks # 0
      /\ r \in RequestSet /\ Kept(org, r) /\ Within(org, r) = r
  BY <1>2, RequestFacts
<1>5. PICK m \in Mappings(org, r, turn) : IssuedTo(p, issued) = SentOf(p, m)
  BY <1>3, <1>4
<1>6. PICK l \in Layouts(org, r, turn) :
        m = IF ReadsOld(org, l)
              THEN [sent |-> [i \in DOMAIN l |-> [l[i] EXCEPT !.read = TRUE]],
                    depend |-> Depend(org, l), waits |-> Waits(org, l)]
              ELSE [sent |-> l, depend |-> {}, waits |-> <<>>]
  BY <1>5 DEF Mappings
<1>7. Layout(org, l) /\ l[1].read = r.read
  BY <1>4, LayoutsHold
<1>8. p \in Nat
  OBVIOUS
<1>9. Issued(p, r.read) = FirstSent(p, l)
  <2> DEFINE v == r.read
  <2>1. {a \in SentOf(p, m) : a.read = v} = FirstSent(p, l)
    <3>1. Layout(org, l) /\ l[1].read = v
      BY <1>7
    <3> HIDE DEF v
    <3> QED BY <1>4, <1>6, <1>8, <3>1, LayoutSent
  <2>2. Issued(p, v) = {a \in IssuedTo(p, issued) : a.read = v}
    BY DEF Issued, IssuedTo
  <2> HIDE DEF v
  <2>3. Issued(p, v) = FirstSent(p, l)
    BY <1>5, <2>1, <2>2
  <2> QED BY <2>3 DEF v
<1>10. Touched(FirstSent(p, l)) = PlacesIn(l)
  <2>1. \A i \in DOMAIN l : l[i] \in OnMembers(org)
    BY <1>7 DEF Layout
  <2>2. \A i \in DOMAIN l : /\ Sent(p, l[i]).devno - org.firstdisk = l[i].devno
                            /\ Sent(p, l[i]).blkno = l[i].blkno /\ Sent(p, l[i]).bcount = l[i].bcount
    <3> TAKE i \in DOMAIN l
    <3>1. l[i].devno \in Int
      BY <1>4, <2>1 DEF OnMembers, Disks, OrgOK
    <3>2. Sent(p, l[i]) = [opid |-> p, devno |-> l[i].devno, blkno |-> l[i].blkno,
                           bcount |-> l[i].bcount, read |-> l[i].read]
      BY DEF Sent, Physical
    <3> QED BY <1>4, <3>1, <3>2
  <2> QED BY <2>2 DEF Touched, PlacesIn, FirstSent
<1> QED BY <1>2, <1>7, <1>9, <1>10

(***************************************************************************)
(* Which blocks of the disks a range of blocks of the array is.             *)
(***************************************************************************)

\* The block f of the unit D of the stripe T
BlockAt(o, T, D, f) == T * (o.numdisks * o.stripeunit) + D * UnitAt(o, T) + f

\* Digits are compared from the first on.
LEMMA DigitsLess ==
  ASSUME NEW N \in Nat \ {0}, NEW a \in Int, NEW b \in Int, NEW e \in 0..N - 1, NEW g \in 0..N, a # b
  PROVE  a * N + e < b * N + g <=> a < b
<1>1. a * N \in Int /\ b * N \in Int
  OBVIOUS
<1>2. CASE a < b
  <2>1. a + 1 \in Int /\ a + 1 <= b
    BY <1>2
  <2>2. (a + 1) * N <= b * N
    BY <2>1, MulMono
  <2>3. (a + 1) * N = a * N + N
    OBVIOUS
  <2> DEFINE x == a * N
             y == b * N
  <2>4. x \in Int /\ y \in Int /\ x + N <= y
    BY <1>1, <2>2, <2>3
  <2> HIDE DEF x, y
  <2>5. x + e < y + g
    BY <2>4
  <2> QED BY <1>2, <2>5 DEF x, y
<1>3. CASE b < a
  <2>1. b + 1 \in Int /\ b + 1 <= a
    BY <1>3
  <2>2. (b + 1) * N <= a * N
    BY <2>1, MulMono
  <2>3. (b + 1) * N = b * N + N
    OBVIOUS
  <2> DEFINE x == a * N
             y == b * N
  <2>4. x \in Int /\ y \in Int /\ y + N <= x
    BY <1>1, <2>2, <2>3
  <2> HIDE DEF x, y
  <2>5. ~(x + e < y + g)
    BY <2>4
  <2>6. ~(a < b)
    BY <1>3
  <2> QED BY <2>5, <2>6 DEF x, y
<1> QED BY <1>2, <1>3

\* The units of a stripe are no longer than the others.
LEMMA UnitBounds ==
  ASSUME NEW o, Striping(o), NEW T \in 0..o.numfull
  PROVE  UnitAt(o, T) \in 0..o.stripeunit
<1> DEFINE u == o.stripeunit
           F == o.numfull
           B == o.blksperpart
           x == F * u
<1>1. u \in Nat \ {0} /\ F \in Nat /\ B \in Nat /\ x <= B /\ B < x + u
  BY DEF Striping
<1>2. UnitAt(o, T) = IF T = F THEN B - x ELSE u
  BY DEF UnitAt
<1>3. x \in Int
  BY <1>1
<1> HIDE DEF u, F, B, x
<1>4. UnitAt(o, T) \in 0..u
  BY <1>1, <1>2, <1>3
<1> QED BY <1>4 DEF u

\* A place within a stripe
LEMMA InStripe ==
  ASSUME NEW n \in Nat, NEW u \in Nat, NEW U \in 0..u, NEW d \in 0..n - 1, NEW f \in 0..U
  PROVE  /\ d * U + f \in 0..n * u /\ n * u \in Nat
         /\ f < U => d * U + f \in 0..(n * u) - 1
<1>1. (d + 1) * U <= n * U
  <2>1. d + 1 \in Int /\ n \in Int /\ d + 1 <= n /\ U \in Nat
    OBVIOUS
  <2> QED BY <2>1, MulMono
<1>2. U * n <= u * n
  <2>1. U \in Int /\ u \in Int /\ U <= u
    OBVIOUS
  <2> QED BY <2>1, MulMono
<1> DEFINE x == d * U
           y == n * U
           z == n * u
<1>3. x \in Nat /\ y \in Int /\ z \in Nat /\ x + U <= y /\ y <= z
  <2>1. (d + 1) * U = d * U + U /\ n * U = U * n /\ n * u = u * n
    OBVIOUS
  <2>2. d * U \in Nat /\ n * U \in Int /\ n * u \in Nat
    OBVIOUS
  <2> QED BY <1>1, <1>2, <2>1, <2>2
<1> HIDE DEF x, y, z
<1>4. x + f \in 0..z /\ (f < U => x + f \in 0..z - 1)
  BY <1>3
<1> QED BY <1>3, <1>4 DEF x, z

\* What comes first in the array comes first on its disk.
LEMMA BeforeCut ==
  ASSUME NEW o, Striping(o), NEW b, NEW a, InUnit(o, b, a), NEW T \in 0..o.numfull,
         NEW D \in 0..o.numdisks - 1, NEW f \in 0..UnitAt(o, T)
  PROVE  b < BlockAt(o, T, D, f) <=> a.stripeno * o.stripeunit + a.offset < Cut(o, T, D, f, a.devno)
<1> DEFINE n == o.numdisks
           u == o.stripeunit
           N == n * u
           S == a.stripeno
           d == a.devno
           V == UnitAt(o, S)
           U == UnitAt(o, T)
           x == a.offset
           e == d * V + x
           g == D * U + f
           h == IF d < D THEN U ELSE IF d = D THEN f ELSE 0
<1>1. /\ n \in Nat \ {0} /\ u \in Nat \ {0} /\ S \in 0..o.numfull /\ o.numfull \in Nat /\ d \in 0..n - 1
      /\ x \in 0..V - 1 /\ V \in Nat \ {0} /\ b = S * N + d * V + x
  BY DEF Striping, InUnit
<1>2. V \in 0..u /\ U \in 0..u
  BY <1>1, UnitBounds
<1>3. BlockAt(o, T, D, f) = T * N + D * U + f
  BY DEF BlockAt
<1>4. Cut(o, T, D, f, d) = T * u + h
  BY DEF Cut
<1>5. S \in Int /\ T \in Int
  BY <1>1
<1>6. (S = T => V = U) /\ D \in 0..n - 1 /\ f \in 0..U
  OBVIOUS
<1> HIDE DEF n, u, S, d, V, U, x
<1>7. e \in 0..N - 1 /\ N \in Nat
  <2>1. x \in 0..V /\ x < V
    BY <1>1
  <2> QED BY <1>1, <1>2, <2>1, InStripe
<1>8. g \in 0..N
  BY <1>1, <1>2, <1>6, InStripe
<1>9. N \in Nat \ {0}
  BY <1>7
<1>10. h \in 0..u /\ x \in 0..u - 1
  BY <1>1, <1>2, <1>6
<1>11. b = S * N + e /\ BlockAt(o, T, D, f) = T * N + g
  <2> DEFINE y == S * N
             z == T * N
             v == d * V
             w == D * U
  <2>1. y \in Int /\ z \in Int /\ v \in Int /\ w \in Int /\ x \in Int /\ f \in Int
    BY <1>1, <1>2, <1>5, <1>6, <1>9
  <2>2. b = y + v + x /\ BlockAt(o, T, D, f) = z + w + f
    BY <1>1, <1>3
  <2>3. e = v + x /\ g = w + f
    OBVIOUS
  <2> HIDE DEF y, z, v, w, e, g
  <2>4. b = y + e /\ BlockAt(o, T, D, f) = z + g
    BY <2>1, <2>2, <2>3
  <2> QED BY <2>4 DEF y, z
<1>12. CASE S # T
  <2>1. b < BlockAt(o, T, D, f) <=> S < T
    <3> HIDE DEF e, g, N
    <3>1. S * N + e < T * N + g <=> S < T
      BY <1>5, <1>7, <1>8, <1>9, <1>12, DigitsLess
    <3> QED BY <1>11, <3>1
  <2>2. S * u + x < T * u + h <=> S < T
    <3> HIDE DEF h
    <3> QED BY <1>1, <1>5, <1>10, <1>12, DigitsLess
  <2> QED BY <1>4, <2>1, <2>2 DEF S, u, x, d
<1>13. CASE S = T
  <2>1. V = U
    BY <1>6, <1>13
  <2>2. b < BlockAt(o, T, D, f) <=> e < g
    <3> DEFINE y == S * N
    <3>1. y \in Int /\ b = y + e /\ BlockAt(o, T, D, f) = y + g
      BY <1>5, <1>9, <1>11, <1>13
    <3>2. e \in Int /\ g \in Int
      BY <1>7, <1>8, <1>9
    <3> HIDE DEF y, e, g
    <3> QED BY <3>1, <3>2
  <2>3. S * u + x < T * u + h <=> x < h
    <3> DEFINE y == S * u
    <3>1. y \in Int /\ T * u = y
      BY <1>1, <1>5, <1>13
    <3>2. x \in Int /\ h \in Int
      BY <1>1, <1>10
    <3> HIDE DEF y, h
    <3> QED BY <3>1, <3>2 DEF y
  <2>4. e < g <=> x < h
    <3>1. CASE d = D
      <4> DEFINE y == d * U
      <4>1. y \in Int /\ e = y + x /\ g = y + f /\ h = f
        BY <1>1, <1>2, <2>1, <3>1
      <4>2. x \in Int /\ f \in Int
        BY <1>1, <1>2, <1>6
      <4> HIDE DEF y, e, g, h
      <4> QED BY <4>1, <4>2
    <3>2. CASE d # D
      <4>1. U \in Nat \ {0} /\ d \in Int /\ D \in Int /\ x \in 0..U - 1 /\ f \in 0..U
        BY <1>1, <1>2, <1>6, <2>1
      <4>2. d * U + x < D * U + f <=> d < D
        BY <3>2, <4>1, DigitsLess
      <4>3. x < h <=> d < D
        BY <3>2, <4>1
      <4> QED BY <2>1, <4>2, <4>3
    <3> QED BY <3>1, <3>2
  <2> QED BY <1>4, <2>2, <2>3, <2>4 DEF S, u, x, d
<1> QED BY <1>12, <1>13

\* The place of a block is in its unit.
LEMMA PlaceInUnit ==
  ASSUME NEW o, Striping(o), NEW b \in Nat, NEW a, InUnit(o, b, a)
  PROVE  StripedPlace(o, b) = <<a.devno, a.stripeno * o.stripeunit + a.offset>>
<1> DEFINE n == o.numdisks
           u == o.stripeunit
           F == o.numfull
           B == o.blksperpart
           N == n * u
           T == a.stripeno
           d == a.devno
           U == UnitAt(o, T)
           f == a.offset
           e == d * U + f
           full == F * u
           rest == B - full
           unit == b \div u
           c == b - full * n
<1>1. /\ n \in Nat \ {0} /\ u \in Nat \ {0} /\ F \in Nat /\ B \in Nat /\ T \in 0..F /\ d \in 0..n - 1
      /\ f \in 0..U - 1 /\ U \in Nat \ {0} /\ b = T * N + d * U + f
  BY DEF Striping, InUnit
<1>2. U \in 0..u
  BY <1>1, UnitBounds
<1>3. U = IF T = F THEN rest ELSE u
  BY DEF UnitAt
<1>4. StripedPlace(o, b) =
        IF b < full * n THEN <<unit % n, (unit \div n) * u + (b % u)>>
                        ELSE <<c \div rest, full + (c % rest)>>
  BY DEF StripedPlace
<1> HIDE DEF n, u, F, B, T, d, U, f
<1>5. e \in 0..N - 1 /\ N \in Nat
  <2>1. f \in 0..U /\ f < U
    BY <1>1
  <2> QED BY <1>1, <1>2, <2>1, InStripe
<1>6. b = T * N + e
  <2> DEFINE y == T * N
             v == d * U
  <2>1. y \in Int /\ v \in Int /\ f \in Int /\ b = y + v + f
    BY <1>1, <1>5
  <2> HIDE DEF y, v
  <2> QED BY <2>1 DEF y, v
<1>7. full * n = F * N
  BY <1>1
<1>8. CASE T = F
  <2>1. b = full * n + e
    BY <1>6, <1>7, <1>8
  <2> DEFINE y == full * n
  <2>2. y \in Int
    BY <1>1
  <2>3. b = y + e /\ c = b - y /\ e \in Nat
    BY <1>5, <2>1
  <2>4. U = rest
    BY <1>3, <1>8
  <2> HIDE DEF y, c, e, rest
  <2>5. ~(b < y) /\ c = e
    BY <2>2, <2>3
  <2>6. c = d * U + f
    BY <2>5 DEF e
  <2>7. c \div U = d /\ c % U = f
    <3>1. d \in Int /\ U \in Nat \ {0} /\ f \in 0..U - 1 /\ c \in Int
      BY <1>1, <2>3, <2>5
    <3> QED BY <2>6, <3>1, DivIs
  <2>8. StripedPlace(o, b) = <<d, full + f>>
    BY <1>4, <2>4, <2>5, <2>7 DEF y
  <2> QED BY <1>8, <2>8 DEF d, T, u, f
<1>9. CASE T # F
  <2>1. U = u
    BY <1>3, <1>9
  <2>2. b < full * n
    <3>1. 0 \in 0..N /\ N \in Nat \ {0} /\ T \in Int /\ F \in Int
      BY <1>1, <1>5
    <3>2. T < F
      BY <1>1, <1>9
    <3> HIDE DEF N, e
    <3>3. T * N + e < F * N + 0
      BY <1>5, <1>9, <3>1, <3>2, DigitsLess
    <3>4. F * N + 0 = F * N
      BY <3>1
    <3> QED BY <1>6, <1>7, <3>3, <3>4
  <2>3. b = (T * n + d) * u + f
    <3> DEFINE y == T * n
    <3>1. y \in Int /\ d \in Int /\ u \in Int /\ f \in Int
      BY <1>1
    <3>2. T * N = y * u
      BY <1>1
    <3> HIDE DEF y, N
    <3>3. (y + d) * u = y * u + d * u
      BY <3>1
    <3>4. b = y * u + d * u + f
      BY <1>1, <2>1, <3>2
    <3> QED BY <3>3, <3>4 DEF y
  <2> DEFINE k == T * n + d
  <2>4. k \in Int /\ f \in 0..u - 1
    BY <1>1, <2>1
  <2>5. unit = k /\ b % u = f
    <3>1. b \in Int /\ b = k * u + f
      BY <2>3
    <3> HIDE DEF k, unit
    <3>2. b \div u = k /\ b % u = f
      BY <1>1, <2>4, <3>1, DivIs
    <3> QED BY <3>2 DEF unit
  <2>6. k \div n = T /\ k % n = d
    <3>1. T \in Int /\ k = T * n + d
      BY <1>1
    <3> HIDE DEF k
    <3> QED BY <1>1, <2>4, <3>1, DivIs
  <2> HIDE DEF k, unit
  <2>7. StripedPlace(o, b) = <<d, T * u + f>>
    BY <1>4, <2>2, <2>5, <2>6
  <2> QED BY <2>7 DEF d, T, u, f
<1> QED BY <1>8, <1>9

\* Every block of every disk is that of a block of the array.
LEMMA PlaceFound ==
  ASSUME NEW o, Striping(o), NEW d \in 0..o.numdisks - 1, NEW x \in 0..o.blksperpart - 1
  PROVE  \E b \in Nat : \E a : InUnit(o, b, a) /\ a.devno = d /\ a.stripeno * o.stripeunit + a.offset = x
<1> DEFINE n == o.numdisks
           u == o.stripeunit
           F == o.numfull
           B == o.blksperpart
           T == x \div u
           f == x % u
           U == UnitAt(o, T)
           a == [stripeno |-> T, unit |-> U, devno |-> d, offset |-> f]
           b == T * (n * u) + d * U + f
<1>1. /\ n \in Nat \ {0} /\ u \in Nat \ {0} /\ F \in Nat /\ B \in Nat /\ F * u <= B /\ B < F * u + u
      /\ d \in 0..n - 1 /\ x \in 0..B - 1
  BY DEF Striping
<1>2. U = IF T = F THEN B - F * u ELSE u
  BY DEF UnitAt
<1> HIDE DEF n, u, F, B, U
<1>3. T \in Int /\ f \in 0..u - 1 /\ x = T * u + f /\ x \in Int
  <2>1. x \in Int
    BY <1>1
  <2> QED BY <1>1, <2>1, DivFacts
<1>4. 0 <= T
  <2>1. 0 * u <= x /\ 0 \in Int
    BY <1>1
  <2> QED BY <1>1, <1>3, <2>1, DivAbove
<1>5. T < F + 1
  <2>1. F + 1 \in Int
    BY <1>1
  <2> DEFINE y == F * u
  <2>2. (F + 1) * u = y + u /\ y \in Int /\ B < y + u
    BY <1>1
  <2> HIDE DEF y
  <2>3. x < (F + 1) * u
    BY <1>1, <2>2
  <2> QED BY <1>1, <1>3, <2>1, <2>3, DivBelow
<1> HIDE DEF T, f
<1>6. T \in 0..F
  BY <1>1, <1>3, <1>4, <1>5
<1>7. U \in Nat \ {0} /\ f \in 0..U - 1
  <2>1. CASE T = F
    <3> DEFINE y == F * u
    <3>1. y \in Int /\ x = y + f /\ U = B - y /\ y <= B
      BY <1>1, <1>2, <1>3, <2>1
    <3> HIDE DEF y
    <3>2. U \in Nat \ {0} /\ f \in 0..U - 1
      BY <1>1, <1>3, <3>1
    <3> QED BY <3>2
  <2>2. CASE T # F
    BY <1>1, <1>2, <1>3, <2>2
  <2> QED BY <2>1, <2>2
<1>8. b \in Nat
  <2>1. T * (n * u) \in Nat /\ d * U \in Nat /\ f \in Nat
    BY <1>1, <1>6, <1>7
  <2> DEFINE y == T * (n * u)
             z == d * U
  <2>2. y \in Nat /\ z \in Nat /\ f \in Nat /\ b = y + z + f
    BY <2>1
  <2> HIDE DEF y, z, b
  <2> QED BY <2>2
<1>9. a.stripeno = T /\ a.unit = U /\ a.devno = d /\ a.offset = f
  OBVIOUS
<1> HIDE DEF a
<1>10. b = a.stripeno * (n * u) + a.devno * a.unit + a.offset
  BY <1>9
<1> HIDE DEF b
<1>11. InUnit(o, b, a)
  BY <1>1, <1>6, <1>7, <1>9, <1>10 DEF InUnit, U, n, u, F
<1>12. a.stripeno * o.stripeunit + a.offset = x
  BY <1>3, <1>9 DEF u
<1> QED BY <1>8, <1>9, <1>11, <1>12

\* A range of blocks of the array is a range on every disk.
LEMMA StripeImage ==
  ASSUME NEW o, Striping(o), NEW b \in Nat, NEW at, InUnit(o, b, at), NEW T \in 0..o.numfull,
         NEW D \in 0..o.numdisks - 1, NEW f \in 0..UnitAt(o, T),
         NEW E \in Nat, E = BlockAt(o, T, D, f), E <= o.blksperpart * o.numdisks,
         NEW d, NEW x
  PROVE  (\E c \in b..E - 1 : StripedPlace(o, c) = <<d, x>>)
         <=> /\ d \in 0..o.numdisks - 1 /\ x \in Nat
             /\ StartOn(o, at, d) <= x /\ x < Cut(o, T, D, f, d)
<1> DEFINE n == o.numdisks
           u == o.stripeunit
           B == o.blksperpart
           S == at.stripeno
           V == UnitAt(o, S)
           g == at.offset
           C(y) == Cut(o, S, at.devno, g, y)
<1>1. /\ n \in Nat \ {0} /\ u \in Nat \ {0} /\ B \in Nat /\ S \in 0..o.numfull /\ at.devno \in 0..n - 1
      /\ g \in 0..V - 1 /\ V \in Nat \ {0} /\ b = BlockAt(o, S, at.devno, g)
  BY DEF Striping, InUnit, BlockAt
<1>2. V \in 0..u /\ g \in 0..V
  BY <1>1, UnitBounds
<1>3. S * u \in Nat /\ S * u + V <= B
  BY <1>1, UnitEnds
<1>4. T * u \in Nat /\ T * u + UnitAt(o, T) <= B /\ UnitAt(o, T) \in Nat
  BY UnitEnds, UnitBounds, <1>1
<1>5. \A y : /\ C(y) = S * u + IF y < at.devno THEN V ELSE IF y = at.devno THEN g ELSE 0
             /\ StartOn(o, at, y) = S * u + IF y = at.devno THEN g ELSE IF y < at.devno THEN u ELSE 0
  BY DEF Cut, StartOn
<1>6. S # o.numfull => V = u
  BY DEF UnitAt
<1>7. S = o.numfull => S * u + V = B
  <2> DEFINE y == o.numfull * u
  <2>1. y \in Int
    BY <1>1 DEF Striping
  <2>2. S = o.numfull => S * u = y /\ V = B - y
    BY DEF UnitAt
  <2> HIDE DEF y, V, B
  <2> QED BY <1>1, <2>1, <2>2
<1> HIDE DEF n, u, B, S, V, g
\* The two ways to begin differ at most beyond the disk.
<1>8. \A y \in 0..n - 1 : \A z \in 0..B - 1 : z < C(y) <=> z < StartOn(o, at, y)
  <2> TAKE y \in 0..n - 1
  <2> TAKE z \in 0..B - 1
  <2> DEFINE w == S * u
             v == at.devno
  <2>1. /\ C(y) = w + IF y < v THEN V ELSE IF y = v THEN g ELSE 0
        /\ StartOn(o, at, y) = w + IF y = v THEN g ELSE IF y < v THEN u ELSE 0
        /\ w \in Nat /\ w + V <= B /\ y \in Int /\ v \in Int /\ z \in Int /\ z < B /\ V <= u /\ V \in Int /\ u \in Int
        /\ B \in Int /\ (V = u \/ w + V = B)
    <3>1. C(y) = w + IF y < v THEN V ELSE IF y = v THEN g ELSE 0
      BY <1>5
    <3>2. StartOn(o, at, y) = w + IF y = v THEN g ELSE IF y < v THEN u ELSE 0
      BY <1>5
    <3> HIDE DEF C
    <3> QED BY <1>1, <1>2, <1>3, <1>6, <1>7, <3>1, <3>2
  <2> HIDE DEF w, v, C
  <2>2. CASE y < v
    <3>1. C(y) = w + V /\ StartOn(o, at, y) = w + u
      BY <2>1, <2>2
    <3> QED BY <2>1, <3>1
  <2>3. CASE ~(y < v)
    <3>1. C(y) = StartOn(o, at, y)
      BY <2>1, <2>3
    <3> QED BY <3>1
  <2> QED BY <2>2, <2>3
<1>9. \A y \in 0..n - 1 : StartOn(o, at, y) \in Nat /\ Cut(o, T, D, f, y) \in Int /\ Cut(o, T, D, f, y) <= B
  <2> TAKE y \in 0..n - 1
  <2>1. StartOn(o, at, y) \in Nat
    <3> DEFINE w == S * u
               h == IF y = at.devno THEN g ELSE IF y < at.devno THEN u ELSE 0
    <3>1. w \in Nat /\ h \in Nat /\ StartOn(o, at, y) = w + h
      BY <1>1, <1>2, <1>3, <1>5
    <3> HIDE DEF w, h
    <3> QED BY <3>1
  <2> DEFINE w == T * u
             h == IF y < D THEN UnitAt(o, T) ELSE IF y = D THEN f ELSE 0
  <2>2. Cut(o, T, D, f, y) = w + h
    BY DEF Cut, u
  <2>3. w \in Nat /\ w + UnitAt(o, T) <= B /\ h \in 0..UnitAt(o, T) /\ UnitAt(o, T) \in Nat
    BY <1>4
  <2> HIDE DEF w, h
  <2>4. Cut(o, T, D, f, y) \in Int /\ Cut(o, T, D, f, y) <= B
    BY <1>1, <2>2, <2>3
  <2> QED BY <2>1, <2>4
\* A block and its place
<1>10. ASSUME NEW c \in Nat, NEW a, InUnit(o, c, a), NEW y, y = a.devno, NEW z, z = a.stripeno * u + a.offset
       PROVE  /\ y \in 0..n - 1 /\ z \in 0..B - 1 /\ StripedPlace(o, c) = <<y, z>>
              /\ c < E <=> z < Cut(o, T, D, f, y)
              /\ c < b <=> z < StartOn(o, at, y)
  <2>1. StripedPlace(o, c) = <<y, z>>
    BY <1>10, PlaceInUnit DEF u
  <2>2. y \in 0..n - 1 /\ a.stripeno \in 0..o.numfull /\ a.offset \in 0..UnitAt(o, a.stripeno) - 1
        /\ UnitAt(o, a.stripeno) \in Nat
    BY <1>10 DEF InUnit, n
  <2>3. z \in 0..B - 1
    <3> DEFINE w == a.stripeno * u
               v == UnitAt(o, a.stripeno)
    <3>1. w \in Nat /\ w + v <= B
      BY <2>2, UnitEnds DEF u, B
    <3>2. z = w + a.offset /\ a.offset \in 0..v - 1 /\ v \in Nat
      BY <1>10, <2>2
    <3> HIDE DEF w, v
    <3> QED BY <1>1, <3>1, <3>2
  <2>4. c < E <=> z < Cut(o, T, D, f, y)
    BY <1>10, BeforeCut DEF u
  <2>5. c < b <=> z < C(y)
    <3>1. c < BlockAt(o, S, at.devno, g) <=> a.stripeno * o.stripeunit + a.offset < Cut(o, S, at.devno, g, a.devno)
      <4>1. S \in 0..o.numfull /\ at.devno \in 0..o.numdisks - 1 /\ g \in 0..UnitAt(o, S)
        BY <1>1, <1>2 DEF n, V
      <4> QED BY <1>10, <4>1, BeforeCut
    <3> QED BY <1>1, <1>10, <3>1 DEF u
  <2> HIDE DEF C
  <2> QED BY <1>8, <2>1, <2>2, <2>3, <2>4, <2>5
<1>11. ASSUME NEW c \in b..E - 1, StripedPlace(o, c) = <<d, x>>
       PROVE  d \in 0..n - 1 /\ x \in Nat /\ StartOn(o, at, d) <= x /\ x < Cut(o, T, D, f, d)
  <2>1. c \in Nat /\ c < E /\ ~(c < b)
    OBVIOUS
  <2>2. c < o.blksperpart * o.numdisks
    <3> DEFINE y == o.blksperpart * o.numdisks
    <3>1. y \in Int /\ E <= y
      BY <1>1 DEF n, B
    <3> HIDE DEF y
    <3>2. c < y
      BY <2>1, <3>1
    <3> QED BY <3>2 DEF y
  <2> DEFINE a == UnitOf(o, c)
             y == a.devno
             z == a.stripeno * u + a.offset
  <2>3. InUnit(o, c, a)
    BY <2>1, <2>2, UnitFacts
  <2> HIDE DEF a
  <2>4. /\ y \in 0..n - 1 /\ z \in 0..B - 1 /\ StripedPlace(o, c) = <<y, z>>
        /\ c < E <=> z < Cut(o, T, D, f, y)
        /\ c < b <=> z < StartOn(o, at, y)
    BY <1>10, <2>1, <2>3
  <2> HIDE DEF y, z
  <2>5. y = d /\ z = x
    BY <1>11, <2>4
  <2>6. StartOn(o, at, d) \in Nat /\ x \in Nat
    BY <1>1, <1>9, <2>4, <2>5
  <2> QED BY <2>1, <2>4, <2>5, <2>6
<1>12. ASSUME d \in 0..n - 1, x \in Nat, StartOn(o, at, d) <= x, x < Cut(o, T, D, f, d)
       PROVE  \E c \in b..E - 1 : StripedPlace(o, c) = <<d, x>>
  <2>1. x \in 0..B - 1
    BY <1>1, <1>9, <1>12
  <2>2. PICK c \in Nat : \E a : InUnit(o, c, a) /\ a.devno = d /\ a.stripeno * o.stripeunit + a.offset = x
    BY <1>12, <2>1, PlaceFound DEF n, B
  <2>3. PICK a : InUnit(o, c, a) /\ a.devno = d /\ a.stripeno * o.stripeunit + a.offset = x
    BY <2>2
  <2>4. /\ StripedPlace(o, c) = <<d, x>>
        /\ c < E <=> x < Cut(o, T, D, f, d)
        /\ c < b <=> x < StartOn(o, at, d)
    BY <1>10, <2>3 DEF u
  <2>5. StartOn(o, at, d) \in Nat
    BY <1>9, <1>12
  <2>6. c < E /\ ~(c < b)
    BY <1>12, <2>4, <2>5
  <2>7. c \in b..E - 1
    BY <2>6
  <2> QED BY <2>4, <2>7
<1> QED BY <1>11, <1>12 DEF n

\* The places of an access
LEMMA InPlaces ==
  ASSUME NEW l, NEW d, NEW x
  PROVE  <<d, x>> \in PlacesIn(l)
         <=> \E i \in DOMAIN l : l[i].devno = d /\ x \in l[i].blkno..l[i].blkno + l[i].bcount - 1
BY DEF PlacesIn

\* A place is a pair.
LEMMA PlacePair == ASSUME NEW l, NEW pl \in PlacesIn(l) PROVE \E d, x : pl = <<d, x>>
BY DEF PlacesIn

\* Every disk comes in turn.
LEMMA DiskFound ==
  ASSUME NEW o, NEW at, o.numdisks \in Nat \ {0}, at.devno \in 0..o.numdisks - 1,
         NEW d \in 0..o.numdisks - 1
  PROVE  \E i \in 1..o.numdisks : DiskOf(o, at, i) = d
<1> DEFINE n == o.numdisks
           D == at.devno
           i == IF D <= d THEN d - D + 1 ELSE d - D + 1 + n
<1>1. n \in Nat \ {0} /\ D \in 0..n - 1 /\ d \in 0..n - 1
  OBVIOUS
<1>2. i \in 1..n
  <2> HIDE DEF n, D
  <2> QED BY <1>1
<1>3. DiskOf(o, at, i) = IF D + (i - 1) < n THEN D + (i - 1) ELSE D + (i - 1) - n
  <2> HIDE DEF i
  <2> QED BY <1>1, <1>2, DiskOfFacts
<1> HIDE DEF n, D
<1>4. (D <= d => D + (i - 1) = d) /\ (~(D <= d) => D + (i - 1) = d + n)
  BY <1>1
<1>5. i \in Int /\ n \in Int /\ D \in Int /\ d \in Int /\ 0 <= d /\ d < n
  BY <1>1, <1>2
<1> HIDE DEF i
<1>6. DiskOf(o, at, i) = d
  <2>1. CASE D <= d
    <3>1. D + (i - 1) = d
      BY <1>4, <2>1
    <3> QED BY <1>3, <1>5, <3>1
  <2>2. CASE ~(D <= d)
    <3>1. D + (i - 1) = d + n
      BY <1>4, <2>2
    <3>2. ~(d + n < n) /\ d + n - n = d
      BY <1>5
    <3>3. ~(D + (i - 1) < n) /\ D + (i - 1) - n = d
      BY <1>5, <3>1, <3>2
    <3> QED BY <1>3, <3>3
  <2> QED BY <2>1, <2>2
<1> QED BY <1>2, <1>6 DEF n

\* No block is asked of a disk that the request has not come to.
LEMMA NotReached ==
  ASSUME NEW o, Striping(o), NEW b, NEW at, InUnit(o, b, at), NEW E, NEW s, Spreading(o, E, at, s, 0),
         NEW i \in 1..o.numdisks, s.numstripes < i
  PROVE  Cut(o, s.stripeno, s.devno, s.left, DiskOf(o, at, i)) <= StartOn(o, at, DiskOf(o, at, i))
<1> DEFINE n == o.numdisks
           d == DiskOf(o, at, i)
           u == o.stripeunit
           t == s.stripeno
           T == at.stripeno
           D == at.devno
           k == s.numstripes
           x == s.devno
           w == UnitAt(o, t)
           C == Cut(o, t, x, s.left, d)
           A == StartOn(o, at, d)
           y == t * n
           z == T * n
           p == t * u
           q == T * u
<1>1. /\ n \in Nat \ {0} /\ u \in Nat /\ o.numfull \in Nat /\ T \in 0..o.numfull /\ D \in 0..n - 1
      /\ t \in T..o.numfull /\ x \in 0..n - 1 /\ k \in Nat \ {0, 1} /\ i \in 1..n /\ k < i
  BY DEF Striping, InUnit, Spreading
<1>2. d \in 0..n - 1 /\ d = IF D + (i - 1) < n THEN D + (i - 1) ELSE D + (i - 1) - n
  BY <1>1, DiskOfFacts
<1>3. y + x + 0 = z + D + k - 1
  BY DEF Spreading
<1>4. C = p + IF d < x THEN w ELSE IF d = x THEN s.left ELSE 0
  BY DEF Cut
<1>5. A = q + IF d = D THEN at.offset ELSE IF d < D THEN u ELSE 0
  BY DEF StartOn
<1>6. w \in 0..u
  <2>1. t \in 0..o.numfull
    BY <1>1
  <2> QED BY <2>1, UnitBounds
<1> HIDE DEF n, d, u, t, T, D, k, x, w, C, A
<1>7. y \in Int /\ z \in Int /\ p \in Int /\ q \in Int /\ t \in Int /\ T \in Int /\ T <= t
  BY <1>1
<1>8. CASE t = T
  <2>1. y = z /\ p = q
    BY <1>8
  <2> HIDE DEF y, z, p, q
  <2>2. x = D + k - 1
    BY <1>1, <1>3, <1>7, <2>1
  <2>3. CASE D + (i - 1) < n
    <3>1. d = D + (i - 1)
      BY <1>2, <2>3
    <3>2. x < d /\ D < d
      BY <1>1, <2>2, <3>1
    <3>3. C = p + 0 /\ A = q + 0
      <4>1. ~(d < x) /\ d # x /\ ~(d < D) /\ d # D
        BY <1>1, <1>2, <3>2
      <4> QED BY <1>4, <1>5, <4>1
    <3> QED BY <1>7, <2>1, <3>3 DEF C, A, d, t, x
  <2>4. CASE ~(D + (i - 1) < n)
    <3>1. d = D + (i - 1) - n
      BY <1>2, <2>4
    <3>2. d < D /\ d < x
      BY <1>1, <2>2, <3>1
    <3>3. C = p + w /\ A = q + u
      <4>1. d < x /\ d < D /\ d # D
        BY <1>1, <1>2, <3>2
      <4> QED BY <1>4, <1>5, <4>1
    <3> QED BY <1>1, <1>6, <1>7, <2>1, <3>3 DEF C, A, d, t, x
  <2> QED BY <2>3, <2>4
<1>9. CASE t = T + 1
  <2>1. y = z + n /\ p = q + u
    BY <1>1, <1>7, <1>9
  <2> HIDE DEF y, z, p, q
  <2>2. n + x = D + k - 1
    BY <1>1, <1>3, <1>7, <2>1
  <2>3. ~(D + (i - 1) < n)
    BY <1>1, <2>2
  <2>4. d = D + (i - 1) - n
    BY <1>2, <2>3
  <2>5. x < d /\ d < D
    BY <1>1, <2>2, <2>4
  <2>6. C = p + 0 /\ A = q + u
    <3>1. ~(d < x) /\ d # x /\ d < D /\ d # D
      BY <1>1, <1>2, <2>5
    <3> QED BY <1>4, <1>5, <3>1
  <2> QED BY <1>1, <1>7, <2>1, <2>6 DEF C, A, d, t, x
<1>10. CASE t > T + 1
  <2>1. T + 2 \in Int /\ T + 2 <= t /\ n \in Nat
    BY <1>1, <1>7, <1>10
  <2>2. (T + 2) * n <= t * n
    BY <1>7, <2>1, MulMono
  <2>3. (T + 2) * n = T * n + n + n
    BY <1>1, <1>7
  <2>4. z + n + n <= y
    BY <2>2, <2>3
  <2> HIDE DEF y, z, p, q
  <2> QED BY <1>1, <1>3, <1>7, <2>4
<1> QED BY <1>7, <1>8, <1>9, <1>10

\* A striped request touches the places of its blocks, and no other.
LEMMA UnitsPlaced ==
  ASSUME NEW o, Striping(o), NEW r, InArray(o, r), NEW d, NEW x
  PROVE  <<d, x>> \in PlacesIn(MapUnits(o, r))
         <=> \E c \in r.blkno..r.blkno + r.bcount - 1 : StripedPlace(o, c) = <<d, x>>
<1> DEFINE n  == o.numdisks
           b  == r.blkno
           E  == r.blkno + r.bcount
           at == UnitOf(o, r.blkno)
           m  == MapUnits(o, r)
           Named == \E c \in b..E - 1 : StripedPlace(o, c) = <<d, x>>
<1>1. n \in Nat \ {0} /\ b \in Nat /\ r.bcount \in Nat \ {0} /\ o.numfull \in Nat
      /\ E \in Nat /\ E <= o.blksperpart * n
  BY DEF Striping, InArray
<1>2. InUnit(o, b, at) /\ (OneUnit(o, at, r, m) \/ \E s : ManyUnits(o, at, s, r, m))
  BY UnitsAre
<1> HIDE DEF at, m, n
<1>3. /\ at.stripeno \in 0..o.numfull /\ at.unit = UnitAt(o, at.stripeno) /\ at.unit \in Nat \ {0}
      /\ at.devno \in 0..n - 1 /\ at.offset \in 0..at.unit - 1 /\ at.unit \in 0..o.stripeunit
      /\ b = at.stripeno * (n * o.stripeunit) + at.devno * at.unit + at.offset
  BY <1>2, UnitBounds DEF InUnit, n
<1>4. \A y : y \in 0..n - 1 => StartOn(o, at, y) \in Nat
  <2> TAKE y
  <2> HAVE y \in 0..n - 1
  <2> DEFINE g == at.stripeno * o.stripeunit
             h == IF y = at.devno THEN at.offset ELSE IF y < at.devno THEN o.stripeunit ELSE 0
  <2>1. g \in Nat
    BY <1>3, UnitEnds
  <2>2. h \in Nat
    BY <1>3 DEF Striping
  <2>3. StartOn(o, at, y) = g + h
    BY DEF StartOn
  <2> HIDE DEF g, h
  <2> QED BY <2>1, <2>2, <2>3
<1>5. <<d, x>> \in PlacesIn(m)
      <=> \E i \in DOMAIN m : m[i].devno = d /\ x \in m[i].blkno..m[i].blkno + m[i].bcount - 1
  BY InPlaces
<1>6. ASSUME OneUnit(o, at, r, m)
      PROVE  <<d, x>> \in PlacesIn(m) <=> Named
  <2> DEFINE D == at.devno
             f == at.offset + r.bcount
             a == Access(D, at.stripeno * o.stripeunit + at.offset, r.bcount, r.read)
  <2>1. m = <<a>> /\ r.bcount <= at.unit - at.offset
    BY <1>6 DEF OneUnit
  <2>2. f \in 0..UnitAt(o, at.stripeno)
    BY <1>1, <1>3, <2>1
  <2>3. E = BlockAt(o, at.stripeno, D, f)
    <3> DEFINE y == at.stripeno * (n * o.stripeunit)
               z == D * at.unit
    <3>1. b = y + z + at.offset /\ y \in Int /\ z \in Int /\ at.offset \in Int
      BY <1>1, <1>3 DEF Striping
    <3>2. BlockAt(o, at.stripeno, D, f) = y + z + f
      BY <1>3 DEF BlockAt, n
    <3> HIDE DEF y, z, b
    <3> QED BY <1>1, <3>1, <3>2 DEF b
  <2>4. Named <=> /\ d \in 0..n - 1 /\ x \in Nat
                  /\ StartOn(o, at, d) <= x /\ x < Cut(o, at.stripeno, D, f, d)
    <3> HIDE DEF E, f, D, b
    <3>1. D \in 0..o.numdisks - 1 /\ at.stripeno \in 0..o.numfull
      BY <1>3 DEF D, n
    <3> QED BY <1>1, <1>2, <2>2, <2>3, <3>1, StripeImage DEF n
  <2>5. a = [devno |-> D, blkno |-> at.stripeno * o.stripeunit + at.offset, bcount |-> r.bcount, read |-> r.read]
    BY DEF Access
  <2>6. DOMAIN m = {1} /\ m[1] = a
    BY <2>1
  <2> DEFINE w == at.stripeno * o.stripeunit
  <2>7. w \in Nat
    BY <1>3, UnitEnds
  <2>8. /\ StartOn(o, at, d) = w + IF d = D THEN at.offset ELSE IF d < D THEN o.stripeunit ELSE 0
        /\ Cut(o, at.stripeno, D, f, d) = w + IF d < D THEN at.unit ELSE IF d = D THEN f ELSE 0
    BY <1>3 DEF StartOn, Cut
  <2>9. D \in 0..n - 1 /\ at.offset \in Nat /\ at.unit \in 0..o.stripeunit /\ o.stripeunit \in Nat /\ r.bcount \in Nat
    BY <1>1, <1>3 DEF Striping
  <2> HIDE DEF Named, E, D, a
  <2>10. <<d, x>> \in PlacesIn(m) <=> D = d /\ x \in w + at.offset..w + at.offset + r.bcount - 1
    <3>1. a.devno = D /\ a.blkno = w + at.offset /\ a.bcount = r.bcount
      BY <2>5
    <3> HIDE DEF w
    <3> QED BY <1>5, <2>6, <3>1
  <2> HIDE DEF w
  <2>11. ASSUME d = D PROVE <<d, x>> \in PlacesIn(m) <=> Named
    <3>1. StartOn(o, at, d) = w + at.offset /\ Cut(o, at.stripeno, D, f, d) = w + (at.offset + r.bcount)
      BY <1>1, <2>8, <2>9, <2>11
    <3>2. Named <=> x \in Nat /\ w + at.offset <= x /\ x < w + (at.offset + r.bcount)
      BY <2>4, <2>9, <2>11, <3>1
    <3>3. x \in w + at.offset..w + at.offset + r.bcount - 1
          <=> x \in Nat /\ w + at.offset <= x /\ x < w + (at.offset + r.bcount)
      BY <2>7, <2>9
    <3> QED BY <2>10, <2>11, <3>2, <3>3
  <2>12. ASSUME d # D PROVE <<d, x>> \in PlacesIn(m) <=> Named
    <3>1. ~Named
      <4> SUFFICES ASSUME Named PROVE FALSE
        OBVIOUS
      <4>1. d \in 0..n - 1 /\ x \in Nat /\ StartOn(o, at, d) <= x /\ x < Cut(o, at.stripeno, D, f, d)
        BY <2>4
      <4>2. CASE d < D
        <5>1. w + o.stripeunit <= x /\ x < w + at.unit
          BY <2>8, <2>12, <4>1, <4>2
        <5> QED BY <2>7, <2>9, <4>1, <5>1
      <4>3. CASE ~(d < D)
        <5>1. w + 0 <= x /\ x < w + 0
          BY <2>8, <2>12, <4>1, <4>3
        <5> QED BY <2>7, <4>1, <5>1
      <4> QED BY <4>2, <4>3
    <3> QED BY <2>10, <2>12, <3>1
  <2> QED BY <2>11, <2>12
<1>7. ASSUME NEW s, ManyUnits(o, at, s, r, m)
      PROVE  <<d, x>> \in PlacesIn(m) <=> Named
  <2> DEFINE k == Len(m)
             C(y) == Cut(o, s.stripeno, s.devno, s.left, y)
  <2>1. /\ k \in 1..n /\ k <= s.numstripes /\ DOMAIN m = 1..k /\ (k = n \/ k = s.numstripes)
        /\ \A i \in 1..k : m[i] = [devno |-> DiskOf(o, at, i), blkno |-> StartOn(o, at, DiskOf(o, at, i)),
                                   bcount |-> Share(s, DiskOf(o, at, i)), read |-> r.read]
    BY <1>7, ManyUnitsFacts DEF n
  <2> HIDE DEF k
  <2>2. Spreading(o, E, at, s, 0) /\ s.left <= s.unit
    BY <1>7 DEF ManyUnits
  <2>3. /\ s.stripeno \in 0..o.numfull /\ s.devno \in 0..n - 1 /\ s.numstripes \in Nat \ {0, 1}
        /\ s.left \in 0..UnitAt(o, s.stripeno) /\ E = BlockAt(o, s.stripeno, s.devno, s.left)
    <3>1. /\ s.devno \in 0..n - 1 /\ s.stripeno \in at.stripeno..o.numfull /\ s.unit = UnitAt(o, s.stripeno)
          /\ s.unit \in Nat \ {0} /\ s.left \in Nat \ {0} /\ s.numstripes \in Nat \ {0, 1}
          /\ E = s.stripeno * (o.numdisks * o.stripeunit) + (s.devno + 0) * s.unit + s.left
      BY <2>2 DEF Spreading, n
    <3> HIDE DEF E
    <3>2. s.stripeno \in 0..o.numfull
      <4> DEFINE e == s.stripeno
                 T == at.stripeno
                 F == o.numfull
      <4>1. F \in Nat /\ T \in 0..F /\ e \in T..F
        BY <1>1, <1>3, <3>1
      <4> HIDE DEF e, T, F
      <4>2. e \in 0..F
        BY <4>1
      <4> QED BY <4>2 DEF e, F
    <3>3. s.left \in 0..UnitAt(o, s.stripeno)
      BY <2>2, <3>1
    <3>4. s.devno + 0 = s.devno
      BY <1>1, <3>1
    <3> QED BY <3>1, <3>2, <3>3, <3>4 DEF BlockAt
  <2>4. Named <=> d \in 0..n - 1 /\ x \in Nat /\ StartOn(o, at, d) <= x /\ x < C(d)
    <3> DEFINE T == s.stripeno
               D == s.devno
               f == s.left
    <3>1. T \in 0..o.numfull /\ D \in 0..o.numdisks - 1 /\ f \in 0..UnitAt(o, T) /\ E = BlockAt(o, T, D, f)
      BY <2>3 DEF n
    <3> HIDE DEF E, T, D, f, b
    <3>2. Named <=> d \in 0..n - 1 /\ x \in Nat /\ StartOn(o, at, d) <= x /\ x < Cut(o, T, D, f, d)
      BY <1>1, <1>2, <3>1, StripeImage DEF n
    <3> QED BY <3>2 DEF T, D, f
  <2> HIDE DEF Named, E
  <2>5. \A i \in 1..k : i \in 1..n /\ i <= s.numstripes
    <3> DEFINE N == s.numstripes
    <3>1. n \in Nat /\ N \in Nat /\ k \in 1..n /\ k <= N
      BY <1>1, <2>1, <2>3
    <3> HIDE DEF n, N
    <3>2. \A i \in 1..k : i \in 1..n /\ i <= N
      BY <3>1
    <3> QED BY <3>2 DEF N
  <2>6. \A i \in 1..k : LET y == DiskOf(o, at, i)
                        IN y \in 0..n - 1 /\ Share(s, y) \in Nat /\ StartOn(o, at, y) + Share(s, y) = C(y)
    <3> TAKE i \in 1..k
    <3>1. DiskOf(o, at, i) \in 0..n - 1
      BY <1>1, <1>3, <2>5, DiskOfFacts DEF n
    <3>2. /\ Share(s, DiskOf(o, at, i)) \in Nat \ {0} /\ StartOn(o, at, DiskOf(o, at, i)) \in Nat
          /\ StartOn(o, at, DiskOf(o, at, i)) + Share(s, DiskOf(o, at, i)) = C(DiskOf(o, at, i))
      BY <1>2, <2>2, <2>5, UnitsEnd DEF n
    <3> QED BY <3>1, <3>2
  <2>7. ASSUME NEW i \in 1..k, m[i].devno = d, x \in m[i].blkno..m[i].blkno + m[i].bcount - 1
        PROVE  Named
    <3>1. /\ m[i].devno = DiskOf(o, at, i) /\ m[i].blkno = StartOn(o, at, DiskOf(o, at, i))
          /\ m[i].bcount = Share(s, DiskOf(o, at, i))
      BY <2>1
    <3> DEFINE e == StartOn(o, at, d)
               g == Share(s, d)
    <3>2. d \in 0..n - 1 /\ g \in Nat /\ e + g = C(d) /\ e \in Nat /\ x \in e..e + g - 1
      BY <1>4, <2>6, <2>7, <3>1
    <3> HIDE DEF e, g, C
    <3>3. x \in Nat /\ e <= x /\ x < C(d)
      BY <3>2
    <3> QED BY <2>4, <3>2, <3>3 DEF e
  <2>8. ASSUME Named
        PROVE  \E i \in 1..k : m[i].devno = d /\ x \in m[i].blkno..m[i].blkno + m[i].bcount - 1
    <3>1. d \in 0..n - 1 /\ x \in Nat /\ StartOn(o, at, d) <= x /\ x < C(d)
      BY <2>4, <2>8
    <3>2. PICK i \in 1..n : DiskOf(o, at, i) = d
      BY <1>1, <1>3, <3>1, DiskFound DEF n
    <3>3. i \in 1..k
      <4> SUFFICES ASSUME i \notin 1..k PROVE FALSE
        OBVIOUS
      <4>1. k # n /\ k = s.numstripes /\ s.numstripes < i
        BY <1>1, <2>1, <3>2
      <4>2. C(d) <= StartOn(o, at, d)
        <5>1. Cut(o, s.stripeno, s.devno, s.left, DiskOf(o, at, i)) <= StartOn(o, at, DiskOf(o, at, i))
          BY <1>2, <2>2, <3>2, <4>1, NotReached DEF n
        <5> QED BY <3>2, <5>1
      <4>3. C(d) \in Int
        <5> DEFINE w == s.stripeno * o.stripeunit
                   h == IF d < s.devno THEN UnitAt(o, s.stripeno) ELSE IF d = s.devno THEN s.left ELSE 0
        <5>1. w \in Nat
          BY <2>3, UnitEnds
        <5>2. UnitAt(o, s.stripeno) \in Int /\ s.left \in Int
          <6>1. UnitAt(o, s.stripeno) \in 0..o.stripeunit
            BY <2>3, UnitBounds
          <6> QED BY <2>3, <6>1
        <5>3. h \in Int
          BY <5>2
        <5>4. C(d) = w + h
          BY DEF Cut
        <5> HIDE DEF w, h, C
        <5> QED BY <5>1, <5>3, <5>4
      <4>4. StartOn(o, at, d) \in Nat
        BY <1>4, <3>1
      <4> HIDE DEF C
      <4> QED BY <3>1, <4>2, <4>3, <4>4
    <3>4. /\ m[i].devno = d /\ m[i].blkno = StartOn(o, at, d) /\ m[i].bcount = Share(s, d)
      BY <2>1, <3>2, <3>3
    <3> DEFINE e == StartOn(o, at, d)
               g == Share(s, d)
    <3>5. g \in Nat /\ e + g = C(d) /\ e \in Nat
      BY <1>4, <2>6, <3>1, <3>2, <3>3
    <3>6. e <= x /\ x < C(d) /\ x \in Nat
      BY <3>1
    <3> HIDE DEF e, g, C
    <3>7. x \in e..e + g - 1
      BY <3>5, <3>6
    <3> QED BY <3>3, <3>4, <3>7 DEF e, g
  <2> QED BY <1>5, <2>1, <2>7, <2>8
<1> HIDE DEF Named
<1>8. <<d, x>> \in PlacesIn(m) <=> Named
  <2>1. CASE OneUnit(o, at, r, m)
    BY <1>6, <2>1
  <2>2. CASE \E s : ManyUnits(o, at, s, r, m)
    BY <1>7, <2>2
  <2> QED BY <1>2, <2>1, <2>2
<1>9. Named <=> \E c \in r.blkno..r.blkno + r.bcount - 1 : StripedPlace(o, c) = <<d, x>>
  <2>1. r.blkno \in Int /\ r.bcount \in Int
    BY DEF InArray
  <2>2. E - 1 = r.blkno + (r.bcount - 1)
    BY <2>1 DEF E
  <2> QED BY <2>2 DEF Named, b
<1>10. PlacesIn(m) = PlacesIn(MapUnits(o, r))
  BY DEF m
<1> HIDE DEF b, E
<1> QED BY <1>8, <1>9, <1>10

\* Blocks that are dealt one by one are on all the disks.
LEMMA InterleavedPlaced ==
  ASSUME NEW o, OrgOK(o), o.numdisks # 0, NEW q, InArray(o, q), NEW d, NEW x
  PROVE  <<d, x>> \in PlacesIn(MapInterleaved(o, q))
         <=> /\ d \in 0..o.numdisks - 1
             /\ \E c \in q.blkno..q.blkno + q.bcount - 1 : x = c \div o.numdisks
<1> DEFINE n == o.numdisks
           b == q.blkno
           g == q.bcount
           first == b \div n
           y == g + (b - first * n) + (n - 1)
           count == y \div n
           m == MapInterleaved(o, q)
<1>1. n \in Nat \ {0} /\ b \in Nat /\ g \in Nat \ {0}
  BY DEF OrgOK, InArray
<1>2. m = [i \in 1..n |-> [devno |-> i - 1, blkno |-> first, bcount |-> count, read |-> q.read]]
  BY DEF MapInterleaved, Access
<1> HIDE DEF m, n, b, g
<1>3. first \in Int /\ b % n \in 0..n - 1 /\ b = first * n + (b % n)
  <2>1. b \in Int
    BY <1>1
  <2> QED BY <1>1, <2>1, DivFacts
<1> HIDE DEF first
<1>4. y \in Int
  BY <1>1, <1>3
<1>5. count \in Int /\ y % n \in 0..n - 1 /\ y = count * n + (y % n)
  BY <1>1, <1>4, DivFacts
<1> HIDE DEF count
<1> DEFINE f == first * n
           k == count * n
           e == first + count
<1>6. f \in Int /\ k \in Int /\ e \in Int /\ e * n = f + k
  BY <1>1, <1>3, <1>5
<1>7. f <= b /\ b < f + n /\ b + g <= f + k /\ f + k <= b + g + n - 1
  <2>1. y = g + (b - f) + (n - 1)
    OBVIOUS
  <2> HIDE DEF f, k, y
  <2>2. b = f + (b % n) /\ y = k + (y % n)
    BY <1>3, <1>5 DEF f, k
  <2> DEFINE v == b % n
             w == y % n
  <2>3. v \in 0..n - 1 /\ w \in 0..n - 1 /\ b = f + v /\ y = k + w
    BY <1>3, <1>5, <2>2
  <2> HIDE DEF v, w
  <2> QED BY <1>1, <1>6, <2>1, <2>3
<1>8. <<d, x>> \in PlacesIn(m) <=> d \in 0..n - 1 /\ x \in first..e - 1
  <2>1. <<d, x>> \in PlacesIn(m)
        <=> \E i \in DOMAIN m : m[i].devno = d /\ x \in m[i].blkno..m[i].blkno + m[i].bcount - 1
    BY InPlaces
  <2>2. \A i \in 1..n : m[i].devno = i - 1 /\ m[i].blkno = first /\ m[i].bcount = count
    BY <1>2
  <2>3. DOMAIN m = 1..n
    BY <1>2
  <2>4. first + count - 1 = e - 1
    BY <1>3, <1>5
  <2> HIDE DEF e
  <2>5. <<d, x>> \in PlacesIn(m) <=> \E i \in 1..n : i - 1 = d /\ x \in first..e - 1
    <3>1. \A i \in 1..n : m[i].blkno..m[i].blkno + m[i].bcount - 1 = first..e - 1
      BY <2>2, <2>4
    <3> QED BY <2>1, <2>2, <2>3, <3>1
  <2>6. d \in 0..n - 1 => d + 1 \in 1..n /\ (d + 1) - 1 = d
    BY <1>1
  <2>7. \A i \in 1..n : i - 1 \in 0..n - 1
    BY <1>1
  <2> QED BY <2>5, <2>6, <2>7
<1>9. ASSUME x \in first..e - 1
      PROVE  \E c \in b..b + g - 1 : x = c \div n
  <2>1. x \in Int /\ first <= x /\ x + 1 \in Int /\ x + 1 <= e
    BY <1>3, <1>6, <1>9
  <2>2. (x + 1) * n <= e * n
    <3> HIDE DEF e
    <3> QED BY <1>1, <1>6, <2>1, MulMono
  <2>3. (x + 1) * n = x * n + n /\ x * n \in Int
    BY <1>1, <2>1
  <2>4. CASE x = first
    <3>1. b \in b..b + g - 1
      BY <1>1
    <3> QED BY <2>4, <3>1 DEF first
  <2>5. CASE x # first
    <3>1. first + 1 \in Int /\ first + 1 <= x
      BY <1>3, <2>1, <2>5
    <3>2. (first + 1) * n <= x * n
      BY <1>1, <2>1, <3>1, MulMono
    <3>3. (first + 1) * n = f + n
      BY <1>1, <1>3
    <3> DEFINE z == x * n
    <3>4. z \in Int /\ f + n <= z /\ z + n <= f + k
      BY <1>6, <2>2, <2>3, <3>2, <3>3
    <3>5. z = x * n + 0 /\ 0 \in 0..n - 1
      BY <1>1, <2>3
    <3>6. z \div n = x
      <4> DEFINE zero == 0
      <4>1. zero \in 0..n - 1 /\ z = x * n + zero
        BY <3>5
      <4> HIDE DEF z, zero
      <4> QED BY <1>1, <2>1, <3>4, <4>1, DivIs
    <3> HIDE DEF z, f, k
    <3>7. z \in b..b + g - 1
      BY <1>1, <1>6, <1>7, <3>4
    <3> QED BY <3>6, <3>7
  <2> QED BY <2>4, <2>5
<1>10. ASSUME NEW c \in b..b + g - 1, x = c \div n
       PROVE  x \in first..e - 1
  <2>1. c \in Int /\ first * n <= c /\ c < e * n
    <3> HIDE DEF e
    <3>1. first * n = f
      OBVIOUS
    <3> HIDE DEF f, k
    <3> QED BY <1>1, <1>6, <1>7, <3>1
  <2> HIDE DEF e
  <2>2. first <= c \div n /\ c \div n < e /\ c \div n \in Int
    BY <1>1, <1>3, <1>6, <2>1, DivAbove, DivBelow, DivFacts
  <2> QED BY <1>3, <1>6, <1>10, <2>2
<1> HIDE DEF e
<1>11. <<d, x>> \in PlacesIn(m) <=> d \in 0..n - 1 /\ \E c \in b..b + g - 1 : x = c \div n
  BY <1>8, <1>9, <1>10
<1> QED BY <1>11 DEF m, n, b, g

\* Where the blocks of the device that a request names start in the array
DeviceAt(o, r) == IF o.addrbyparts THEN r.devno * o.blksperpart ELSE 0

\* The request as the array sees it
ArrayRequest(o, r) == IF o.addrbyparts THEN [r EXCEPT !.blkno = r.devno * o.blksperpart + r.blkno] ELSE r

\* It names blocks of the array.
LEMMA ArrayRequestFacts ==
  ASSUME NEW o, OrgOK(o), o.blksperpart = o.actualblksperpart, NEW r \in RequestSet, Kept(o, r)
  PROVE  /\ InArray(o, ArrayRequest(o, r)) /\ DeviceAt(o, r) \in Nat
         /\ ArrayRequest(o, r).blkno = DeviceAt(o, r) + r.blkno
         /\ ArrayRequest(o, r).bcount = r.bcount
<1> DEFINE q == ArrayRequest(o, r)
<1>1. o.addrbyparts \in BOOLEAN /\ o.blksperpart \in Nat /\ r.devno \in Nat /\ r.blkno \in Nat
  BY DEF OrgOK, RequestSet
<1>2. CASE o.addrbyparts
  <2> DEFINE z == r.devno * o.blksperpart + r.blkno
  <2>1. q = [r EXCEPT !.blkno = z]
    BY <1>2 DEF ArrayRequest
  <2> HIDE DEF z, q
  <2>2. q.blkno = z /\ q.bcount = r.bcount /\ q.read = r.read
    BY <2>1 DEF RequestSet
  <2>3. InArray(o, q)
    BY <1>2, <2>2, KeptInArray DEF z
  <2>4. DeviceAt(o, r) = r.devno * o.blksperpart
    BY <1>2 DEF DeviceAt
  <2>5. r.devno * o.blksperpart \in Nat
    BY <1>1
  <2> QED BY <2>2, <2>3, <2>4, <2>5 DEF q, z
<1>3. CASE ~o.addrbyparts
  <2>1. q = r /\ DeviceAt(o, r) = 0
    BY <1>3 DEF ArrayRequest, DeviceAt
  <2>2. InArray(o, r)
    BY <1>3, KeptInArray
  <2>3. r.blkno = 0 + r.blkno
    BY <1>1
  <2> HIDE DEF q
  <2> QED BY <2>1, <2>2, <2>3 DEF q
<1> QED BY <1>1, <1>2, <1>3

\* Blocks of the device are blocks of the array.
LEMMA Shifted ==
  ASSUME NEW a \in Nat, NEW b \in Nat, NEW n \in Nat
  PROVE  /\ \A c \in b..b + n - 1 : c + a \in a + b..a + b + n - 1
         /\ \A c \in a + b..a + b + n - 1 : c - a \in b..b + n - 1 /\ (c - a) + a = c
OBVIOUS

\* The accesses to the data are to the places of the blocks named.
LEMMA DataPlaced ==
  ASSUME NEW o, OrgOK(o), DataLeft(o), o.numdisks # 0,
         o.reduntype \in {"NO_REDUN", "SHADOWED", "PARITY_DISK"}, NEW r \in RequestSet, Kept(o, r),
         NEW d, NEW x
  PROVE  <<d, x>> \in PlacesIn(DataOf(o, r))
         <=> \E b \in r.blkno..r.blkno + r.bcount - 1 : <<d, x>> \in PlacesOf(o, r, b)
<1> DEFINE q == ArrayRequest(o, r)
           a == DeviceAt(o, r)
<1>1. /\ o.blksperpart = o.actualblksperpart /\ o.blksperpart \in Nat
      /\ (o.maptype = "ASIS" => o.addrbyparts) /\ o.maptype \in {"ASIS", "STRIPED"}
      /\ o.maptype = "STRIPED" /\ o.stripeunit # 0 => o.numfull = o.blksperpart \div o.stripeunit
      /\ r.blkno \in Nat /\ r.bcount \in Nat /\ r.devno \in Nat
  BY DEF OrgOK, DataLeft, RequestSet
<1>2. InArray(o, q) /\ a \in Nat /\ q.blkno = a + r.blkno /\ q.bcount = r.bcount
  BY <1>1, ArrayRequestFacts
<1>3. /\ \A c \in r.blkno..r.blkno + r.bcount - 1 : c + a \in q.blkno..q.blkno + q.bcount - 1
      /\ \A c \in q.blkno..q.blkno + q.bcount - 1 : c - a \in r.blkno..r.blkno + r.bcount - 1 /\ (c - a) + a = c
  <2> DEFINE b == r.blkno
             n == r.bcount
  <2>1. b \in Nat /\ n \in Nat /\ a \in Nat
    BY <1>1, <1>2
  <2> HIDE DEF a, b, n
  <2>2. /\ \A c \in b..b + n - 1 : c + a \in a + b..a + b + n - 1
        /\ \A c \in a + b..a + b + n - 1 : c - a \in b..b + n - 1 /\ (c - a) + a = c
    BY <2>1, Shifted
  <2> QED BY <1>2, <2>2 DEF b, n
<1>4. DataOf(o, r) = IF o.maptype = "STRIPED"
                       THEN IF o.stripeunit = 0 THEN MapInterleaved(o, q) ELSE MapUnits(o, q)
                       ELSE <<Access(r.devno, r.blkno, r.bcount, r.read)>>
  BY DEF DataOf, MapStriped, ArrayRequest
<1>5. \A b : PlacesOf(o, r, b) =
        IF o.maptype = "ASIS" THEN {<<r.devno, b>>}
        ELSE IF o.stripeunit = 0 THEN {<<i, (b + a) \div o.numdisks>> : i \in 0..o.numdisks - 1}
        ELSE {StripedPlace(o, b + a)}
  BY <1>1 DEF PlacesOf, DeviceAt
<1> HIDE DEF q, a
<1>6. CASE o.maptype = "ASIS"
  <2> DEFINE w == Access(r.devno, r.blkno, r.bcount, r.read)
  <2>1. DataOf(o, r) = <<w>>
    BY <1>4, <1>6
  <2>2. w.devno = r.devno /\ w.blkno = r.blkno /\ w.bcount = r.bcount
    BY DEF Access
  <2> HIDE DEF w
  <2>3. <<d, x>> \in PlacesIn(<<w>>) <=> w.devno = d /\ x \in w.blkno..w.blkno + w.bcount - 1
    <3> DEFINE m == <<w>>
    <3>1. DOMAIN m = {1} /\ m[1] = w
      OBVIOUS
    <3> HIDE DEF m
    <3>2. <<d, x>> \in PlacesIn(m)
          <=> \E i \in DOMAIN m : m[i].devno = d /\ x \in m[i].blkno..m[i].blkno + m[i].bcount - 1
      BY InPlaces
    <3>3. <<d, x>> \in PlacesIn(m) <=> w.devno = d /\ x \in w.blkno..w.blkno + w.bcount - 1
      BY <3>1, <3>2
    <3> QED BY <3>3 DEF m
  <2>4. \A b : PlacesOf(o, r, b) = {<<r.devno, b>>}
    BY <1>5, <1>6
  <2>5. \A b : <<d, x>> \in PlacesOf(o, r, b) <=> d = r.devno /\ x = b
    BY <2>4
  <2> QED BY <2>1, <2>2, <2>3, <2>5
<1>7. CASE o.maptype = "STRIPED" /\ o.stripeunit = 0
  <2>1. <<d, x>> \in PlacesIn(MapInterleaved(o, q))
        <=> d \in 0..o.numdisks - 1 /\ \E c \in q.blkno..q.blkno + q.bcount - 1 : x = c \div o.numdisks
    BY <1>2, InterleavedPlaced
  <2>2. \A b : PlacesOf(o, r, b) = {<<i, (b + a) \div o.numdisks>> : i \in 0..o.numdisks - 1}
    BY <1>5, <1>7
  <2>3. \A b : <<d, x>> \in PlacesOf(o, r, b) <=> d \in 0..o.numdisks - 1 /\ x = (b + a) \div o.numdisks
    BY <2>2
  <2>4. DataOf(o, r) = MapInterleaved(o, q)
    BY <1>4, <1>7
  <2>5. (\E c \in q.blkno..q.blkno + q.bcount - 1 : x = c \div o.numdisks)
        <=> \E b \in r.blkno..r.blkno + r.bcount - 1 : x = (b + a) \div o.numdisks
    BY <1>3
  <2> QED BY <2>1, <2>3, <2>4, <2>5
<1>8. CASE o.maptype = "STRIPED" /\ o.stripeunit # 0
  <2>1. Striping(o)
    BY <1>1, <1>8, StripingHolds
  <2>2. <<d, x>> \in PlacesIn(MapUnits(o, q))
        <=> \E c \in q.blkno..q.blkno + q.bcount - 1 : StripedPlace(o, c) = <<d, x>>
    BY <1>2, <2>1, UnitsPlaced
  <2>3. \A b : PlacesOf(o, r, b) = {StripedPlace(o, b + a)}
    BY <1>5, <1>8
  <2>4. DataOf(o, r) = MapUnits(o, q)
    BY <1>4, <1>8
  <2>5. (\E c \in q.blkno..q.blkno + q.bcount - 1 : StripedPlace(o, c) = <<d, x>>)
        <=> \E b \in r.blkno..r.blkno + r.bcount - 1 : StripedPlace(o, b + a) = <<d, x>>
    BY <1>3
  <2> QED BY <2>2, <2>3, <2>4, <2>5
<1> QED BY <1>1, <1>6, <1>7, <1>8

\* The places of the blocks that a request names
LEMMA DataImage ==
  ASSUME NEW o, OrgOK(o), DataLeft(o), o.numdisks # 0,
         o.reduntype \in {"NO_REDUN", "SHADOWED", "PARITY_DISK"}, NEW r \in RequestSet, Kept(o, r),
         Within(o, r) = r
  PROVE  Image(o, r) = PlacesIn(DataOf(o, r))
<1> DEFINE m == DataOf(o, r)
           R == r.blkno..r.blkno + r.bcount - 1
<1>1. \A pl : pl \in Image(o, r) <=> \E b \in R : pl \in PlacesOf(o, r, b)
  BY DEF Image
<1>2. \A b : \A pl \in PlacesOf(o, r, b) : \E d, x : pl = <<d, x>>
  <2>1. o.maptype \in {"ASIS", "STRIPED"}
    BY DEF OrgOK
  <2>2. \A c : \E d, x : StripedPlace(o, c) = <<d, x>>
    BY DEF StripedPlace
  <2> DEFINE a == IF o.addrbyparts THEN r.devno * o.blksperpart ELSE 0
  <2> TAKE b
  <2>3. PlacesOf(o, r, b) =
          IF o.maptype = "ASIS" THEN {<<r.devno, b>>}
          ELSE IF o.stripeunit = 0 THEN {<<i, (b + a) \div o.numdisks>> : i \in 0..o.numdisks - 1}
          ELSE {StripedPlace(o, b + a)}
    BY <2>1 DEF PlacesOf
  <2> HIDE DEF a
  <2>4. CASE o.maptype = "ASIS"
    BY <2>3, <2>4
  <2>5. CASE o.maptype # "ASIS" /\ o.stripeunit = 0
    BY <2>3, <2>5
  <2>6. CASE o.maptype # "ASIS" /\ o.stripeunit # 0
    BY <2>2, <2>3, <2>6
  <2> QED BY <2>4, <2>5, <2>6
<1>3. \A d, x : <<d, x>> \in PlacesIn(m) <=> \E b \in R : <<d, x>> \in PlacesOf(o, r, b)
  BY DataPlaced
<1>4. \A pl \in PlacesIn(m) : \E d, x : pl = <<d, x>>
  BY PlacePair
<1> HIDE DEF m, R
<1>5. \A pl : pl \in Image(o, r) => pl \in PlacesIn(m)
  <2> TAKE pl
  <2> HAVE pl \in Image(o, r)
  <2>1. PICK b \in R : pl \in PlacesOf(o, r, b)
    BY <1>1
  <2>2. PICK d, x : pl = <<d, x>>
    BY <1>2, <2>1
  <2> QED BY <1>3, <2>1, <2>2
<1>6. \A pl : pl \in PlacesIn(m) => pl \in Image(o, r)
  <2> TAKE pl
  <2> HAVE pl \in PlacesIn(m)
  <2>1. PICK d, x : pl = <<d, x>>
    BY <1>4
  <2>2. PICK b \in R : <<d, x>> \in PlacesOf(o, r, b)
    BY <1>3, <2>1
  <2> QED BY <1>1, <2>1, <2>2
<1>7. Image(o, r) = PlacesIn(m)
  BY <1>5, <1>6
<1> QED BY <1>7 DEF m

\* What a read that is done promises, of the places M of the blocks it names and
\* the places T that it has touched
ReadOf(o, M, T) ==
    /\ \A pl \in M : Cardinality(CopiesOf(o, pl) \cap T) = 1
    /\ \A s \in T : HoldsParity(o, s) \/ \E pl \in M : s \in CopiesOf(o, pl)

\* and what a write promises
WriteOf(o, M, T) ==
    LET image == UNION {CopiesOf(o, pl) : pl \in M}
    IN /\ image \subseteq T
       /\ UNION {ParityOf(o, pl) : pl \in image} \subseteq T
       /\ \A s \in T : HoldsParity(o, s) \/ s \in image

\* One place is all there is of a block.
LEMMA OnlyOne == ASSUME NEW x, NEW T, x \in T PROVE Cardinality({x} \cap T) = 1
<1>1. {x} \cap T = {x}
  OBVIOUS
<1> QED BY <1>1, FS_Singleton

\* Where there is one copy, what is named is what is to be read,
LEMMA SingleRead ==
  ASSUME NEW o, o.reduntype # "SHADOWED", NEW M
  PROVE  ReadOf(o, M, M)
<1>1. \A pl : CopiesOf(o, pl) = {pl}
  BY DEF CopiesOf
<1>2. \A pl \in M : Cardinality(CopiesOf(o, pl) \cap M) = 1
  BY <1>1, OnlyOne
<1> QED BY <1>1, <1>2 DEF ReadOf

\* and, without parity, written.
LEMMA SingleWrite ==
  ASSUME NEW o, o.reduntype = "NO_REDUN", NEW M
  PROVE  WriteOf(o, M, M)
<1>1. \A pl : CopiesOf(o, pl) = {pl} /\ ParityOf(o, pl) = {}
  BY DEF CopiesOf, ParityOf
<1>2. UNION {CopiesOf(o, pl) : pl \in M} = M
  BY <1>1
<1> QED BY <1>1, <1>2 DEF WriteOf

\* An access on a copy is to the same blocks.
LEMMA CopyRange ==
  ASSUME NEW o, OrgOK(o), o.numdisks * o.copies = o.actualnumdisks, NEW r, NEW m, Dealt(o, r, m),
         NEW i \in DOMAIN m, NEW c \in 0..o.copies - 1
  PROVE  /\ OnCopy(o, m[i], c).devno = m[i].devno + c * o.numdisks
         /\ OnCopy(o, m[i], c).blkno = m[i].blkno /\ OnCopy(o, m[i], c).bcount = m[i].bcount
<1> DEFINE x == m[i].devno + c * o.numdisks
<1>1. m[i] \in DataAccess(o)
  BY DealtFacts
<1>2. OnCopy(o, m[i], c) = [m[i] EXCEPT !.devno = x]
  BY DEF OnCopy
<1> HIDE DEF x
<1>3. /\ OnCopy(o, m[i], c).devno = x
      /\ OnCopy(o, m[i], c).blkno = m[i].blkno /\ OnCopy(o, m[i], c).bcount = m[i].bcount
  BY <1>1, <1>2 DEF DataAccess
<1> QED BY <1>3 DEF x

\* A disk and a copy of it are found again in the number of the disk.
LEMMA CopyKnown ==
  ASSUME NEW n \in Nat \ {0}, NEW d \in 0..n - 1, NEW e \in 0..n - 1, NEW c \in Nat, NEW k \in Nat,
         d + c * n = e + k * n
  PROVE  d = e /\ c = k
<1> DEFINE x == d + c * n
<1>1. x \in Int /\ x = c * n + d /\ x = k * n + e
  <2>1. c * n \in Int /\ k * n \in Int /\ d \in Int /\ e \in Int
    OBVIOUS
  <2> QED BY <2>1
<1> HIDE DEF x
<1>2. x \div n = c /\ x % n = d
  <2>1. c \in Int
    OBVIOUS
  <2> QED BY <1>1, <2>1, DivIs
<1>3. x \div n = k /\ x % n = e
  <2>1. k \in Int
    OBVIOUS
  <2> QED BY <1>1, <2>1, DivIs
<1> QED BY <1>2, <1>3

\* A read of shadowed disks reads one copy of each block.
LEMMA ShadowRead ==
  ASSUME NEW o, OrgOK(o), o.reduntype = "SHADOWED", o.numdisks * o.copies = o.actualnumdisks,
         NEW r, NEW m, Dealt(o, r, m), NEW c, \A i \in 1..Len(m) : c[i] \in 0..o.copies - 1
  PROVE  ReadOf(o, PlacesIn(m), PlacesIn(OnCopies(o, m, c)))
<1> DEFINE n == o.numdisks
           C == o.copies
           l == OnCopies(o, m, c)
           M == PlacesIn(m)
           T == PlacesIn(l)
<1>1. n \in Nat \ {0} /\ C \in Nat \ {0} /\ DOMAIN m = 1..Len(m)
  BY DealtFacts DEF OrgOK
<1>2. DOMAIN l = DOMAIN m
  BY DEF OnCopies
<1>3. \A i \in DOMAIN m : /\ l[i].devno = m[i].devno + c[i] * n /\ l[i].blkno = m[i].blkno
                          /\ l[i].bcount = m[i].bcount /\ m[i].devno \in 0..n - 1 /\ c[i] \in 0..C - 1
  <2> TAKE i \in DOMAIN m
  <2> DEFINE k == c[i]
  <2>1. k \in 0..o.copies - 1 /\ l[i] = OnCopy(o, m[i], k)
    BY <1>1 DEF OnCopies
  <2> HIDE DEF k
  <2>2. /\ OnCopy(o, m[i], k).devno = m[i].devno + k * o.numdisks
        /\ OnCopy(o, m[i], k).blkno = m[i].blkno /\ OnCopy(o, m[i], k).bcount = m[i].bcount
    BY <2>1, CopyRange
  <2>3. m[i].devno \in 0..n - 1
    BY DealtFacts
  <2> QED BY <2>1, <2>2, <2>3 DEF k
<1>4. \A d, x : <<d, x>> \in M <=> \E i \in DOMAIN m : m[i].devno = d /\ x \in m[i].blkno..m[i].blkno + m[i].bcount - 1
  BY InPlaces
<1>5. \A d, x : <<d, x>> \in T <=> \E i \in DOMAIN m : m[i].devno + c[i] * n = d /\ x \in m[i].blkno..m[i].blkno + m[i].bcount - 1
  <2> TAKE d, x
  <2>1. <<d, x>> \in T <=> \E i \in DOMAIN l : l[i].devno = d /\ x \in l[i].blkno..l[i].blkno + l[i].bcount - 1
    BY InPlaces
  <2> HIDE DEF T, l
  <2> QED BY <1>2, <1>3, <2>1
<1>6. \A i, j \in DOMAIN m : m[i].devno = m[j].devno => i = j
  BY DEF Dealt
<1>7. \A pl \in M : \E d, x : pl = <<d, x>>
  BY PlacePair
<1>8. \A pl \in T : \E d, x : pl = <<d, x>>
  BY PlacePair
<1>9. \A d, x : CopiesOf(o, <<d, x>>) = {<<d + k * n, x>> : k \in 0..C - 1}
  BY DEF CopiesOf
<1> HIDE DEF M, T, l, n, C
<1>10. ASSUME NEW pl \in M
       PROVE  Cardinality(CopiesOf(o, pl) \cap T) = 1
  <2>1. PICK d, x : pl = <<d, x>>
    BY <1>7
  <2>2. PICK i \in DOMAIN m : m[i].devno = d /\ x \in m[i].blkno..m[i].blkno + m[i].bcount - 1
    BY <1>4, <2>1
  <2> DEFINE s == <<d + c[i] * n, x>>
  <2>3. s \in CopiesOf(o, <<d, x>>)
    BY <1>3, <1>9, <2>2
  <2>4. s \in T
    BY <1>5, <2>2
  <2>5. ASSUME NEW e \in CopiesOf(o, <<d, x>>), e \in T
        PROVE  e = s
    <3>1. PICK k \in 0..C - 1 : e = <<d + k * n, x>>
      BY <1>9, <2>5
    <3>2. PICK j \in DOMAIN m : m[j].devno + c[j] * n = d + k * n
      BY <1>5, <2>5, <3>1
    <3> DEFINE f == m[j].devno
               g == c[j]
    <3>3. /\ n \in Nat \ {0} /\ f \in 0..n - 1 /\ d \in 0..n - 1 /\ g \in Nat /\ k \in Nat
          /\ f + g * n = d + k * n
      BY <1>1, <1>3, <2>2, <3>2
    <3> HIDE DEF f, g
    <3>4. f = d /\ g = k
      BY ONLY <3>3, CopyKnown
    <3>5. j = i
      BY <1>6, <2>2, <3>4 DEF f
    <3> QED BY <3>1, <3>4, <3>5 DEF g
  <2> HIDE DEF s
  <2>6. CopiesOf(o, <<d, x>>) \cap T = {s} \cap T
    BY <2>3, <2>4, <2>5
  <2>7. Cardinality({s} \cap T) = 1
    BY <2>4, OnlyOne
  <2> QED BY <2>1, <2>6, <2>7
<1>11. ASSUME NEW s \in T
       PROVE  \E pl \in M : s \in CopiesOf(o, pl)
  <2>1. PICK d, x : s = <<d, x>>
    BY <1>8
  <2>2. PICK i \in DOMAIN m : m[i].devno + c[i] * n = d /\ x \in m[i].blkno..m[i].blkno + m[i].bcount - 1
    BY <1>5, <2>1
  <2>3. <<m[i].devno, x>> \in M
    BY <1>4, <2>2
  <2>4. <<m[i].devno + c[i] * n, x>> \in CopiesOf(o, <<m[i].devno, x>>)
    BY <1>3, <1>9
  <2> QED BY <2>1, <2>2, <2>3, <2>4
<1>12. ReadOf(o, M, T)
  BY <1>10, <1>11 DEF ReadOf
<1> QED BY <1>12 DEF M, T, l

\* Every copy of every access comes, and nothing else.
LEMMA EveryCopyAt ==
  ASSUME NEW K \in Nat \ {0}, NEW C \in Nat \ {0}
  PROVE  /\ \A j \in 1..K * C : ((j - 1) \div C) + 1 \in 1..K /\ (j - 1) % C \in 0..C - 1
         /\ \A i \in 1..K : \A k \in 0..C - 1 :
               \E j \in 1..K * C : ((j - 1) \div C) + 1 = i /\ (j - 1) % C = k
<1> DEFINE N == K * C
<1>1. N \in Int
  OBVIOUS
<1>2. ASSUME NEW j \in 1..N
      PROVE  ((j - 1) \div C) + 1 \in 1..K /\ (j - 1) % C \in 0..C - 1
  <2> DEFINE x == j - 1
             q == x \div C
  <2>1. x \in Int /\ 0 * C <= x /\ x < N
    <3> HIDE DEF N
    <3> QED BY <1>1
  <2> HIDE DEF x
  <2>2. 0 \in Int /\ K \in Int
    OBVIOUS
  <2>3. 0 <= q /\ q < K /\ q \in Int /\ x % C \in 0..C - 1
    BY <2>1, <2>2, DivAbove, DivBelow, DivFacts
  <2> HIDE DEF q
  <2>4. q + 1 \in 1..K
    BY <2>3
  <2> QED BY <2>3, <2>4 DEF q, x
<1>3. ASSUME NEW i \in 1..K, NEW k \in 0..C - 1
      PROVE  \E j \in 1..N : ((j - 1) \div C) + 1 = i /\ (j - 1) % C = k
  <2> DEFINE a == i - 1
             y == a * C
             x == y + k
             j == x + 1
  <2>1. a \in Nat /\ a + 1 = i /\ a + 1 <= K /\ a + 1 \in Int
    BY <1>3
  <2>2. (a + 1) * C <= K * C
    <3> HIDE DEF a
    <3> QED BY <2>1, MulMono
  <2>3. (a + 1) * C = y + C /\ y \in Nat
    <3> HIDE DEF a
    <3> QED BY <2>1
  <2>4. y + C <= N
    BY <2>2, <2>3
  <2> HIDE DEF y, N
  <2>5. x \in Int /\ j \in 1..N /\ j - 1 = x
    BY <1>1, <2>3, <2>4
  <2> HIDE DEF j, x
  <2>6. x = a * C + k
    BY DEF x, y
  <2>7. a \in Int
    BY <2>1
  <2> HIDE DEF a
  <2>8. x \div C = a /\ x % C = k
    BY <2>5, <2>6, <2>7, DivIs
  <2>9. ((j - 1) \div C) + 1 = i /\ (j - 1) % C = k
    BY <2>1, <2>5, <2>8
  <2> QED BY <2>5, <2>9
<1> QED BY <1>2, <1>3

\* A write of shadowed disks writes every copy of each block.
LEMMA ShadowWrite ==
  ASSUME NEW o, OrgOK(o), o.reduntype = "SHADOWED", o.numdisks * o.copies = o.actualnumdisks,
         NEW r, NEW m, Dealt(o, r, m)
  PROVE  WriteOf(o, PlacesIn(m), PlacesIn(OnEveryCopy(o, m)))
<1> DEFINE n == o.numdisks
           C == o.copies
           K == Len(m)
           N == K * C
           l == OnEveryCopy(o, m)
           M == PlacesIn(m)
           T == PlacesIn(l)
           at(j) == ((j - 1) \div C) + 1
           copy(j) == (j - 1) % C
           image == UNION {CopiesOf(o, pl) : pl \in M}
<1>1. n \in Nat \ {0} /\ C \in Nat \ {0} /\ K \in Nat \ {0} /\ DOMAIN m = 1..K
  BY DealtFacts DEF OrgOK
<1>2. l = [j \in 1..N |-> OnCopy(o, m[at(j)], copy(j))]
  BY DEF OnEveryCopy
<1>3. /\ \A j \in 1..N : at(j) \in 1..K /\ copy(j) \in 0..C - 1
      /\ \A i \in 1..K : \A k \in 0..C - 1 : \E j \in 1..N : at(j) = i /\ copy(j) = k
  <2> HIDE DEF K, C
  <2> QED BY <1>1, EveryCopyAt
<1>4. \A i \in 1..K : \A k \in 0..C - 1 :
         /\ OnCopy(o, m[i], k).devno = m[i].devno + k * n
         /\ OnCopy(o, m[i], k).blkno = m[i].blkno /\ OnCopy(o, m[i], k).bcount = m[i].bcount
  BY <1>1, CopyRange
<1> HIDE DEF at, copy, l, N
<1>5. DOMAIN l = 1..N /\ \A j \in 1..N : l[j] = OnCopy(o, m[at(j)], copy(j))
  BY <1>2
<1>6. \A d, x : <<d, x>> \in M <=> \E i \in 1..K : m[i].devno = d /\ x \in m[i].blkno..m[i].blkno + m[i].bcount - 1
  <2>1. \A d, x : <<d, x>> \in M
                  <=> \E i \in DOMAIN m : m[i].devno = d /\ x \in m[i].blkno..m[i].blkno + m[i].bcount - 1
    BY InPlaces
  <2>2. DOMAIN m = 1..K
    BY <1>1
  <2> HIDE DEF M, K
  <2> QED BY ONLY <2>1, <2>2
<1>7. \A d, x : <<d, x>> \in T
                <=> \E i \in 1..K : \E k \in 0..C - 1 :
                      m[i].devno + k * n = d /\ x \in m[i].blkno..m[i].blkno + m[i].bcount - 1
  <2> TAKE d, x
  <2>1. <<d, x>> \in T <=> \E j \in DOMAIN l : l[j].devno = d /\ x \in l[j].blkno..l[j].blkno + l[j].bcount - 1
    BY InPlaces
  <2>2. \A j \in 1..N : /\ at(j) \in 1..K /\ copy(j) \in 0..C - 1
                        /\ l[j].devno = m[at(j)].devno + copy(j) * n
                        /\ l[j].blkno = m[at(j)].blkno /\ l[j].bcount = m[at(j)].bcount
    BY <1>3, <1>4, <1>5
  <2> HIDE DEF T, n, C, K
  <2>3. ASSUME NEW j \in 1..N, l[j].devno = d, x \in l[j].blkno..l[j].blkno + l[j].bcount - 1
        PROVE  \E i \in 1..K : \E k \in 0..C - 1 :
                  m[i].devno + k * n = d /\ x \in m[i].blkno..m[i].blkno + m[i].bcount - 1
    BY <2>2, <2>3
  <2>4. ASSUME NEW i \in 1..K, NEW k \in 0..C - 1, m[i].devno + k * n = d,
               x \in m[i].blkno..m[i].blkno + m[i].bcount - 1
        PROVE  \E j \in 1..N : l[j].devno = d /\ x \in l[j].blkno..l[j].blkno + l[j].bcount - 1
    <3>1. PICK j \in 1..N : at(j) = i /\ copy(j) = k
      BY <1>3
    <3> QED BY <2>2, <2>4, <3>1
  <2> QED BY <1>5, <2>1, <2>3, <2>4
<1>8. \A d, x : CopiesOf(o, <<d, x>>) = {<<d + k * n, x>> : k \in 0..C - 1}
  BY DEF CopiesOf
<1>9. \A pl : ParityOf(o, pl) = {}
  BY DEF ParityOf
<1>10. (\A pl \in M : \E d, x : pl = <<d, x>>) /\ (\A pl \in T : \E d, x : pl = <<d, x>>)
  BY PlacePair
<1> HIDE DEF M, T, n, C, K
<1>11. ASSUME NEW s \in image
       PROVE  s \in T
  <2>1. PICK pl \in M : s \in CopiesOf(o, pl)
    BY <1>11
  <2>2. PICK d, x : pl = <<d, x>>
    BY <1>10, <2>1
  <2>3. PICK k \in 0..C - 1 : s = <<d + k * n, x>>
    BY <1>8, <2>1, <2>2
  <2>4. PICK i \in 1..K : m[i].devno = d /\ x \in m[i].blkno..m[i].blkno + m[i].bcount - 1
    BY <1>6, <2>1, <2>2
  <2>5. m[i].devno + k * n = d + k * n
    BY <2>4
  <2> QED BY <1>7, <2>3, <2>4, <2>5
<1>12. ASSUME NEW s \in T
       PROVE  s \in image
  <2>1. PICK d, x : s = <<d, x>>
    BY <1>10
  <2>2. PICK i \in 1..K, k \in 0..C - 1 :
          m[i].devno + k * n = d /\ x \in m[i].blkno..m[i].blkno + m[i].bcount - 1
    BY <1>7, <2>1
  <2>3. <<m[i].devno, x>> \in M
    BY <1>6, <2>2
  <2>4. s \in CopiesOf(o, <<m[i].devno, x>>)
    BY <1>8, <2>1, <2>2
  <2> QED BY <2>3, <2>4
<1>13. UNION {ParityOf(o, pl) : pl \in image} = {}
  BY <1>9
<1>14. WriteOf(o, M, T)
  BY <1>11, <1>12, <1>13 DEF WriteOf
<1> QED BY <1>14 DEF M, T, l

\* Every access of a request to disks with a parity disk is to the same blocks.
LEMMA SameBlocks ==
  ASSUME NEW o, o.maptype = "ASIS" \/ (o.maptype = "STRIPED" /\ o.stripeunit = 0), NEW r
  PROVE  \A i, j \in DOMAIN DataOf(o, r) : /\ DataOf(o, r)[i].blkno = DataOf(o, r)[j].blkno
                                           /\ DataOf(o, r)[i].bcount = DataOf(o, r)[j].bcount
<1>1. CASE o.maptype = "ASIS"
  <2>1. DataOf(o, r) = <<Access(r.devno, r.blkno, r.bcount, r.read)>>
    BY <1>1 DEF DataOf
  <2>2. DOMAIN DataOf(o, r) = {1}
    BY <2>1
  <2> QED BY <2>2
<1>2. CASE o.maptype = "STRIPED" /\ o.stripeunit = 0
  <2>1. DataOf(o, r) = MapInterleaved(o, ArrayRequest(o, r))
    BY <1>2 DEF DataOf, MapStriped, ArrayRequest
  <2>2. \A q : \A i, j \in DOMAIN MapInterleaved(o, q) :
            /\ MapInterleaved(o, q)[i].blkno = MapInterleaved(o, q)[j].blkno
            /\ MapInterleaved(o, q)[i].bcount = MapInterleaved(o, q)[j].bcount
    BY DEF MapInterleaved, Access
  <2> QED BY <2>1, <2>2
<1> QED BY <1>1, <1>2

\* A write with a parity disk writes the parity of every block.
LEMMA ParityDiskWrite ==
  ASSUME NEW o, OrgOK(o), o.reduntype = "PARITY_DISK", NEW r, ~r.read, NEW m, Dealt(o, r, m),
         \A i, j \in DOMAIN m : m[i].blkno = m[j].blkno /\ m[i].bcount = m[j].bcount
  PROVE  WriteOf(o, PlacesIn(m), PlacesIn(ParityDisk(o, m)))
<1> DEFINE n == o.numdisks
           K == Len(m)
           l == ParityDisk(o, m)
           M == PlacesIn(m)
           T == PlacesIn(l)
           p == [m[1] EXCEPT !.devno = n]
           t == Tail(m)
           R(a) == a.blkno..a.blkno + a.bcount - 1
<1>1. /\ K \in Nat \ {0} /\ DOMAIN m = 1..K /\ 1 \in DOMAIN m
      /\ m[1] \in DataAccess(o) /\ m[1].read = r.read /\ m \in Seq(DataAccess(o))
  BY DealtFacts DEF Dealt
<1>2. p.devno = n /\ p.blkno = m[1].blkno /\ p.bcount = m[1].bcount
  <2> HIDE DEF n
  <2> QED BY <1>1 DEF DataAccess
<1>3. l = <<m[1], p>> \o t
  BY <1>1 DEF ParityDisk
<1> HIDE DEF p
<1>4. t \in Seq(DataAccess(o)) /\ Len(t) = K - 1 /\ \A i \in 1..K - 1 : t[i] = m[i + 1]
  BY <1>1
<1> HIDE DEF t, l
<1>5. DOMAIN l = 1..K + 1 /\ l[1] = m[1] /\ l[2] = p /\ \A i \in 3..K + 1 : l[i] = m[i - 1]
  <2> DEFINE w == <<m[1], p>>
  <2>1. DOMAIN l = 1..2 + Len(t) /\ l[1] = m[1] /\ l[2] = p /\ \A i \in 1..Len(t) : l[2 + i] = t[i]
    BY <1>3, <1>4
  <2>2. 2 + Len(t) = K + 1
    BY <1>1, <1>4
  <2>3. \A i \in 3..K + 1 : l[i] = m[i - 1]
    <3> TAKE i \in 3..K + 1
    <3> DEFINE j == i - 2
    <3>1. j \in 1..Len(t) /\ j \in 1..K - 1 /\ 2 + j = i /\ j + 1 = i - 1
      BY <1>1, <1>4
    <3> HIDE DEF j
    <3> QED BY <1>4, <2>1, <3>1
  <2> QED BY <2>1, <2>2, <2>3
<1>6. \A d, x : <<d, x>> \in M <=> \E i \in 1..K : m[i].devno = d /\ x \in R(m[i])
  <2>1. \A d, x : <<d, x>> \in M <=> \E i \in DOMAIN m : m[i].devno = d /\ x \in R(m[i])
    BY InPlaces
  <2>2. DOMAIN m = 1..K
    BY <1>1
  <2> HIDE DEF M, K, R
  <2> QED BY ONLY <2>1, <2>2
<1>7. \A d, x : <<d, x>> \in T <=> \E i \in 1..K + 1 : l[i].devno = d /\ x \in R(l[i])
  <2>1. \A d, x : <<d, x>> \in T <=> \E i \in DOMAIN l : l[i].devno = d /\ x \in R(l[i])
    BY InPlaces
  <2> DEFINE D == 1..K + 1
  <2>2. DOMAIN l = D
    BY <1>5
  <2> HIDE DEF T, K, R, D
  <2>3. \A d, x : <<d, x>> \in T <=> \E i \in D : l[i].devno = d /\ x \in R(l[i])
    BY ONLY <2>1, <2>2
  <2> QED BY <2>3 DEF D
<1>8. R(p) = R(m[1]) /\ \A i \in 1..K : R(m[i]) = R(m[1])
  BY <1>1, <1>2
<1>9. (\A pl \in M : \E d, x : pl = <<d, x>>) /\ (\A pl \in T : \E d, x : pl = <<d, x>>)
  BY PlacePair
<1>10. \A d, x : ParityOf(o, <<d, x>>) = {<<n, x>>}
  BY DEF ParityOf
<1>11. \A pl : CopiesOf(o, pl) = {pl}
  BY DEF CopiesOf
<1>12. UNION {CopiesOf(o, pl) : pl \in M} = M
  BY <1>11
<1> HIDE DEF M, T, R, K, n
<1>13. \A d, x : <<d, x>> \in T <=> <<d, x>> \in M \/ (d = n /\ x \in R(m[1]))
  <2> TAKE d, x
  <2>1. ASSUME NEW i \in 1..K + 1, l[i].devno = d, x \in R(l[i])
        PROVE  <<d, x>> \in M \/ (d = n /\ x \in R(m[1]))
    <3>1. CASE i = 1
      BY <1>1, <1>5, <1>6, <2>1, <3>1
    <3>2. CASE i = 2
      BY <1>2, <1>5, <1>8, <2>1, <3>2
    <3>3. CASE i # 1 /\ i # 2
      <4>1. i \in 3..K + 1 /\ i - 1 \in 1..K
        BY <1>1, <2>1, <3>3
      <4> QED BY <1>5, <1>6, <2>1, <4>1
    <3> QED BY <3>1, <3>2, <3>3
  <2>2. ASSUME <<d, x>> \in M
        PROVE  <<d, x>> \in T
    <3>1. PICK i \in 1..K : m[i].devno = d /\ x \in R(m[i])
      BY <1>6, <2>2
    <3>2. CASE i = 1
      <4>1. 1 \in 1..K + 1
        BY <1>1
      <4> QED BY <1>5, <1>7, <3>1, <3>2, <4>1
    <3>3. CASE i # 1
      <4>1. i + 1 \in 3..K + 1 /\ i + 1 \in 1..K + 1 /\ (i + 1) - 1 = i
        BY <1>1, <3>3
      <4> QED BY <1>5, <1>7, <3>1, <4>1
    <3> QED BY <3>2, <3>3
  <2>3. ASSUME d = n, x \in R(m[1])
        PROVE  <<d, x>> \in T
    <3>1. 2 \in 1..K + 1
      BY <1>1
    <3> QED BY <1>2, <1>5, <1>7, <1>8, <2>3, <3>1
  <2> QED BY <1>7, <2>1, <2>2, <2>3
<1>14. M \subseteq T
  BY <1>9, <1>13
<1>15. UNION {ParityOf(o, pl) : pl \in M} \subseteq T
  <2> SUFFICES ASSUME NEW pl \in M PROVE ParityOf(o, pl) \subseteq T
    OBVIOUS
  <2>1. PICK d, x : pl = <<d, x>>
    BY <1>9
  <2>2. PICK i \in 1..K : x \in R(m[i])
    BY <1>6, <2>1
  <2> QED BY <1>8, <1>10, <1>13, <2>1, <2>2
<1>16. \A s \in T : HoldsParity(o, s) \/ s \in M
  <2> TAKE s \in T
  <2>1. PICK d, x : s = <<d, x>>
    BY <1>9
  <2>2. d = n => HoldsParity(o, s)
    BY <1>10, <2>1 DEF HoldsParity
  <2> QED BY <1>13, <2>1, <2>2
<1>17. WriteOf(o, M, T)
  BY <1>12, <1>14, <1>15, <1>16 DEF WriteOf
<1> QED BY <1>17 DEF M, T, l

\* A read may choose only among the copies there are.
LEMMA ChoiceOfCopies ==
  ASSUME NEW o, OrgOK(o), NEW n \in Nat, NEW turn \in 0..o.copies - 1, NEW c \in CopyChoices(o, n, turn)
  PROVE  \A i \in 1..n : c[i] \in 0..o.copies - 1
<1>1. o.copies \in Nat \ {0}
  BY DEF OrgOK
<1>2. CASE o.copychoice = "PRIMARY"
  BY <1>1, <1>2 DEF CopyChoices
<1>3. CASE o.copychoice = "ROUNDROBIN"
  <2>1. c = [i \in 1..n |-> (turn + (i - 1)) % o.copies]
    BY <1>3 DEF CopyChoices
  <2>2. \A i \in 1..n : turn + (i - 1) \in Int
    BY <1>1
  <2>3. \A x \in Int : x % o.copies \in 0..o.copies - 1
    BY <1>1, ModRange
  <2> QED BY <2>1, <2>2, <2>3
<1>4. CASE o.copychoice \notin {"PRIMARY", "ROUNDROBIN"}
  <2>1. c \in [1..n -> 0..o.copies - 1]
    BY <1>4 DEF CopyChoices
  <2> QED BY <2>1
<1> QED BY <1>2, <1>3, <1>4

\* Every layout of a scheme without rotating parity is to the right places.
LEMMA LayoutsAreRight ==
  ASSUME NEW o, OrgOK(o), DataLeft(o), o.numdisks # 0,
         o.reduntype \in {"NO_REDUN", "SHADOWED", "PARITY_DISK"}, NEW r \in RequestSet, Kept(o, r),
         Within(o, r) = r, NEW turn \in 0..o.copies - 1, NEW l \in Layouts(o, r, turn)
  PROVE  /\ r.read => ReadOf(o, Image(o, r), PlacesIn(l))
         /\ ~r.read => WriteOf(o, Image(o, r), PlacesIn(l))
<1> DEFINE m == DataOf(o, r)
           M == Image(o, r)
<1>1. Layouts(o, r, turn) =
        CASE o.reduntype = "NO_REDUN" -> {m}
          [] o.reduntype = "SHADOWED" ->
               IF r.read THEN {[i \in DOMAIN m |-> OnCopy(o, m[i], c[i])] :
                                 c \in CopyChoices(o, Len(m), turn)}
                         ELSE {OnEveryCopy(o, m)}
          [] o.reduntype = "PARITY_DISK"    -> {ParityDisk(o, m)}
          [] o.reduntype = "PARITY_ROTATED" -> {RotateUpdates(o, r)}
  BY DEF Layouts, DataOf
<1>2. Dealt(o, r, m) /\ M = PlacesIn(m)
  BY DataDealt, DataImage
<1>3. o.reduntype = "PARITY_DISK" =>
        \A i, j \in DOMAIN m : m[i].blkno = m[j].blkno /\ m[i].bcount = m[j].bcount
  <2> HAVE o.reduntype = "PARITY_DISK"
  <2>1. o.maptype = "ASIS" \/ (o.maptype = "STRIPED" /\ o.stripeunit = 0)
    BY DEF OrgOK, DataLeft
  <2> QED BY <2>1, SameBlocks
<1> HIDE DEF m, M
<1>4. m[1].read = r.read /\ Len(m) \in Nat /\ DOMAIN m = 1..Len(m)
  BY <1>2, DealtFacts
<1>5. CASE o.reduntype = "NO_REDUN"
  <2>1. l = m
    BY <1>1, <1>5
  <2>2. ReadOf(o, M, M) /\ WriteOf(o, M, M)
    <3>1. o.reduntype # "SHADOWED"
      BY <1>5
    <3> QED BY <1>5, <3>1, SingleRead, SingleWrite
  <2> QED BY <1>2, <2>1, <2>2 DEF M
<1>6. CASE o.reduntype = "SHADOWED"
  <2>1. o.numdisks * o.copies = o.actualnumdisks
    BY <1>6 DEF DataLeft
  <2>2. ASSUME r.read
        PROVE  ReadOf(o, M, PlacesIn(l))
    <3>1. PICK c \in CopyChoices(o, Len(m), turn) : l = OnCopies(o, m, c)
      BY <1>1, <1>6, <2>2 DEF OnCopies
    <3>2. \A i \in 1..Len(m) : c[i] \in 0..o.copies - 1
      BY <1>4, ChoiceOfCopies
    <3> QED BY <1>2, <1>6, <2>1, <3>1, <3>2, ShadowRead
  <2>3. ASSUME ~r.read
        PROVE  WriteOf(o, M, PlacesIn(l))
    <3>1. l = OnEveryCopy(o, m)
      BY <1>1, <1>6, <2>3
    <3> QED BY <1>2, <1>6, <2>1, <3>1, ShadowWrite
  <2> QED BY <2>2, <2>3 DEF M
<1>7. CASE o.reduntype = "PARITY_DISK"
  <2>1. l = ParityDisk(o, m)
    BY <1>1, <1>7
  <2>2. ASSUME r.read
        PROVE  ReadOf(o, M, PlacesIn(l))
    <3>1. l = m
      BY <1>4, <2>1, <2>2 DEF ParityDisk
    <3>2. o.reduntype # "SHADOWED"
      BY <1>7
    <3> QED BY <1>2, <3>1, <3>2, SingleRead
  <2>3. ASSUME ~r.read
        PROVE  WriteOf(o, M, PlacesIn(l))
    BY <1>2, <1>3, <1>7, <2>1, <2>3, ParityDiskWrite
  <2> QED BY <2>2, <2>3 DEF M
<1> QED BY <1>5, <1>6, <1>7

\* A request that is done has touched the right blocks.
LEMMA SentToPlaces ==
  ASSUME FirstAtZero, RequestsFit, OrgSound, SentRightly,
         org.reduntype \in {"NO_REDUN", "SHADOWED", "PARITY_DISK"}
  PROVE  RightBlocks
<1>1. ASSUME NEW p \in 0..Len(requests) - 1, p \notin DOMAIN outstandq
      PROVE  LET r == requests[p + 1]
             IN /\ r.read => ReadOf(org, Image(org, r), Touched(Issued(p, TRUE)))
                /\ ~r.read => WriteOf(org, Image(org, r), Touched(Issued(p, FALSE)))
  <2> DEFINE r == requests[p + 1]
  <2>1. org.reduntype # "PARITY_TABLE"
    OBVIOUS
  <2>2. /\ \E n : Asked(org, r, n)
        /\ \E turn \in 0..org.copies - 1 : \E l \in Layouts(org, r, turn) :
              Layout(org, l) /\ Touched(Issued(p, r.read)) = PlacesIn(l)
    BY <1>1, <2>1, DoneTouched
  <2> HIDE DEF r
  <2>3. PICK n : Asked(org, r, n)
    BY <2>2
  <2>4. PICK turn \in 0..org.copies - 1 : \E l \in Layouts(org, r, turn) :
              Layout(org, l) /\ Touched(Issued(p, r.read)) = PlacesIn(l)
    BY <2>2
  <2>5. PICK l \in Layouts(org, r, turn) : Touched(Issued(p, r.read)) = PlacesIn(l)
    BY <2>4
  <2>6. /\ OrgOK(org) /\ DataLeft(org) /\ org.numdisks # 0
        /\ r \in RequestSet /\ Kept(org, r) /\ Within(org, r) = r
    BY <2>1, <2>3, RequestFacts
  <2>7. /\ r.read => ReadOf(org, Image(org, r), PlacesIn(l))
        /\ ~r.read => WriteOf(org, Image(org, r), PlacesIn(l))
    BY <2>6, LayoutsAreRight
  <2>8. r.read \in BOOLEAN
    BY <2>6 DEF RequestSet
  <2>9. CASE r.read
    <3>1. r.read = TRUE
      BY <2>8, <2>9
    <3> QED BY <2>5, <2>7, <3>1 DEF r
  <2>10. CASE ~r.read
    <3>1. r.read = FALSE
      BY <2>8, <2>10
    <3> QED BY <2>5, <2>7, <3>1 DEF r
  <2> QED BY <2>9, <2>10
<1>2. ReadsWhatIsAsked
  BY <1>1 DEF ReadsWhatIsAsked, ReadOf
<1>3. WritesWhatIsAsked
  BY <1>1 DEF WritesWhatIsAsked, WriteOf
<1> QED BY <1>2, <1>3 DEF RightBlocks

\* The mappings of logorg_maprequest to disks without parity, to shadowed disks and to
\* disks with a parity disk: a read that is done has read one copy of every block it
\* names, a write all of them and the parity, and neither a block of data beside.
THEOREM DataAreRight ==
  ASSUME FirstAtZero, RequestsFit, TablesFit
  PROVE  Spec => [](org.reduntype \in {"NO_REDUN", "SHADOWED", "PARITY_DISK"} => RightBlocks)
<1>1. AllFit
  BY AllFits
<1>2. Init => OrgSound /\ CountsOut /\ SentRightly
  BY SoundInit, CountsInit, SentInit
<1>3. OrgSound /\ CountsOut /\ SentRightly /\ [Next]_vars => (OrgSound /\ CountsOut /\ SentRightly)'
  BY <1>1, SoundStep, CountsStep, SentStep
<1>4. OrgSound /\ SentRightly
        => (org.reduntype \in {"NO_REDUN", "SHADOWED", "PARITY_DISK"} => RightBlocks)
  BY SentToPlaces
<1> QED BY <1>2, <1>3, <1>4, PTL DEF Spec
=============================================================================
