------------------------------- MODULE LogOrg -------------------------------
(***************************************************************************)
(* The logical organisation of the disks, between the device driver that    *)
(* takes a request and the queues of the disks (disksim_logorg.c,           *)
(* disksim_redun.c).  logorg_maprequest makes accesses of a request;        *)
(* logorg_mapcomplete counts their completions, releases the writes that    *)
(* waited for reads of old data and parity, and tells when the request is   *)
(* done.  The disks complete accesses in any order.                        *)
(*                                                                         *)
(* The configuration is chosen once, among Organizations.                   *)
(***************************************************************************)
EXTENDS ParityTable

CONSTANTS Organizations,  \* the configurations, as logorg_readparams leaves them
          Workload(_, _), \* the requests that an organisation may be sent, first, second, ...
          MaxRequests     \* how many of them

VARIABLES org,         \* the organisation, initialised
          requests,    \* history: the requests mapped, opid 0 first
          reduntoggle,
          outstandq,   \* [opid -> requests not yet done]
          out,         \* the accesses that the driver has been given
          issued,      \* history: all the accesses ever given to it
          numout,      \* [disk -> Int], for the time stamps
          fault        \* a null pointer has been followed: the program has stopped

vars == <<org, requests, reduntoggle, outstandq, out, issued, numout, fault>>

Disks(o) == 0..o.actualnumdisks - 1

\* Striping with parity goes by the table (logorg_tabular_rottype).
Tabular(c) ==
    /\ c.maptype = "STRIPED" /\ c.stripeunit # 0
    /\ c.reduntype = "PARITY_DISK" \/ (c.reduntype = "PARITY_ROTATED" /\ c.rottype = "LEFT")

\* What logorg_readparams accepts and logorg_initialize does not refuse, of the
\* schemes modelled, with the fields it sets left empty.  All the disks have as
\* many blocks.
ConfigSet ==
    [maptype : {"ASIS", "STRIPED"}, addrbyparts : BOOLEAN, arraydisk : Nat, firstdisk : Nat,
     reduntype : {"NO_REDUN", "SHADOWED", "PARITY_DISK", "PARITY_ROTATED"},
     numdisks : Nat \ {0}, actualnumdisks : Nat, blksperpart : Nat \ {0}, actualblksperpart : Nat,
     copies : Nat \ {0, 1}, copychoice : {"PRIMARY", "ROUNDROBIN", "RANDOM"}, writesync : BOOLEAN,
     stripeunit : Nat, parityunit : Nat \ {0}, rottype : {"LEFT", "RIGHT"}, rmwpoint : Nat,
     numfull : {0}, partsperstripe : {0}, tablestripes : {0}, tablesize : {0}, table : {<<>>}]

Configurable(c) ==
    /\ c \in ConfigSet
    /\ c.maptype = "ASIS" => c.addrbyparts
    /\ c.actualnumdisks = c.numdisks /\ c.actualblksperpart = c.blksperpart
    /\ c.stripeunit <= c.blksperpart /\ c.parityunit <= c.blksperpart
    /\ c.reduntype = "SHADOWED" => c.numdisks % c.copies = 0
    /\ c.reduntype = "PARITY_ROTATED" /\ c.maptype = "STRIPED" =>
          Tabular(c) /\ c.parityunit >= c.stripeunit /\ c.parityunit % c.stripeunit = 0

ASSUME LogOrgAssumption == MaxRequests \in Nat /\ \A c \in Organizations : Configurable(c)

\* logorg_initialize: what is left of the configured disks and blocks for data
Initialized(c) ==
    [IF Tabular(c) THEN CreateTable(c) ELSE c EXCEPT
       !.maptype   = IF Tabular(c) THEN "ASIS" ELSE @,
       !.reduntype = IF Tabular(c) THEN "PARITY_TABLE" ELSE @,
       !.numdisks  = CASE c.reduntype = "SHADOWED"    -> @ \div c.copies
                       [] c.reduntype = "PARITY_DISK" -> @ - 1
                       [] OTHER                       -> @,
       !.blksperpart = IF c.reduntype = "PARITY_ROTATED"
                         THEN ((@ * (c.numdisks - 1)) \div c.numdisks)
                                - IF Tabular(c) THEN 0 ELSE c.parityunit
                         ELSE @,
       !.numfull = CASE Tabular(c) -> (c.actualblksperpart \div c.stripeunit) * c.stripeunit
                     [] ~Tabular(c) /\ c.maptype = "STRIPED" /\ c.stripeunit # 0 ->
                           c.blksperpart \div c.stripeunit
                     [] ~Tabular(c) /\ c.maptype = "ASIS" /\ c.reduntype = "PARITY_ROTATED" ->
                           c.actualblksperpart \div c.parityunit
                     [] OTHER -> 0]

\* The old contents must be read before this is written.
ReadsOld(o, m) ==
    /\ ~m[1].read
    /\ o.reduntype = "PARITY_ROTATED" \/ (o.reduntype = "PARITY_DISK" /\ o.maptype = "ASIS")

\* The accesses that logorg_maprequest may make of r when copies are next read in
\* the given turn
Layouts(o, r, turn) ==
    LET m == IF o.maptype = "STRIPED" THEN MapStriped(o, r)
                                      ELSE <<Access(r.devno, r.blkno, r.bcount, r.read)>>
    IN CASE o.reduntype = "NO_REDUN" -> {m}
         [] o.reduntype = "SHADOWED" ->
              IF r.read THEN {[i \in DOMAIN m |-> OnCopy(o, m[i], c[i])] :
                                c \in CopyChoices(o, Len(m), turn)}
                        ELSE {OnEveryCopy(o, m)}
         [] o.reduntype = "PARITY_DISK"    -> {ParityDisk(o, m)}
         [] o.reduntype = "PARITY_ROTATED" -> {RotateUpdates(o, r)}

SetOf(m) == {m[i] : i \in DOMAIN m}

\* Mutant: parity is written when its own old value has been read.
Depend_Own(o, m) ==
    {[devno |-> m[i].devno, blkno |-> m[i].blkno, deps |-> {m[i]}] : i \in DOMAIN m}

\* logorg_parity_read_old_sync, _nosync: who may be written once the access to
\* devno and blkno is done.  Without synchronisation the data wait for their
\* own old value only, the parity for its own and that of the data.
Depend(o, m) ==
    {[devno |-> m[i].devno, blkno |-> m[i].blkno,
      deps |-> IF o.writesync \/ i = 1 THEN SetOf(m) ELSE {m[i]}] : i \in DOMAIN m}

Waits(o, m) ==
    [w \in SetOf(m) |-> IF o.writesync THEN Len(m) ELSE IF w = m[1] THEN 1 ELSE 2]

\* What logorg_maprequest may do about r: the accesses sent, the entries of the
\* places that must be done before others are written, and the counts of those.
Mappings(o, r, turn) ==
    IF o.reduntype = "PARITY_TABLE" THEN {ParityTable(o, r)}
    ELSE {IF ReadsOld(o, m)
            THEN [sent |-> [i \in DOMAIN m |-> [m[i] EXCEPT !.read = TRUE]],
                  depend |-> Depend(o, m), waits |-> Waits(o, m)]
            ELSE [sent |-> m, depend |-> {}, waits |-> <<>>] : m \in Layouts(o, r, turn)}

\* The entry of a disk in the table of the organisation.  What lies before the
\* table may say any disk.
TableEntry(o, i) == IF i \in Disks(o) THEN {o.firstdisk + i} ELSE 0..o.firstdisk

\* The disk numbers that the accesses of m are given.  All but the first are
\* looked up as if they were numbers of disks, not of table entries.
DevnosOf(o, m) ==
    {f \in [1..Len(m) -> 0..o.firstdisk + o.actualnumdisks] :
        /\ f[1] = o.firstdisk + m[1].devno
        /\ \A i \in 2..Len(m) : f[i] \in TableEntry(o, m[i].devno - o.firstdisk)}

Physical(a, opid, d) ==
    [opid |-> opid, devno |-> d, blkno |-> a.blkno, bcount |-> a.bcount, read |-> a.read]

\* The request as the mappings see it: by parts, of a disk of the organisation
Within(o, r) == IF o.addrbyparts THEN [r EXCEPT !.devno = @ - o.firstdisk] ELSE r

NumoutUp(f) == [d \in Disks(org) |->
    numout[d] + Cardinality({i \in DOMAIN f : f[i] - org.firstdisk = d})]

\* The mapping m of r sent to the disks: what becomes outstanding, and is counted
SendOut(r, m) ==
    LET opid == Len(requests)
    IN \E f \in DevnosOf(org, m.sent) :
         LET sent == {Physical(m.sent[i], opid, f[i]) : i \in DOMAIN m.sent}
         IN /\ out' = out \cup sent
            /\ issued' = issued \cup sent
            /\ numout' = NumoutUp(f)
            /\ reduntoggle' = IF org.reduntype = "SHADOWED" /\ r.read
                                 /\ org.copychoice = "ROUNDROBIN"
                                THEN (reduntoggle + Len(m.sent)) % org.copies ELSE reduntoggle
            /\ outstandq' = [p \in DOMAIN outstandq \cup {opid} |->
                 IF p # opid THEN outstandq[p]
                 ELSE [numreqs |-> Len(m.sent) + Cardinality(DOMAIN m.waits),
                       depend |-> m.depend, waits |-> m.waits]]

\* logorg_maprequest; a list that is not closed is followed beyond its end
\* before the request is outstanding.
MapRequest(r) ==
    /\ ~fault /\ Len(requests) < MaxRequests /\ Covers(org, r)
    /\ requests' = Append(requests, r)
    /\ \E m \in Mappings(org, Within(org, r), reduntoggle) :
         IF m = Unclosed
           THEN fault' = TRUE /\ UNCHANGED <<reduntoggle, outstandq, out, issued, numout>>
           ELSE SendOut(r, m) /\ UNCHANGED fault
    /\ UNCHANGED org

\* Mutant: the entry is sought by block number.
Entries_AnyDisk(q, a) == {e \in q.depend : e.blkno = a.blkno}

\* logorg_check_dependencies: the first entry for the place of the access a is
\* taken out, and every write it holds up waits for one access less.
Entries(q, a) ==
    {e \in q.depend : e.devno = a.devno - org.firstdisk /\ e.blkno = a.blkno}

HeldUpBy(q, a) == UNION {e.deps : e \in Entries(q, a)}

\* Mutant: a write is released by the first access it waits for.
Released_AtOnce(q, a) == HeldUpBy(q, a) \cap DOMAIN q.waits

Released(q, a) == {w \in HeldUpBy(q, a) : q.waits[w] = 1}

Checked(q, a) ==
    [numreqs |-> q.numreqs - 1,
     depend  |-> q.depend \ Entries(q, a),
     waits   |-> [w \in DOMAIN q.waits \ Released(q, a) |->
                    IF w \in HeldUpBy(q, a) THEN q.waits[w] - 1 ELSE q.waits[w]]]

\* logorg_mapcomplete; the writes it returns are mapped already and go to the
\* queues of their disks.
MapComplete(a) ==
    LET q    == outstandq[a.opid]
        done == Checked(q, a)
        sent == {Physical(w, a.opid, org.firstdisk + w.devno) : w \in Released(q, a)}
    IN /\ ~fault /\ a.devno - org.firstdisk \in Disks(org)
       /\ out' = (out \ {a}) \cup sent
       /\ issued' = issued \cup sent
       /\ numout' = [numout EXCEPT ![a.devno - org.firstdisk] = @ - 1]
       /\ outstandq' = IF done.numreqs = 0
                         THEN [p \in DOMAIN outstandq \ {a.opid} |-> outstandq[p]]
                         ELSE [outstandq EXCEPT ![a.opid] = done]
       /\ UNCHANGED <<org, requests, reduntoggle, fault>>

Init == /\ org \in {Initialized(c) : c \in Organizations}
        /\ requests = <<>> /\ reduntoggle = 0
        /\ outstandq = <<>>
        /\ out = {} /\ issued = {}
        /\ numout = [d \in Disks(org) |-> 0] /\ fault = FALSE

Next == \/ \E r \in Workload(org, Len(requests) + 1) : MapRequest(r)
        \/ \E a \in out : MapComplete(a)

Spec == Init /\ [][Next]_vars

-----------------------------------------------------------------------------
AccessesOf(p) == {a \in out : a.opid = p}

PhysicalSet == [opid : Nat, devno : Nat, blkno : Nat, bcount : Nat \ {0}, read : BOOLEAN]

\* Every variable keeps its type.
TypeOK ==
    /\ reduntoggle \in 0..org.copies
    /\ DOMAIN outstandq \subseteq 0..Len(requests) - 1
    /\ out \subseteq issued /\ issued \subseteq PhysicalSet
    /\ numout \in [Disks(org) -> Int] /\ fault \in BOOLEAN

\* A request is outstanding as long as accesses of it are under way or held
\* up, and what it counts is their number: it completes when all of them have,
\* and none is released after that or for ever held up.
CountsMatch ==
    \A p \in 0..Len(requests) - 1 :
        IF p \in DOMAIN outstandq
          THEN /\ outstandq[p].numreqs = Cardinality(AccessesOf(p))
                                         + Cardinality(DOMAIN outstandq[p].waits)
               /\ AccessesOf(p) # {}
          ELSE AccessesOf(p) = {}

\* Every access is to a disk of the organisation, within its blocks
\* (doc/disksim-doc.ps, "Disks": the range of disks comprising the logical
\* organization).
AccessesOnMembers ==
    \A a \in issued : /\ a.devno - org.firstdisk \in Disks(org)
                      /\ a.blkno + a.bcount <= org.actualblksperpart

-----------------------------------------------------------------------------
\* The layout that the organisations promise, block by block.  A place is a
\* disk of the organisation and a block of it.
ParityAt(o, b) ==
    LET row == b \div o.parityunit
    IN IF o.rottype = "LEFT" THEN o.numdisks - 1 - (row % o.numdisks) ELSE row % o.numdisks

\* The kth block of disk d that does not hold parity
DataBlock(o, d, k) ==
    CHOOSE b \in 0..o.actualblksperpart - 1 :
        /\ ParityAt(o, b) # d
        /\ Cardinality({c \in 0..b - 1 : ParityAt(o, c) # d}) = k

\* Units of the stripes are dealt to the disks in turn; the blocks left over at
\* the end of the disks make one more stripe.
StripedPlace(o, b) ==
    LET full == o.numfull * o.stripeunit
        rest == o.blksperpart - full
    IN IF b < full * o.numdisks
         THEN LET unit == b \div o.stripeunit
              IN <<unit % o.numdisks, (unit \div o.numdisks) * o.stripeunit + (b % o.stripeunit)>>
         ELSE LET c == b - full * o.numdisks IN <<c \div rest, full + (c % rest)>>

\* With a table, units are dealt to the disks of a row from the one after the
\* parity on, which stays on the last disk or goes to the left.
TableParityAt(o, b) ==
    IF o.numdisks < o.actualnumdisks THEN o.numdisks
    ELSE o.numdisks - 1 - ((b \div o.parityunit) % o.numdisks)

TablePlace(o, b) ==
    LET disks == o.actualnumdisks
        full  == o.numfull * (disks - 1)
        unit  == IF b < full THEN o.stripeunit ELSE o.actualblksperpart - o.numfull
        c     == IF b < full THEN b ELSE b - full
        row   == (c \div unit) \div (disks - 1)
        at    == (IF b < full THEN 0 ELSE o.numfull) + row * unit + (c % unit)
    IN <<(TableParityAt(o, at) + 1 + ((c \div unit) % (disks - 1))) % disks, at>>

\* Where the block b of the device r.devno is
PlacesOf(o, r, b) ==
    LET inArray == b + IF o.addrbyparts THEN r.devno * o.blksperpart ELSE 0
        plain   == o.reduntype \notin {"PARITY_TABLE", "PARITY_ROTATED"}
    IN CASE o.reduntype = "PARITY_TABLE"   -> {TablePlace(o, inArray)}
         [] o.reduntype = "PARITY_ROTATED" -> {<<r.devno, DataBlock(o, r.devno, b)>>}
         [] plain /\ o.maptype = "ASIS"    -> {<<r.devno, b>>}
         [] plain /\ o.maptype = "STRIPED" /\ o.stripeunit = 0 ->
              {<<d, inArray \div o.numdisks>> : d \in 0..o.numdisks - 1}
         [] OTHER -> {StripedPlace(o, inArray)}

\* The places of all the blocks that a request names
Image(o, r) == UNION {PlacesOf(o, Within(o, r), b) : b \in r.blkno..r.blkno + r.bcount - 1}

CopiesOf(o, pl) == IF o.reduntype = "SHADOWED"
                     THEN {<<pl[1] + c * o.numdisks, pl[2]>> : c \in 0..o.copies - 1} ELSE {pl}

ParityOf(o, pl) == CASE o.reduntype = "PARITY_DISK"    -> {<<o.numdisks, pl[2]>>}
                     [] o.reduntype = "PARITY_TABLE"   -> {<<TableParityAt(o, pl[2]), pl[2]>>}
                     [] o.reduntype = "PARITY_ROTATED" -> {<<ParityAt(o, pl[2]), pl[2]>>}
                     [] OTHER                          -> {}

HoldsParity(o, pl) == pl \in ParityOf(o, pl)

Touched(A) == UNION {{<<a.devno - org.firstdisk, b>> : b \in a.blkno..a.blkno + a.bcount - 1} : a \in A}

Issued(p, read) == {a \in issued : a.opid = p /\ a.read = read}

\* A read that is done has read one copy of every block it names, and no block
\* of data beside.
ReadsWhatIsAsked ==
    \A p \in 0..Len(requests) - 1 :
        LET r    == requests[p + 1]
            seen == Touched(Issued(p, TRUE))
        IN r.read /\ p \notin DOMAIN outstandq =>
             /\ \A pl \in Image(org, r) : Cardinality(CopiesOf(org, pl) \cap seen) = 1
             /\ \A s \in seen : HoldsParity(org, s)
                                \/ \E pl \in Image(org, r) : s \in CopiesOf(org, pl)

\* A write that is done has written every block it names, on every copy, and
\* the parity that protects it, and no block of data beside.
WritesWhatIsAsked ==
    \A p \in 0..Len(requests) - 1 :
        LET r       == requests[p + 1]
            written == Touched(Issued(p, FALSE))
            image   == UNION {CopiesOf(org, pl) : pl \in Image(org, r)}
        IN ~r.read /\ p \notin DOMAIN outstandq =>
             /\ image \subseteq written
             /\ UNION {ParityOf(org, pl) : pl \in image} \subseteq written
             /\ \A s \in written : HoldsParity(org, s) \/ s \in image

\* A request that is done has touched the right blocks.
RightBlocks == ReadsWhatIsAsked /\ WritesWhatIsAsked

\* A write of a parity-protected organisation is issued as soon as, and not
\* before, the reads it needs are done: with "Synch writes for safety" all of
\* the request's, without it the old value of the same blocks and, for parity,
\* that of the data.
Done(p) == Issued(p, TRUE) \ out

OldValuesRead(w, p) ==
    /\ Touched({w}) \subseteq Touched(Done(p))
    /\ org.writesync => Issued(p, TRUE) \subseteq Done(p)
    /\ \A s \in Touched({w}) : \A pl \in Image(org, requests[p + 1]) :
          s \in ParityOf(org, pl) => pl \in Touched(Done(p))

OnceOldIsRead ==
    \A p \in 0..Len(requests) - 1 :
        ~requests[p + 1].read /\ Issued(p, TRUE) # {} =>
            \A a \in Issued(p, TRUE) :
                LET w == [a EXCEPT !.read = FALSE]
                IN w \in issued <=> OldValuesRead(w, p)

\* With a table a row may be read in two ways: the new parity of a block can be
\* computed from its old value and those of the data that are overwritten, or
\* from the data that are not (doc/disksim-doc.ps, "RMW vs. reconstruct").
ParityKnown(s, p) ==
    LET protected == {<<d, s[2]>> : d \in Disks(org)} \ {s}
        image     == Image(org, requests[p + 1])
        known     == Touched(Done(p))
    IN \/ {s} \cup (protected \cap image) \subseteq known
       \/ protected \ image \subseteq known

OnceParityIsKnown ==
    \A w \in {a \in issued : ~a.read} :
        /\ org.writesync => Issued(w.opid, TRUE) \subseteq Done(w.opid)
        /\ \A s \in Touched({w}) :
              IF HoldsParity(org, s) THEN ParityKnown(s, w.opid)
              ELSE s \in Touched(Issued(w.opid, TRUE)) => s \in Touched(Done(w.opid))

\* No write of a parity-protected organisation destroys what the new parity is
\* to be computed from.
WritesAfterReads == IF org.reduntype = "PARITY_TABLE" THEN OnceParityIsKnown ELSE OnceOldIsRead

\* Reads that take the copies in turn use them equally often.
CopiesInTurn ==
    org.reduntype = "SHADOWED" /\ org.copychoice = "ROUNDROBIN" =>
        LET onCopy(c) == {a \in issued : a.read /\ (a.devno - org.firstdisk) \div org.numdisks = c}
        IN \A c, d \in 0..org.copies - 1 :
              Cardinality(onCopy(c)) <= Cardinality(onCopy(d)) + 1

\* What the time stamps report for a disk is the number of accesses under way
\* there, less the writes that were released to it by reads of old values: they
\* are taken off the number without having been counted.  An organisation with
\* parity that rotates, or with a parity disk that is not striped, releases all
\* its writes, one with a table some of them.
UnderWay(d) == {a \in out : a.devno - org.firstdisk = d}
WrittenTo(d) == {a \in issued : ~a.read /\ a.devno - org.firstdisk = d}

NumoutExact ==
    \A d \in Disks(org) :
        LET short == Cardinality(UnderWay(d)) - numout[d]
        IN CASE org.reduntype = "PARITY_TABLE"        -> short \in 0..Cardinality(WrittenTo(d))
             [] ReadsOld(org, <<[read |-> FALSE]>>)   -> short = Cardinality(WrittenTo(d))
             [] OTHER                                 -> short = 0

\* What the organisation keeps about its accesses is true of them, and every
\* list of accesses that is gone through is closed.
OrgInv == TypeOK /\ CountsMatch /\ AccessesOnMembers /\ NumoutExact /\ ~fault

\* The disks complete the accesses they are given.
Fairness == \A p \in 0..MaxRequests - 1 : WF_vars(\E a \in AccessesOf(p) : MapComplete(a))

FairSpec == Spec /\ Fairness

\* Every request that is sent completes; none is stuck in logorg_maprequest.
EventuallyDone ==
    \A p \in 0..MaxRequests - 1 : p < Len(requests) ~> p \notin DOMAIN outstandq /\ ~fault

-----------------------------------------------------------------------------
\* What the theorems of LogOrgProofs suppose

\* A set of accesses to disks of the organisation, within their blocks
OnMembers(o) ==
    {a \in [devno : Disks(o), blkno : Nat, bcount : Nat \ {0}, read : BOOLEAN] :
        a.blkno + a.bcount <= o.actualblksperpart}

SamePlace(a, b) == a.devno = b.devno /\ a.blkno = b.blkno

\* A write that is held up is counted for each entry that names it, each entry is
\* that of one read that is sent, and no write overtakes a read of its own place.
HeldUpRightly(m) ==
    LET held == DOMAIN m.waits
    IN /\ IsFiniteSet(m.depend)
       /\ \A e \in m.depend : /\ e.deps \subseteq held
                              /\ \E a \in SetOf(m.sent) : a.read /\ SamePlace(a, e)
       /\ \A e, f \in m.depend : SamePlace(e, f) => e = f
       /\ \A w \in held : /\ m.waits[w] = Cardinality({e \in m.depend : w \in e.deps})
                          /\ m.waits[w] # 0
       /\ \A w \in SetOf(m.sent) \cup held : \A e \in m.depend :
              SamePlace(w, e) => w.read \/ w \in e.deps

\* What a mapping must be for the requests to complete: the accesses are on the
\* disks and no two are the same.
Fits(o, m) ==
    /\ m.sent \in Seq(OnMembers(o)) /\ m.sent # <<>> /\ IsInjective(m.sent)
    /\ DOMAIN m.waits \subseteq OnMembers(o) /\ IsFiniteSet(DOMAIN m.waits)
    /\ \A w \in DOMAIN m.waits : ~w.read /\ w \notin SetOf(m.sent)
    /\ HeldUpRightly(m)

Orgs == {Initialized(c) : c \in Organizations}

\* Only then does logorg_maprequest look a disk up where it is.
FirstAtZero == \A c \in Organizations : c.firstdisk = 0

RequestSet == [devno : Nat, blkno : Nat, bcount : Nat \ {0}, read : BOOLEAN]

\* Who issues a request keeps to the blocks of the device he names.
RequestsFit ==
    \A o \in Orgs : \A n \in 1..MaxRequests : \A r \in Workload(o, n) :
        r \in RequestSet /\ (o.addrbyparts => r.blkno + r.bcount <= o.blksperpart)

\* The mappings by a table fit; those that are not closed do not.
TablesFit ==
    \A o \in Orgs : \A n \in 1..MaxRequests : \A r \in Workload(o, n) :
        o.reduntype = "PARITY_TABLE" /\ Covers(o, r) => Fits(o, ParityTable(o, Within(o, r)))
=============================================================================
