------------------------------ MODULE ArrayMap ------------------------------
(***************************************************************************)
(* Where a logical organisation puts a request (disksim_logorg.c and        *)
(* disksim_redun.c): striping, copies, a parity disk and parity that        *)
(* rotates over the disks.  `o' is the organisation, after                  *)
(* logorg_initialize; disks are numbered from 0 within it.  A mapping is a  *)
(* sequence of accesses, the one made from the request itself first.        *)
(***************************************************************************)
EXTENDS Integers, Sequences

Access(d, b, n, r) == [devno |-> d, blkno |-> b, bcount |-> n, read |-> r]

\* The organisation o covers the request r (logorg_maprequest, logorg_overlap).
Covers(o, r) ==
    IF o.addrbyparts
      THEN \E d \in 0..o.numdisks - 1 : r.devno = o.firstdisk + d /\ r.blkno \in 0..o.blksperpart - 1
      ELSE r.devno = o.arraydisk /\ r.blkno >= 0 /\ r.blkno + r.bcount < o.blksperpart * o.numdisks

MapInterleaved(o, r) ==
    LET first == r.blkno \div o.numdisks
        count == (r.bcount + (r.blkno - first * o.numdisks) + (o.numdisks - 1)) \div o.numdisks
    IN [i \in 1..o.numdisks |-> Access(i - 1, first, count, r.read)]

\* The stripe unit that holds the block b: the units of the last stripe have
\* what is left of the disks.
UnitOf(o, b) ==
    LET stripeno == (b \div o.stripeunit) \div o.numdisks
        start    == IF stripeno = o.numfull THEN stripeno * o.numdisks * o.stripeunit ELSE 0
        unit     == IF stripeno = o.numfull THEN o.blksperpart - o.numfull * o.stripeunit
                                            ELSE o.stripeunit
    IN [stripeno |-> stripeno, unit |-> unit,
        devno |-> ((b - start) \div unit) % o.numdisks, offset |-> (b - start) % unit]

NextUnit(o, s) ==
    IF s.devno + 1 < o.numdisks THEN [s EXCEPT !.devno = @ + 1]
    ELSE [s EXCEPT !.devno = 0, !.stripeno = @ + 1,
                   !.unit = IF s.stripeno + 1 = o.numfull
                              THEN o.blksperpart - o.numfull * s.unit ELSE @]

\* One step of the loop of logorg_mapstriped: the unit goes to its disk.
SpreadUnit(o, s) ==
    IF s.left <= s.unit THEN s
    ELSE NextUnit(o, [s EXCEPT !.sizes[s.devno] = @ + s.unit,
                               !.left = @ - s.unit, !.numstripes = @ + 1])

\* That loop: s0.left blocks are spread over the units from s0 on, until the
\* rest fits in one.
Spread(o, s0) ==
    LET after[k \in 0..s0.left] == IF k = 0 THEN s0 ELSE SpreadUnit(o, after[k - 1])
    IN after[s0.left]

Least(m, n) == IF m < n THEN m ELSE n

\* The size of a disk's access is the sum of its units; only what comes after
\* the last disk starts in the next stripe.
MapUnits(o, r) ==
    LET at   == UnitOf(o, r.blkno)
        row  == at.stripeno * o.stripeunit
        slop == at.unit - at.offset
        s    == Spread(o, NextUnit(o,
                  [devno |-> at.devno, stripeno |-> at.stripeno, unit |-> at.unit,
                   left |-> r.bcount - slop, numstripes |-> 2,
                   sizes |-> [d \in 0..o.numdisks - 1 |-> IF d = at.devno THEN slop ELSE 0]]))
        sizes == [s.sizes EXCEPT ![s.devno] = @ + s.left]
        disk(i) == (at.devno + (i - 1)) % o.numdisks
        start(i) == IF i = 1 THEN row + at.offset
                    ELSE IF disk(i) < at.devno THEN row + o.stripeunit ELSE row
    IN IF r.bcount <= slop THEN <<Access(at.devno, row + at.offset, r.bcount, r.read)>>
       ELSE [i \in 1..Least(s.numstripes, o.numdisks) |->
               Access(disk(i), start(i), sizes[disk(i)], r.read)]

MapStriped(o, r) ==
    LET q == IF o.addrbyparts THEN [r EXCEPT !.blkno = r.devno * o.blksperpart + @] ELSE r
    IN IF o.stripeunit = 0 THEN MapInterleaved(o, q) ELSE MapUnits(o, q)

\* Mutant: the turn is taken by requests.
CopyChoices_ByRequest(o, n, toggle) ==
    CASE o.copychoice = "PRIMARY"    -> {[i \in 1..n |-> 0]}
      [] o.copychoice = "ROUNDROBIN" -> {[i \in 1..n |-> toggle]}
      [] OTHER                       -> [1..n -> 0..o.copies - 1]

\* The copies that the accesses of a read may be sent to (logorg_shadowed);
\* a random copy and the one nearest by stand for each other.
CopyChoices(o, n, toggle) ==
    CASE o.copychoice = "PRIMARY"    -> {[i \in 1..n |-> 0]}
      [] o.copychoice = "ROUNDROBIN" -> {[i \in 1..n |-> (toggle + (i - 1)) % o.copies]}
      [] OTHER                       -> [1..n -> 0..o.copies - 1]

OnCopy(o, a, c) == [a EXCEPT !.devno = @ + c * o.numdisks]

OnEveryCopy(o, m) ==
    [i \in 1..Len(m) * o.copies |->
        OnCopy(o, m[((i - 1) \div o.copies) + 1], (i - 1) % o.copies)]

\* logorg_modulus_update in the direction of the rotation
Turn(o, d) == (IF o.rottype = "LEFT" THEN d + (o.numdisks - 1) ELSE d + 1) % o.numdisks

\* Mutant: the access ends where it would if the disk held no parity.
PassParity_Stays(o, r, s) ==
    LET next == Turn(o, s.parity)
    IN [s EXCEPT !.parity = IF next = r.devno THEN Turn(o, next) ELSE next]

\* One step of the loop of logorg_parity_rotate_updates crosses into the next
\* parity unit of the disk, or over one that holds parity itself.
PassParity(o, r, s) ==
    LET next == Turn(o, s.parity)
    IN IF next = r.devno
         THEN [s EXCEPT !.parity = Turn(o, next), !.bcount = @ + o.parityunit]
         ELSE [s EXCEPT !.parity = next]

\* The access to the parity of the next n blocks
Update(r, blkno, s, n) == Access(s.parity, blkno + s.bcount - s.left, n, r.read)

RotateUnit(o, r, blkno, s) ==
    IF s.left <= s.room THEN s
    ELSE PassParity(o, r, [s EXCEPT !.updates = Append(@, Update(r, blkno, s, s.room)),
                                    !.left = @ - s.room, !.room = o.parityunit])

\* logorg_parity_rotate_updates: the access to the data, and for a write one
\* to the parity of each unit it touches
RotateUpdates(o, r) ==
    LET data   == o.parityunit * (o.numdisks - 1)
        row    == (r.blkno % data) \div o.parityunit
        parity == IF o.rottype = "LEFT" THEN o.numdisks - row - 1 ELSE row
        skips  == IF o.rottype = "LEFT" THEN r.devno >= parity ELSE r.devno <= parity
        blkno  == r.blkno + (r.blkno \div data) * o.parityunit
                  + IF skips THEN o.parityunit ELSE 0
        s0     == [parity |-> IF skips THEN Turn(o, parity) ELSE parity, bcount |-> r.bcount,
                   left |-> r.bcount, room |-> o.parityunit - (blkno % o.parityunit),
                   updates |-> <<>>]
        after[k \in 0..r.bcount] == IF k = 0 THEN s0 ELSE RotateUnit(o, r, blkno, after[k - 1])
        last   == after[r.bcount]
    IN <<Access(r.devno, blkno, last.bcount, r.read)>>
       \o IF r.read THEN <<>> ELSE Append(last.updates, Update(r, blkno, last, last.left))

\* logorg_parity_disk: a write, of one access or fine-grained, takes the parity
\* disk along.
ParityDisk(o, m) ==
    IF m[1].read THEN m
    ELSE <<m[1], [m[1] EXCEPT !.devno = o.numdisks]>> \o Tail(m)
=============================================================================
