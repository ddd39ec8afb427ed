----------------------------- MODULE ParityTable -----------------------------
(***************************************************************************)
(* Striping with parity (logorg_parity_table and what it calls,             *)
(* disksim_redun.c): units of data are laid out in rows by a table of the    *)
(* disks, each row with a unit of parity.  A request is cut into parts of    *)
(* units; a write takes the parity of each row along, and for a row that it  *)
(* does not write as a whole it reads first either what it overwrites        *)
(* ("read old") or what it leaves alone ("recon").                          *)
(*                                                                         *)
(* A part is [row, unit, offset, count]: rows are counted from the start of  *)
(* the disks, unit partsperstripe of a row is its parity.                    *)
(***************************************************************************)
EXTENDS ArrayMap, FiniteSets, SequencesExt

CONSTANT SeqGive  \* LOGORG_PARITY_SEQGIVE: neighbours this close are joined

(* The table: the disk of each unit of each row, and the block it starts at *)

\* One row of logorg_create_table_left_sym
RowAfter(o, s) ==
    LET n     == o.numdisks
        step(d) == IF (d + 1) % n = s.parity THEN (d + 2) % n ELSE (d + 1) % n
        dev[j \in 0..n - 1] == IF j = 0 THEN s.devno ELSE step(dev[j - 1])
        turns == (s.blkno + o.stripeunit) % o.parityunit = 0
    IN [table  |-> s.table \o [j \in 1..n |-> [devno |-> IF j = n THEN s.parity ELSE dev[j - 1],
                                               blkno |-> s.blkno]],
        blkno  |-> s.blkno + o.stripeunit,
        devno  |-> IF turns THEN s.parity ELSE dev[n - 1],
        parity |-> IF turns THEN (s.parity + (n - 1)) % n ELSE s.parity]

TableLeftSym(o, stripes) ==
    LET rows[i \in 0..stripes] ==
          IF i = 0 THEN [table |-> <<>>, blkno |-> 0, devno |-> 0, parity |-> o.numdisks - 1]
                   ELSE RowAfter(o, rows[i - 1])
    IN rows[stripes].table

\* logorg_create_table
CreateTable(o) ==
    LET stripes == IF o.reduntype = "PARITY_DISK" THEN 1
                   ELSE (o.numdisks * o.parityunit) \div o.stripeunit
    IN [o EXCEPT !.tablestripes = stripes, !.tablesize = stripes * o.stripeunit,
                 !.partsperstripe = o.numdisks - 1,
                 !.table = IF o.reduntype = "PARITY_DISK"
                             THEN [i \in 1..o.numdisks |-> [devno |-> i - 1, blkno |-> 0]]
                             ELSE TableLeftSym(o, stripes)]

Entry(o, row, unit) == o.table[(row % o.tablestripes) * (o.partsperstripe + 1) + unit + 1]

\* Mutant: the table is not repeated.
StartOf_Once(o, row) == Entry(o, row, 0).blkno

StartOf(o, row) == (row \div o.tablestripes) * o.tablesize + Entry(o, row, 0).blkno

\* The units of the last row have what is left of the disks.
SizeOf(o, row) == IF StartOf(o, row) = o.numfull THEN o.actualblksperpart - o.numfull ELSE o.stripeunit

(* The parts of a request *)

\* Where the request starts.  In a last row that is shorter the start of the
\* disks' blocks is taken off, as if it were that of the request's.
FirstPart(o, blkno, bcount) ==
    LET row    == (blkno \div o.stripeunit) \div o.partsperstripe
        size   == SizeOf(o, row)
        b      == IF StartOf(o, row) = o.numfull THEN blkno - o.numfull ELSE blkno
        offset == b % size
    IN [row |-> row, unit |-> (b \div size) % o.partsperstripe, offset |-> offset,
        count |-> Least(bcount, size - offset)]

NextPart(o, p, left) ==
    LET row == IF p.unit + 1 = o.partsperstripe THEN p.row + 1 ELSE p.row
    IN [row |-> row, unit |-> (p.unit + 1) % o.partsperstripe, offset |-> 0,
        count |-> Least(left, SizeOf(o, row))]

\* The loop of logorg_parity_table
Parts(o, blkno, bcount) ==
    LET first == FirstPart(o, blkno, bcount)
        cut[k \in 0..bcount] ==
          IF k = 0 THEN [parts |-> <<first>>, left |-> bcount - first.count]
          ELSE LET s == cut[k - 1]
               IN IF s.left = 0 THEN s
                  ELSE LET p == NextPart(o, Last(s.parts), s.left)
                       IN [parts |-> Append(s.parts, p), left |-> s.left - p.count]
    IN cut[bcount].parts

\* The parts of each row; two that share a row but no offset are treated apart.
Groups(o, parts) ==
    LET first == parts[1].row
        last  == Last(parts).row
    IN IF first = last /\ Len(parts) = 2 /\ parts[1].offset > parts[2].count
         THEN [i \in 1..2 |-> <<parts[i]>>]
         ELSE [i \in 1..(last - first) + 1 |->
                 SelectSeq(parts, LAMBDA p : p.row = (first + i) - 1)]

\* The parity of one part is as long as it, that of more a whole unit.
ParityPart(o, g) ==
    IF Len(g) = 1 THEN [g[1] EXCEPT !.unit = o.partsperstripe]
    ELSE [row |-> g[1].row, unit |-> o.partsperstripe, offset |-> 0, count |-> SizeOf(o, g[1].row)]

(* The reads that a write needs first *)

\* logorg_parity_table_read_old
ReadOld(o, g) == ToSet(g) \cup {ParityPart(o, g)}

\* What the part p leaves of the blocks from..to - 1 of its unit
Remainder(p, from, to) ==
    {q \in {[p EXCEPT !.offset = from, !.count = p.offset - from],
            [p EXCEPT !.offset = p.offset + p.count, !.count = (to - p.offset) - p.count]} : q.count > 0}

\* logorg_parity_table_recon: the group is taken to begin at unit unitno.
Recon(o, g, unitno) ==
    LET p == ParityPart(o, g)
    IN UNION {Remainder(g[i], p.offset, p.offset + p.count) : i \in DOMAIN g}
       \cup {[p EXCEPT !.unit = u] : u \in (0..o.partsperstripe - 1) \ (unitno..unitno + Len(g) - 1)}

\* A row whose units are all touched is taken for one that is written as a
\* whole; of the others only the first and the last group can be partial.
ReadsFirst(o, groups, i) ==
    LET g == groups[i]
    IN IF i \notin {1, Len(groups)} \/ Len(g) = o.partsperstripe THEN {}
       ELSE IF Len(g) < o.rmwpoint THEN ReadOld(o, g)
       ELSE Recon(o, g, IF i = 1 THEN g[1].unit ELSE 0)

(* The accesses *)

\* ids: the groups whose parity is written, or helped to compute
OnDisk(o, p, ids) ==
    [devno |-> Entry(o, p.row, p.unit).devno, blkno |-> StartOf(o, p.row) + p.offset,
     bcount |-> p.count, ids |-> ids]

\* Mutant: joining forgets what the second access was for.
Joined_Forgets(A) ==
    LET starts == {a \in A : ~\E b \in A : /\ b.devno = a.devno /\ b.blkno < a.blkno
                                           /\ a.blkno - (b.blkno + b.bcount) <= SeqGive}
        run(s) == {a \in A : /\ a.devno = s.devno /\ a.blkno >= s.blkno
                             /\ ~\E t \in starts : t.devno = s.devno /\ t.blkno \in s.blkno + 1..a.blkno}
    IN {[s EXCEPT !.bcount = Max({a.blkno + a.bcount : a \in run(s)}) - s.blkno] : s \in starts}

\* logorg_join_seqreqs, on every disk: neighbours become one access, with what
\* lies between them.
Joined(A) ==
    LET starts == {a \in A : ~\E b \in A : /\ b.devno = a.devno /\ b.blkno < a.blkno
                                           /\ a.blkno - (b.blkno + b.bcount) <= SeqGive}
        run(s) == {a \in A : /\ a.devno = s.devno /\ a.blkno >= s.blkno
                             /\ ~\E t \in starts : t.devno = s.devno /\ t.blkno \in s.blkno + 1..a.blkno}
    IN {[s EXCEPT !.bcount = Max({a.blkno + a.bcount : a \in run(s)}) - s.blkno,
                  !.ids = UNION {a.ids : a \in run(s)}] : s \in starts}

AsAccess(a, read) == Access(a.devno, a.blkno, a.bcount, read)

\* The lists of the disks, the last disk first
Listed(A, read) ==
    LET later(a, b) == a.devno > b.devno \/ (a.devno = b.devno /\ a.blkno > b.blkno)
    IN SetToSortSeq({AsAccess(a, read) : a \in A}, later)

\* logorg_parity_table_dodeps_nosync: a write waits for the reads of its disk
\* and those its parity is computed from.
Precedes(o, a, w) == o.writesync \/ a.devno = w.devno \/ a.ids \cap w.ids # {}

\* A list of accesses that ends with a null pointer: it does not lead back to
\* the request, where logorg_maprequest stops.
Unclosed == [sent |-> <<>>, depend |-> {}, waits |-> <<>>]

\* logorg_parity_table_dodeps_sync, _nosync.  With synchronous writes and
\* nothing to be read first the writes are left in such a list.
WithDependencies(o, reads, writes) ==
    LET before(w) == {a \in reads : Precedes(o, a, w)}
        held      == {w \in writes : before(w) # {}}
    IN IF o.writesync /\ reads = {} THEN Unclosed
       ELSE [sent   |-> Listed(reads, TRUE) \o Listed(writes \ held, FALSE),
             depend |-> {[devno |-> a.devno, blkno |-> a.blkno,
                          deps |-> {AsAccess(w, FALSE) : w \in {v \in held : Precedes(o, a, v)}}] : a \in reads},
             waits  |-> [d \in {AsAccess(w, FALSE) : w \in held} |->
                           Cardinality(before(CHOOSE w \in held : AsAccess(w, FALSE) = d))]]

\* logorg_parity_table
ParityTable(o, r) ==
    LET blkno  == IF o.addrbyparts THEN r.blkno + r.devno * o.blksperpart ELSE r.blkno
        parts  == Parts(o, blkno, r.bcount)
        groups == Groups(o, parts)
        data   == {OnDisk(o, p, {}) : p \in ToSet(parts)}
        parity == {OnDisk(o, ParityPart(o, groups[i]), IF ReadsFirst(o, groups, i) = {} THEN {} ELSE {i})
                     : i \in DOMAIN groups}
        reads  == UNION {{OnDisk(o, p, {i}) : p \in ReadsFirst(o, groups, i)} : i \in DOMAIN groups}
    IN IF r.read THEN [sent |-> Listed(Joined(data), TRUE), depend |-> {}, waits |-> <<>>]
       ELSE WithDependencies(o, Joined(reads), Joined(data \cup parity))
=============================================================================
