------------------------------ MODULE MCLogOrg ------------------------------
(***************************************************************************)
(* Organisations of a few disks of 5 or 12 blocks: every scheme, with units  *)
(* that do and do not fill the disks, and requests from within a unit to    *)
(* more than a stripe of units.                                            *)
(***************************************************************************)
EXTENDS LogOrg

Base == [maptype |-> "ASIS", reduntype |-> "NO_REDUN", addrbyparts |-> TRUE, arraydisk |-> 9,
         numdisks |-> 3, actualnumdisks |-> 3, copies |-> 2, stripeunit |-> 2, parityunit |-> 1,
         rottype |-> "LEFT", writesync |-> FALSE, copychoice |-> "PRIMARY",
         blksperpart |-> 5, actualblksperpart |-> 5, numfull |-> 0, firstdisk |-> 0,
         rmwpoint |-> 2, partsperstripe |-> 0, tablestripes |-> 0, tablesize |-> 0, table |-> <<>>]

Striped  == [Base EXCEPT !.maptype = "STRIPED", !.addrbyparts = FALSE]
Shadowed == [Striped EXCEPT !.reduntype = "SHADOWED", !.numdisks = 4, !.actualnumdisks = 4]
Rotated  == [Base EXCEPT !.reduntype = "PARITY_ROTATED", !.blksperpart = 12, !.actualblksperpart = 12]

\* Four disks of 18 blocks: four rows of whole units and one of two blocks
Table == [Striped EXCEPT !.reduntype = "PARITY_ROTATED", !.numdisks = 4, !.actualnumdisks = 4,
                         !.stripeunit = 4, !.parityunit = 4, !.blksperpart = 18, !.actualblksperpart = 18]
TableDisk == [Table EXCEPT !.reduntype = "PARITY_DISK", !.writesync = TRUE, !.stripeunit = 2,
                           !.blksperpart = 9, !.actualblksperpart = 9]

\* Parity units of two units, addressed by disks
TableByParts == [Table EXCEPT !.addrbyparts = TRUE, !.stripeunit = 2, !.writesync = TRUE]

Configurations ==
    { Table, TableDisk, TableByParts,
      Striped,
      [Striped EXCEPT !.stripeunit = 0, !.reduntype = "PARITY_DISK"],
      [Striped EXCEPT !.stripeunit = 0, !.addrbyparts = TRUE],
      [Shadowed EXCEPT !.copychoice = "ROUNDROBIN"],
      [Shadowed EXCEPT !.copychoice = "RANDOM", !.addrbyparts = TRUE],
      [Base EXCEPT !.reduntype = "PARITY_DISK", !.writesync = TRUE],
      [Base EXCEPT !.reduntype = "PARITY_DISK"],
      [Rotated EXCEPT !.writesync = TRUE],
      [Rotated EXCEPT !.rottype = "RIGHT", !.parityunit = 2] }

Sizes(o) == CASE o.reduntype = "PARITY_TABLE" -> {1, 2, 3, 7, 12, 16}
              [] o.maptype = "STRIPED"          -> {1, 3, 8}
              [] OTHER                          -> {1, 2, 4}

\* The blocks of the array that a request names, and the rows they are in
Blocks(o, r) ==
    LET first == r.blkno + IF o.addrbyparts THEN (r.devno - o.firstdisk) * o.blksperpart ELSE 0
    IN first..first + r.bcount - 1
RowSize(o) == o.stripeunit * o.partsperstripe
Row(o, i)  == i * RowSize(o)..(i * RowSize(o) + RowSize(o)) - 1

\* A row of which every unit is touched but not every block, and a request that
\* starts in a last row that is shorter: logorg_parity_table errs there.
PartlyWhole(o, r) ==
    \E i \in {b \div RowSize(o) : b \in Blocks(o, r)} :
        LET part == Blocks(o, r) \cap Row(o, i)
        IN /\ Cardinality({b \div o.stripeunit : b \in part}) = o.partsperstripe
           /\ part # Row(o, i)
InShortRow(o, r) == \A b \in Blocks(o, r) : b >= o.numfull * o.partsperstripe

\* A synchronous write of whole rows, of which logorg_parity_table_dodeps_sync
\* leaves the list open: logorg_maprequest follows a null pointer.
WholeRows(o, r) == \A i \in {b \div RowSize(o) : b \in Blocks(o, r)} : Row(o, i) \subseteq Blocks(o, r)
LeftOpen(o, r)  == o.writesync /\ WholeRows(o, r)

Sound(o, r) ==
    o.reduntype = "PARITY_TABLE" => /\ ~InShortRow(o, r)
                                    /\ r.read \/ (~PartlyWhole(o, r) /\ ~LeftOpen(o, r))

\* All the requests of these sizes that an organisation covers; then, but for
\* those with a table, one that meets it, of the first block of one of two disks.
WorkloadOf(o, n) ==
    {r \in [devno : (o.firstdisk..o.firstdisk + 2) \cup {o.arraydisk}, blkno : 0..o.actualblksperpart * 3,
            bcount : Sizes(o), read : BOOLEAN] :
        /\ n > 1 => r.blkno = 0 /\ r.bcount = 1 /\ r.devno # o.firstdisk + 1 /\ o.reduntype # "PARITY_TABLE"
        /\ Covers(o, r) /\ Sound(o, r)
        /\ o.addrbyparts => r.blkno + r.bcount <= o.blksperpart}

\* What LogOrgProofs supposes, of the organisations above
ASSUME FitInRuns == FirstAtZero /\ RequestsFit /\ TablesFit
=============================================================================
