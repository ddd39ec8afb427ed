-------------------------- MODULE RequestPoolProofs --------------------------
(***************************************************************************)
(* A request pool hands no request out twice.  A queue that implements the  *)
(* pool (ImplementsPool of IoQueueProperties) inherits this.                *)
(***************************************************************************)
EXTENDS RequestPool, TLAPS

LEMMA PoolNextHandedOutOnce == HandedOutOnce /\ [PoolNext]_poolvars => HandedOutOnce'
<1> SUFFICES ASSUME HandedOutOnce, [PoolNext]_poolvars PROVE HandedOutOnce'
  OBVIOUS
<1> USE DEF HandedOutOnce
<1>1. ASSUME NEW r \in Reqs, Add(r) PROVE HandedOutOnce'
  \* r is in no batch, so it meets none by waiting
  <2>1. \A S \in batches : r \notin S
    BY <1>1 DEF Add, Present
  <2> QED BY <1>1, <2>1 DEF Add
<1>2. ASSUME NEW S \in SUBSET Reqs, HandOut(S) PROVE HandedOutOnce'
  \* no other batch meets S: S was waiting until now
  <2>1. \A T \in batches : T \cap S = {}
    BY <1>2 DEF HandOut
  <2> QED BY <1>2, <2>1 DEF HandOut
<1>3. ASSUME NEW S \in batches, NEW O \in SUBSET waiting, Complete(S, O)
      PROVE  HandedOutOnce'
  BY <1>3 DEF Complete
<1>4. CASE UNCHANGED poolvars
  BY <1>4 DEF poolvars
<1> QED BY <1>1, <1>2, <1>3, <1>4 DEF PoolNext

\* No request is in two batches, or waits while it is in one.
THEOREM PoolHandsOutOnce == PoolSpec => []HandedOutOnce
<1>1. PoolInit => HandedOutOnce
  BY DEF PoolInit, HandedOutOnce
<1> QED BY <1>1, PoolNextHandedOutOnce, PTL DEF PoolSpec
=============================================================================
