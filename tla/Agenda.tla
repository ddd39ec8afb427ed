------------------------------- MODULE Agenda -------------------------------
(***************************************************************************)
(* The internal event queue intq of disksim.c.  Its times are abstracted:   *)
(* soon holds, in order, the events due at the current instant, later those *)
(* due after it, whose order is left open.  An agenda is a value; the       *)
(* operators return the agenda after the call.                              *)
(***************************************************************************)
EXTENDS Naturals, Sequences, FiniteSets, SequencesExt, Selection

EmptyAgenda == [soon |-> <<>>, later |-> {}]

Put(q, e, delay) ==
    IF delay = 0 THEN [q EXCEPT !.soon = Append(@, e)] ELSE [q EXCEPT !.later = @ \cup {e}]

Pending(q, e) == e \in q.later \/ \E i \in DOMAIN q.soon : q.soon[i] = e

\* addtointq, of the events of s at the places K one after the other
PutAll(q, s, K, delay) ==
    [soon  |-> q.soon \o Selected(s, {i \in K : delay[i] = 0}),
     later |-> q.later \cup {s[i] : i \in {j \in K : delay[j] # 0}}]

\* removefromintq, of an event that is pending.  Mutant: it stays in the queue.
Cancel_Not(q, e) == q

Cancel(q, e) ==
    IF e \in q.later
      THEN [q EXCEPT !.later = @ \ {e}]
      ELSE [q EXCEPT !.soon = RemoveAt(@, CHOOSE i \in DOMAIN @ : @[i] = e)]

\* Whether the event is due now, and what is left of its delay
TimeLeft(q, e) == IF e \in q.later THEN 1 ELSE 0

\* Time moves to the first of the later events; up to atonce of them share it.
Advance(q, atonce) ==
    UNION {{[soon |-> s, later |-> q.later \ S] : s \in SetToSeqs(S)} :
              S \in {T \in SUBSET q.later : Cardinality(T) \in 1..atonce}}

\* getfromintq: the agendas whose first event is the next event to happen
Turns(q, atonce) == IF q.soon # <<>> THEN {q} ELSE Advance(q, atonce)

Rest(q) == [q EXCEPT !.soon = Tail(@)]
=============================================================================
