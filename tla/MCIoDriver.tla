----------------------------- MODULE MCIoDriver -----------------------------
(***************************************************************************)
(* A small instance of IoDriver: two devices, 11 and 13, behind a smart     *)
(* controller that takes two requests of two blocks each, and a device, 12, *)
(* that takes one request and has a queue of its own.                       *)
(***************************************************************************)
EXTENDS IoDriver

Devno  == [r \in Reqs |-> CASE r \in {1, 2} -> 11 [] r \in {3, 6} -> 13 [] OTHER -> 12]
Bcount == [r \in Reqs |-> CASE r = 1 -> 4 [] r = 3 -> 3 [] OTHER -> 1]
Queuectlr == [d \in Devs |-> IF d = 12 THEN NoCtlr ELSE 21]
Max     == [x \in Devs \cup Ctlrs |-> IF x = 12 THEN 1 ELSE 2]
Maxsize == [c \in Ctlrs |-> 2]

\* Two read-modify-writes: when 7 is done 5 is due on the same device, and when
\* 4 is done 6 is on another.
Dependents == [r \in Reqs |-> IF r = 7 THEN {5} ELSE IF r = 4 THEN {6} ELSE {}]
=============================================================================
