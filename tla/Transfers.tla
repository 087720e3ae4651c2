----------------------------- MODULE Transfers -----------------------------
(***************************************************************************)
(* What the clients of the I2C driver rely on: a transfer that was asked   *)
(* for is reported once, in the order of asking, as done or as failed.     *)
(***************************************************************************)
EXTENDS Naturals, Sequences

VARIABLES
  asked,  \* number of transfers asked for
  reports \* the reports so far

Init == asked = 0 /\ reports = << >>

Ask == asked' = asked + 1 /\ UNCHANGED reports

Report ==
  /\ Len(reports) < asked
  /\ \E ok \in BOOLEAN :
       reports' = Append(reports, [t |-> Len(reports) + 1, ok |-> ok])
  /\ UNCHANGED asked

Next == Ask \/ Report

(* Every transfer is reported in the end. *)
Spec == Init /\ [][Next]_<<asked, reports>> /\ WF_<<asked, reports>>(Report)
=============================================================================
