----------------------------- MODULE DecisionLog -----------------------------
(***************************************************************************)
(* What the ledger automation/decisions/ on protected main promises its    *)
(* readers, with no proposals, checks or merge queue: decisions are added  *)
(* one at a time, each names only decisions that are there already, and no *)
(* decision ever changes or disappears.                                    *)
(***************************************************************************)
EXTENDS DecisionLedger

VARIABLE main   \* the decisions on protected main

Readable(ledger) == WellFormed(SecurityRecords(ledger)) /\ WellFormed(ReleaseRecords(ledger))

Init == main \in SUBSET Decision /\ Readable(main)

Add(d) ==
  /\ d \notin main /\ Parents[d] \subseteq main
  /\ main' = main \cup {d}
  /\ Readable(main')

Next == \E d \in Decision : Add(d)

Spec == Init /\ [][Next]_main
=============================================================================
