-------------------------- MODULE MCDecisionQueue --------------------------
(* An acceptance a1, a wider acceptance a2 and a revocation r1 that both    *)
(* supersede it, and a reconciliation a3 of a2 and r1.                      *)
EXTENDS DecisionQueue, TLC

CONSTANTS a1, a2, a3, r1

MCKind == [d \in Decision |-> IF d = r1 THEN "security-revocation" ELSE "security-findings"]
MCDisposition == [d \in Decision |-> IF d = r1 THEN "revoked" ELSE "accepted"]
MCParents ==
  LET all == a1 :> {} @@ a2 :> {a1} @@ a3 :> {a2, r1} @@ r1 :> {a1}
  IN [d \in Decision |-> all[d]]
=============================================================================
