-------------------------- MODULE MCPublicationGate --------------------------
(* A ledger with an acceptance a1, two decisions that both supersede it (a  *)
(* wider acceptance a2 and a revocation r1), a reconciliation a3 of those,  *)
(* and a release approval l1 with its revocation l2 and its successor l3.    *)
EXTENDS PublicationGate, TLC

CONSTANTS a1, a2, a3, r1, l1, l2, l3

MCKind ==
  a1 :> "security-findings" @@ a2 :> "security-findings" @@ a3 :> "security-findings" @@
  r1 :> "security-revocation" @@ l1 :> "release-product" @@ l2 :> "release-product" @@
  l3 :> "release-product"
MCDisposition ==
  a1 :> "accepted" @@ a2 :> "accepted" @@ a3 :> "accepted" @@ r1 :> "revoked" @@
  l1 :> "accepted" @@ l2 :> "revoked" @@ l3 :> "accepted"
MCParents ==
  a1 :> {} @@ a2 :> {a1} @@ a3 :> {a2, r1} @@ r1 :> {a1} @@ l1 :> {} @@ l2 :> {l1} @@ l3 :> {l1}
=============================================================================
