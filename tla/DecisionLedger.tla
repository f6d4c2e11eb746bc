--------------------------- MODULE DecisionLedger ---------------------------
(***************************************************************************)
(* Which decision of the ledger automation/decisions/ is in force:         *)
(* active_security and active_release of ci/decisions/common.py.  A        *)
(* decision names the decisions it supersedes; the one that no other       *)
(* supersedes is in force, and two of those block everything until a later *)
(* decision supersedes both.                                               *)
(*                                                                         *)
(* A decision is an immutable document named by its hash, so the documents *)
(* that could ever be proposed are constants and a ledger is a set of      *)
(* them.  A release decision here is about the one product in question;    *)
(* the functions skip the decisions about other products.                  *)
(***************************************************************************)
EXTENDS FiniteSets, Naturals

CONSTANTS
  Decision,   \* decision documents
  Kind,       \* per decision: its kind
  Disposition,\* per decision: "accepted", "rejected" or "revoked"
  Parents,    \* per decision: the decisions it supersedes
  NoDecision, \* no decision is in force
  Invalid     \* the ledger is refused: the functions raise

SecurityKinds == {"security-findings", "security-revocation"}

ASSUME LedgerAssumption ==
  /\ Kind \in [Decision -> SecurityKinds \cup {"release-product"}]
  /\ Disposition \in [Decision -> {"accepted", "rejected", "revoked"}]
  /\ Parents \in [Decision -> SUBSET Decision]
  /\ NoDecision \notin Decision /\ Invalid \notin Decision
  /\ IsFiniteSet(Decision)

Superseded(candidates) == UNION {Parents[d] : d \in candidates}

Leaves(candidates) == candidates \ Superseded(candidates)

\* visit(): no decision reaches itself; some document of every set of them
\* has no parent in that set.
Acyclic(candidates) ==
  \A S \in SUBSET candidates : S # {} => \E d \in S : Parents[d] \cap S = {}

\* Parents are decisions of the same kind and ledger; a security revocation
\* has exactly one, an accepted one.
WellFormed(candidates) ==
  /\ \A d \in candidates : Parents[d] \subseteq candidates \ {d}
  /\ \A d \in candidates : Kind[d] = "security-revocation" =>
       /\ Disposition[d] = "revoked" /\ Cardinality(Parents[d]) = 1
       /\ \A p \in Parents[d] : Disposition[p] = "accepted"
  /\ Acyclic(candidates)

\* The decision in force.  (Faulty variant: of two unsuperseded decisions an
\* acceptance wins.)
ActiveAccepted(candidates) ==
  LET leaves == Leaves(candidates)
      accepted == {d \in leaves : Disposition[d] = "accepted"}
  IN IF ~ WellFormed(candidates) THEN Invalid
     ELSE IF leaves = {} THEN NoDecision
     ELSE CHOOSE d \in leaves : accepted # {} => d \in accepted

Active(candidates) ==
  IF ~ WellFormed(candidates) \/ Cardinality(Leaves(candidates)) > 1 THEN Invalid
  ELSE IF Leaves(candidates) = {} THEN NoDecision
  ELSE CHOOSE d \in Leaves(candidates) : TRUE

SecurityRecords(ledger) == {d \in ledger : Kind[d] \in SecurityKinds}
ReleaseRecords(ledger) == {d \in ledger : Kind[d] = "release-product"}

ActiveSecurity(ledger) == Active(SecurityRecords(ledger))
ActiveRelease(ledger) == Active(ReleaseRecords(ledger))

Accepts(d) == d \in Decision /\ Disposition[d] = "accepted"
=============================================================================
