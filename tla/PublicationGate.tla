--------------------------- MODULE PublicationGate ---------------------------
(***************************************************************************)
(* One live admission gate: config and _gate of ci/decisions/common.py,    *)
(* run before every public write.  It reads GitHub call by call while main *)
(* moves, reviewers gain and lose standing, the ruleset is edited and      *)
(* evidence expires, and reads the ledger twice so that it admits nothing  *)
(* on the strength of a decision that was no longer in force.              *)
(*                                                                         *)
(* Abstracted: attestation, producer and coverage checks depend only on    *)
(* immutable bytes, so "sound evidence" is a constant; reading main and    *)
(* then its tree is one read, because a revision's tree is immutable; any  *)
(* failing call blocks the gate, which is what every failing check does.   *)
(***************************************************************************)
EXTENDS DecisionLedger

CONSTANTS
  Policy,       \* policy files main may hold
  Configured,   \* the one the gate was started with
  Enabled,      \* the policies that enable publication
  Covering,     \* the acceptances that cover the scanned findings
  MaxChanges    \* bound: changes around the gate

ASSUME GateAssumption ==
  /\ Configured \in Policy /\ Enabled \subseteq Policy
  /\ Covering \subseteq Decision /\ MaxChanges \in Nat

VARIABLES
  revision,   \* protected main
  records,    \* its ledger
  policy,     \* its policy file
  standing,   \* decisions whose pull request's approval holds live
  enforced,   \* main's rules require the authority check
  fresh,      \* the scan evidence has not expired
  changes,
  gate

world == <<revision, records, policy, standing, enforced, fresh, changes>>
gateVars == <<world, gate>>

GatePoint == {"start", "config", "enforce", "ledger", "scans", "admission",
          "product", "product again", "again", "security", "reviewer", "reviewer again",
          "main", "policy", "rules", "passed", "blocked"}

\* A gate: where it is, what its two ledger reads saw, the release decision it
\* chose; and, as history, whether standing changed after the second read.
Gate == [at : GatePoint, first : SUBSET Decision, second : SUBSET Decision,
         pinned : Nat, policy : Policy, release : Decision \cup {NoDecision},
         shaken : BOOLEAN]

ClosedUnderParents(ledger) == \A d \in ledger : Parents[d] \subseteq ledger

\* main holds some ledger already; proposals name parents they read there.
GateInit ==
  /\ revision = 0 /\ records \in {l \in SUBSET Decision : ClosedUnderParents(l)}
  /\ policy \in Policy /\ standing = Decision /\ enforced = TRUE /\ fresh = TRUE
  /\ changes = 0
  /\ gate = [at |-> "start", first |-> {}, second |-> {}, pinned |-> 0,
             policy |-> Configured, release |-> NoDecision, shaken |-> FALSE]

------------------------------------------------------------------------------
(* The gate.                                                               *)

GateAt(point) == gate.at = point
Require(point, ok, next) ==
  /\ GateAt(point) /\ UNCHANGED world
  /\ gate' = IF ok THEN next ELSE [gate EXCEPT !.at = "blocked"]
Onto(point) == [gate EXCEPT !.at = point]

\* config(live, enabled): the check is enforced, main has the policy this gate
\* was started with, and that enables publication.
Start == Require("start", enforced, Onto("config"))
Configure == Require("config", policy = Configured /\ Configured \in Enabled, Onto("enforce"))

\* _gate: the rules once more, and the first ledger read.
Enforce == Require("enforce", enforced, Onto("ledger"))
ReadLedger == Require("ledger", TRUE, [gate EXCEPT !.at = "scans", !.first = records])

Scans == Require("scans", fresh, Onto("admission"))

Admission ==
  LET decision == ActiveSecurity(gate.first)
  IN Require("admission", Accepts(decision) /\ decision \in Covering, Onto("product"))

\* verify_proposal: the proposal is merged and unchanged on main as it is at this
\* call, and somebody with standing approved its head.  What is merged no longer
\* changes, so its pull request read again at the end says the same.
Authorized(d) == d \in records /\ d \in standing

\* The exact product's release decision, whose approval must hold live.
Product ==
  LET release == ActiveRelease(gate.first)
  IN Require("product", Accepts(release) /\ Authorized(release),
           [gate EXCEPT !.at = "product again", !.release = release])

\* verify_proposal ends with the reviewer's standing once more.
Confirm(here, next) == Require(here, gate.release \in standing, Onto(next))

\* (Faulty variant: a ledger that changed meanwhile is accepted.)
ReadAgainUncompared ==
  Require("again", TRUE,
        [gate EXCEPT !.at = "security", !.second = records, !.pinned = revision,
                     !.policy = policy])

ReadAgain ==
  Require("again", records = gate.first,
        [gate EXCEPT !.at = "security", !.second = records, !.pinned = revision,
                     !.policy = policy])

Security == Require("security", ActiveSecurity(gate.second) # Invalid, Onto("reviewer"))

Reviewer == Require("reviewer", Authorized(gate.release), Onto("reviewer again"))

Main == Require("main", revision = gate.pinned, Onto("policy"))

PolicyUnchanged ==
  Require("policy", gate.policy = Configured /\ gate.policy \in Enabled, Onto("rules"))

Rules == Require("rules", enforced, Onto("passed"))

GateStep ==
  \/ Start \/ Configure \/ Enforce \/ ReadLedger \/ Scans \/ Admission
  \/ Product \/ Confirm("product again", "again") \/ ReadAgain \/ Security
  \/ Reviewer \/ Confirm("reviewer again", "main") \/ Main \/ PolicyUnchanged \/ Rules

\* A call fails.
Raise == gate.at \notin {"passed", "blocked"} /\ gate' = Onto("blocked") /\ UNCHANGED world

------------------------------------------------------------------------------
(* Everything around it.                                                   *)

Change == changes < MaxChanges /\ changes' = changes + 1

MainMoves(ledger, file) ==
  /\ Change /\ revision' = revision + 1
  /\ records' = ledger /\ policy' = file
  /\ UNCHANGED <<standing, enforced, fresh, gate>>

\* A decision pull request, a policy change or any other commit is merged.
MergeDecision(d) ==
  /\ d \notin records /\ Parents[d] \subseteq records
  /\ MainMoves(records \cup {d}, policy)
MergePolicy(file) == file # policy /\ MainMoves(records, file)
MergeOther == MainMoves(records, policy)

\* A reviewer loses or regains standing, or reviews the decision anew.
ChangeStanding(d) ==
  /\ Change
  /\ standing' = IF d \in standing THEN standing \ {d} ELSE standing \cup {d}
  /\ gate' = [gate EXCEPT !.shaken =
        @ \/ gate.at \in {"security", "reviewer", "reviewer again", "main", "policy", "rules"}]
  /\ UNCHANGED <<revision, records, policy, enforced, fresh>>

EditRules ==
  /\ Change /\ enforced' = ~ enforced
  /\ UNCHANGED <<revision, records, policy, standing, fresh, gate>>

Expire ==
  /\ Change /\ fresh /\ fresh' = FALSE
  /\ UNCHANGED <<revision, records, policy, standing, enforced, gate>>

Around ==
  \/ \E d \in Decision : MergeDecision(d) \/ ChangeStanding(d)
  \/ \E file \in Policy : MergePolicy(file)
  \/ MergeOther \/ EditRules \/ Expire

GateNext == GateStep \/ Raise \/ Around
GateSpec == GateInit /\ [][GateNext]_gateVars

------------------------------------------------------------------------------
(* Properties.                                                             *)

\* Types; besides, a gate pins no revision that main has not reached, and the
\* release decision it goes on with is a decision.
GateTypeOK ==
  /\ revision \in Nat /\ records \subseteq Decision /\ policy \in Policy
  /\ standing \subseteq Decision /\ enforced \in BOOLEAN /\ fresh \in BOOLEAN
  /\ changes \in 0 .. MaxChanges /\ gate \in Gate
  /\ gate.pinned <= revision

\* Main, as it is now, admits the product.
InForce ==
  /\ Accepts(ActiveSecurity(records)) /\ ActiveSecurity(records) \in Covering
  /\ Accepts(ActiveRelease(records))
  /\ policy = Configured /\ Configured \in Enabled

\* A passing gate was right at one single moment: when it read main for the
\* last time, the decisions, the release decision it chose and the policy in
\* force on main admitted the product, and the release approval held then
\* unless standing changed after the second ledger read.  Whatever was merged,
\* revoked or withdrawn before, between its reads, blocks it (common.py: the
\* final refresh "catches concurrent additions/revocations").
RightAtLastRead ==
  [][GateAt("main") /\ GateAt("policy")' /\ gate'.policy = Configured =>
       /\ InForce
       /\ gate.release = ActiveRelease(records)
       /\ gate.release \in standing \/ gate.shaken]_gateVars

\* No gate passes against a revocation or rejection that is on main and that no
\* later decision supersedes, also when another acceptance was merged next to
\* it: two decisions that both claim to be in force pass nothing.
NeverAgainstRevocation ==
  gate.at = "passed" =>
    \A r \in gate.second :
      Disposition[r] # "accepted" => \E d \in gate.second : r \in Parents[d]
=============================================================================
