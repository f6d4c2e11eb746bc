--------------------------- MODULE ReviewAuthority ---------------------------
(***************************************************************************)
(* How native pull request reviews become a decision: effective_review of  *)
(* ci/decisions/review_protocol.py, approval of                            *)
(* ci/decisions/decision_authority.py and review_fingerprint of            *)
(* ci/decisions/check.py, as operators on the sequence of reviews of one   *)
(* pull request.  A review's position is its id, so later reviews have     *)
(* larger ids.  Bots' reviews, which every reader skips, are left out.  A  *)
(* Comment review is "approve" or "withdraw" when its whole body is that   *)
(* command naming the commit the review was submitted on, else "comment".  *)
(***************************************************************************)
EXTENDS Naturals, Sequences, FiniteSetsExt

CONSTANTS Reviewer,  \* human reviewers
          Revision       \* head commits of the pull request

Native == {"APPROVED", "CHANGES_REQUESTED", "DISMISSED"}
ReviewState == Native \cup {"approve", "withdraw", "comment"}
Review == [user : Reviewer, commit : Revision, state : ReviewState]

\* A native review counts whatever its commit, a command on the head it
\* names, and prose not at all.
Ineffective == "none"

EffectiveState(r, head) ==
  CASE r.state \in Native                     -> r.state
    [] r.state = "approve" /\ r.commit = head  -> "APPROVED"
    [] r.state = "withdraw" /\ r.commit = head -> "DISMISSED"
    [] OTHER                                  -> Ineffective

EffectiveIds(reviews, head) ==
  {i \in DOMAIN reviews : EffectiveState(reviews[i], head) # Ineffective}

\* A person's latest effective review replaces all of their earlier ones.
Latest(reviews, head) ==
  {i \in EffectiveIds(reviews, head) :
     \A j \in EffectiveIds(reviews, head) :
       reviews[j].user = reviews[i].user => j <= i}

Vetoes(reviews, qualified, head) ==
  {i \in Latest(reviews, head) :
     /\ reviews[i].user \in qualified
     /\ reviews[i].state = "CHANGES_REQUESTED"}

\* The approvals that count: of a qualified person, on exactly this head.
\* (Faulty variant: an approval of any earlier head still counts.)
AcceptedAnyHead(reviews, qualified, head) ==
  {i \in Latest(reviews, head) :
     /\ reviews[i].user \in qualified
     /\ EffectiveState(reviews[i], head) = "APPROVED"}

Accepted(reviews, qualified, head) ==
  {i \in Latest(reviews, head) :
     /\ reviews[i].user \in qualified
     /\ EffectiveState(reviews[i], head) = "APPROVED"
     /\ reviews[i].commit = head}

Approved(reviews, qualified, head) ==
  /\ Vetoes(reviews, qualified, head) = {}
  /\ Accepted(reviews, qualified, head) # {}

\* The approval with the largest id; its author's standing is read once more
\* before approval() returns.
Selected(reviews, qualified, head) ==
  reviews[Max(Accepted(reviews, qualified, head))].user

\* What review_fingerprint hashes: every review that could count.  A body
\* edited between a command and prose changes it, and so does a dismissal.
Fingerprint(reviews, head) ==
  {<<i, reviews[i]>> : i \in EffectiveIds(reviews, head)}
=============================================================================
