-------------------------- MODULE AttestationSession --------------------------
(***************************************************************************)
(* ci/decisions/attestation_session.py: a publisher's private directory of *)
(* attestation bundles.  A kept bundle saves the download only: each use   *)
(* runs the verifier again, and compares the subject, the verifier and the *)
(* repository before and after it.                                         *)
(***************************************************************************)
EXTENDS JobDisk

CONSTANTS
  Content,          \* what the subject file may hold
  Produced,         \* contents attested by the very run the caller names
  MaxBundles,       \* 16 entries
  MaxTampering      \* bound: changes of the files, the repository and the trust

ASSUME SessionAssumption ==
  Produced \subseteq Content /\ MaxBundles \in Nat /\ MaxTampering \in Nat

VARIABLES
  subject,      \* the file: its content, and a stamp no change of it keeps
  verifier,     \* version of the verifier's executable
  repository,   \* the repository's live identity
  attested,     \* contents the verifier accepts now
  bundles,      \* the session's entries by context, "kept" or "damaged"
  verifying,    \* one verify: where it is and what it observed first
  verified,     \* history: the content the verifier accepted in this verify
  tampering

sessionVars == <<subject, verifier, repository, attested, bundles, verifying, verified>>

Context == [content : Content, verifier : 0..MaxTampering, repository : 0..MaxTampering]

\* calm is a history field: nothing changed since the last comparison began.
NoVerify == [at |-> "rest", subject |-> None, context |-> None, bundle |-> FALSE, calm |-> FALSE]

SessionInit ==
  /\ subject \in [content : Content, stamp : {0}] /\ verifier = 0 /\ repository = 0
  /\ attested \in SUBSET Content /\ bundles = <<>>
  /\ verifying = NoVerify /\ verified = None /\ tampering = 0

Verifying(point) == verifying.at = point
Bystanders == UNCHANGED <<subject, verifier, repository, attested, tampering>>
Abandon == verifying' = NoVerify /\ verified' = None
Without(context) == [i \in DOMAIN bundles \ {context} |-> bundles[i]]

\* The subject, the verifier and the live repository, in this order.
HashSubject ==
  /\ Verifying("rest")
  /\ verifying' = [NoVerify EXCEPT !.at = "verifier", !.subject = subject]
  /\ UNCHANGED <<bundles, verified>> /\ Bystanders

HashVerifier ==
  /\ Verifying("verifier")
  /\ verifying' = [verifying EXCEPT !.at = "repository",
       !.context = [content |-> verifying.subject.content, verifier |-> verifier, repository |-> 0]]
  /\ UNCHANGED <<bundles, verified>> /\ Bystanders

ReadRepository ==
  /\ Verifying("repository")
  /\ verifying' = [verifying EXCEPT !.at = "entry", !.context.repository = repository]
  /\ UNCHANGED <<bundles, verified>> /\ Bystanders

\* A damaged entry raises, and stays.
ReadEntry ==
  /\ Verifying("entry") /\ UNCHANGED <<bundles, verified>> /\ Bystanders
  /\ IF verifying.context \in DOMAIN bundles
     THEN IF bundles[verifying.context] = "damaged"
          THEN verifying' = NoVerify
          ELSE verifying' = [verifying EXCEPT !.at = "run", !.bundle = TRUE]
     ELSE verifying' = [verifying EXCEPT !.at = "run"]

\* verified_subject: every row of the answer, which is about the file as the
\* verifier read it, must name the digest taken first.
VerifiedSubject(answer) == answer = verifying.subject.content

\* The verifier reads the file as it is now.  Whatever fails from here on
\* removes the entry.  (Faulty variant: with a kept bundle it does not run.)
RunVerifierOnce ==
  /\ Verifying("run") /\ Bystanders
  /\ IF \/ verifying.bundle
        \/ subject.content \in attested /\ VerifiedSubject(subject.content)
     THEN /\ verifying' = [verifying EXCEPT !.at = "again"] /\ UNCHANGED bundles
          /\ verified' = IF subject.content \in attested THEN subject.content ELSE None
     ELSE Abandon /\ bundles' = Without(verifying.context)

RunVerifier ==
  /\ Verifying("run") /\ Bystanders
  /\ IF subject.content \in attested /\ VerifiedSubject(subject.content)
     THEN /\ verifying' = [verifying EXCEPT !.at = "again"] /\ UNCHANGED bundles
          /\ verified' = subject.content
     ELSE Abandon /\ bundles' = Without(verifying.context)

\* bounded_attestation_command: the verifier does not start, is out of time or
\* says too much and is terminated, fails, or prints no JSON.
VerifierFails ==
  /\ Verifying("run") /\ Bystanders
  /\ Abandon /\ bundles' = Without(verifying.context)

\* The same subject, verifier and repository, read once more.
Compare(here, next, same) ==
  /\ Verifying(here) /\ Bystanders
  /\ IF same THEN /\ verifying' = [verifying EXCEPT !.at = next, !.calm = @ \/ here = "again"]
                  /\ UNCHANGED <<bundles, verified>>
             ELSE Abandon /\ bundles' = Without(verifying.context)

\* material: of the bundles of a download, only those of the run the caller
\* named are kept; there may be none.
Material(content) == content \in Produced

\* Success; a bundle that was downloaded is kept while there is room.  (Faulty
\* variant: room for one more.)
ReturnRoomForOneMore ==
  /\ Verifying("keep") /\ Bystanders /\ Abandon
  /\ bundles' = IF /\ ~ verifying.bundle /\ Material(verifying.context.content)
                   /\ Cardinality(DOMAIN bundles) <= MaxBundles
                THEN [i \in DOMAIN bundles \cup {verifying.context} |->
                        IF i = verifying.context THEN "kept" ELSE bundles[i]]
                ELSE bundles

Return ==
  /\ Verifying("keep") /\ Bystanders /\ Abandon
  /\ bundles' = IF /\ ~ verifying.bundle /\ Material(verifying.context.content)
                   /\ Cardinality(DOMAIN bundles) < MaxBundles
                THEN [i \in DOMAIN bundles \cup {verifying.context} |->
                        IF i = verifying.context THEN "kept" ELSE bundles[i]]
                ELSE bundles

Tamper ==
  /\ tampering < MaxTampering /\ tampering' = tampering + 1
  /\ \/ /\ subject' \in [content : Content, stamp : {tampering + 1}]
        /\ UNCHANGED <<verifier, repository, attested, bundles>>
     \/ verifier' = tampering + 1 /\ UNCHANGED <<subject, repository, attested, bundles>>
     \/ repository' = tampering + 1 /\ UNCHANGED <<subject, verifier, attested, bundles>>
     \/ /\ attested' \in SUBSET Content \ {attested}
        /\ UNCHANGED <<subject, verifier, repository, bundles>>
     \/ /\ \E i \in DOMAIN bundles : bundles' = [bundles EXCEPT ![i] = "damaged"]
        /\ UNCHANGED <<subject, verifier, repository, attested>>
  /\ verifying' = [verifying EXCEPT !.calm = FALSE] /\ UNCHANGED verified

VerifyAttestations ==
  \/ HashSubject \/ HashVerifier \/ ReadRepository \/ ReadEntry
  \/ RunVerifier \/ VerifierFails
  \/ Compare("again", "verifier again", subject = verifying.subject)
  \/ Compare("verifier again", "repository again", verifier = verifying.context.verifier)
  \/ Compare("repository again", "keep", repository = verifying.context.repository)
  \/ Return \/ Tamper
=============================================================================
