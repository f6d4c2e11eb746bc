------------------------------ MODULE JobCaches ------------------------------
(***************************************************************************)
(* The caches of one job's processes.  They keep bytes, never a decision:  *)
(* the errand is one of the three, as each cache has its own files.        *)
(***************************************************************************)
EXTENDS GateDocuments, PacketCache, AttestationSession

VARIABLE errand     \* "documents", "packets" or "attestations"

vars == <<errand, documentVars, packetVars, damage, faults, sessionVars, tampering>>

Init ==
  /\ errand \in {"documents", "packets", "attestations"} /\ damage = 0
  /\ DocumentsInit /\ PacketInit /\ SessionInit
  /\ errand # "attestations" => attested = {} /\ subject.content = CHOOSE x \in Content : TRUE

Next ==
  /\ UNCHANGED errand
  /\ \/ errand = "documents" /\ ReadDocuments
        /\ UNCHANGED <<packetVars, faults, sessionVars, tampering>>
     \/ errand = "packets" /\ FetchPackets /\ UNCHANGED <<documentVars, sessionVars, tampering>>
     \/ errand = "attestations" /\ VerifyAttestations
        /\ UNCHANGED <<documentVars, packetVars, damage, faults>>

Spec == Init /\ [][Next]_vars

\* A process of the job goes on until its fetch ends; nothing runs it again.
FairSpec ==
  /\ Spec
  /\ \A c \in Caller : WF_vars(/\ errand = "packets" /\ FetchStep(c)
                               /\ UNCHANGED <<errand, documentVars, sessionVars, tampering>>)

------------------------------------------------------------------------------
(* Properties.                                                             *)

\* The bytes of the facts a gate keeps, one by one.
Bytes(kept) == UNION {{e} \X (1 .. Size[e[2]]) : e \in DOMAIN kept}

\* Types, and the bounds of the caches: entries, bytes and bundles.
TypeOK ==
  /\ live \in 0..MaxLive /\ call \in [Child -> Call]
  /\ \A c \in Child : /\ DOMAIN facts[c] \subseteq Endpoint
                      /\ Cardinality(DOMAIN facts[c]) <= MaxEntries
                      /\ Cardinality(Bytes(facts[c])) <= MaxBytes
  /\ DOMAIN blobs \subseteq Document /\ damage \in 0..MaxDamage
  /\ cache \in Files \cup {None} /\ fetcher \in [Caller -> Fetcher] /\ faults \in 0..MaxFaults
  /\ DOMAIN bundles \subseteq Context /\ Cardinality(DOMAIN bundles) <= MaxBundles
  /\ subject.content \in Content /\ tampering \in 0..MaxTampering

\* Whatever was cached, damaged, mangled on the way or left by a dead process,
\* a gate reads a document's own bytes, an ancestry that holds, and nothing
\* mutable that is older than the read.
ReadsTrue ==
  \A c \in Child : reader[c].value.text # "nothing" =>
    LET e == reader[c].of    text == reader[c].value.text
    IN CASE e[1] = "contents" -> text = "right"
         [] e[1] = "compare"  -> text = IF e[2] \in Ancestor THEN "ahead" ELSE "behind"
         [] e[1] = "live"     -> reader[c].value.version \in reader[c].since .. live

\* No attempt is made before the time GitHub named, nor after the budget of the
\* call; and no cache outgrows its limits, whichever answers fill it.
BudgetsKept ==
  /\ \A c \in Child : call[c].at = "send" => call[c].patient /\ call[c].clock < Total
  /\ TypeOK

\* Processes that race for an entry, or die at any point, leave it whole or
\* absent: unless somebody changed its files, it holds the right bytes.
EntriesWhole ==
  /\ cache # None => DOMAIN cache = CacheFile /\ (damage = 0 => Whole(cache))
  /\ damage = 0 => \A d \in DOMAIN blobs : blobs[d] = "right"

\* A fetch returns no byte that was changed before it verified the entry, be it
\* through another process's hard links.
PacketsIntact ==
  [][\A c \in Caller : served'[c] # served[c] /\ fetcher[c].calm =>
       \A f \in Fetched : served'[c][f] = "right"]_vars

\* A verify succeeds only if the verifier ran in it and accepted the bytes the
\* file still holds, with the verifier and for the repository of its context.
AttestedNow ==
  [][Verifying("keep") /\ verifying' = NoVerify /\ verifying.calm =>
       /\ verified = subject.content /\ subject = verifying.subject
       /\ verifying.context = [content |-> subject.content, verifier |-> verifier,
                               repository |-> repository]]_vars

\* Whoever races or dies at any point, every fetch ends, and unless a file of the
\* cache was changed: what a dead process leaves never makes another fail; one
\* that fails because another made the entry leaves that entry whole, for the next
\* fetch; and not all fail in this way.
PacketServed ==
  errand = "packets" => <>
    \/ damage > 0
    \/ /\ \A c \in Caller : Fetching(c, "done") \/ Fetching(c, "died") \/ Fetching(c, "raced")
       /\ \A c \in Caller : Fetching(c, "raced") => cache # None /\ Whole(cache)
       /\ \E c \in Caller : ~ Fetching(c, "raced")
=============================================================================
