--------------------------- MODULE JobCachesProofs ---------------------------
(***************************************************************************)
(* Proofs about the caches of a job, for any number of processes, any      *)
(* documents, packets and subjects, and any number of faults, damaged      *)
(* files and changes: what they give is right.                             *)
(***************************************************************************)
EXTENDS JobCaches, FiniteSetTheorems, TLAPS

------------------------------------------------------------------------------
(* Attestations.                                                           *)

After == {"again", "verifier again", "repository again", "keep"}

\* Since the comparison after the verifier began, what it compared still holds
\* unless something changed; and the verifier accepted the digest taken first.
AttestationInv ==
  /\ DOMAIN verifying = {"at", "subject", "context", "bundle", "calm"}
  /\ verifying.at \in {"rest", "verifier", "repository", "entry", "run"} \cup After
  /\ verifying.calm \in BOOLEAN
  /\ verifying.at \notin {"rest", "verifier"} =>
       \E v, r : verifying.context = [content |-> verifying.subject.content,
                                      verifier |-> v, repository |-> r]
  /\ verifying.at \in After => verified = verifying.subject.content
  /\ verifying.calm =>
       /\ verifying.at \in After \ {"again"} => subject = verifying.subject
       /\ verifying.at \in {"repository again", "keep"} => verifier = verifying.context.verifier
       /\ verifying.at = "keep" => repository = verifying.context.repository

LEMMA AttestationInitial == SessionInit => AttestationInv
BY DEF SessionInit, NoVerify, AttestationInv, After

LEMMA AbandonKeeps == ASSUME Abandon PROVE AttestationInv'
BY DEF Abandon, NoVerify, AttestationInv, After

LEMMA AttestationStep == ASSUME AttestationInv, VerifyAttestations PROVE AttestationInv'
<1> USE DEF AttestationInv, After, Verifying, Bystanders
<1>1. CASE HashSubject
  BY <1>1 DEF HashSubject, NoVerify
<1>2. CASE HashVerifier
  BY <1>2 DEF HashVerifier
<1>3. CASE ReadRepository
  <2>1. /\ verifying' = [verifying EXCEPT !.at = "entry", !.context = [verifying.context EXCEPT !.repository = repository]]
        /\ verifying.at = "repository" /\ UNCHANGED verified
    BY <1>3 DEF ReadRepository
  <2>2. PICK v, r : verifying.context = [content |-> verifying.subject.content,
                                         verifier |-> v, repository |-> r]
    BY <2>1
  <2>3. verifying'.context = [verifying.context EXCEPT !.repository = repository]
    BY <2>1
  <2>4. [verifying.context EXCEPT !.repository = repository]
          = [content |-> verifying.subject.content, verifier |-> v, repository |-> repository]
    BY ONLY <2>2
  <2>5. /\ verifying'.subject = verifying.subject /\ verifying'.at = "entry"
        /\ verifying'.calm = verifying.calm /\ DOMAIN verifying' = DOMAIN verifying
    BY <2>1
  <2>6. QED BY <2>3, <2>4, <2>5
<1>4. CASE ReadEntry
  <2>1. CASE verifying' = NoVerify
    BY <2>1 DEF NoVerify
  <2>2. CASE \/ verifying' = [verifying EXCEPT !.at = "run", !.bundle = TRUE]
             \/ verifying' = [verifying EXCEPT !.at = "run"]
    BY <1>4, <2>2 DEF ReadEntry
  <2>3. QED BY <1>4, <2>1, <2>2 DEF ReadEntry
<1>5. CASE RunVerifier
  <2>1. CASE Abandon
    BY <2>1, AbandonKeeps
  <2>2. CASE ~ Abandon
    BY <1>5, <2>2 DEF RunVerifier, VerifiedSubject
  <2>3. QED BY <2>1, <2>2
<1>6. CASE Compare("again", "verifier again", subject = verifying.subject)
  <2>1. CASE Abandon
    BY <2>1, AbandonKeeps
  <2>2. CASE ~ Abandon
    BY <1>6, <2>2 DEF Compare
  <2>3. QED BY <2>1, <2>2
<1>7. CASE Compare("verifier again", "repository again", verifier = verifying.context.verifier)
  <2>1. CASE Abandon
    BY <2>1, AbandonKeeps
  <2>2. CASE ~ Abandon
    BY <1>7, <2>2 DEF Compare
  <2>3. QED BY <2>1, <2>2
<1>8. CASE Compare("repository again", "keep", repository = verifying.context.repository)
  <2>1. CASE Abandon
    BY <2>1, AbandonKeeps
  <2>2. CASE ~ Abandon
    BY <1>8, <2>2 DEF Compare
  <2>3. QED BY <2>1, <2>2
<1>9. CASE Return
  BY <1>9, AbandonKeeps DEF Return
<1>10. CASE Tamper
  BY <1>10 DEF Tamper
<1>11. CASE VerifierFails
  BY <1>11, AbandonKeeps DEF VerifierFails
<1>12. QED
  BY <1>1, <1>2, <1>3, <1>4, <1>5, <1>6, <1>7, <1>8, <1>9, <1>10, <1>11 DEF VerifyAttestations

------------------------------------------------------------------------------
(* Packets.                                                                *)

ByteState == {"right", "wrong"}

\* Some files, each right or wrong.
Directory(files) == DOMAIN files \subseteq CacheFile /\ files \in [DOMAIN files -> ByteState]

\* The entry and what is renamed to it are complete, and right unless damaged;
\* a fetch that copies has verified the entry.
PacketInv ==
  /\ cache # None => /\ Directory(cache) /\ DOMAIN cache = CacheFile
                     /\ damage = 0 => Whole(cache)
  /\ damage \in Nat /\ DOMAIN fetcher = Caller /\ DOMAIN served = Caller
  /\ \A c \in Caller :
       /\ DOMAIN fetcher[c] = {"at", "staging", "output", "calm"}
       /\ Directory(fetcher[c].staging)
       /\ damage = 0 => \A f \in DOMAIN fetcher[c].staging : fetcher[c].staging[f] = "right"
       /\ fetcher[c].at = "check" => DOMAIN fetcher[c].staging = CacheFile
       /\ fetcher[c].at = "raced" => cache # None
       /\ fetcher[c].at = "refused" => damage # 0
       /\ fetcher[c].at = "rename" => DOMAIN fetcher[c].staging = CacheFile
       /\ fetcher[c].at = "receipt" => DOMAIN fetcher[c].staging = Fetched
       /\ fetcher[c].at \in {"verify", "copy"} => cache # None
       /\ fetcher[c].at = "copy" /\ fetcher[c].calm => Whole(cache)

LEMMA DirectoryExists == ASSUME NEW files, Directory(files) PROVE files # None
<1>1. files \in Files
  BY DEF Directory, ByteState, Files
<1>2. QED BY <1>1, EntryAssumption

LEMMA PacketInitial == PacketInit /\ damage = 0 => PacketInv
<1>1. Directory(NoFiles)
  BY DEF Directory, NoFiles, ByteState
<1>2. QED BY <1>1 DEF PacketInit, NoFetch, NoFiles, PacketInv

\* A fetch that fails.
LEMMA FailKeeps ==
  ASSUME PacketInv, NEW c \in Caller, NEW how \in Ended, Fail(c, how),
         how = "raced" => cache # None, how = "refused" => damage # 0,
         UNCHANGED <<cache, damage>>, DOMAIN served' = Caller
  PROVE  PacketInv'
<1>1. Directory(NoFiles)
  BY DEF Directory, NoFiles, ByteState
<1>2. QED BY <1>1 DEF PacketInv, Fail, NoFetch, NoFiles, Ended

LEMMA FetchKeeps ==
  ASSUME PacketInv, NEW c \in Caller, FetchStep(c) \/ FailFetch(c)
  PROVE  PacketInv'
<1> USE DEF Fetching, Step
<1>1. CASE Start(c)
  BY <1>1 DEF PacketInv, Start, Unaided
<1>2. CASE Inspect(c)
  BY <1>2 DEF PacketInv, Inspect, Unaided
<1>3. ASSUME NEW f \in Fetched, FetchMember(c, f) PROVE PacketInv'
  <2> DEFINE now == fetcher[c].staging
             files == [i \in DOMAIN now \cup {f} |-> IF i = f THEN "right" ELSE now[i]]
             next == IF DOMAIN now \cup {f} = Fetched THEN "receipt" ELSE fetcher[c].at
  <2>1. Directory(files)
    BY <1>3 DEF PacketInv, Directory, ByteState, CacheFile, Fetched
  <2>2. next \in {"receipt", "fetch"} /\ (next = "receipt" => DOMAIN files = Fetched)
    BY <1>3 DEF FetchMember
  <2>3. fetcher' = [fetcher EXCEPT ![c].staging = files, ![c].at = next] /\ Unaided
    BY <1>3 DEF FetchMember
  <2>4. damage = 0 => \A i \in DOMAIN files : files[i] = "right"
    BY DEF PacketInv
  <2> HIDE DEF files, next
  <2>5. QED BY <2>1, <2>2, <2>3, <2>4 DEF PacketInv, Unaided
<1>4. CASE WriteReceipt(c)
  <2> DEFINE now == fetcher[c].staging
             files == [f \in CacheFile |-> IF f \in Fetched THEN now[f] ELSE "right"]
  <2>1. fetcher' = [fetcher EXCEPT ![c].at = "check", ![c].staging = files] /\ Unaided
    BY <1>4 DEF WriteReceipt
  <2>2. DOMAIN now = Fetched /\ \A f \in Fetched : now[f] \in ByteState
    BY <1>4 DEF PacketInv, Directory, WriteReceipt
  <2>3. Directory(files) /\ DOMAIN files = CacheFile
    BY <2>2 DEF Directory, ByteState
  <2>4. damage = 0 => \A i \in DOMAIN files : files[i] = "right"
    BY <2>2 DEF PacketInv
  <2> HIDE DEF files
  <2>5. QED BY <2>1, <2>3, <2>4 DEF PacketInv, Unaided
<1>5. CASE Check(c)
  <2>1. CASE ~ Whole(fetcher[c].staging) /\ Fail(c, "refused")
    <3>1. damage # 0
      BY <1>5, <2>1 DEF PacketInv, Check, Whole
    <3>2. UNCHANGED <<cache, damage>> /\ DOMAIN served' = Caller /\ "refused" \in Ended
      BY <1>5 DEF Check, Unaided, PacketInv, Ended
    <3>3. QED BY <2>1, <3>1, <3>2, FailKeeps
  <2>2. CASE Whole(fetcher[c].staging) /\ fetcher' = [fetcher EXCEPT ![c].at = "rename"]
    BY <1>5, <2>2 DEF Check, Unaided, PacketInv, Whole
  <2>3. QED BY <1>5, <2>1, <2>2 DEF Check
<1>6. CASE Rename(c)
  <2>1. CASE cache # None /\ Fail(c, "raced") /\ UNCHANGED cache
    BY <1>6, <2>1, FailKeeps DEF Rename, PacketInv, Ended
  <2>2. CASE /\ cache = None /\ cache' = fetcher[c].staging
             /\ fetcher' = [fetcher EXCEPT ![c].at = "verify", ![c].staging = NoFiles]
    <3>1. cache' # None
      BY <2>2, DirectoryExists DEF PacketInv
    <3>2. Directory(NoFiles) /\ DOMAIN NoFiles = {}
      BY DEF Directory, NoFiles, ByteState
    <3>3. /\ Directory(cache') /\ DOMAIN cache' = CacheFile /\ damage' = damage /\ served' = served
          /\ damage = 0 => Whole(cache')
      BY <1>6, <2>2 DEF PacketInv, Rename, Whole
    <3>4. QED BY <2>2, <3>1, <3>2, <3>3 DEF PacketInv, Whole
  <2>3. QED BY <1>6, <2>1, <2>2 DEF Rename
<1>7. CASE Verify(c)
  <2>1. CASE ~ Whole(cache) /\ Fail(c, "refused")
    <3>1. damage # 0
      BY <1>7, <2>1 DEF PacketInv, Verify
    <3>2. UNCHANGED <<cache, damage>> /\ DOMAIN served' = Caller /\ "refused" \in Ended
      BY <1>7 DEF Verify, Unaided, PacketInv, Ended
    <3>3. QED BY <2>1, <3>1, <3>2, FailKeeps
  <2>2. CASE Whole(cache) /\ fetcher' = [fetcher EXCEPT ![c].at = "copy", ![c].calm = TRUE]
    BY <1>7, <2>2 DEF Verify, Unaided, PacketInv
  <2>3. QED BY <1>7, <2>1, <2>2 DEF Verify
<1>8. ASSUME NEW f \in Fetched, LinkMember(c, f) PROVE PacketInv'
  BY <1>8 DEF PacketInv, LinkMember, Unaided
<1>9. CASE Deliver(c)
  BY <1>9 DEF PacketInv, Deliver
<1>10. CASE FailFetch(c)
  BY <1>10, FailKeeps DEF FailFetch, PacketInv, Ended
<1>11. QED
  BY <1>1, <1>2, <1>3, <1>4, <1>5, <1>6, <1>7, <1>8, <1>9, <1>10 DEF FetchStep

LEMMA PacketStep == ASSUME PacketInv, FetchPackets PROVE PacketInv'
<1>1. ASSUME NEW f \in CacheFile, DamageFile(f) PROVE PacketInv'
  <2>1. /\ cache # None /\ cache' = [cache EXCEPT ![f] = "wrong"] /\ damage' = damage + 1
        /\ fetcher' = [c \in Caller |-> [fetcher[c] EXCEPT !.calm = FALSE]] /\ served' = served
    BY <1>1 DEF DamageFile
  <2>2. Directory(cache') /\ DOMAIN cache' = CacheFile
    BY <2>1 DEF PacketInv, Directory, ByteState
  <2>3. cache' # None
    BY <2>2, DirectoryExists
  <2>4. damage' # 0 /\ damage' \in Nat
    BY <2>1 DEF PacketInv
  <2>5. QED BY <2>1, <2>2, <2>3, <2>4 DEF PacketInv
<1>2. ASSUME NEW f \in CacheFile, NEW c \in Caller, DamageStaged(c, f) PROVE PacketInv'
  <2> DEFINE now == fetcher[c].staging
             files == [now EXCEPT ![f] = "wrong"]
  <2>1. /\ fetcher' = [fetcher EXCEPT ![c].staging = files] /\ damage' = damage + 1
        /\ cache' = cache /\ served' = served
    BY <1>2 DEF DamageStaged
  <2>2. Directory(files) /\ DOMAIN files = DOMAIN now
    BY <1>2 DEF PacketInv, Directory, ByteState
  <2>3. damage' # 0 /\ damage' \in Nat
    BY <2>1 DEF PacketInv
  <2> HIDE DEF files
  <2>4. QED BY <2>1, <2>2, <2>3 DEF PacketInv
<1>3. QED BY <1>1, <1>2, FetchKeeps DEF FetchPackets

------------------------------------------------------------------------------
(* Documents.                                                              *)

\* What GitHub may answer, at a time since when the live version was "since".
Honest(e, v, since) ==
  /\ e[1] = "contents" => v.text \in ByteState /\ (e[2] \notin Small => v.text = "right")
  /\ e[1] = "compare"  => v.text = IF e[2] \in Ancestor THEN "ahead" ELSE "behind"
  /\ e[1] = "live"     => v.version \in since .. live

\* What a read may return.
TrueRead(e, v, since) ==
  /\ e \in Endpoint /\ e[1] # "blob"
  /\ e[1] = "contents" => v.text = "right"
  /\ e[1] = "compare"  => v.text = IF e[2] \in Ancestor THEN "ahead" ELSE "behind"
  /\ e[1] = "live"     => v.version \in since .. live

Kept(c) == \A e \in DOMAIN facts[c] :
  e \in Endpoint /\ Fact(e, facts[c][e]) /\ Honest(e, facts[c][e], live)

Reads(c) ==
  /\ DOMAIN reader[c] = {"at", "of", "inline", "since", "value"}
  /\ reader[c].at = "rest" =>
       \/ reader[c].value.text = "nothing"
       \/ TrueRead(reader[c].of, reader[c].value, reader[c].since)
  /\ reader[c].at # "rest" => reader[c].value.text = "nothing"
  /\ reader[c].at = "asked" =>
       /\ reader[c].of \in Endpoint /\ reader[c].of[1] # "blob"
       /\ reader[c].since \in 0 .. live
  /\ reader[c].at \in {"cache", "fetch", "stage", "link"} =>
       /\ reader[c].of \in Endpoint /\ reader[c].of[1] = "contents"
       /\ reader[c].inline \in ByteState \cup {"none"}

Calls(c) ==
  /\ DOMAIN call[c] = {"at", "endpoint", "attempt", "clock", "patient", "value"}
  /\ reader[c].at = "asked" =>
       /\ call[c].at = "send" => call[c].endpoint = reader[c].of
       /\ call[c].at = "answered" => Honest(reader[c].of, call[c].value, reader[c].since)

\* The caches hold what GitHub's answers and the digests allow, and each read
\* under way has an answer of its own.
DocumentInv ==
  /\ live \in Nat /\ damage \in Nat
  /\ \A d \in DOMAIN blobs : blobs[d] \in ByteState /\ (damage = 0 => blobs[d] = "right")
  /\ DOMAIN facts = Child /\ DOMAIN call = Child /\ DOMAIN reader = Child
  /\ \A c \in Child : Kept(c) /\ Reads(c) /\ Calls(c)

LEMMA DocumentInitial == DocumentsInit /\ damage = 0 => DocumentInv
BY DEF DocumentsInit, GetInit, NoRead, NoCall, Says, DocumentInv, Kept, Reads, Calls

\* A step of one child that keeps its part keeps the whole.
LEMMA ChildStep ==
  ASSUME DocumentInv, NEW c \in Child, UNCHANGED <<live, damage>>,
         \A d \in DOMAIN blobs' : blobs'[d] \in ByteState /\ (damage = 0 => blobs'[d] = "right"),
         NEW f, facts' = facts \/ facts' = [facts EXCEPT ![c] = f],
         NEW k, call' = call \/ call' = [call EXCEPT ![c] = k],
         NEW r, reader' = reader \/ reader' = [reader EXCEPT ![c] = r],
         Kept(c)', Reads(c)', Calls(c)'
  PROVE  DocumentInv'
<1>1. SUFFICES ASSUME NEW d \in Child, d # c PROVE Kept(d)' /\ Reads(d)' /\ Calls(d)'
  BY DEF DocumentInv
<1>2. facts'[d] = facts[d] /\ call'[d] = call[d] /\ reader'[d] = reader[d] /\ live' = live
  BY <1>1 DEF DocumentInv
<1>3. Kept(d) /\ Reads(d) /\ Calls(d)
  BY DEF DocumentInv
<1>4. QED
  BY <1>2, <1>3 DEF Kept, Reads, Calls, Honest, TrueRead, Fact

\* A step of one child's call and read only.
LEMMA ReadStep ==
  ASSUME DocumentInv, NEW c \in Child, UNCHANGED <<live, damage, facts, blobs>>,
         NEW k, call' = call \/ call' = [call EXCEPT ![c] = k],
         NEW r, reader' = reader \/ reader' = [reader EXCEPT ![c] = r],
         Reads(c)', Calls(c)'
  PROVE  DocumentInv'
<1>1. Kept(c)'
  BY DEF DocumentInv, Kept, Fact, Honest
<1>2. facts' = facts \/ facts' = [facts EXCEPT ![c] = facts[c]]
  OBVIOUS
<1>3. \A d \in DOMAIN blobs' : blobs'[d] \in ByteState /\ (damage = 0 => blobs'[d] = "right")
  BY DEF DocumentInv
<1>4. QED BY <1>1, <1>2, <1>3, ChildStep

LEMMA RaiseKeeps ==
  ASSUME DocumentInv, NEW c \in Child, Raise(c), UNCHANGED <<live, damage, facts, blobs>>,
         NEW k, call' = call \/ call' = [call EXCEPT ![c] = k], DOMAIN k = DOMAIN NoCall
  PROVE  DocumentInv'
<1>1. reader' = [reader EXCEPT ![c] = NoRead] /\ reader'[c] = NoRead
  BY DEF Raise, DocumentInv
<1>2. Reads(c)'
  BY <1>1 DEF Reads, NoRead, Says
<1>3. Calls(c)'
  BY <1>1 DEF Calls, NoRead, NoCall, DocumentInv
<1>4. QED BY <1>1, <1>2, <1>3, ReadStep

\* An answer that may be kept, or was, is used.
LEMMA UseReads ==
  ASSUME DocumentInv, NEW c \in Child, NEW e \in Endpoint, e[1] # "blob", NEW v,
         NEW since \in 0 .. live, Honest(e, v, since), live' = live, Use(c, e, v, since)
  PROVE  /\ Reads(c)' /\ reader'[c].at # "asked"
         /\ \E r : reader' = [reader EXCEPT ![c] = r]
<1>1. CASE e[1] = "contents"
  <2> DEFINE r == [NoRead EXCEPT !.at = "cache", !.of = e,
                                 !.inline = IF e[2] \in Small THEN v.text ELSE "none"]
  <2>1. reader' = [reader EXCEPT ![c] = r] /\ reader'[c] = r
    BY <1>1 DEF Use, DocumentInv
  <2>2. r.inline \in ByteState \cup {"none"} /\ r.value.text = "nothing"
    BY <1>1 DEF Honest, NoRead, Says
  <2>3. r.at = "cache" /\ r.of = e /\ DOMAIN r = {"at", "of", "inline", "since", "value"}
    BY DEF NoRead
  <2> HIDE DEF r
  <2>4. Reads(c)' /\ reader'[c].at # "asked"
    BY <1>1, <2>1, <2>2, <2>3 DEF Reads
  <2>5. QED BY <2>1, <2>4
<1>2. CASE e[1] # "contents"
  <2> DEFINE r == [NoRead EXCEPT !.of = e, !.since = since, !.value = v]
  <2>1. reader' = [reader EXCEPT ![c] = r] /\ reader'[c] = r
    BY <1>2 DEF Use, DocumentInv
  <2>2. TrueRead(e, v, since)'
    BY <1>2 DEF Honest, TrueRead, Endpoint
  <2>3. /\ r.at = "rest" /\ r.of = e /\ r.since = since /\ r.value = v
        /\ DOMAIN r = {"at", "of", "inline", "since", "value"}
    BY DEF NoRead
  <2> HIDE DEF r
  <2>4. Reads(c)' /\ reader'[c].at # "asked"
    BY <2>1, <2>2, <2>3 DEF Reads
  <2>5. QED BY <2>1, <2>4
<1>3. QED BY <1>1, <1>2

LEMMA DocumentStep == ASSUME DocumentInv, ReadDocuments PROVE DocumentInv'
<1> USE DEF Reader, Read, Hang, Conclude
<1>1. ASSUME NEW c \in Child, NEW e \in Endpoint, Ask(c, e) PROVE DocumentInv'
  <2>1. CASE e \in DOMAIN facts[c]
    <3>1. Honest(e, facts[c][e], live) /\ live \in 0 .. live /\ e[1] # "blob"
      BY <1>1, <2>1 DEF DocumentInv, Kept, Ask
    <3>2. Use(c, e, facts[c][e], live) /\ UNCHANGED <<live, call, facts, blobs, damage>>
      BY <1>1, <2>1 DEF Ask
    <3>3. /\ Reads(c)' /\ reader'[c].at # "asked"
          /\ \E r : reader' = [reader EXCEPT ![c] = r]
      BY <3>1, <3>2, UseReads
    <3>4. Calls(c)'
      BY <3>2, <3>3 DEF DocumentInv, Calls
    <3>5. QED BY <3>2, <3>3, <3>4, ReadStep
  <2>2. CASE e \notin DOMAIN facts[c]
    <3> DEFINE r == [NoRead EXCEPT !.at = "asked", !.of = e, !.since = live]
               k == [NoCall EXCEPT !.at = "send", !.endpoint = e, !.attempt = 1]
    <3>1. /\ call' = [call EXCEPT ![c] = k] /\ reader' = [reader EXCEPT ![c] = r]
          /\ call'[c] = k /\ reader'[c] = r /\ e[1] # "blob"
          /\ UNCHANGED <<live, facts, blobs, damage>>
      BY <1>1, <2>2 DEF Ask, Get, DocumentInv
    <3>2. /\ k.at = "send" /\ k.endpoint = e /\ DOMAIN k = DOMAIN NoCall
          /\ r.at = "asked" /\ r.of = e /\ r.since = live /\ r.value.text = "nothing"
          /\ DOMAIN r = {"at", "of", "inline", "since", "value"}
      BY DEF NoRead, NoCall, Says
    <3>3. DOMAIN NoCall = {"at", "endpoint", "attempt", "clock", "patient", "value"}
      BY DEF NoCall
    <3> HIDE DEF r, k
    <3>4. Reads(c)' /\ Calls(c)'
      BY <3>1, <3>2, <3>3 DEF Reads, Calls, DocumentInv
    <3>5. QED BY <3>1, <3>4, ReadStep
  <2>3. QED BY <2>1, <2>2
<1>2. ASSUME NEW c \in Child, Answered(c) PROVE DocumentInv'
  <2> DEFINE e == reader[c].of
             v == call[c].value
             since == reader[c].since
  <2>1. /\ e \in Endpoint /\ e[1] # "blob" /\ since \in 0 .. live /\ Honest(e, v, since)
        /\ live \in Nat
    BY <1>2 DEF Answered, DocumentInv, Reads, Calls
  <2>2. /\ Retain(c, e, v) /\ Use(c, e, v, since) /\ call' = [call EXCEPT ![c] = NoCall]
        /\ UNCHANGED <<live, blobs, damage>>
    BY <1>2 DEF Answered
  <2> HIDE DEF e, v, since
  <2>3. /\ Reads(c)' /\ reader'[c].at # "asked"
        /\ \E r : reader' = [reader EXCEPT ![c] = r]
    BY <2>1, <2>2, UseReads
  <2>4. Calls(c)'
    BY <2>2, <2>3 DEF DocumentInv, Calls, NoCall
  <2>5. Kept(c)' /\ \E f : facts' = facts \/ facts' = [facts EXCEPT ![c] = f]
    <3>1. CASE facts' = facts
      BY <3>1, <2>2 DEF DocumentInv, Kept, Fact, Honest
    <3>2. CASE facts' # facts
      <4> DEFINE f == [i \in DOMAIN facts[c] \cup {e} |-> IF i = e THEN v ELSE facts[c][i]]
      <4>1. facts' = [facts EXCEPT ![c] = f] /\ Fact(e, v) /\ facts'[c] = f
        BY <2>2, <3>2 DEF Retain, DocumentInv
      <4>2. Honest(e, v, live)
        BY <2>1, <4>1 DEF Honest, Fact
      <4>3. Kept(c)'
        BY <2>1, <2>2, <4>1, <4>2 DEF DocumentInv, Kept, Fact, Honest
      <4>4. QED BY <4>1, <4>3
    <3>3. QED BY <3>1, <3>2
  <2>6. \A d \in DOMAIN blobs' : blobs'[d] \in ByteState /\ (damage = 0 => blobs'[d] = "right")
    BY <2>2 DEF DocumentInv
  <2>7. QED BY <2>2, <2>3, <2>4, <2>5, <2>6, ChildStep
<1>3. ASSUME NEW c \in Child, Unanswered(c) PROVE DocumentInv'
  BY <1>3, RaiseKeeps DEF Unanswered
<1>4. ASSUME NEW c \in Child, Look(c) PROVE DocumentInv'
  <2> DEFINE d == reader[c].of[2]
             k == [NoCall EXCEPT !.at = "send", !.endpoint = <<"blob", d>>, !.attempt = 1]
  <2>1. DOMAIN k = DOMAIN NoCall
    BY DEF NoCall
  <2>2. /\ reader[c].at = "cache" /\ UNCHANGED <<live, facts, blobs, damage>>
        /\ call' = call \/ call' = [call EXCEPT ![c] = k]
    BY <1>4 DEF Look, Get
  <2>3. CASE Raise(c)
    BY <2>1, <2>2, <2>3, RaiseKeeps
  <2>4. CASE \E at \in {"fetch", "stage"} : reader' = [reader EXCEPT ![c].at = at]
    <3>1. PICK at \in {"fetch", "stage"} : reader' = [reader EXCEPT ![c].at = at]
      BY <2>4
    <3>2. Reads(c)' /\ reader'[c].at # "asked"
      BY <2>2, <3>1 DEF Reads, DocumentInv
    <3>3. Calls(c)'
      BY <2>1, <2>2, <3>2 DEF Calls, DocumentInv, NoCall
    <3>4. QED BY <2>2, <3>1, <3>2, <3>3, ReadStep
  <2>5. CASE Conclude(c, Says(blobs[d])) /\ Cached(d) # "none" /\ Cached(d) # "wrong"
    <3>1. blobs[d] = "right"
      BY <2>5 DEF Cached, DocumentInv, ByteState
    <3>2. /\ reader'[c].at = "rest" /\ reader'[c].of = reader[c].of
          /\ reader'[c].value.text = "right"
          /\ DOMAIN reader'[c] = {"at", "of", "inline", "since", "value"}
      BY <2>5, <3>1 DEF Says, DocumentInv, Reads
    <3>3. TrueRead(reader[c].of, reader[c].value, reader[c].since)'
      BY <2>2, <3>2 DEF TrueRead, DocumentInv, Reads, Endpoint
    <3>4. Reads(c)'
      BY <3>2, <3>3 DEF Reads
    <3>5. Calls(c)'
      BY <2>1, <2>2, <3>2 DEF Calls, DocumentInv, NoCall
    <3>6. QED BY <2>2, <2>5, <3>4, <3>5, ReadStep
  <2>6. QED BY <1>4, <2>3, <2>4, <2>5 DEF Look, Cached
<1>5. ASSUME NEW c \in Child, Decode(c) PROVE DocumentInv'
  <2>1. CASE Raise(c)
    BY <1>5, <2>1, RaiseKeeps DEF Decode
  <2>2. CASE reader' = [reader EXCEPT ![c].at = "stage"]
    <3>1. Reads(c)' /\ reader'[c].at # "asked"
      BY <1>5, <2>2 DEF Decode, Reads, DocumentInv
    <3>2. Calls(c)'
      BY <1>5, <3>1 DEF Decode, Calls, DocumentInv, NoCall
    <3>3. QED BY <1>5, <2>2, <3>1, <3>2, ReadStep DEF Decode
  <2>3. QED BY <1>5, <2>1, <2>2 DEF Decode
<1>6. ASSUME NEW c \in Child, Stage(c) PROVE DocumentInv'
  <2>1. Reads(c)' /\ reader'[c].at # "asked"
    BY <1>6 DEF Stage, Reads, DocumentInv
  <2>2. Calls(c)'
    BY <1>6, <2>1 DEF Stage, Calls, DocumentInv
  <2>3. QED BY <1>6, <2>1, <2>2, ReadStep DEF Stage
<1>7. ASSUME NEW c \in Child, Link(c) PROVE DocumentInv'
  <2> DEFINE d == reader[c].of[2]
  <2>1. reader[c].at = "link" /\ UNCHANGED <<live, call, facts, damage>>
    BY <1>7 DEF Link
  <2>2. \A i \in DOMAIN blobs' : blobs'[i] \in ByteState /\ (damage = 0 => blobs'[i] = "right")
    <3>1. CASE UNCHANGED blobs
      BY <3>1 DEF DocumentInv
    <3>2. CASE Write(d, "right")
      BY <3>2 DEF DocumentInv, Write, ByteState
    <3>3. QED BY <1>7, <3>1, <3>2 DEF Link
  <2>3. Kept(c)'
    BY <2>1 DEF DocumentInv, Kept, Fact, Honest
  <2>4. Reads(c)' /\ reader'[c].at # "asked" /\ \E r : reader' = [reader EXCEPT ![c] = r]
    <3>1. CASE Raise(c)
      BY <3>1 DEF Raise, DocumentInv, Reads, NoRead, Says
    <3>2. CASE Conclude(c, Says("right"))
      <4>1. reader' = [reader EXCEPT ![c] = [reader[c] EXCEPT !.at = "rest", !.value = Says("right")]]
        BY <3>2
      <4>2. /\ reader'[c].at = "rest" /\ reader'[c].of = reader[c].of
            /\ reader'[c].value.text = "right"
            /\ DOMAIN reader'[c] = {"at", "of", "inline", "since", "value"}
        BY <3>2 DEF Says, DocumentInv, Reads
      <4>3. TrueRead(reader[c].of, reader[c].value, reader[c].since)'
        BY <2>1, <4>2 DEF TrueRead, DocumentInv, Reads, Endpoint
      <4>4. Reads(c)'
        BY <4>2, <4>3 DEF Reads
      <4>5. QED BY <4>1, <4>2, <4>4
    <3>3. QED BY <1>7, <3>1, <3>2 DEF Link
  <2>5. Calls(c)'
    BY <2>1, <2>4 DEF Calls, DocumentInv
  <2>6. QED BY <2>1, <2>2, <2>3, <2>4, <2>5, ChildStep
<1>8. ASSUME NEW c \in Child, Die(c) PROVE DocumentInv'
  <2>1. /\ call' = [call EXCEPT ![c] = NoCall] /\ reader' = [reader EXCEPT ![c] = NoRead]
        /\ facts' = [facts EXCEPT ![c] = <<>>] /\ UNCHANGED <<live, blobs, damage>>
    BY <1>8 DEF Die, Raise
  <2>2. Kept(c)'
    BY <2>1 DEF Kept, DocumentInv
  <2>3. Reads(c)'
    BY <2>1 DEF Reads, NoRead, Says, DocumentInv
  <2>4. Calls(c)'
    BY <2>1 DEF Calls, NoRead, NoCall, DocumentInv
  <2>5. \A d \in DOMAIN blobs' : blobs'[d] \in ByteState /\ (damage = 0 => blobs'[d] = "right")
    BY <2>1 DEF DocumentInv
  <2>6. QED BY <2>1, <2>2, <2>3, <2>4, <2>5, ChildStep
<1>9. ASSUME NEW c \in Child, Attempt(c), UNCHANGED <<facts, blobs, reader, damage>>
      PROVE  DocumentInv'
  <2>0. call[c].at = "send" /\ live' = live
    BY <1>9 DEF Attempt
  <2>1. Reads(c)'
    BY <1>9, <2>0 DEF DocumentInv, Reads, TrueRead
  <2>2. Calls(c)' /\ \E k : call' = [call EXCEPT ![c] = k]
    <3>1. ASSUME NEW v \in Answers(call[c].endpoint),
                 call' = [call EXCEPT ![c] = [NoCall EXCEPT !.at = "answered", !.value = v]]
          PROVE  Calls(c)' /\ \E k : call' = [call EXCEPT ![c] = k]
      <4>1. ASSUME reader[c].at = "asked" PROVE Honest(reader[c].of, v, reader[c].since)
        <5>1. /\ call[c].endpoint = reader[c].of /\ reader[c].since \in 0 .. live
              /\ reader[c].of \in Endpoint /\ reader[c].of[1] # "blob" /\ live \in Nat
          BY <2>0, <4>1 DEF DocumentInv, Reads, Calls
        <5> DEFINE e == reader[c].of
        <5>2. v \in Answers(e) /\ e \in Endpoint /\ e[1] # "blob"
          BY <3>1, <5>1
        <5>3. reader[c].since \in 0 .. live /\ live \in Nat
          BY <5>1
        <5> HIDE DEF e
        <5>4. CASE e[1] = "live"
          <6>1. v = [text |-> "state", version |-> live]
            BY <5>2, <5>4 DEF Answers
          <6>2. QED BY <5>3, <5>4, <6>1 DEF Honest, e
        <5>5. CASE e[1] = "compare"
          <6>1. v = Says(IF e[2] \in Ancestor THEN "ahead" ELSE "behind")
            BY <5>2, <5>5 DEF Answers
          <6>2. QED BY <5>5, <6>1 DEF Honest, Says, e
        <5>6. CASE e[1] = "contents"
          <6>1. v = Says("right") \/ (e[2] \in Small /\ v = Says("wrong"))
            BY <5>2, <5>6 DEF Answers
          <6>2. QED BY <5>6, <6>1 DEF Honest, Says, ByteState, e
        <5>7. QED BY <5>2, <5>4, <5>5, <5>6 DEF Endpoint
      <4>2. /\ call'[c].at = "answered" /\ call'[c].value = v
            /\ DOMAIN call'[c] = {"at", "endpoint", "attempt", "clock", "patient", "value"}
        BY <3>1 DEF NoCall, DocumentInv
      <4>3. Calls(c)'
        BY <1>9, <2>0, <4>1, <4>2 DEF Calls, Honest
      <4>4. QED BY <3>1, <4>3
    <3>2. ASSUME NEW now, NEW f, Wait(c, now, f)
          PROVE  Calls(c)' /\ \E k : call' = [call EXCEPT ![c] = k]
      <4>1. CASE call' = [call EXCEPT ![c] = [NoCall EXCEPT !.at = "failed"]]
        BY <1>9, <4>1 DEF Calls, NoCall, DocumentInv
      <4> DEFINE delay == Delay(call[c].attempt, f)
                 patient == delay >= Told(f)
      <4>2. CASE call' = [call EXCEPT ![c].attempt = @ + 1, ![c].clock = now + delay,
                                      ![c].patient = patient]
        <5> HIDE DEF delay, patient
        <5>1. /\ call'[c].at = call[c].at /\ call'[c].endpoint = call[c].endpoint
              /\ DOMAIN call'[c] = DOMAIN call[c]
          BY <4>2 DEF DocumentInv, Calls
        <5>2. call' = [call EXCEPT ![c] = call'[c]]
          BY <4>2 DEF DocumentInv
        <5>3. QED BY <1>9, <2>0, <5>1, <5>2 DEF Calls, DocumentInv
      <4>3. QED BY <3>2, <4>1, <4>2 DEF Wait
    <3>3. QED BY <1>9, <3>1, <3>2 DEF Attempt
  <2>3. QED BY <1>9, <2>0, <2>1, <2>2, ReadStep
<1>10. CASE ChangeLive /\ UNCHANGED <<facts, blobs, reader, damage>>
  <2>1. live' = live + 1 /\ live \in Nat /\ UNCHANGED <<call, facts, blobs, reader, damage>>
    BY <1>10 DEF ChangeLive, DocumentInv
  <2>2. \A c \in Child : Kept(c)' /\ Reads(c)' /\ Calls(c)'
    <3>1. TAKE c \in Child
    <3>2. Kept(c)'
      BY <2>1 DEF DocumentInv, Kept, Fact, Honest
    <3>3. Reads(c)'
      BY <2>1 DEF DocumentInv, Reads, TrueRead
    <3>4. Calls(c)'
      BY <2>1 DEF DocumentInv, Calls, Honest
    <3>5. QED BY <3>2, <3>3, <3>4
  <2>3. QED BY <2>1, <2>2 DEF DocumentInv
<1>11. ASSUME NEW d \in Document, DamageBlob(d) PROVE DocumentInv'
  <2>1. /\ blobs' = [blobs EXCEPT ![d] = "wrong"] /\ damage' = damage + 1 /\ damage \in Nat
        /\ UNCHANGED <<live, call, facts, reader>>
    BY <1>11 DEF DamageBlob, DocumentInv
  <2>2. \A c \in Child : Kept(c)' /\ Reads(c)' /\ Calls(c)'
    BY <2>1 DEF DocumentInv, Kept, Fact, Honest, Reads, TrueRead, Calls
  <2>3. QED BY <2>1, <2>2 DEF DocumentInv, ByteState
<1>12. QED
  BY <1>1, <1>2, <1>3, <1>4, <1>5, <1>6, <1>7, <1>8, <1>9, <1>10, <1>11 DEF ReadDocuments

------------------------------------------------------------------------------
(* The caches of a job together.                                           *)

IInv == DocumentInv /\ PacketInv /\ AttestationInv

LEMMA CachesInitial == Init => IInv
BY DocumentInitial, PacketInitial, AttestationInitial DEF Init, IInv

LEMMA CachesStep == IInv /\ [Next]_vars => IInv'
<1> SUFFICES ASSUME IInv, [Next]_vars PROVE IInv'
  OBVIOUS
<1>1. CASE ReadDocuments /\ UNCHANGED <<packetVars, faults, sessionVars, tampering>>
  <2>1. DocumentInv'
    BY <1>1, DocumentStep DEF IInv
  <2>2. AttestationInv'
    BY <1>1 DEF IInv, AttestationInv, sessionVars
  <2>3. damage' = damage \/ damage' = damage + 1
    BY <1>1 DEF ReadDocuments, Ask, Answered, Unanswered, Look, Decode, Stage, Link, Die, DamageBlob
  <2>4. PacketInv'
    BY <1>1, <2>3 DEF IInv, PacketInv, packetVars, Directory, Whole
  <2>5. QED BY <2>1, <2>2, <2>4 DEF IInv
<1>2. CASE FetchPackets /\ UNCHANGED <<documentVars, sessionVars, tampering>>
  <2>1. PacketInv'
    BY <1>2, PacketStep DEF IInv
  <2>2. AttestationInv'
    BY <1>2 DEF IInv, AttestationInv, sessionVars
  <2>3. damage' = damage \/ damage' = damage + 1
    BY <1>2 DEF FetchPackets, FetchStep, FailFetch, DamageFile, DamageStaged, Start, Inspect,
                FetchMember, WriteReceipt, Check, Rename, Verify, LinkMember, Deliver, Unaided
  <2>4. DocumentInv'
    BY <1>2, <2>3 DEF IInv, DocumentInv, documentVars, Kept, Fact, Honest, Reads, TrueRead, Calls
  <2>5. QED BY <2>1, <2>2, <2>4 DEF IInv
<1>3. CASE VerifyAttestations /\ UNCHANGED <<documentVars, packetVars, damage, faults>>
  <2>1. AttestationInv'
    BY <1>3, AttestationStep DEF IInv
  <2>2. PacketInv'
    BY <1>3 DEF IInv, PacketInv, packetVars, Directory, Whole
  <2>3. DocumentInv'
    BY <1>3 DEF IInv, DocumentInv, documentVars, Kept, Fact, Honest, Reads, TrueRead, Calls
  <2>4. QED BY <2>1, <2>2, <2>3 DEF IInv
<1>4. CASE UNCHANGED vars
  <2>1. UNCHANGED <<documentVars, packetVars, damage, faults, sessionVars, tampering>>
    BY <1>4 DEF vars
  <2>2. PacketInv'
    BY <2>1 DEF IInv, PacketInv, packetVars, Directory, Whole
  <2>3. DocumentInv'
    BY <2>1 DEF IInv, DocumentInv, documentVars, Kept, Fact, Honest, Reads, TrueRead, Calls
  <2>4. AttestationInv'
    BY <2>1 DEF IInv, AttestationInv, sessionVars
  <2>5. QED BY <2>2, <2>3, <2>4 DEF IInv
<1>5. QED BY <1>1, <1>2, <1>3, <1>4 DEF Next

\* The strengthening is an invariant: what the caches hold is what the digests
\* and GitHub's answers allow, whatever process writes it and wherever it dies.
THEOREM Invariance == Spec => []IInv
<1>1. QED BY CachesInitial, CachesStep, PTL DEF Spec

\* A gate reads a document's own bytes, an ancestry that holds, and nothing
\* mutable older than the read, whatever the caches went through.
THEOREM ReadsAreTrue == Spec => []ReadsTrue
<1>1. IInv => ReadsTrue
  <2> SUFFICES ASSUME IInv, NEW c \in Child, reader[c].value.text # "nothing"
               PROVE  LET e == reader[c].of    text == reader[c].value.text
                      IN CASE e[1] = "contents" -> text = "right"
                           [] e[1] = "compare"  -> text = IF e[2] \in Ancestor THEN "ahead" ELSE "behind"
                           [] e[1] = "live"     -> reader[c].value.version \in reader[c].since .. live
    BY DEF ReadsTrue
  <2> DEFINE e == reader[c].of
  <2>1. TrueRead(e, reader[c].value, reader[c].since)
    BY DEF IInv, DocumentInv, Reads
  <2>2. e[1] \in {"contents", "compare", "live"}
    BY <2>1 DEF TrueRead, Endpoint
  <2>3. QED BY <2>1, <2>2 DEF TrueRead
<1>2. QED BY <1>1, Invariance, PTL

\* Entries are whole or absent, and right unless their files were changed,
\* however many processes race for them and wherever they die.
THEOREM CacheEntriesWhole == Spec => []EntriesWhole
<1>1. IInv => EntriesWhole
  BY DEF IInv, DocumentInv, PacketInv, EntriesWhole
<1>2. QED BY <1>1, Invariance, PTL

\* A fetch that fails, and did not die, is explained: a file was changed, or another
\* made the entry, whose files are the right ones for whoever fetches next.
FailuresExplained ==
  damage = 0 => \A c \in Caller : /\ fetcher[c].at # "refused"
                                  /\ fetcher[c].at = "raced" => cache # None /\ Whole(cache)

\* What a dead or a racing process leaves never makes another fetch fail, for any
\* number of processes (decision_packets.py, fetch and verify_cached).
THEOREM FailuresAreExplained == Spec => []FailuresExplained
<1>1. IInv => FailuresExplained
  BY DEF IInv, PacketInv, FailuresExplained
<1>2. QED BY <1>1, Invariance, PTL

\* A fetch returns only what the entry held, right, when the fetch verified it.
THEOREM PacketsStayIntact == Spec => PacketsIntact
<1> DEFINE Served == \A c \in Caller : served'[c] # served[c] /\ fetcher[c].calm =>
                       \A f \in Fetched : served'[c][f] = "right"
<1>1. IInv /\ [Next]_vars => [Served]_vars
  <2> SUFFICES ASSUME IInv, Next, NEW c \in Caller, served'[c] # served[c], fetcher[c].calm,
                      NEW f \in Fetched
               PROVE  served'[c][f] = "right"
    OBVIOUS
  <2>1. PICK d \in Caller : Deliver(d)
    BY DEF Next, FetchPackets, FetchStep, FailFetch, DamageFile, DamageStaged, Start, Inspect,
           FetchMember, WriteReceipt, Check, Rename, Verify, LinkMember, Unaided, packetVars
  <2>2. d = c /\ served'[c] = [i \in Fetched |-> cache[i]]
    BY <2>1 DEF Deliver, IInv, PacketInv
  <2>3. Whole(cache)
    BY <2>1, <2>2 DEF Deliver, Fetching, IInv, PacketInv
  <2>4. QED BY <2>2, <2>3 DEF Whole, CacheFile
<1>2. QED BY <1>1, Invariance, PTL DEF PacketsIntact, Spec

\* Between the comparisons after the verifier and the success nothing is used
\* that no longer holds: a success is of the bytes the file holds.
THEOREM AttestationCurrent == Spec => AttestedNow
<1> DEFINE Attested == Verifying("keep") /\ verifying' = NoVerify /\ verifying.calm =>
                         /\ verified = subject.content /\ subject = verifying.subject
                         /\ verifying.context = [content |-> subject.content,
                                                 verifier |-> verifier, repository |-> repository]
<1>1. IInv /\ [Next]_vars => [Attested]_vars
  <2> SUFFICES ASSUME IInv, Verifying("keep"), verifying.calm
               PROVE  /\ verified = subject.content /\ subject = verifying.subject
                      /\ verifying.context = [content |-> subject.content,
                                              verifier |-> verifier, repository |-> repository]
    OBVIOUS
  <2>1. PICK v, r : verifying.context = [content |-> verifying.subject.content,
                                         verifier |-> v, repository |-> r]
    BY DEF IInv, AttestationInv, Verifying
  <2>2. /\ verified = verifying.subject.content /\ subject = verifying.subject
        /\ verifier = verifying.context.verifier /\ repository = verifying.context.repository
    BY DEF IInv, AttestationInv, Verifying, After
  <2>3. v = verifier /\ r = repository
    BY <2>1, <2>2
  <2>4. QED BY <2>1, <2>2, <2>3
<1>2. QED BY <1>1, Invariance, PTL DEF AttestedNow, Spec

------------------------------------------------------------------------------
(* Types and budgets.                                                      *)

\* A call that is being made: within its budget, not before GitHub's time.
BoundedCall ==
  {k \in Call : k.at = "send" => /\ k.patient /\ k.clock < Total
                                 /\ k.attempt \in 1 .. Attempts /\ k.endpoint \in Endpoint}

CallInv ==
  /\ live \in 0 .. MaxLive /\ damage \in 0 .. MaxDamage /\ DOMAIN blobs \subseteq Document
  /\ call \in [Child -> BoundedCall]

\* A gate's counter is the size of the facts it keeps.
Accounted(kept, sum) ==
  /\ DOMAIN kept \subseteq Endpoint /\ IsFiniteSet(DOMAIN kept)
  /\ Cardinality(DOMAIN kept) <= MaxEntries
  /\ IsFiniteSet(Bytes(kept)) /\ Cardinality(Bytes(kept)) = sum /\ sum \in 0 .. MaxBytes

\* So it is because nothing is asked of GitHub that is kept already.
FactsInv ==
  /\ DOMAIN facts = Child /\ DOMAIN spent = Child
  /\ \A c \in Child : /\ Accounted(facts[c], spent[c])
                      /\ reader[c].at = "asked" => reader[c].of \notin DOMAIN facts[c]

FetchInv == cache \in Files \cup {None} /\ fetcher \in [Caller -> Fetcher] /\ faults \in 0 .. MaxFaults

Subject == [content : Content, stamp : 0 .. MaxTampering]

SessionInv ==
  /\ DOMAIN bundles \subseteq Context /\ IsFiniteSet(DOMAIN bundles)
  /\ Cardinality(DOMAIN bundles) <= MaxBundles
  /\ subject \in Subject
  /\ {verifier, repository, tampering} \subseteq 0 .. MaxTampering
  /\ verifying.at # "rest" => verifying.subject \in Subject
  /\ verifying.at \notin {"rest", "verifier"} => verifying.context \in Context

BudgetInv == CallInv /\ FactsInv /\ FetchInv /\ SessionInv

\* The largest and the smallest of a few numbers.
LEMMA LargestOfThree ==
  ASSUME NEW a \in Int, NEW b \in Int, NEW d \in Int
  PROVE  /\ Max({a, b, d}) \in {a, b, d}
         /\ \A x \in {a, b, d} : Max({a, b, d}) >= x
<1>1. \E m \in {a, b, d} : \A x \in {a, b, d} : m >= x
  OBVIOUS
<1>2. QED BY <1>1 DEF Max

LEMMA SmallestOfTwo ==
  ASSUME NEW a \in Int, NEW b \in Int PROVE Min({a, b}) \in {a, b}
<1>1. \E m \in {a, b} : \A x \in {a, b} : m <= x
  OBVIOUS
<1>2. QED BY <1>1 DEF Min

\* The wait before an attempt is at least what GitHub asked for.
LEMMA ToldIsNatural == ASSUME NEW f \in Failure PROVE Told(f) \in Nat
<1>1. f.after \in {None} \cup Named /\ f.reset \in {None} \cup Named
  BY DEF Failure
<1> DEFINE a == IF f.after = None THEN 0 ELSE f.after
           b == IF f.reset = None THEN 0 ELSE f.reset
<1>2. a \in Nat /\ b \in Nat
  BY <1>1, GetAssumption
<1>3. {0} \cup ({f.after, f.reset} \ {None}) = {0, a, b}
  OBVIOUS
<1>4. Told(f) = Max({0, a, b})
  BY <1>3 DEF Told
<1> HIDE DEF a, b
<1>5. Max({0, a, b}) \in {0, a, b}
  <2>1. 0 \in Int /\ a \in Int /\ b \in Int
    BY <1>2
  <2>2. QED BY <2>1, LargestOfThree
<1>6. QED BY <1>2, <1>4, <1>5

LEMMA DelayIsEnough ==
  ASSUME NEW attempt \in 1 .. Attempts, NEW f \in Failure
  PROVE  Delay(attempt, f) \in Int /\ Delay(attempt, f) >= Told(f)
<1>1. attempt \in Nat /\ attempt - 1 \in Nat /\ Fallback \in Nat
  BY GetAssumption
<1>2. 2 ^ (attempt - 1) \in Int
  BY <1>1
<1>3. Told(f) \in Int /\ Told(f) \in Nat
  BY ToldIsNatural
<1> DEFINE a == 2 ^ (attempt - 1)
           b == Told(f)
           d == IF f.kind \in {"throttled", "drained"} /\ f.after = None THEN Fallback ELSE b
<1>4. {a, b} \cup (IF f.kind \in {"throttled", "drained"} /\ f.after = None THEN {Fallback} ELSE {}) = {a, b, d}
  OBVIOUS
<1>5. a \in Int /\ b \in Int /\ d \in Int
  BY <1>1, <1>2, <1>3
<1>6. Delay(attempt, f) = Max({a, b, d})
  BY <1>4 DEF Delay
<1> HIDE DEF a, b, d
<1>7. Max({a, b, d}) \in Int /\ Max({a, b, d}) >= b
  BY <1>5, LargestOfThree
<1>8. QED BY <1>6, <1>7 DEF b

LEMMA NoCallBounded == NoCall \in BoundedCall
BY GetAssumption DEF NoCall, BoundedCall, Call, Value, Says

LEMMA SayingIsValue ==
  ASSUME NEW x \in {"right", "wrong", "ahead", "behind", "state", "nothing"}
  PROVE  Says(x) \in Value
BY GetAssumption DEF Says, Value

\* A call that has ended, whatever it answered.
LEMMA IdleBounded ==
  ASSUME NEW at \in {"answered", "failed"}, NEW v \in Value
  PROVE  [NoCall EXCEPT !.at = at, !.value = v] \in BoundedCall
<1> DEFINE x == [NoCall EXCEPT !.at = at, !.value = v]
<1>1. NoCall \in Call
  BY NoCallBounded DEF BoundedCall
<1>2. x \in Call /\ x.at = at
  BY <1>1 DEF Call
<1>3. QED BY <1>2 DEF BoundedCall

LEMMA GetBounds ==
  ASSUME CallInv, NEW c \in Child, NEW e \in Endpoint, Get(c, e)
  PROVE  call' \in [Child -> BoundedCall]
<1> DEFINE x == [NoCall EXCEPT !.at = "send", !.endpoint = e, !.attempt = 1]
<1>1. x \in BoundedCall
  <2>1. NoCall \in Call /\ NoCall.clock = 0 /\ NoCall.patient
    BY NoCallBounded DEF BoundedCall, NoCall
  <2>2. 1 \in 0 .. Attempts /\ 1 \in 1 .. Attempts /\ 0 < Total
    BY GetAssumption
  <2>3. x \in Call /\ x.endpoint = e /\ x.attempt = 1 /\ x.clock = NoCall.clock /\ x.patient = NoCall.patient
    BY <2>1, <2>2 DEF Call
  <2>4. QED BY <2>1, <2>2, <2>3 DEF BoundedCall
<1>2. QED BY <1>1 DEF Get, CallInv

LEMMA HangBounds ==
  ASSUME CallInv, NEW c \in Child, Hang(c) PROVE call' \in [Child -> BoundedCall]
BY NoCallBounded DEF Hang, CallInv

LEMMA AttemptBounds ==
  ASSUME CallInv, NEW c \in Child, Attempt(c)
  PROVE  call' \in [Child -> BoundedCall] /\ live' = live
<1>1. PICK k \in BoundedCall : k = call[c] /\ k.at = "send"
  BY DEF CallInv, Attempt
<1>2. /\ k.endpoint \in Endpoint /\ k.attempt \in 1 .. Attempts /\ k.clock \in 0 .. Total
      /\ k.patient \in BOOLEAN /\ k.value \in Value
  BY <1>1 DEF BoundedCall, Call
<1>3. ASSUME NEW v \in Answers(call[c].endpoint),
             call' = [call EXCEPT ![c] = [NoCall EXCEPT !.at = "answered", !.value = v]]
      PROVE  call' \in [Child -> BoundedCall]
  <2>1. v \in Value
    <3> DEFINE e == k.endpoint
    <3>1. v \in Answers(e) /\ e \in Endpoint
      BY <1>1, <1>2, <1>3
    <3> HIDE DEF e
    <3>2. e[1] \in {"live", "compare", "blob", "contents"}
      BY <3>1 DEF Endpoint
    <3>3. CASE e[1] = "live"
      BY <3>1, <3>3 DEF Answers, Value, CallInv
    <3>4. CASE e[1] = "compare"
      BY <3>1, <3>4, SayingIsValue DEF Answers
    <3>5. CASE e[1] = "blob"
      BY <3>1, <3>5, SayingIsValue DEF Answers
    <3>6. CASE e[1] = "contents"
      BY <3>1, <3>6, SayingIsValue DEF Answers
    <3>7. QED BY <3>2, <3>3, <3>4, <3>5, <3>6
  <2>2. [NoCall EXCEPT !.at = "answered", !.value = v] \in BoundedCall
    BY <2>1, IdleBounded
  <2>3. QED BY <1>3, <2>2 DEF CallInv
<1>4. ASSUME NEW now \in call[c].clock .. Min({call[c].clock + Cap, Total}), NEW f \in Failure,
             Wait(c, now, f)
      PROVE  call' \in [Child -> BoundedCall]
  <2>1. now \in Nat
    <3>1. Min({k.clock + Cap, Total}) \in Int
      BY <1>2, SmallestOfTwo, GetAssumption
    <3>2. QED BY <1>1, <1>2, <1>4, <3>1
  <2>2. CASE call' = [call EXCEPT ![c] = [NoCall EXCEPT !.at = "failed"]]
    <3> DEFINE x == [NoCall EXCEPT !.at = "failed"]
    <3>1. NoCall \in Call
      BY NoCallBounded DEF BoundedCall
    <3>2. x \in Call /\ x.at = "failed"
      BY <3>1 DEF Call
    <3>3. x \in BoundedCall
      BY <3>2 DEF BoundedCall
    <3>4. QED BY <2>2, <3>3 DEF CallInv
  <2> DEFINE delay == Delay(call[c].attempt, f)
             patient == delay >= Told(f)
  <2>3. CASE /\ Retryable(call[c].attempt, f) /\ delay < Total - now
             /\ call' = [call EXCEPT ![c].attempt = @ + 1, ![c].clock = now + delay,
                                     ![c].patient = patient]
    <3>1. delay \in Int /\ delay >= Told(f) /\ patient
      BY <1>1, <1>2, DelayIsEnough
    <3>2. delay \in Nat
      BY <3>1, ToldIsNatural
    <3> HIDE DEF delay, patient
    <3>3. now + delay \in 0 .. Total /\ now + delay < Total
      BY <2>1, <2>3, <3>2, GetAssumption
    <3>4. k.attempt + 1 \in 1 .. Attempts
      BY <1>1, <1>2, <2>3, GetAssumption DEF Retryable
    <3>5. PICK n \in 1 .. Attempts, t \in 0 .. Total : n = k.attempt + 1 /\ t = now + delay
      BY <3>3, <3>4
    <3>6. PICK x : x = [k EXCEPT !.attempt = n, !.clock = t, !.patient = TRUE]
      OBVIOUS
    <3>7. x \in BoundedCall
      <4>1. x \in Call
        <5>1. k \in Call /\ n \in 0 .. Attempts /\ t \in 0 .. Total
          BY <1>1, GetAssumption DEF BoundedCall
        <5>2. QED BY <3>6, <5>1 DEF Call
      <4>2. x.endpoint = k.endpoint /\ x.attempt = n /\ x.clock = t /\ x.patient = TRUE
        BY <3>6 DEF BoundedCall, Call
      <4>3. QED BY <1>2, <3>3, <3>5, <4>1, <4>2 DEF BoundedCall
    <3>8. call' = [call EXCEPT ![c] = x]
      BY <1>1, <2>3, <3>1, <3>5, <3>6 DEF CallInv
    <3>9. QED BY <3>7, <3>8 DEF CallInv
  <2>4. QED BY <1>4, <2>2, <2>3 DEF Wait
<1>5. QED BY <1>3, <1>4 DEF Attempt

------------------------------------------------------------------------------
(* The facts of a gate fit its bounds.                                     *)

\* The bytes of one fact, counted.
LEMMA FactBytes ==
  ASSUME NEW e, NEW n \in Nat
  PROVE  IsFiniteSet({e} \X (1 .. n)) /\ Cardinality({e} \X (1 .. n)) = n
<1>1. IsFiniteSet(1 .. n) /\ Cardinality(1 .. n) = n
  BY FS_Interval
<1> DEFINE f == [i \in 1 .. n |-> <<e, i>>]
<1>2. f \in Bijection(1 .. n, {e} \X (1 .. n))
  <2>1. f \in [1 .. n -> {e} \X (1 .. n)]
    OBVIOUS
  <2>2. \A i, j \in 1 .. n : f[i] = f[j] => i = j
    OBVIOUS
  <2>3. \A t \in {e} \X (1 .. n) : \E i \in 1 .. n : f[i] = t
    OBVIOUS
  <2>4. QED BY <2>1, <2>2, <2>3 DEF Bijection, Injection, Surjection, IsInjective
<1>3. ExistsBijection(1 .. n, {e} \X (1 .. n))
  BY <1>2 DEF ExistsBijection
<1>4. QED BY <1>1, <1>3, FS_Bijection

LEMMA NoFacts == Accounted(<<>>, 0)
<1>1. DOMAIN <<>> = {}
  OBVIOUS
<1>2. Bytes(<<>>) = {}
  BY <1>1 DEF Bytes
<1>3. MaxEntries \in Nat /\ MaxBytes \in Nat
  BY DocumentsAssumption
<1>4. QED BY <1>1, <1>2, <1>3, FS_EmptySet DEF Accounted

LEMMA FactsAdded ==
  ASSUME NEW kept, NEW sum, Accounted(kept, sum), NEW e \in Endpoint, e \notin DOMAIN kept,
         Cardinality(DOMAIN kept) < MaxEntries, sum + Size[e[2]] <= MaxBytes,
         NEW next, DOMAIN next = DOMAIN kept \cup {e}
  PROVE  Accounted(next, sum + Size[e[2]])
<1> DEFINE n == Size[e[2]]
           added == {e} \X (1 .. n)
<1>1. n \in Nat /\ MaxEntries \in Nat /\ MaxBytes \in Nat
  BY DocumentsAssumption DEF Endpoint
<1>2. IsFiniteSet(added) /\ Cardinality(added) = n
  BY <1>1, FactBytes
<1>3. Bytes(next) = Bytes(kept) \cup added
  BY DEF Bytes
<1>4. Bytes(kept) \cap added = {}
  BY DEF Bytes
<1>5. /\ IsFiniteSet(DOMAIN kept) /\ Cardinality(DOMAIN kept) <= MaxEntries
      /\ IsFiniteSet(Bytes(kept)) /\ Cardinality(Bytes(kept)) = sum /\ sum \in Nat
      /\ DOMAIN kept \subseteq Endpoint
  BY DEF Accounted
<1> HIDE DEF n, added
<1>6. IsFiniteSet(Bytes(next)) /\ Cardinality(Bytes(next)) = sum + n
  <2>1. /\ IsFiniteSet(Bytes(kept) \cup added)
        /\ Cardinality(Bytes(kept) \cup added)
             = Cardinality(Bytes(kept)) + Cardinality(added) - Cardinality(Bytes(kept) \cap added)
    BY <1>2, <1>5, FS_Union
  <2>2. Cardinality(Bytes(kept) \cap added) = 0
    BY <1>4, FS_EmptySet
  <2>3. QED BY <1>1, <1>2, <1>3, <1>5, <2>1, <2>2
<1>7. /\ IsFiniteSet(DOMAIN next)
      /\ Cardinality(DOMAIN next) = Cardinality(DOMAIN kept) + 1
  BY <1>5, FS_AddElement
<1>8. Cardinality(DOMAIN next) <= MaxEntries
  <2>1. Cardinality(DOMAIN kept) \in Nat
    BY <1>5, FS_CardinalityType
  <2>2. QED BY <1>1, <1>7, <2>1
<1>9. sum + n \in 0 .. MaxBytes
  BY <1>1, <1>5 DEF n
<1>10. DOMAIN next \subseteq Endpoint
  BY <1>5
<1>11. QED BY <1>6, <1>7, <1>8, <1>9, <1>10 DEF Accounted, n

\* A step that keeps the facts asks for nothing that is kept.
LEMMA FactsStay ==
  ASSUME FactsInv, UNCHANGED <<facts, spent>>,
         \A c \in Child : reader'[c].at = "asked" =>
           reader'[c].of = reader[c].of /\ reader[c].at = "asked"
  PROVE  FactsInv'
BY DEF FactsInv

LEMMA FactsChange ==
  ASSUME FactsInv, NEW c \in Child, NEW f, facts' = [facts EXCEPT ![c] = f],
         NEW n, spent' = [spent EXCEPT ![c] = n], Accounted(f, n),
         NEW r, reader' = [reader EXCEPT ![c] = r], r.at # "asked", DOMAIN reader = Child
  PROVE  FactsInv'
<1>1. facts'[c] = f /\ spent'[c] = n /\ reader'[c] = r
  BY DEF FactsInv
<1>2. \A d \in Child \ {c} : facts'[d] = facts[d] /\ spent'[d] = spent[d] /\ reader'[d] = reader[d]
  BY DEF FactsInv
<1>3. DOMAIN facts' = Child /\ DOMAIN spent' = Child
  BY DEF FactsInv
<1>4. \A d \in Child : /\ Accounted(facts'[d], spent'[d])
                       /\ reader'[d].at = "asked" => reader'[d].of \notin DOMAIN facts'[d]
  <2>1. TAKE d \in Child
  <2>2. CASE d = c
    BY <1>1, <2>2
  <2>3. CASE d # c
    BY <1>2, <2>3 DEF FactsInv
  <2>4. QED BY <2>2, <2>3
<1>5. QED BY <1>3, <1>4 DEF FactsInv

LEMMA UseAsksNothing ==
  ASSUME DocumentInv, NEW c \in Child, NEW e, NEW v, NEW since, Use(c, e, v, since)
  PROVE  \E r : reader' = [reader EXCEPT ![c] = r] /\ r.at # "asked"
<1> DEFINE r == IF e[1] = "contents"
                THEN [NoRead EXCEPT !.at = "cache", !.of = e,
                                    !.inline = IF e[2] \in Small THEN v.text ELSE "none"]
                ELSE [NoRead EXCEPT !.of = e, !.since = since, !.value = v]
<1>1. reader' = [reader EXCEPT ![c] = r]
  BY DEF Use
<1>2. r.at # "asked"
  BY DEF NoRead
<1> HIDE DEF r
<1>3. QED BY <1>1, <1>2

LEMMA FactsStep == ASSUME DocumentInv, FactsInv, ReadDocuments PROVE FactsInv'
<1> USE DEF Reader, Read, Conclude
<1>0. DOMAIN reader = Child /\ \A c \in Child : DOMAIN reader[c] = {"at", "of", "inline", "since", "value"}
  BY DEF DocumentInv, Reads
<1>1. ASSUME NEW c \in Child, NEW e \in Endpoint, Ask(c, e) PROVE FactsInv'
  <2>1. CASE e \in DOMAIN facts[c]
    <3>1. Use(c, e, facts[c][e], live) /\ UNCHANGED <<facts, spent>>
      BY <1>1, <2>1 DEF Ask
    <3>2. PICK r : reader' = [reader EXCEPT ![c] = r] /\ r.at # "asked"
      BY <3>1, UseAsksNothing
    <3>3. \A d \in Child : reader'[d].at = "asked" => reader'[d] = reader[d]
      BY <1>0, <3>2
    <3>4. QED BY <3>1, <3>3, FactsStay
  <2>2. CASE e \notin DOMAIN facts[c]
    <3> DEFINE r == [NoRead EXCEPT !.at = "asked", !.of = e, !.since = live]
    <3>1. reader' = [reader EXCEPT ![c] = r] /\ UNCHANGED <<facts, spent>>
      BY <1>1, <2>2 DEF Ask
    <3>2. r.of = e
      BY DEF NoRead
    <3> HIDE DEF r
    <3>3. \A d \in Child : reader'[d].at = "asked" => reader'[d].of \notin DOMAIN facts[d]
      BY <1>0, <2>2, <3>1, <3>2 DEF FactsInv
    <3>4. QED BY <3>1, <3>3 DEF FactsInv
  <2>3. QED BY <2>1, <2>2
<1>2. ASSUME NEW c \in Child, Answered(c) PROVE FactsInv'
  <2> DEFINE e == reader[c].of
             v == call[c].value
             f == [i \in DOMAIN facts[c] \cup {e} |-> IF i = e THEN v ELSE facts[c][i]]
             n == spent[c] + Size[e[2]]
  <2>1. e \in Endpoint /\ e \notin DOMAIN facts[c] /\ Accounted(facts[c], spent[c])
    BY <1>2 DEF Answered, DocumentInv, Reads, FactsInv
  <2>2. Retain(c, e, v)
    BY <1>2 DEF Answered
  <2>3. PICK r : reader' = [reader EXCEPT ![c] = r] /\ r.at # "asked"
    BY <1>2, UseAsksNothing DEF Answered
  <2>4. CASE UNCHANGED <<facts, spent>>
    <3>1. \A d \in Child : reader'[d].at = "asked" => reader'[d] = reader[d]
      BY <1>0, <2>3
    <3>2. QED BY <2>4, <3>1, FactsStay
  <2>5. CASE Room(c, e) /\ facts' = [facts EXCEPT ![c] = f] /\ spent' = [spent EXCEPT ![c] = n]
    <3>1. Cardinality(DOMAIN facts[c]) < MaxEntries /\ n <= MaxBytes
      BY <2>5 DEF Room
    <3>2. DOMAIN f = DOMAIN facts[c] \cup {e}
      OBVIOUS
    <3> HIDE DEF e, f
    <3>3. Accounted(f, n)
      BY <2>1, <3>1, <3>2, FactsAdded
    <3> HIDE DEF n
    <3>4. QED BY <1>0, <2>3, <2>5, <3>3, FactsChange
  <2>6. QED BY <2>2, <2>4, <2>5 DEF Retain
<1>3. ASSUME NEW c \in Child, UNCHANGED <<facts, spent>>,
             \/ Raise(c)
             \/ \E at \in {"fetch", "stage", "link"} : reader' = [reader EXCEPT ![c].at = at]
             \/ \E v : Conclude(c, v)
      PROVE  FactsInv'
  <2>1. reader'[c].at # "asked" /\ \A d \in Child \ {c} : reader'[d] = reader[d]
    <3>1. CASE Raise(c)
      BY <1>0, <3>1 DEF Raise, NoRead
    <3>2. CASE \E at \in {"fetch", "stage", "link"} : reader' = [reader EXCEPT ![c].at = at]
      BY <1>0, <3>2
    <3>3. CASE \E v : Conclude(c, v)
      <4>1. PICK v : reader' = [reader EXCEPT ![c].at = "rest", ![c].value = v]
        BY <3>3
      <4>2. QED BY <1>0, <4>1
    <3>4. QED BY <1>3, <3>1, <3>2, <3>3
  <2>2. QED BY <1>3, <2>1, FactsStay
<1>4. ASSUME NEW c \in Child, Unanswered(c) PROVE FactsInv'
  BY <1>3, <1>4 DEF Unanswered
<1>5. ASSUME NEW c \in Child, Look(c) PROVE FactsInv'
  BY <1>3, <1>5 DEF Look
<1>6. ASSUME NEW c \in Child, Decode(c) PROVE FactsInv'
  BY <1>3, <1>6 DEF Decode
<1>7. ASSUME NEW c \in Child, Stage(c) PROVE FactsInv'
  BY <1>3, <1>7 DEF Stage
<1>8. ASSUME NEW c \in Child, Link(c) PROVE FactsInv'
  BY <1>3, <1>8 DEF Link
<1>9. ASSUME NEW c \in Child, Die(c) PROVE FactsInv'
  <2>1. /\ facts' = [facts EXCEPT ![c] = <<>>] /\ spent' = [spent EXCEPT ![c] = 0]
        /\ reader' = [reader EXCEPT ![c] = NoRead] /\ NoRead.at # "asked"
    BY <1>9 DEF Die, Raise, NoRead
  <2>2. QED BY <1>0, <2>1, NoFacts, FactsChange
<1>10. CASE UNCHANGED <<facts, spent, reader>>
  BY <1>10, FactsStay
<1>11. QED
  BY <1>1, <1>2, <1>4, <1>5, <1>6, <1>7, <1>8, <1>9, <1>10 DEF ReadDocuments, DamageBlob

------------------------------------------------------------------------------
(* Calls, fetches and attestations stay in their types and bounds.         *)

LEMMA CallStep == ASSUME DocumentInv, CallInv, ReadDocuments PROVE CallInv'
<1>1. \A c \in Child : reader[c].at \in {"cache", "link"} =>
        reader[c].of[2] \in Document /\ <<"blob", reader[c].of[2]>> \in Endpoint
  <2>1. SUFFICES ASSUME NEW c \in Child, reader[c].at \in {"cache", "link"}
                 PROVE  reader[c].of[2] \in Document /\ <<"blob", reader[c].of[2]>> \in Endpoint
    OBVIOUS
  <2>2. PICK e \in Endpoint : e = reader[c].of /\ e[1] = "contents"
    BY <2>1 DEF DocumentInv, Reads
  <2>3. e[2] \in Document
    BY <2>2 DEF Endpoint
  <2>4. QED BY <2>2, <2>3 DEF Endpoint
<1>2. ASSUME call' \in [Child -> BoundedCall], UNCHANGED <<live, blobs, damage>> PROVE CallInv'
  BY <1>2 DEF CallInv
<1>3. ASSUME NEW c \in Child, NEW e \in Endpoint, Ask(c, e) PROVE CallInv'
  <2>1. CASE UNCHANGED call
    BY <1>2, <1>3, <2>1 DEF Ask, CallInv
  <2>2. CASE Get(c, e)
    BY <1>2, <1>3, <2>2, GetBounds DEF Ask
  <2>3. QED BY <1>3, <2>1, <2>2 DEF Ask
<1>4. ASSUME NEW c \in Child, Answered(c) \/ Unanswered(c) \/ Decode(c) \/ Die(c) PROVE CallInv'
  <2>1. Hang(c) /\ UNCHANGED <<live, blobs, damage>>
    BY <1>4 DEF Answered, Unanswered, Decode, Die
  <2>2. QED BY <1>2, <2>1, HangBounds
<1>5. ASSUME NEW c \in Child, Look(c) PROVE CallInv'
  <2>1. UNCHANGED <<live, blobs, damage>> /\ reader[c].at = "cache"
    BY <1>5 DEF Look, Reader
  <2>2. CASE UNCHANGED call
    BY <1>2, <2>1, <2>2 DEF CallInv
  <2>3. CASE Get(c, <<"blob", reader[c].of[2]>>)
    BY <1>1, <1>2, <2>1, <2>3, GetBounds
  <2>4. QED BY <1>5, <2>2, <2>3 DEF Look
<1>6. ASSUME NEW c \in Child, Stage(c) PROVE CallInv'
  BY <1>2, <1>6 DEF Stage, CallInv
<1>7. ASSUME NEW c \in Child, Link(c) PROVE CallInv'
  <2>1. reader[c].of[2] \in Document
    BY <1>1, <1>7 DEF Link, Reader
  <2>2. DOMAIN blobs' \subseteq Document
    BY <1>7, <2>1 DEF Link, Write, CallInv
  <2>3. QED BY <1>7, <2>2 DEF Link, CallInv
<1>8. ASSUME NEW c \in Child, Attempt(c), UNCHANGED <<blobs, damage>> PROVE CallInv'
  BY <1>2, <1>8, AttemptBounds
<1>9. CASE ChangeLive /\ UNCHANGED <<blobs, damage>>
  <2>1. live' \in 0 .. MaxLive
    BY <1>9, GetAssumption DEF ChangeLive, CallInv
  <2>2. QED BY <1>9, <2>1 DEF ChangeLive, CallInv
<1>10. ASSUME NEW d \in Document, DamageBlob(d) PROVE CallInv'
  <2>1. damage' \in 0 .. MaxDamage
    BY <1>10, DiskAssumption DEF DamageBlob, CallInv
  <2>2. QED BY <1>10, <2>1 DEF DamageBlob, CallInv
<1>11. QED
  BY <1>3, <1>4, <1>5, <1>6, <1>7, <1>8, <1>9, <1>10 DEF ReadDocuments

LEMMA DirectoriesAreFiles ==
  ASSUME NEW files PROVE files \in Files <=> Directory(files)
<1>1. ASSUME files \in Files PROVE Directory(files)
  <2>1. PICK some \in SUBSET CacheFile : files \in [some -> {"right", "wrong"}]
    BY <1>1 DEF Files
  <2>2. QED BY <2>1 DEF Directory, ByteState
<1>2. ASSUME Directory(files) PROVE files \in Files
  BY <1>2 DEF Files, Directory, ByteState
<1>3. QED BY <1>1, <1>2

LEMMA FetchBounds ==
  ASSUME PacketInv, FetchInv, NEW c \in Caller, FetchStep(c) \/ FailFetch(c)
  PROVE  FetchInv'
<1> DEFINE x == fetcher[c]
<1> USE DEF Fetching, Step
<1>1. x \in Fetcher
  BY DEF FetchInv
<1>2. ASSUME NEW y \in Fetcher, fetcher' = [fetcher EXCEPT ![c] = y],
             cache' \in Files \cup {None}, faults' \in 0 .. MaxFaults
      PROVE  FetchInv'
  BY <1>2 DEF FetchInv
<1>3. NoFiles \in Files
  BY DirectoriesAreFiles DEF Directory, NoFiles, ByteState
<1>4. \A how \in Ended : [NoFetch EXCEPT !.at = how] \in Fetcher
  BY <1>3 DEF NoFetch, Fetcher
<1>5. ASSUME NEW how \in Ended, Fail(c, how), UNCHANGED <<cache, faults>> PROVE FetchInv'
  BY <1>2, <1>4, <1>5 DEF Fail, FetchInv
<1>6. ASSUME NEW at \in {"inspect", "verify", "fetch", "rename", "done"},
             fetcher' = [fetcher EXCEPT ![c].at = at], UNCHANGED <<cache, faults>>
      PROVE  FetchInv'
  <2>1. [x EXCEPT !.at = at] \in Fetcher
    BY <1>1 DEF Fetcher, Ended
  <2>2. fetcher' = [fetcher EXCEPT ![c] = [x EXCEPT !.at = at]]
    BY <1>6
  <2>3. QED BY <1>2, <1>6, <2>1, <2>2 DEF FetchInv
<1>7. CASE Start(c)
  BY <1>6, <1>7 DEF Start, Unaided
<1>8. CASE Inspect(c)
  BY <1>6, <1>8 DEF Inspect, Unaided
<1>9. ASSUME NEW f \in Fetched, FetchMember(c, f) PROVE FetchInv'
  <2> DEFINE files == [i \in DOMAIN x.staging \cup {f} |-> IF i = f THEN "right" ELSE x.staging[i]]
             next == IF DOMAIN x.staging \cup {f} = Fetched THEN "receipt" ELSE x.at
             y == [x EXCEPT !.staging = files, !.at = next]
  <2>1. files \in Files
    <3>1. Directory(x.staging) /\ f \in CacheFile
      BY DEF PacketInv, CacheFile, Fetched
    <3>2. Directory(files)
      BY <3>1 DEF Directory, ByteState
    <3>3. QED BY <3>2, DirectoriesAreFiles
  <2>2. next \in {"receipt", "fetch"}
    BY <1>9 DEF FetchMember
  <2> HIDE DEF files, next
  <2>3. y \in Fetcher
    BY <1>1, <2>1, <2>2 DEF Fetcher
  <2>4. fetcher' = [fetcher EXCEPT ![c] = y] /\ UNCHANGED <<cache, faults>>
    BY <1>9 DEF FetchMember, Unaided, files, next
  <2>5. QED BY <1>2, <2>3, <2>4 DEF FetchInv
<1>10. CASE WriteReceipt(c)
  <2> DEFINE files == [f \in CacheFile |-> IF f \in Fetched THEN x.staging[f] ELSE "right"]
             y == [x EXCEPT !.at = "check", !.staging = files]
  <2>1. files \in Files
    <3>1. Directory(x.staging) /\ DOMAIN x.staging = Fetched
      BY <1>10 DEF PacketInv, WriteReceipt
    <3>2. Directory(files)
      BY <3>1 DEF Directory, ByteState
    <3>3. QED BY <3>2, DirectoriesAreFiles
  <2> HIDE DEF files
  <2>2. y \in Fetcher
    BY <1>1, <2>1 DEF Fetcher
  <2>3. fetcher' = [fetcher EXCEPT ![c] = y] /\ UNCHANGED <<cache, faults>>
    BY <1>10 DEF WriteReceipt, Unaided, files
  <2>4. QED BY <1>2, <2>2, <2>3 DEF FetchInv
<1>11. CASE Check(c)
  BY <1>5, <1>6, <1>11 DEF Check, Unaided, Ended
<1>12. CASE Rename(c)
  <2>1. CASE Fail(c, "raced") /\ UNCHANGED cache
    BY <1>5, <1>12, <2>1 DEF Rename, Ended
  <2>2. CASE /\ cache' = x.staging
             /\ fetcher' = [fetcher EXCEPT ![c].at = "verify", ![c].staging = NoFiles]
    <3> DEFINE y == [x EXCEPT !.at = "verify", !.staging = NoFiles]
    <3>1. y \in Fetcher /\ x.staging \in Files
      BY <1>1, <1>3 DEF Fetcher
    <3>2. fetcher' = [fetcher EXCEPT ![c] = y]
      BY <2>2
    <3>3. QED BY <1>2, <1>12, <2>2, <3>1, <3>2 DEF Rename, FetchInv
  <2>3. QED BY <1>12, <2>1, <2>2 DEF Rename
<1>13. CASE Verify(c)
  <2>1. CASE Fail(c, "refused")
    BY <1>5, <1>13, <2>1 DEF Verify, Unaided, Ended
  <2>2. CASE fetcher' = [fetcher EXCEPT ![c].at = "copy", ![c].calm = TRUE]
    <3> DEFINE y == [x EXCEPT !.at = "copy", !.calm = TRUE]
    <3>1. y \in Fetcher
      BY <1>1 DEF Fetcher, Ended
    <3>2. fetcher' = [fetcher EXCEPT ![c] = y]
      BY <2>2
    <3>3. QED BY <1>2, <1>13, <3>1, <3>2 DEF Verify, Unaided, FetchInv
  <2>3. QED BY <1>13, <2>1, <2>2 DEF Verify
<1>14. ASSUME NEW f \in Fetched, LinkMember(c, f) PROVE FetchInv'
  <2> DEFINE y == [x EXCEPT !.output = x.output \cup {f}]
  <2>1. y \in Fetcher
    BY <1>1 DEF Fetcher, Ended
  <2>2. fetcher' = [fetcher EXCEPT ![c] = y]
    BY <1>14 DEF LinkMember
  <2>3. QED BY <1>2, <1>14, <2>1, <2>2 DEF LinkMember, Unaided, FetchInv
<1>15. CASE Deliver(c)
  BY <1>6, <1>15 DEF Deliver
<1>16. CASE FailFetch(c)
  <2>1. faults' \in 0 .. MaxFaults
    BY <1>16, PacketAssumption DEF FailFetch, FetchInv
  <2>2. QED BY <1>2, <1>4, <1>16, <2>1 DEF FailFetch, Fail, Ended, FetchInv
<1>17. QED
  BY <1>7, <1>8, <1>9, <1>10, <1>11, <1>12, <1>13, <1>14, <1>15, <1>16 DEF FetchStep

LEMMA FetchAllBounds == ASSUME PacketInv, FetchInv, FetchPackets PROVE FetchInv'
<1>1. ASSUME NEW f \in CacheFile, DamageFile(f) PROVE FetchInv'
  <2>1. /\ cache' = [cache EXCEPT ![f] = "wrong"] /\ Directory(cache) /\ faults' = faults
        /\ fetcher' = [c \in Caller |-> [fetcher[c] EXCEPT !.calm = FALSE]]
    BY <1>1 DEF DamageFile, PacketInv
  <2>2. cache' \in Files
    <3>1. Directory(cache')
      BY <2>1 DEF Directory, ByteState
    <3>2. QED BY <3>1, DirectoriesAreFiles
  <2>3. \A c \in Caller : [fetcher[c] EXCEPT !.calm = FALSE] \in Fetcher
    BY DEF FetchInv, Fetcher
  <2>4. QED BY <2>1, <2>2, <2>3 DEF FetchInv
<1>2. ASSUME NEW f \in CacheFile, NEW c \in Caller, DamageStaged(c, f) PROVE FetchInv'
  <2> DEFINE x == fetcher[c]
             files == [x.staging EXCEPT ![f] = "wrong"]
             y == [x EXCEPT !.staging = files]
  <2>1. files \in Files
    <3>1. Directory(x.staging)
      BY DEF PacketInv
    <3>2. Directory(files)
      BY <3>1 DEF Directory, ByteState
    <3>3. QED BY <3>2, DirectoriesAreFiles
  <2>2. x \in Fetcher
    BY DEF FetchInv
  <2> HIDE DEF files
  <2>3. y \in Fetcher
    BY <2>1, <2>2 DEF Fetcher
  <2>4. fetcher' = [fetcher EXCEPT ![c] = y] /\ UNCHANGED <<cache, faults>>
    BY <1>2 DEF DamageStaged, files
  <2>5. QED BY <2>3, <2>4 DEF FetchInv
<1>3. QED BY <1>1, <1>2, FetchBounds DEF FetchPackets

\* A bundle goes, or one is added where there is room.
LEMMA BundleGoes ==
  ASSUME SessionInv, NEW i PROVE
    /\ DOMAIN Without(i) \subseteq Context /\ IsFiniteSet(DOMAIN Without(i))
    /\ Cardinality(DOMAIN Without(i)) <= MaxBundles
<1>1. DOMAIN Without(i) = DOMAIN bundles \ {i}
  BY DEF Without
<1>2. /\ IsFiniteSet(DOMAIN bundles) /\ Cardinality(DOMAIN bundles) <= MaxBundles
      /\ DOMAIN bundles \subseteq Context
  BY DEF SessionInv
<1>3. /\ IsFiniteSet(DOMAIN bundles \ {i})
      /\ Cardinality(DOMAIN bundles \ {i})
           = IF i \in DOMAIN bundles THEN Cardinality(DOMAIN bundles) - 1 ELSE Cardinality(DOMAIN bundles)
  BY <1>2, FS_RemoveElement
<1>4. Cardinality(DOMAIN bundles) \in Nat /\ MaxBundles \in Nat
  BY <1>2, FS_CardinalityType, SessionAssumption
<1>5. QED BY <1>1, <1>2, <1>3, <1>4

LEMMA BundleAdded ==
  ASSUME SessionInv, Cardinality(DOMAIN bundles) < MaxBundles, NEW i \in Context,
         NEW next, DOMAIN next = DOMAIN bundles \cup {i}
  PROVE  /\ DOMAIN next \subseteq Context /\ IsFiniteSet(DOMAIN next)
         /\ Cardinality(DOMAIN next) <= MaxBundles
<1>1. IsFiniteSet(DOMAIN bundles) /\ DOMAIN bundles \subseteq Context
  BY DEF SessionInv
<1>2. /\ IsFiniteSet(DOMAIN next)
      /\ Cardinality(DOMAIN next)
           = IF i \in DOMAIN bundles THEN Cardinality(DOMAIN bundles) ELSE Cardinality(DOMAIN bundles) + 1
  BY <1>1, FS_AddElement
<1>3. Cardinality(DOMAIN bundles) \in Nat /\ MaxBundles \in Nat
  BY <1>1, FS_CardinalityType, SessionAssumption
<1>4. QED BY <1>1, <1>2, <1>3

\* What the files, the repository and the trust are now, and what a verify
\* observed of them.
Bundled(kept) ==
  DOMAIN kept \subseteq Context /\ IsFiniteSet(DOMAIN kept) /\ Cardinality(DOMAIN kept) <= MaxBundles

Observed(v) ==
  /\ v.at # "rest" => v.subject \in Subject
  /\ v.at \notin {"rest", "verifier"} => v.context \in Context

Surroundings ==
  subject \in Subject /\ {verifier, repository, tampering} \subseteq 0 .. MaxTampering

LEMMA SessionStep == ASSUME AttestationInv, SessionInv, VerifyAttestations PROVE SessionInv'
<1> USE DEF Verifying
<1>1. /\ DOMAIN verifying = {"at", "subject", "context", "bundle", "calm"}
      /\ Bundled(bundles) /\ Observed(verifying) /\ Surroundings
  BY DEF AttestationInv, SessionInv, Bundled, Observed, Surroundings
<1>2. ASSUME Bundled(bundles'), Observed(verifying'), Surroundings' PROVE SessionInv'
  BY <1>2 DEF SessionInv, Bundled, Observed, Surroundings
<1>3. Observed(NoVerify)
  BY DEF Observed, NoVerify
<1>4. Bystanders => Surroundings'
  BY <1>1 DEF Bystanders, Surroundings
<1>5. Bundled(Without(verifying.context))
  BY BundleGoes DEF Bundled
<1>6. CASE HashSubject
  <2>1. Observed(verifying')
    BY <1>1, <1>6 DEF HashSubject, NoVerify, Observed, Surroundings
  <2>2. QED BY <1>1, <1>2, <1>4, <1>6, <2>1 DEF HashSubject
<1>7. CASE HashVerifier
  <2> DEFINE i == [content |-> verifying.subject.content, verifier |-> verifier, repository |-> 0]
  <2>1. verifying.subject \in Subject /\ verifier \in 0 .. MaxTampering /\ 0 \in 0 .. MaxTampering
    BY <1>1, <1>7, SessionAssumption DEF HashVerifier, Observed, Surroundings
  <2>2. i \in Context
    BY <2>1 DEF Context, Subject
  <2>3. verifying' = [verifying EXCEPT !.at = "repository", !.context = i]
    BY <1>7 DEF HashVerifier
  <2> HIDE DEF i
  <2>4. Observed(verifying')
    BY <1>1, <2>1, <2>2, <2>3 DEF Observed
  <2>5. QED BY <1>1, <1>2, <1>4, <1>7, <2>4 DEF HashVerifier
<1>8. CASE ReadRepository
  <2> DEFINE i == [verifying.context EXCEPT !.repository = repository]
  <2>1. /\ verifying.subject \in Subject /\ verifying.context \in Context
        /\ repository \in 0 .. MaxTampering
    BY <1>1, <1>8 DEF ReadRepository, Observed, Surroundings
  <2>2. i \in Context
    BY <2>1 DEF Context
  <2>3. verifying' = [verifying EXCEPT !.at = "entry", !.context = i]
    BY <1>8 DEF ReadRepository
  <2> HIDE DEF i
  <2>4. Observed(verifying')
    BY <1>1, <2>1, <2>2, <2>3 DEF Observed
  <2>5. QED BY <1>1, <1>2, <1>4, <1>8, <2>4 DEF ReadRepository
<1>9. CASE ReadEntry
  <2>1. \/ verifying' = NoVerify
        \/ verifying' = [verifying EXCEPT !.at = "run", !.bundle = TRUE]
        \/ verifying' = [verifying EXCEPT !.at = "run"]
    BY <1>9 DEF ReadEntry
  <2>2. verifying.at = "entry"
    BY <1>9 DEF ReadEntry
  <2>3. Observed(verifying')
    BY <1>1, <1>3, <2>1, <2>2 DEF Observed
  <2>4. QED BY <1>1, <1>2, <1>4, <1>9, <2>3 DEF ReadEntry
<1>10. CASE RunVerifier \/ VerifierFails
  <2>1. verifying.at = "run" /\ Bystanders
    BY <1>10 DEF RunVerifier, VerifierFails
  <2>2. CASE verifying' = [verifying EXCEPT !.at = "again"] /\ UNCHANGED bundles
    <3>1. Observed(verifying')
      BY <1>1, <2>1, <2>2 DEF Observed
    <3>2. QED BY <1>1, <1>2, <1>4, <2>1, <2>2, <3>1
  <2>3. CASE Abandon /\ bundles' = Without(verifying.context)
    BY <1>2, <1>3, <1>4, <1>5, <2>1, <2>3 DEF Abandon
  <2>4. QED BY <1>10, <2>2, <2>3 DEF RunVerifier, VerifierFails
<1>11. ASSUME NEW here \in After, NEW next \in After, NEW same \in BOOLEAN, Compare(here, next, same)
       PROVE  SessionInv'
  <2>1. verifying.at = here /\ Bystanders
    BY <1>11 DEF Compare
  <2> DEFINE calm == verifying.calm \/ here = "again"
  <2>2. CASE verifying' = [verifying EXCEPT !.at = next, !.calm = calm] /\ UNCHANGED bundles
    <3> HIDE DEF calm
    <3>1. Observed(verifying')
      BY <1>1, <1>11, <2>1, <2>2 DEF Observed, After
    <3>2. QED BY <1>1, <1>2, <1>4, <2>1, <2>2, <3>1
  <2>3. CASE Abandon /\ bundles' = Without(verifying.context)
    BY <1>2, <1>3, <1>4, <1>5, <2>1, <2>3 DEF Abandon
  <2>4. QED BY <1>11, <2>2, <2>3 DEF Compare
<1>12. CASE Return
  <2>1. verifying.at = "keep" /\ Bystanders /\ verifying' = NoVerify
    BY <1>12 DEF Return, Abandon
  <2>2. verifying.context \in Context
    BY <1>1, <2>1 DEF Observed
  <2>3. Bundled(bundles')
    <3>1. CASE bundles' = bundles
      BY <1>1, <3>1
    <3>2. CASE bundles' # bundles
      <4>1. Cardinality(DOMAIN bundles) < MaxBundles
        BY <1>12, <3>2 DEF Return
      <4>2. DOMAIN bundles' = DOMAIN bundles \cup {verifying.context}
        BY <1>12, <3>2 DEF Return
      <4>3. QED BY <2>2, <4>1, <4>2, BundleAdded DEF Bundled
    <3>3. QED BY <3>1, <3>2
  <2>4. QED BY <1>2, <1>3, <1>4, <2>1, <2>3
<1>13. CASE Tamper
  <2>1. tampering' = tampering + 1 /\ tampering' \in 0 .. MaxTampering
    BY <1>1, <1>13, SessionAssumption DEF Tamper, Surroundings
  <2>2. Surroundings'
    BY <1>1, <1>13, <2>1 DEF Tamper, Surroundings, Subject
  <2>3. Bundled(bundles')
    BY <1>1, <1>13 DEF Tamper, Bundled
  <2>4. Observed(verifying')
    BY <1>1, <1>13 DEF Tamper, Observed
  <2>5. QED BY <1>2, <2>2, <2>3, <2>4
<1>14. QED
  BY <1>6, <1>7, <1>8, <1>9, <1>10, <1>11, <1>12, <1>13 DEF VerifyAttestations, After

------------------------------------------------------------------------------
(* All budgets together.                                                   *)

LEMMA BudgetInitial == Init => BudgetInv
<1> SUFFICES ASSUME Init PROVE BudgetInv
  OBVIOUS
<1>1. CallInv
  <2>1. live \in 0 .. MaxLive /\ damage \in 0 .. MaxDamage
    BY GetAssumption, DiskAssumption DEF Init, DocumentsInit, GetInit
  <2>2. DOMAIN blobs \subseteq Document
    BY DEF Init, DocumentsInit
  <2>3. call \in [Child -> BoundedCall]
    BY NoCallBounded DEF Init, DocumentsInit, GetInit
  <2>4. QED BY <2>1, <2>2, <2>3 DEF CallInv
<1>2. FactsInv
  BY NoFacts DEF Init, DocumentsInit, FactsInv, NoRead
<1>3. FetchInv
  <2>1. NoFiles \in Files
    BY DirectoriesAreFiles DEF Directory, NoFiles, ByteState
  <2>2. NoFetch \in Fetcher
    BY <2>1 DEF NoFetch, Fetcher
  <2>3. QED BY <2>2, PacketAssumption DEF Init, PacketInit, FetchInv
<1>4. SessionInv
  <2>1. DOMAIN bundles = {}
    BY DEF Init, SessionInit
  <2>2. subject \in Subject
    BY SessionAssumption DEF Init, SessionInit, Subject
  <2>3. QED
    BY <2>1, <2>2, FS_EmptySet, SessionAssumption DEF Init, SessionInit, NoVerify, SessionInv
<1>5. QED BY <1>1, <1>2, <1>3, <1>4 DEF BudgetInv

LEMMA BudgetStep == IInv /\ BudgetInv /\ [Next]_vars => BudgetInv'
<1> SUFFICES ASSUME IInv, BudgetInv, [Next]_vars PROVE BudgetInv'
  OBVIOUS
<1>1. ASSUME UNCHANGED <<live, call, blobs, damage>> PROVE CallInv'
  BY <1>1 DEF BudgetInv, CallInv
<1>2. ASSUME UNCHANGED <<facts, spent, reader>> PROVE FactsInv'
  BY <1>2, FactsStay DEF BudgetInv
<1>3. ASSUME UNCHANGED <<cache, fetcher, faults>> PROVE FetchInv'
  BY <1>3 DEF BudgetInv, FetchInv
<1>4. ASSUME UNCHANGED <<bundles, subject, verifier, repository, tampering, verifying>>
      PROVE  SessionInv'
  BY <1>4 DEF BudgetInv, SessionInv
<1>5. CASE ReadDocuments /\ UNCHANGED <<packetVars, faults, sessionVars, tampering>>
  <2>1. CallInv' /\ FactsInv'
    BY <1>5, CallStep, FactsStep DEF IInv, BudgetInv
  <2>2. FetchInv' /\ SessionInv'
    BY <1>3, <1>4, <1>5 DEF packetVars, sessionVars
  <2>3. QED BY <2>1, <2>2 DEF BudgetInv
<1>6. CASE FetchPackets /\ UNCHANGED <<documentVars, sessionVars, tampering>>
  <2>1. FetchInv'
    BY <1>6, FetchAllBounds DEF IInv, BudgetInv
  <2>2. damage' \in 0 .. MaxDamage
    <3>1. damage \in 0 .. MaxDamage
      BY DEF BudgetInv, CallInv
    <3>2. CASE damage' = damage
      BY <3>1, <3>2
    <3>3. CASE damage' = damage + 1 /\ damage < MaxDamage
      BY <3>1, <3>3, DiskAssumption
    <3>4. QED
      BY <1>6, <3>2, <3>3 DEF FetchPackets, FetchStep, FailFetch, DamageFile, DamageStaged,
           Start, Inspect, FetchMember, WriteReceipt, Check, Rename, Verify, LinkMember, Deliver, Unaided
  <2>3. CallInv' /\ FactsInv' /\ SessionInv'
    BY <1>2, <1>4, <1>6, <2>2 DEF documentVars, sessionVars, BudgetInv, CallInv
  <2>4. QED BY <2>1, <2>3 DEF BudgetInv
<1>7. CASE VerifyAttestations /\ UNCHANGED <<documentVars, packetVars, damage, faults>>
  <2>1. SessionInv'
    BY <1>7, SessionStep DEF IInv, BudgetInv
  <2>2. CallInv' /\ FactsInv' /\ FetchInv'
    BY <1>1, <1>2, <1>3, <1>7 DEF documentVars, packetVars
  <2>3. QED BY <2>1, <2>2 DEF BudgetInv
<1>8. CASE UNCHANGED vars
  BY <1>1, <1>2, <1>3, <1>4, <1>8 DEF vars, documentVars, packetVars, sessionVars, BudgetInv
<1>9. QED BY <1>5, <1>6, <1>7, <1>8 DEF Next

\* No attempt is made before the time GitHub named or after the call's budget,
\* and no cache outgrows its limits: entries and bytes of a gate's facts, the
\* bundles of a session.
THEOREM Budgets == Spec => []BudgetsKept
<1>1. BudgetInv => BudgetsKept
  <2> SUFFICES ASSUME BudgetInv PROVE BudgetsKept
    OBVIOUS
  <2>1. \A c \in Child : call[c] \in Call /\ (call[c].at = "send" => call[c].patient /\ call[c].clock < Total)
    BY DEF BudgetInv, CallInv, BoundedCall
  <2>2. live \in 0 .. MaxLive /\ call \in [Child -> Call]
    BY <2>1 DEF BudgetInv, CallInv
  <2>3. \A c \in Child : /\ DOMAIN facts[c] \subseteq Endpoint
                         /\ Cardinality(DOMAIN facts[c]) <= MaxEntries
                         /\ Cardinality(Bytes(facts[c])) <= MaxBytes
    BY DocumentsAssumption DEF BudgetInv, FactsInv, Accounted
  <2>4. /\ DOMAIN blobs \subseteq Document /\ damage \in 0 .. MaxDamage
        /\ cache \in Files \cup {None} /\ fetcher \in [Caller -> Fetcher] /\ faults \in 0 .. MaxFaults
    BY DEF BudgetInv, CallInv, FetchInv
  <2>5. /\ DOMAIN bundles \subseteq Context /\ Cardinality(DOMAIN bundles) <= MaxBundles
        /\ subject.content \in Content /\ tampering \in 0 .. MaxTampering
    BY DEF BudgetInv, SessionInv, Subject
  <2>6. QED BY <2>1, <2>2, <2>3, <2>4, <2>5 DEF BudgetsKept, TypeOK
<1>2. QED BY <1>1, Invariance, BudgetInitial, BudgetStep, PTL DEF Spec
=============================================================================
