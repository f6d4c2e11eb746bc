---------------------------- MODULE GateDocuments ----------------------------
(***************************************************************************)
(* What a gate reads of GitHub: the map of immutable facts it keeps for    *)
(* one call (ci/decisions/immutable_reads.py), and the job's cache of Git  *)
(* blobs shared by its processes (blob_cache_path to document_at of        *)
(* ci/decisions/decision_authority.py).  A blob's bytes are "right" (they  *)
(* hash to its identity) or "wrong".                                       *)
(***************************************************************************)
EXTENDS GitHubGet

CONSTANTS
  Size,                   \* per document (None: of anything else): bytes of its fact
  MaxEntries, MaxBytes    \* 256 and 8 MiB

ASSUME DocumentsAssumption ==
  /\ Size \in [Document \cup {None} -> Nat]
  /\ {MaxEntries, MaxBytes} \subseteq Nat

VARIABLES
  facts,      \* per child: GateReads.entries
  spent,      \* per child: GateReads.bytes
  blobs,      \* the job's blob cache: complete files by identity
  reader      \* per child: its read, and what it returned

documentVars == <<live, call, facts, spent, blobs, reader>>

NoRead == [at |-> "rest", of |-> None, inline |-> "none", since |-> 0, value |-> Says("nothing")]

DocumentsInit ==
  /\ GetInit
  /\ facts = [c \in Child |-> <<>>] /\ spent = [c \in Child |-> 0]
  /\ blobs = <<>> /\ reader = [c \in Child |-> NoRead]

Reader(c, point) == reader[c].at = point
Read(c, point) == reader' = [reader EXCEPT ![c].at = point]
Conclude(c, value) == reader' = [reader EXCEPT ![c].at = "rest", ![c].value = value]
Raise(c) == reader' = [reader EXCEPT ![c] = NoRead]
Hang(c) == call' = [call EXCEPT ![c] = NoCall]

\* GateReads.fact: what may be kept of an answer.  (Faulty variant: whatever
\* the gate read.)
FactAny(e, v) == TRUE

Fact(e, v) ==
  \/ e[1] = "compare" /\ v.text = "ahead"
  \/ e[1] = "contents" /\ (e[2] \in Small => v.text = "right")

Room(c, e) == Cardinality(DOMAIN facts[c]) < MaxEntries /\ spent[c] + Size[e[2]] <= MaxBytes

Retain(c, e, v) ==
  IF Fact(e, v) /\ Room(c, e)
  THEN /\ facts' = [facts EXCEPT ![c] = [i \in DOMAIN @ \cup {e} |-> IF i = e THEN v ELSE @[i]]]
       /\ spent' = [spent EXCEPT ![c] = @ + Size[e[2]]]
  ELSE UNCHANGED <<facts, spent>>

\* A caller of the gate has an answer: a document is read from it, anything
\* else is returned.
Use(c, e, v, since) ==
  reader' = [reader EXCEPT ![c] =
    IF e[1] = "contents"
    THEN [NoRead EXCEPT !.at = "cache", !.of = e, !.inline = IF e[2] \in Small THEN v.text ELSE "none"]
    ELSE [NoRead EXCEPT !.of = e, !.since = since, !.value = v]]

Ask(c, e) ==
  /\ Reader(c, "rest") /\ e[1] # "blob"
  /\ IF e \in DOMAIN facts[c]
     THEN Use(c, e, facts[c][e], live) /\ UNCHANGED call
     ELSE /\ Get(c, e)
          /\ reader' = [reader EXCEPT ![c] = [NoRead EXCEPT !.at = "asked", !.of = e, !.since = live]]
  /\ UNCHANGED <<live, facts, spent, blobs, damage>>

Answered(c) ==
  /\ Reader(c, "asked") /\ call[c].at = "answered" /\ Hang(c)
  /\ Retain(c, reader[c].of, call[c].value) /\ Use(c, reader[c].of, call[c].value, reader[c].since)
  /\ UNCHANGED <<live, blobs, damage>>

Unanswered(c) ==
  /\ call[c].at = "failed" /\ Hang(c) /\ Raise(c)
  /\ UNCHANGED <<live, facts, spent, blobs, damage>>

\* document_blob: the cached bytes, checked against their identity and, if the
\* answer carries the bytes, against them.
Cached(d) == IF d \in DOMAIN blobs THEN blobs[d] ELSE "none"

Look(c) ==
  LET d == reader[c].of[2]    seen == {Cached(d), reader[c].inline}
  IN /\ Reader(c, "cache")
     /\ IF seen = {"none"} THEN Get(c, <<"blob", d>>) /\ Read(c, "fetch")
        ELSE /\ UNCHANGED call
             /\ IF "wrong" \in seen THEN Raise(c)
                ELSE IF Cached(d) = "none" THEN Read(c, "stage")
                ELSE Conclude(c, Says(blobs[d]))
     /\ UNCHANGED <<live, facts, spent, blobs, damage>>

Decode(c) ==
  /\ Reader(c, "fetch") /\ call[c].at = "answered" /\ Hang(c)
  /\ IF call[c].value.text = "right" THEN Read(c, "stage") ELSE Raise(c)
  /\ UNCHANGED <<live, facts, spent, blobs, damage>>

\* retain_blob: a complete staging file, linked under its name if that is free;
\* a file already there is verified, never replaced.  (Faulty variant: the
\* bytes are written under the name itself, in two steps.)
Write(d, bytes) == blobs' = [i \in DOMAIN blobs \cup {d} |-> IF i = d THEN bytes ELSE blobs[i]]

StageInPlace(c) ==
  /\ Reader(c, "stage") /\ Read(c, "link") /\ Write(reader[c].of[2], "wrong")
  /\ UNCHANGED <<live, call, facts, spent, damage>>

Stage(c) ==
  /\ Reader(c, "stage") /\ Read(c, "link")
  /\ UNCHANGED <<live, call, facts, spent, blobs, damage>>

Link(c) ==
  LET d == reader[c].of[2]
  IN /\ Reader(c, "link")
     /\ IF Cached(d) = "wrong" THEN Raise(c) ELSE Conclude(c, Says("right"))
     /\ IF Cached(d) = "none" THEN Write(d, "right") ELSE UNCHANGED blobs
     /\ UNCHANGED <<live, call, facts, spent, damage>>

\* A child is killed; a staging file it leaves has a name nobody reads.
Die(c) ==
  /\ ~ Reader(c, "rest")
  /\ Hang(c) /\ Raise(c)
  /\ facts' = [facts EXCEPT ![c] = <<>>] /\ spent' = [spent EXCEPT ![c] = 0]
  /\ UNCHANGED <<live, blobs, damage>>

DamageBlob(d) ==
  /\ d \in DOMAIN blobs /\ blobs[d] = "right" /\ damage < MaxDamage
  /\ blobs' = [blobs EXCEPT ![d] = "wrong"] /\ damage' = damage + 1
  /\ UNCHANGED <<live, call, facts, spent, reader>>

ReadDocuments ==
  \/ \E c \in Child :
       \/ \E e \in Endpoint : Ask(c, e)
       \/ Answered(c) \/ Unanswered(c) \/ Look(c) \/ Decode(c) \/ Stage(c) \/ Link(c) \/ Die(c)
       \/ Attempt(c) /\ UNCHANGED <<facts, spent, blobs, reader, damage>>
  \/ ChangeLive /\ UNCHANGED <<facts, spent, blobs, reader, damage>>
  \/ \E d \in Document : DamageBlob(d)
=============================================================================
