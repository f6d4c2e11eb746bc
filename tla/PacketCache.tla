----------------------------- MODULE PacketCache -----------------------------
(***************************************************************************)
(* fetch of ci/decisions/decision_packets.py: the processes of one job get *)
(* the same packet from the registry, through the job's cache.  An entry   *)
(* is verified whole on every use; outputs are hard links to it.           *)
(***************************************************************************)
EXTENDS JobDisk

CONSTANTS
  Caller,       \* the job's processes that fetch it, once each
  Member,       \* payload files of the packet
  MaxFaults     \* bound: registry calls that fail or send wrong bytes, deaths

ASSUME PacketAssumption ==
  /\ {"packet", "manifest", "receipt"} \cap Member = {}
  /\ MaxFaults \in Nat

\* The packet's own descriptor, the OCI manifest, and what the fetch adds.
Fetched == {"packet"} \cup Member
CacheFile == Fetched \cup {"manifest", "receipt"}
NoFiles == [f \in {} |-> "right"]
Files == UNION {[some -> {"right", "wrong"}] : some \in SUBSET CacheFile}

ASSUME EntryAssumption == None \notin Files

VARIABLES
  cache,      \* the entry, or None
  fetcher,    \* per caller: where it is, its staging directory, and the files
              \* of its output that are links into the entry
  served,     \* per caller: what its fetch returned
  faults

packetVars == <<cache, fetcher, served>>

\* A fetch is asked for once: it returns, or it ends as a registry call failed or
\* its process died, as another made the entry meanwhile, or as what it verified
\* was not right.
Ended == {"done", "died", "raced", "refused"}

\* calm is a history field: the entry was not damaged since it was verified.
NoFetch == [at |-> "start", staging |-> NoFiles, output |-> {}, calm |-> TRUE]
Fetcher == [at : {"start", "inspect", "fetch", "receipt", "check", "rename", "verify", "copy"} \cup Ended,
            staging : Files, output : SUBSET Fetched, calm : BOOLEAN]

PacketInit ==
  /\ cache = None /\ fetcher = [c \in Caller |-> NoFetch]
  /\ served = [c \in Caller |-> NoFiles] /\ faults = 0

Fetching(c, point) == fetcher[c].at = point
Step(c, point) == fetcher' = [fetcher EXCEPT ![c].at = point]
Unaided == UNCHANGED <<cache, served, damage, faults>>
Fail(c, how) == fetcher' = [fetcher EXCEPT ![c] = [NoFetch EXCEPT !.at = how]]

\* verify_cached: every file of the entry, and no other, has the bytes that
\* the reference, its manifest and the verifier's version bind.
Whole(files) == DOMAIN files = CacheFile /\ \A f \in CacheFile : files[f] = "right"

Start(c) ==
  /\ Fetching(c, "start") /\ Step(c, IF cache = None THEN "inspect" ELSE "verify") /\ Unaided

\* inspect and fetch_member: a call that fails, or bytes that do not hash to
\* their digest, end the fetch and its staging directory.
Inspect(c) ==
  /\ Fetching(c, "inspect")
  /\ fetcher' = [fetcher EXCEPT ![c].at = "fetch"]
  /\ Unaided

FetchMember(c, f) ==
  /\ Fetching(c, "fetch") /\ f \notin DOMAIN fetcher[c].staging
  /\ f = "packet" \/ "packet" \in DOMAIN fetcher[c].staging
  /\ fetcher' = [fetcher EXCEPT
       ![c].staging = [i \in DOMAIN @ \cup {f} |-> IF i = f THEN "right" ELSE @[i]],
       ![c].at = IF DOMAIN fetcher[c].staging \cup {f} = Fetched THEN "receipt" ELSE @]
  /\ Unaided

WriteReceipt(c) ==
  /\ Fetching(c, "receipt")
  /\ fetcher' = [fetcher EXCEPT
       ![c].at = "check",
       ![c].staging = [f \in CacheFile |-> IF f \in Fetched THEN @[f] ELSE "right"]]
  /\ Unaided

Check(c) ==
  /\ Fetching(c, "check") /\ Unaided
  /\ IF Whole(fetcher[c].staging) THEN Step(c, "rename") ELSE Fail(c, "refused")

\* The verified staging directory becomes the entry; renaming onto one that
\* another caller made meanwhile fails.
Rename(c) ==
  /\ Fetching(c, "rename") /\ UNCHANGED <<served, damage, faults>>
  /\ IF cache = None
     THEN /\ cache' = fetcher[c].staging
          /\ fetcher' = [fetcher EXCEPT ![c].at = "verify", ![c].staging = NoFiles]
     ELSE Fail(c, "raced") /\ UNCHANGED cache

\* (Faulty variant: an entry of the job is trusted.)
VerifyTrusting(c) ==
  /\ Fetching(c, "verify") /\ Unaided
  /\ fetcher' = [fetcher EXCEPT ![c].at = "copy", ![c].calm = TRUE]

Verify(c) ==
  /\ Fetching(c, "verify") /\ Unaided
  /\ IF Whole(cache)
     THEN fetcher' = [fetcher EXCEPT ![c].at = "copy", ![c].calm = TRUE]
     ELSE Fail(c, "refused")

\* copytree with hard links: member by member, then the fetch returns.
LinkMember(c, f) ==
  /\ Fetching(c, "copy") /\ f \in Fetched \ fetcher[c].output
  /\ fetcher' = [fetcher EXCEPT ![c].output = @ \cup {f}] /\ Unaided

Deliver(c) ==
  /\ Fetching(c, "copy") /\ fetcher[c].output = Fetched
  /\ served' = [served EXCEPT ![c] = [f \in Fetched |-> cache[f]]]
  /\ Step(c, "done") /\ UNCHANGED <<cache, damage, faults>>

\* A registry call fails or sends wrong bytes, or the caller dies; what it
\* staged is removed or has a name nobody reads.  (Faulty variant: the staging
\* directory is the entry from the start.)
FailFetchLeaving(c) ==
  /\ fetcher[c].at \notin {"start"} \cup Ended /\ Fail(c, "died")
  /\ cache' = IF cache = None /\ fetcher[c].staging # NoFiles THEN fetcher[c].staging ELSE cache
  /\ faults < MaxFaults /\ faults' = faults + 1 /\ UNCHANGED <<served, damage>>

FailFetch(c) ==
  /\ fetcher[c].at \notin {"start"} \cup Ended /\ Fail(c, "died")
  /\ faults < MaxFaults /\ faults' = faults + 1 /\ UNCHANGED <<cache, served, damage>>

DamageStaged(c, f) ==
  /\ f \in DOMAIN fetcher[c].staging /\ fetcher[c].staging[f] = "right" /\ damage < MaxDamage
  /\ fetcher' = [fetcher EXCEPT ![c].staging[f] = "wrong"] /\ damage' = damage + 1
  /\ UNCHANGED <<cache, served, faults>>

\* Somebody writes through an output's link, or a file of the entry: both are
\* the same inode.
DamageFile(f) ==
  /\ cache # None /\ f \in DOMAIN cache /\ cache[f] = "right" /\ damage < MaxDamage
  /\ cache' = [cache EXCEPT ![f] = "wrong"] /\ damage' = damage + 1
  /\ fetcher' = [c \in Caller |-> [fetcher[c] EXCEPT !.calm = FALSE]]
  /\ UNCHANGED <<served, faults>>

FetchStep(c) ==
  \/ Start(c) \/ Inspect(c) \/ (\E f \in Fetched : FetchMember(c, f) \/ LinkMember(c, f))
  \/ WriteReceipt(c) \/ Check(c) \/ Rename(c) \/ Verify(c) \/ Deliver(c)

FetchPackets ==
  \/ \E c \in Caller : FetchStep(c) \/ FailFetch(c)
  \/ \E f \in CacheFile : DamageFile(f) \/ \E c \in Caller : DamageStaged(c, f)
=============================================================================
