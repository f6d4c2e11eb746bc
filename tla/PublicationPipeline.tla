------------------------- MODULE PublicationPipeline -------------------------
(***************************************************************************)
(* Publishing approved products: publish of ci/publication-controller.py   *)
(* and the leaves it runs, ci/publish.sh, ci/tag-xo-release.sh,            *)
(* ci/tag-release.sh and ci/publish-release.sh.                            *)
(*                                                                         *)
(* A run takes one product to the public destinations in order: binary     *)
(* cache, registry handoff and, for the release purpose, the Xen Orchestra *)
(* tag, the project tag and the GitHub release.  Each is probed first,     *)
(* written only after a live admission gate, read back, and recorded in    *)
(* the product's journal.  Runs are serialized by the workflow's           *)
(* concurrency group; any of them may die between two calls and a later    *)
(* run resumes from what the destinations, never the journal, show.        *)
(*                                                                         *)
(* One gate is one step here (module PublicationGate opens it) and so is   *)
(* one journal save (module PublicationJournal).  Registry, cache, Git and *)
(* GitHub are external and modelled from how the code uses them.           *)
(***************************************************************************)
EXTENDS Naturals, FiniteSets

CONSTANTS
  Product,           \* approved products; each has a revision of its own
  Path,              \* the store paths of a product
  Tag,               \* tag names
  XoTag,             \* per product: the Xen Orchestra tag it needs, or None
  ProjectTag,        \* per product: the tag of its project version
  None,
  MaxFaults,         \* bound: dying runs and lost acknowledgements
  MaxWorld           \* bound: authority changes, foreign writes, evictions

ASSUME PipelineAssumption ==
  /\ XoTag \in [Product -> Tag \cup {None}] /\ ProjectTag \in [Product -> Tag]
  /\ None \notin Product \cup Tag
  /\ MaxFaults \in Nat /\ MaxWorld \in Nat

VARIABLES
  authority,   \* products the live admission gate accepts
  cache,       \* per product and path: what the public cache serves
  handoffs,    \* public registry packets, <<product, mode>>
  tags,        \* remote tags: the product whose revision each names, or None
  releases,    \* tags that have a published GitHub release
  journal,     \* per product: recorded checkpoints, <<step, identity>>
  run,         \* the running publication, or None
  verified,    \* publications that reported "verified", <<product, purpose>>
  faults, world, evictions,
  overdue      \* history: public writes since the run's product was revoked

vars == <<authority, cache, handoffs, tags, releases, journal, run, verified,
          faults, world, evictions, overdue>>
destinations == <<cache, handoffs, tags, releases>>
bounds == <<faults, world, evictions>>

Content == {"absent", "good", "other"}
Purpose == {"rolling", "release"}
\* Whether the handoff is copied from the approved packet or pushed from
\* locally materialized evidence; a retry may find the other kind of evidence.
\* A run has no use for the difference before it gets to the handoff.
Mode == {"remote", "local"}
Step == {"cache", "handoff", "xo-tag", "project-tag", "github-release"}

\* The points between the calls of a run, in order.
Point == {"admit", "open", "probe", "cacheGate", "inspect", "uploadGate",
          "upload", "readback", "require", "reprobe", "saveCache",
          "handoffProbe", "handoffGate", "copy", "handoffRead", "saveHandoff",
          "xoGate", "xoTag", "xoRead", "saveXo", "project", "tagGate", "tag",
          "tagRead", "saveTag", "releaseGate", "release", "releaseRead",
          "saveRelease"}

\* A run: "missing" is what the inspection found absent, "local" the tags its
\* clone knows, "proven" whether the cache was complete at some moment of it.
Run == [product : Product, purpose : Purpose, mode : Mode \cup {None}, at : Point,
        missing : SUBSET Path, local : [Tag -> Product \cup {None}], proven : BOOLEAN]

Complete(p) == \A path \in Path : cache[p][path] = "good"
Conflicting(p) == \E path \in Path : cache[p][path] = "other"
Recorded(p, step) == \E id \in Product \cup Mode : <<step, id>> \in journal[p]

------------------------------------------------------------------------------
(* Steps of a run.                                                         *)

At(point) == run # None /\ run.at = point
P == run.product

Goto(point) == run' = [run EXCEPT !.at = point]
\* Any error ends the run; publish() has no handler that goes on.
Fail == run' = None /\ UNCHANGED verified
End(purpose) == run' = None /\ verified' = verified \cup {<<P, purpose>>}

Reading == UNCHANGED <<authority, destinations, journal, bounds, overdue>>

\* A probe or readback of the destinations: on with the run, or an error.
Read(point, ok, next) ==
  /\ At(point) /\ Reading
  /\ IF ok THEN Goto(next) /\ UNCHANGED verified ELSE Fail

Gate(point, next) == Read(point, P \in authority, next)

\* A public write of the running product.
Writes == overdue' = IF P \in authority THEN 0 ELSE overdue + 1
Writing == Writes /\ UNCHANGED <<authority, journal, bounds>>

Fault == faults < MaxFaults /\ faults' = faults + 1

\* A checkpoint.  When the acknowledgement is lost the run fails although the
\* journal has it.
Record(step, id) ==
  /\ journal' = [journal EXCEPT ![P] = {c \in @ : c[1] # step} \cup {<<step, id>>}]
  /\ UNCHANGED <<authority, destinations, world, evictions, overdue>>

Save(point, step, id, next) ==
  /\ At(point) /\ Record(step, id)
  /\ \/ Goto(next) /\ UNCHANGED <<verified, faults>>
     \/ Fault /\ Fail

\* The checkpoint after which a publication of this purpose is complete.
SaveLast(point, step, id, purpose) ==
  /\ At(point) /\ run.purpose = purpose /\ Record(step, id)
  /\ \/ End(purpose) /\ UNCHANGED faults
     \/ Fault /\ Fail

Begin(p, purpose) ==
  /\ run = None /\ overdue' = 0
  /\ UNCHANGED <<authority, destinations, journal, bounds, verified>>
  /\ run' = [product |-> p, purpose |-> purpose, mode |-> None, at |-> "admit",
             missing |-> {}, local |-> tags, proven |-> Complete(p)]

Admit == Gate("admit", "open")
OpenJournal == Read("open", TRUE, "probe")

\* destinations.cache: a complete cache needs no upload.
Probe ==
  Read("probe", ~ Conflicting(P), IF Complete(P) THEN "saveCache" ELSE "cacheGate")

\* publish.sh.
CacheGate == Gate("cacheGate", "inspect")

Inspect ==
  /\ At("inspect") /\ Reading
  /\ IF Conflicting(P) THEN Fail
     ELSE /\ run' = [run EXCEPT !.at = "uploadGate",
                       !.missing = {path \in Path : cache[P][path] = "absent"}]
          /\ UNCHANGED verified

\* After the restore of the approved closures; when nothing is missing the
\* same gate runs and the leaf ends.
UploadGate ==
  Gate("uploadGate", IF run.missing = {} THEN "reprobe" ELSE "upload")

\* cachix push leaves a path that somebody else uploaded as it is, and may
\* stop after some of the paths.
Upload ==
  /\ At("upload") /\ Writes
  /\ \E done \in SUBSET run.missing :
       LET now == [path \in Path |->
                     IF path \in done /\ cache[P][path] = "absent"
                     THEN "good" ELSE cache[P][path]]
       IN /\ cache' = [cache EXCEPT ![P] = now]
          /\ \/ /\ done = run.missing /\ UNCHANGED <<verified, faults>>
                /\ run' = [run EXCEPT !.at = "readback", !.missing = {},
                     !.proven = @ \/ \A path \in Path : now[path] = "good"]
             \/ Fault /\ Fail
  /\ UNCHANGED <<authority, journal, world, evictions, handoffs, tags, releases>>

Readback == Read("readback", Complete(P), "require")
RequireVerified == Read("require", Complete(P), "reprobe")

\* The controller's own second look; receipt() accepts nothing but "verified".
\* (Faulty variant: the cache is not checkpointed before the handoff.)
ReprobeUnrecorded == Read("reprobe", Complete(P), "handoffProbe")
Reprobe == Read("reprobe", Complete(P), "saveCache")
SaveCache == Save("saveCache", "cache", P, "handoffProbe")

\* remote_handoff looks for the packet first, publish_handoff pushes anyway.
\* One push stores a packet's digest and its tag, so that a tag without the
\* digest, which raises, does not arise.
\* (Faulty variant: an existing packet is an error.)
HandoffProbeStrict ==
  /\ At("handoffProbe") /\ Reading /\ UNCHANGED verified
  /\ \E mode \in Mode :
       run' = IF <<P, mode>> \in handoffs THEN None
              ELSE [run EXCEPT !.mode = mode, !.at = "handoffGate"]

HandoffProbe ==
  /\ At("handoffProbe") /\ Reading /\ UNCHANGED verified
  /\ \E mode \in Mode :
       run' = [run EXCEPT !.mode = mode,
                 !.at = IF mode = "remote" /\ <<P, "remote">> \in handoffs
                        THEN "handoffRead" ELSE "handoffGate"]

\* (Faulty variant: the gate of the cache leaf is taken to cover the handoff.)
HandoffGateSkipped == Read("handoffGate", TRUE, "copy")
HandoffGate == Gate("handoffGate", "copy")

Copy ==
  /\ At("copy") /\ Writing
  /\ handoffs' = handoffs \cup {<<P, run.mode>>}
  /\ Goto("handoffRead")
  /\ UNCHANGED <<cache, tags, releases, verified>>

HandoffRead == Read("handoffRead", <<P, run.mode>> \in handoffs, "saveHandoff")

\* A rolling publication ends here.
SaveHandoff ==
  \/ SaveLast("saveHandoff", "handoff", run.mode, "rolling")
  \/ At("saveHandoff") /\ run.purpose = "release" /\ Save("saveHandoff", "handoff", run.mode, "xoGate")

\* verify_tag of a remote tag; "conflict" raises.  (Faulty variant: any tag of
\* that name will do.)
VerifyTagAny(tag) == IF tags[tag] = None THEN "missing" ELSE "verified"

VerifyTag(tag) ==
  CASE tags[tag] = None -> "missing"
    [] tags[tag] = P    -> "verified"
    [] OTHER            -> "conflict"

\* git push of a tag, which the remote refuses if it has it elsewhere.
PushTag(tag, next) ==
  /\ Writing /\ UNCHANGED <<cache, handoffs, releases, verified>>
  /\ IF tags[tag] \in {None, P}
     THEN /\ tags' = [tags EXCEPT ![tag] = P]
          /\ run' = [run EXCEPT !.at = next, !.local[tag] = P]
     ELSE run' = None /\ UNCHANGED tags

\* tag-xo-release.sh: nothing to do when the pin did not change, or when the
\* clone already has the tag.
XoGate == Gate("xoGate", IF XoTag[P] = None THEN "saveXo" ELSE "xoTag")

TagXoRelease ==
  /\ At("xoTag")
  /\ IF run.local[XoTag[P]] = None THEN PushTag(XoTag[P], "xoRead")
     ELSE Read("xoTag", run.local[XoTag[P]] = P, "xoRead")

XoRead == Read("xoRead", VerifyTag(XoTag[P]) = "verified", "saveXo")
SaveXo == Save("saveXo", "xo-tag", P, "project")

\* A project version that the clone knows to be released from another revision
\* ends the publication; otherwise the remote tag decides.
\* (Faulty variant: any known tag ends it.)
ProjectSkipping ==
  LET tag == ProjectTag[P]
  IN /\ At("project")
     /\ IF run.local[tag] # None
        THEN Reading /\ End("release")
        ELSE Read("project", VerifyTag(tag) # "conflict",
                  IF VerifyTag(tag) = "missing" THEN "tagGate" ELSE "tagRead")

Project ==
  LET tag == ProjectTag[P]
  IN /\ At("project")
     /\ IF run.local[tag] \notin {None, P}
        THEN Reading /\ End("release")
        ELSE Read("project", VerifyTag(tag) # "conflict",
                  IF VerifyTag(tag) = "missing" THEN "tagGate" ELSE "tagRead")

\* tag-release.sh pushes also a tag its clone already has.
TagGate == Gate("tagGate", "tag")
TagRelease == At("tag") /\ PushTag(ProjectTag[P], "tagRead")
TagRead == Read("tagRead", VerifyTag(ProjectTag[P]) = "verified", "saveTag")
SaveTag == Save("saveTag", "project-tag", P, "releaseGate")

\* publish-release.sh: the clone must know the tag and the remote must have it;
\* an existing release is accepted when its remote tag is the local one.
ReleaseGate == Gate("releaseGate", "release")

PublishRelease ==
  LET tag == ProjectTag[P]
  IN IF run # None /\ run.local[tag] # None /\ tag \notin releases /\ tags[tag] # None
     THEN /\ At("release") /\ Writing /\ Goto("releaseRead")
          /\ releases' = releases \cup {tag}
          /\ UNCHANGED <<cache, handoffs, tags, verified>>
     ELSE Read("release", tag \in releases /\ run.local[tag] = tags[tag], "releaseRead")

ReleaseRead ==
  Read("releaseRead", ProjectTag[P] \in releases /\ VerifyTag(ProjectTag[P]) = "verified", "saveRelease")

SaveRelease == SaveLast("saveRelease", "github-release", P, "release")

RunStep ==
  \/ Admit \/ OpenJournal \/ Probe \/ CacheGate \/ Inspect \/ UploadGate \/ Upload
  \/ Readback \/ RequireVerified \/ Reprobe \/ SaveCache \/ HandoffProbe
  \/ HandoffGate \/ Copy \/ HandoffRead \/ SaveHandoff \/ XoGate \/ TagXoRelease
  \/ XoRead \/ SaveXo \/ Project \/ TagGate \/ TagRelease \/ TagRead \/ SaveTag
  \/ ReleaseGate \/ PublishRelease \/ ReleaseRead \/ SaveRelease

\* The runner dies, or a call fails.
Die ==
  /\ run # None /\ Fault /\ Fail
  /\ UNCHANGED <<authority, destinations, journal, world, evictions, overdue>>

------------------------------------------------------------------------------
(* Everybody else.                                                         *)

Elsewhere == world + evictions < MaxWorld /\ world' = world + 1 /\ UNCHANGED <<journal, verified, faults>>

\* A decision is revoked, superseded or expires; a new one is merged.
Revoke(p) ==
  /\ p \in authority /\ authority' = authority \ {p}
  /\ Elsewhere /\ UNCHANGED <<destinations, run, evictions, overdue>>

Grant(p) ==
  /\ p \notin authority /\ authority' = authority \cup {p}
  /\ overdue' = IF run # None /\ P = p THEN 0 ELSE overdue
  /\ Elsewhere /\ UNCHANGED <<destinations, run, evictions>>

\* Another publisher of the cache uploads a path: the same bytes or others.
ForeignUpload(p, path, content) ==
  /\ cache[p][path] = "absent" /\ content # "absent"
  /\ cache' = [cache EXCEPT ![p][path] = content]
  /\ run' = IF run # None /\ P = p /\ \A q \in Path : cache'[p][q] = "good"
            THEN [run EXCEPT !.proven = TRUE] ELSE run
  /\ Elsewhere /\ UNCHANGED <<authority, handoffs, tags, releases, evictions, overdue>>

\* The cache's garbage collection drops a path.
Evict(p, path) ==
  /\ world + evictions < MaxWorld /\ evictions' = evictions + 1
  /\ cache[p][path] # "absent" /\ cache' = [cache EXCEPT ![p][path] = "absent"]
  /\ UNCHANGED <<authority, handoffs, tags, releases, journal, run, verified,
                 faults, world, overdue>>

\* A maintainer pushes a tag for some product's revision.
ForeignTag(tag, p) ==
  /\ tags[tag] = None /\ tags' = [tags EXCEPT ![tag] = p]
  /\ Elsewhere /\ UNCHANGED <<authority, cache, handoffs, releases, run, evictions, overdue>>

World ==
  \/ \E p \in Product :
       \/ Revoke(p) \/ Grant(p)
       \/ \E path \in Path :
            Evict(p, path) \/ \E content \in Content : ForeignUpload(p, path, content)
       \/ \E tag \in Tag : ForeignTag(tag, p)

\* Nothing is public yet; any products are approved.
Init ==
  /\ authority \in SUBSET Product /\ run = None /\ verified = {}
  /\ cache = [p \in Product |-> [path \in Path |-> "absent"]]
  /\ handoffs = {} /\ tags = [t \in Tag |-> None] /\ releases = {}
  /\ journal = [p \in Product |-> {}]
  /\ faults = 0 /\ world = 0 /\ evictions = 0 /\ overdue = 0

Start == \E p \in Product, purpose \in Purpose : Begin(p, purpose)

Next == Start \/ RunStep \/ Die \/ World

Spec == Init /\ [][Next]_vars

\* A started run goes on.  Somebody keeps asking for each release: dispatches
\* of the publication workflow queue behind the running one ("queue: max").
FairSpec ==
  /\ Spec
  /\ WF_vars(RunStep)
  /\ \A p \in Product : SF_vars(Begin(p, "release"))

------------------------------------------------------------------------------
(* Properties.                                                             *)

\* Types; besides, the clone never knows a tag the remote has elsewhere.
TypeOK ==
  /\ authority \subseteq Product
  /\ cache \in [Product -> [Path -> Content]]
  /\ handoffs \subseteq Product \X Mode
  /\ tags \in [Tag -> Product \cup {None}] /\ releases \subseteq Tag
  /\ journal \in [Product -> SUBSET (Step \X (Product \cup Mode))]
  /\ run # None => run \in Run /\ \A t \in Tag : run.local[t] \in {None, tags[t]}
  /\ verified \subseteq Product \X Purpose

\* Types; and a checkpoint says something true of the public destination for good, also
\* after any crash, retry or lost acknowledgement, and the journal never
\* records a destination whose predecessors it does not have.
CheckpointsHonest == TypeOK /\
  \A p \in Product :
    /\ Recorded(p, "cache") /\ evictions = 0 => Complete(p)
    /\ \A mode \in Mode : <<"handoff", mode>> \in journal[p] => <<p, mode>> \in handoffs
    /\ Recorded(p, "handoff") => Recorded(p, "cache")
    /\ Recorded(p, "xo-tag") =>
         Recorded(p, "handoff") /\ (XoTag[p] # None => tags[XoTag[p]] = p)
    /\ Recorded(p, "project-tag") => Recorded(p, "xo-tag") /\ tags[ProjectTag[p]] = p
    /\ Recorded(p, "github-release") => Recorded(p, "project-tag") /\ ProjectTag[p] \in releases

\* Nothing downstream is public before the cache serves the approved bytes
\* (publish.sh: "before the controller ... publishes a downstream handoff"), and
\* a GitHub release only ever stands on a tag whose product went through every
\* earlier destination.  A resumed run goes past the cache only if the cache was
\* complete at some moment of that same run: an older checkpoint proves nothing.
DownstreamLast ==
  /\ \A p \in Product, mode \in Mode :
       <<p, mode>> \in handoffs => Recorded(p, "cache") /\ (evictions = 0 => Complete(p))
  /\ \A tag \in releases : \E p \in Product :
       /\ tags[tag] = p /\ ProjectTag[p] = tag
       /\ Recorded(p, "xo-tag") /\ Recorded(p, "project-tag")
  /\ run # None /\ run.at \notin {"admit", "open", "probe", "cacheGate", "inspect",
                                 "uploadGate", "upload", "readback", "require", "reprobe"}
       => run.proven

\* After its product lost authority a run makes at most the one public write
\* whose gate had already passed (docs/publication-journal-authority.md: a
\* revocation "does not allow the next public destination write").
RevocationStopsWrites == overdue <= 1

\* A publication that reported "verified" left everything its purpose calls for.
VerifiedComplete ==
  \A p \in Product :
    /\ \A purpose \in Purpose : <<p, purpose>> \in verified => Recorded(p, "handoff")
    /\ <<p, "release">> \in verified =>
         /\ Recorded(p, "xo-tag") /\ tags[ProjectTag[p]] # None
         /\ tags[ProjectTag[p]] = p => Recorded(p, "github-release")

\* No crash wedges a publication: as long as runs are asked for, an admitted
\* product without conflicting destinations is eventually released.
Wedged(p) ==
  \/ p \notin authority \/ Conflicting(p)
  \/ XoTag[p] # None /\ tags[XoTag[p]] \notin {None, p}

NotWedged == \A p \in Product : []<>Wedged(p) \/ <>(<<p, "release">> \in verified)
=============================================================================
