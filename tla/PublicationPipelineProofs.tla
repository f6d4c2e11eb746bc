---------------------- MODULE PublicationPipelineProofs ----------------------
(***************************************************************************)
(* Proofs about PublicationPipeline, for any products, paths and tags, any *)
(* number of dying runs, lost acknowledgements and changes elsewhere.      *)
(***************************************************************************)
EXTENDS PublicationPipeline, TLAPS

-----------------------------------------------------------------------------
(* The inductive invariant: what a run knows at each of its points.        *)

\* Points by how far the run has come.
BeforeCache == {"admit", "open", "probe", "cacheGate", "inspect", "uploadGate",
                "upload", "readback", "require", "reprobe"}
AtHandoff == {"handoffGate", "copy", "handoffRead", "saveHandoff"}
AtProjectTag == {"project", "tagGate", "tag", "tagRead", "saveTag"}
AtRelease == {"releaseGate", "release", "releaseRead", "saveRelease"}
AfterXoTag == AtProjectTag \cup AtRelease
AtXoTag == {"xoGate", "xoTag", "xoRead", "saveXo"}
AfterHandoff == AtXoTag \cup AfterXoTag
AfterCache == {"handoffProbe"} \cup AtHandoff \cup AfterHandoff
WritePoint == {"upload", "copy", "xoTag", "tag", "release"}

\* What a run must know to be at a point: what its latest probe or read back
\* established stays true, whoever else writes, except for what garbage
\* collection drops.
Asks(r, at) ==
  /\ at \notin BeforeCache => r.proven
  /\ at = "saveCache" /\ evictions = 0 => Complete(r.product)
  /\ at \in AfterCache => Recorded(r.product, "cache")
  /\ at \in AtHandoff => r.mode \in Mode
  /\ at = "saveHandoff" => <<r.product, r.mode>> \in handoffs
  /\ at \in AfterHandoff => r.purpose = "release" /\ Recorded(r.product, "handoff")
  /\ at \in {"xoTag", "xoRead"} => XoTag[r.product] # None
  /\ at = "saveXo" /\ XoTag[r.product] # None => tags[XoTag[r.product]] = r.product
  /\ at \in AfterXoTag => Recorded(r.product, "xo-tag")
  /\ at = "saveTag" => tags[ProjectTag[r.product]] = r.product
  /\ at \in AtRelease => Recorded(r.product, "project-tag")
  /\ at = "saveRelease" => ProjectTag[r.product] \in releases

Knows(r) == (Complete(r.product) => r.proven) /\ Asks(r, r.at)

RunKnows == run # None => Knows(run)

\* CheckpointsHonest without the types, product by product.
HonestAbout(p) ==
  /\ Recorded(p, "cache") /\ evictions = 0 => Complete(p)
  /\ \A mode \in Mode : <<"handoff", mode>> \in journal[p] => <<p, mode>> \in handoffs
  /\ Recorded(p, "handoff") => Recorded(p, "cache")
  /\ Recorded(p, "xo-tag") =>
       Recorded(p, "handoff") /\ (XoTag[p] # None => tags[XoTag[p]] = p)
  /\ Recorded(p, "project-tag") => Recorded(p, "xo-tag") /\ tags[ProjectTag[p]] = p
  /\ Recorded(p, "github-release") => Recorded(p, "project-tag") /\ ProjectTag[p] \in releases

Honest == \A p \in Product : HonestAbout(p)

\* What is public downstream has its predecessors recorded.
Downstream ==
  /\ \A p \in Product, mode \in Mode : <<p, mode>> \in handoffs => Recorded(p, "cache")
  /\ \A tag \in releases : \E p \in Product :
       /\ tags[tag] = p /\ ProjectTag[p] = tag
       /\ Recorded(p, "xo-tag") /\ Recorded(p, "project-tag")

\* No write is overdue while the product has authority, or at a write whose
\* gate has passed.
Timely ==
  /\ overdue \in {0, 1} /\ evictions \in Nat
  /\ run # None /\ (P \in authority \/ run.at \in WritePoint) => overdue = 0

IInv == TypeOK /\ Honest /\ Downstream /\ VerifiedComplete /\ Timely /\ RunKnows
-----------------------------------------------------------------------------
(* Lemmas about the steps of a run.                                        *)

\* Moving a run to another point changes nothing else of it.
LEMMA MovedRun ==
  ASSUME NEW r \in Run, NEW next \in Point
  PROVE  LET m == [r EXCEPT !.at = next]
         IN /\ m \in Run /\ m.at = next
            /\ m.product = r.product /\ m.purpose = r.purpose /\ m.mode = r.mode
            /\ m.missing = r.missing /\ m.local = r.local /\ m.proven = r.proven
  BY DEF Run

\* A step of the run that only reads: it moves on, or ends.
Moves(next) ==
  Reading /\ UNCHANGED verified /\ run' = [run EXCEPT !.at = next]

Ends == Reading /\ UNCHANGED verified /\ run' = None

\* Nothing public is ever undone, but for what garbage collection drops.
Steady ==
  /\ \A p \in Product, step \in Step : Recorded(p, step) => Recorded(p, step)'
  /\ handoffs \subseteq handoffs' /\ releases \subseteq releases'
  /\ \A t \in Tag : tags[t] # None => tags'[t] = tags[t]
  /\ \A p \in Product : evictions' = 0 /\ Complete(p) => Complete(p)'
  /\ evictions' = 0 => evictions = 0

LEMMA StillSteady ==
  ASSUME UNCHANGED <<destinations, journal, evictions>>
  PROVE  Steady
  BY DEF Steady, Recorded, Complete, destinations

\* A read that ends the run.
LEMMA EndsKeeps ==
  ASSUME IInv, Ends
  PROVE  IInv'
  <1> USE DEF Ends, Reading, destinations, bounds
  <1>1. TypeOK'
    BY DEF IInv, TypeOK
  <1>2. Honest' /\ Downstream'
    BY DEF IInv, Honest, HonestAbout, Downstream, Recorded, Complete
  <1>3. VerifiedComplete'
    BY DEF IInv, VerifiedComplete, Recorded
  <1>4. Timely' /\ RunKnows'
    BY DEF IInv, Timely, RunKnows
  <1> QED
    BY <1>1, <1>2, <1>3, <1>4 DEF IInv

\* A read after which the run knows what its next point asks for.
LEMMA ReadingKeeps ==
  ASSUME IInv, run # None, Reading, UNCHANGED verified,
         run' \in Run, run'.product = run.product, run'.local = run.local,
         run'.proven = run.proven, Asks(run', run'.at),
         run'.at \in WritePoint => overdue = 0
  PROVE  IInv'
  <1> USE DEF Reading, destinations, bounds
  <1>1. TypeOK'
    BY DEF IInv, TypeOK
  <1>2. Honest' /\ Downstream'
    BY DEF IInv, Honest, HonestAbout, Downstream, Recorded, Complete
  <1>3. VerifiedComplete'
    BY DEF IInv, VerifiedComplete, Recorded
  <1>4. Timely'
    BY DEF IInv, Timely, P
  <1>5. RunKnows'
    BY DEF IInv, RunKnows, Knows, Asks, Recorded, Complete
  <1> QED
    BY <1>1, <1>2, <1>3, <1>4, <1>5 DEF IInv

LEMMA MovesKeeps ==
  ASSUME IInv, run # None, NEW next \in Point, Moves(next),
         Asks(run, next), next \in WritePoint => overdue = 0
  PROVE  IInv'
  <1>1. run \in Run
    BY DEF IInv, TypeOK
  <1>2. /\ run' \in Run /\ run'.at = next
        /\ run'.product = run.product /\ run'.purpose = run.purpose
        /\ run'.mode = run.mode /\ run'.local = run.local
        /\ run'.proven = run.proven
    BY <1>1, MovedRun DEF Moves
  <1>3. Asks(run', run'.at)
    BY <1>2 DEF Asks
  <1> QED
    BY <1>2, <1>3, ReadingKeeps DEF Moves

\* The reads that only go on with the run; each case names the next point and
\* why the run knows what that point asks for.
LEMMA ReadsKeep ==
  ASSUME IInv,
         \/ Admit \/ OpenJournal \/ Probe \/ CacheGate \/ UploadGate \/ Readback
         \/ RequireVerified \/ Reprobe \/ HandoffGate \/ HandoffRead \/ XoGate
         \/ XoRead \/ TagGate \/ TagRead \/ ReleaseGate \/ ReleaseRead
  PROVE  IInv'
  <1> USE DEF Gate, Read, At, Goto, Fail, Ends, Moves
  <1> DEFINE Leads(next) == Moves(next) /\ Asks(run, next) /\ (next \in WritePoint => overdue = 0)
  <1>1. SUFFICES ASSUME run # None
                 PROVE  Ends \/ \E next \in Point : Leads(next)
    <2>1. run # None
      BY DEF Admit, OpenJournal, Probe, CacheGate, UploadGate, Readback,
             RequireVerified, Reprobe, HandoffGate, HandoffRead, XoGate, XoRead,
             TagGate, TagRead, ReleaseGate, ReleaseRead
    <2> QED
      BY <2>1, EndsKeeps, MovesKeeps
  <1>2. /\ run \in Run /\ run.product \in Product /\ run.at \in Point
        /\ Complete(run.product) => run.proven
        /\ Asks(run, run.at)
        /\ P \in authority => overdue = 0
    BY <1>1 DEF IInv, TypeOK, RunKnows, Knows, Timely, Run
  <1> HIDE DEF Leads
  <1>3. CASE Admit
    BY <1>1, <1>2, <1>3 DEF Admit, Leads, Asks, Point, BeforeCache, AtHandoff,
       AtProjectTag, AtRelease, AfterXoTag, AtXoTag, AfterHandoff, AfterCache, WritePoint, VerifyTag, P
  <1>4. CASE OpenJournal
    BY <1>1, <1>2, <1>4 DEF OpenJournal, Leads, Asks, Point, BeforeCache, AtHandoff,
       AtProjectTag, AtRelease, AfterXoTag, AtXoTag, AfterHandoff, AfterCache, WritePoint, VerifyTag, P
  <1>5. CASE Probe
    BY <1>1, <1>2, <1>5 DEF Probe, Leads, Asks, Point, BeforeCache, AtHandoff,
       AtProjectTag, AtRelease, AfterXoTag, AtXoTag, AfterHandoff, AfterCache, WritePoint, VerifyTag, P
  <1>6. CASE CacheGate
    BY <1>1, <1>2, <1>6 DEF CacheGate, Leads, Asks, Point, BeforeCache, AtHandoff,
       AtProjectTag, AtRelease, AfterXoTag, AtXoTag, AfterHandoff, AfterCache, WritePoint, VerifyTag, P
  <1>7. CASE UploadGate
    BY <1>1, <1>2, <1>7 DEF UploadGate, Leads, Asks, Point, BeforeCache, AtHandoff,
       AtProjectTag, AtRelease, AfterXoTag, AtXoTag, AfterHandoff, AfterCache, WritePoint, VerifyTag, P
  <1>8. CASE Readback
    BY <1>1, <1>2, <1>8 DEF Readback, Leads, Asks, Point, BeforeCache, AtHandoff,
       AtProjectTag, AtRelease, AfterXoTag, AtXoTag, AfterHandoff, AfterCache, WritePoint, VerifyTag, P
  <1>9. CASE RequireVerified
    BY <1>1, <1>2, <1>9 DEF RequireVerified, Leads, Asks, Point, BeforeCache, AtHandoff,
       AtProjectTag, AtRelease, AfterXoTag, AtXoTag, AfterHandoff, AfterCache, WritePoint, VerifyTag, P
  <1>10. CASE Reprobe
    BY <1>1, <1>2, <1>10 DEF Reprobe, Leads, Asks, Point, BeforeCache, AtHandoff,
       AtProjectTag, AtRelease, AfterXoTag, AtXoTag, AfterHandoff, AfterCache, WritePoint, VerifyTag, P
  <1>11. CASE HandoffGate
    BY <1>1, <1>2, <1>11 DEF HandoffGate, Leads, Asks, Point, BeforeCache, AtHandoff,
       AtProjectTag, AtRelease, AfterXoTag, AtXoTag, AfterHandoff, AfterCache, WritePoint, VerifyTag, P
  <1>12. CASE HandoffRead
    BY <1>1, <1>2, <1>12 DEF HandoffRead, Leads, Asks, Point, BeforeCache, AtHandoff,
       AtProjectTag, AtRelease, AfterXoTag, AtXoTag, AfterHandoff, AfterCache, WritePoint, VerifyTag, P
  <1>13. CASE XoGate
    BY <1>1, <1>2, <1>13 DEF XoGate, Leads, Asks, Point, BeforeCache, AtHandoff,
       AtProjectTag, AtRelease, AfterXoTag, AtXoTag, AfterHandoff, AfterCache, WritePoint, VerifyTag, P
  <1>14. CASE XoRead
    BY <1>1, <1>2, <1>14 DEF XoRead, Leads, Asks, Point, BeforeCache, AtHandoff,
       AtProjectTag, AtRelease, AfterXoTag, AtXoTag, AfterHandoff, AfterCache, WritePoint, VerifyTag, P
  <1>15. CASE TagGate
    BY <1>1, <1>2, <1>15 DEF TagGate, Leads, Asks, Point, BeforeCache, AtHandoff,
       AtProjectTag, AtRelease, AfterXoTag, AtXoTag, AfterHandoff, AfterCache, WritePoint, VerifyTag, P
  <1>16. CASE TagRead
    BY <1>1, <1>2, <1>16 DEF TagRead, Leads, Asks, Point, BeforeCache, AtHandoff,
       AtProjectTag, AtRelease, AfterXoTag, AtXoTag, AfterHandoff, AfterCache, WritePoint, VerifyTag, P
  <1>17. CASE ReleaseGate
    BY <1>1, <1>2, <1>17 DEF ReleaseGate, Leads, Asks, Point, BeforeCache, AtHandoff,
       AtProjectTag, AtRelease, AfterXoTag, AtXoTag, AfterHandoff, AfterCache, WritePoint, VerifyTag, P
  <1>18. CASE ReleaseRead
    BY <1>1, <1>2, <1>18 DEF ReleaseRead, Leads, Asks, Point, BeforeCache, AtHandoff,
       AtProjectTag, AtRelease, AfterXoTag, AtXoTag, AfterHandoff, AfterCache, WritePoint, VerifyTag, P
  <1> QED
    BY <1>3, <1>4, <1>5, <1>6, <1>7, <1>8, <1>9, <1>10, <1>11, <1>12, <1>13, <1>14, <1>15, <1>16, <1>17, <1>18
\* publish.sh looks up what is missing.
LEMMA InspectKeeps ==
  ASSUME IInv, Inspect
  PROVE  IInv'
  <1>1. run # None /\ run \in Run /\ run.at = "inspect" /\ Reading /\ UNCHANGED verified
    BY DEF Inspect, At, Fail, IInv, TypeOK
  <1>2. CASE Conflicting(P)
    BY <1>2, EndsKeeps DEF Inspect, Fail, Ends
  <1>3. CASE ~ Conflicting(P)
    <2>1. PICK missing \in SUBSET Path :
            run' = [run EXCEPT !.at = "uploadGate", !.missing = missing]
      BY <1>3 DEF Inspect
    <2>2. /\ run' \in Run /\ run'.at = "uploadGate" /\ run'.product = run.product
          /\ run'.local = run.local /\ run'.proven = run.proven
      BY <1>1, <2>1 DEF Run, Point
    <2>3. Asks(run', run'.at) /\ run'.at \notin WritePoint
      BY <2>2 DEF Asks, BeforeCache, AtHandoff, AtProjectTag, AtRelease, AfterXoTag,
             AtXoTag, AfterHandoff, AfterCache, WritePoint
    <2> QED
      BY <1>1, <2>2, <2>3, ReadingKeeps
  <1> QED
    BY <1>2, <1>3

\* The handoff's kind of evidence is chosen; a packet that is there already is
\* not written again.
LEMMA HandoffProbeKeeps ==
  ASSUME IInv, HandoffProbe
  PROVE  IInv'
  <1>1. /\ run # None /\ run \in Run /\ run.at = "handoffProbe"
        /\ Reading /\ UNCHANGED verified
    BY DEF HandoffProbe, At, IInv, TypeOK
  <1>2. PICK mode \in Mode :
          run' = [run EXCEPT !.mode = mode,
                 !.at = IF mode = "remote" /\ <<P, "remote">> \in handoffs
                        THEN "handoffRead" ELSE "handoffGate"]
    BY DEF HandoffProbe
  <1>3. /\ run' \in Run /\ run'.at \in {"handoffRead", "handoffGate"}
        /\ run'.mode \in Mode /\ run'.product = run.product
        /\ run'.local = run.local /\ run'.proven = run.proven
    BY <1>1, <1>2 DEF Run, Point, Mode
  <1>4. Asks(run, run.at)
    BY <1>1 DEF IInv, RunKnows, Knows
  <1>5. Asks(run', run'.at) /\ run'.at \notin WritePoint
    BY <1>1, <1>3, <1>4 DEF Asks, BeforeCache, AtHandoff, AtProjectTag, AtRelease,
         AfterXoTag, AtXoTag, AfterHandoff, AfterCache, WritePoint
  <1> QED
    BY <1>1, <1>3, <1>5, ReadingKeeps

-----------------------------------------------------------------------------
(* Lemmas about public writes and checkpoints.                             *)

\* What a run asks for at a point outlives every steady step.
LEMMA AsksKept ==
  ASSUME Steady
  PROVE  \A r \in Run, at \in Point : Asks(r, at) => Asks(r, at)'
  <1> SUFFICES ASSUME NEW r \in Run, NEW at \in Point, Asks(r, at)
               PROVE  Asks(r, at)'
    OBVIOUS
  <1>1. r.product \in Product /\ ProjectTag[r.product] \in Tag
    BY PipelineAssumption DEF Run
  <1>2. XoTag[r.product] # None => XoTag[r.product] \in Tag
    BY <1>1, PipelineAssumption
  <1>3. r.product # None
    BY <1>1, PipelineAssumption
  <1>4. \A t \in Tag : tags[t] = r.product => tags'[t] = r.product
    BY <1>3 DEF Steady
  <1> QED
    BY <1>1, <1>2, <1>4 DEF Asks, Steady, Step

\* Checkpoints stay honest through every steady step that adds none.
LEMMA HonestKept ==
  ASSUME Honest, Steady, UNCHANGED journal
  PROVE  Honest'
  <1> SUFFICES ASSUME NEW p \in Product
               PROVE  HonestAbout(p)'
    BY DEF Honest
  <1>1. p # None /\ ProjectTag[p] \in Tag
    BY PipelineAssumption
  <1>2. XoTag[p] # None => XoTag[p] \in Tag
    BY PipelineAssumption
  <1>3. \A t \in Tag : tags[t] = p => tags'[t] = p
    BY <1>1 DEF Steady
  <1>4. \A step \in Step : Recorded(p, step)' <=> Recorded(p, step)
    BY DEF Recorded
  <1> QED
    BY <1>1, <1>2, <1>3, <1>4 DEF Honest, HonestAbout, Steady, Step

\* What is public stays backed by checkpoints through every steady step that
\* publishes neither a handoff nor a release.
LEMMA DownstreamKept ==
  ASSUME TypeOK, Downstream, Steady, UNCHANGED <<handoffs, releases>>
  PROVE  Downstream'
  <1>1. \A p \in Product : p # None /\ ProjectTag[p] \in Tag
    BY PipelineAssumption
  <1>2. \A p \in Product, t \in Tag : tags[t] = p => tags'[t] = p
    BY <1>1 DEF Steady
  <1> QED
    BY <1>1, <1>2 DEF Downstream, Steady, Step, TypeOK

\* A finished publication stays complete through every steady step.
LEMMA VerifiedKept ==
  ASSUME VerifiedComplete, Steady, UNCHANGED verified
  PROVE  VerifiedComplete'
  <1>1. \A p \in Product : ProjectTag[p] \in Tag
    BY PipelineAssumption
  <1> QED
    BY <1>1 DEF VerifiedComplete, Steady, Step
\* Public writes: the run goes on to a point that is no write, or ends.
LEMMA WritingKeeps ==
  ASSUME IInv, run # None, run.at \in WritePoint, Writes, Steady,
         UNCHANGED <<authority, journal, evictions, verified>>, TypeOK', Downstream',
         \/ run' = None
         \/ /\ run'.product = run.product /\ run'.at \notin WritePoint
            /\ Complete(run.product)' => run'.proven
            /\ Asks(run, run.at)'
  PROVE  IInv'
  <1>1. Honest'
    BY HonestKept DEF IInv
  <1>2. VerifiedComplete'
    BY VerifiedKept DEF IInv
  <1>3. Timely'
    BY DEF IInv, Timely, Writes, P
  <1>4. RunKnows'
    BY DEF RunKnows, Knows
  <1> QED
    BY <1>1, <1>2, <1>3, <1>4 DEF IInv

\* cachix push: only absent paths change, so the cache stays complete if it is.
LEMMA UploadKeeps ==
  ASSUME IInv, Upload
  PROVE  IInv'
  <1>1. /\ run # None /\ run \in Run /\ run.at = "upload" /\ Writes
        /\ TypeOK /\ Downstream /\ P = run.product /\ P \in Product
        /\ UNCHANGED <<authority, journal, evictions, handoffs, tags, releases, verified>>
    BY DEF Upload, At, Fail, IInv, TypeOK, P, Run
  <1>2. PICK done \in SUBSET run.missing :
          LET now == [path \in Path |->
                        IF path \in done /\ cache[P][path] = "absent"
                        THEN "good" ELSE cache[P][path]]
          IN /\ cache' = [cache EXCEPT ![P] = now]
             /\ \/ run' = [run EXCEPT !.at = "readback", !.missing = {},
                              !.proven = @ \/ \A path \in Path : now[path] = "good"]
                \/ run' = None
    BY DEF Upload, Fail
  <1> DEFINE now == [path \in Path |->
                       IF path \in done /\ cache[P][path] = "absent"
                       THEN "good" ELSE cache[P][path]]
  <1>3. /\ cache \in [Product -> [Path -> Content]]
        /\ cache' = [cache EXCEPT ![P] = now] /\ now \in [Path -> Content]
    BY <1>1, <1>2 DEF TypeOK, Content
  <1>4. \A p \in Product : Complete(p) => Complete(p)'
    BY <1>1, <1>3 DEF Complete
  <1>5. Steady
    BY <1>1, <1>4 DEF Steady, Recorded
  <1>6. Downstream'
    BY <1>1, <1>5, DownstreamKept
  <1>7. CASE run' = None
    <2>1. TypeOK'
      BY <1>1, <1>3, <1>7 DEF TypeOK
    <2> QED
      BY <1>1, <1>5, <1>6, <1>7, <2>1, WritingKeeps DEF WritePoint
  <1>8. CASE run' = [run EXCEPT !.at = "readback", !.missing = {},
                       !.proven = @ \/ \A path \in Path : now[path] = "good"]
    <2>1. PICK proven \in BOOLEAN :
            /\ proven <=> run.proven \/ \A path \in Path : now[path] = "good"
            /\ run' = [run EXCEPT !.at = "readback", !.missing = {}, !.proven = proven]
      BY <1>8
    <2>2. /\ run' \in Run /\ run'.at = "readback" /\ run'.product = run.product
          /\ run'.local = run.local /\ run'.proven = proven
      BY <1>1, <2>1 DEF Run, Point
    <2>3. TypeOK'
      BY <1>1, <1>3, <2>2 DEF TypeOK
    <2>4. Complete(run.product)' => run'.proven
      BY <1>1, <1>3, <2>1, <2>2 DEF Complete
    <2>5. Asks(run, run.at)' /\ run'.at \notin WritePoint
      BY <2>2 DEF Asks, BeforeCache, AtHandoff, AtProjectTag, AtRelease, AfterXoTag,
             AtXoTag, AfterHandoff, AfterCache, WritePoint
    <2> QED
      BY <1>1, <1>5, <1>6, <2>2, <2>3, <2>4, <2>5, WritingKeeps DEF WritePoint
  <1> QED
    BY <1>2, <1>7, <1>8
\* The registry handoff, with the cache already on record.
LEMMA CopyKeeps ==
  ASSUME IInv, Copy
  PROVE  IInv'
  <1>1. /\ run # None /\ run \in Run /\ run.at = "copy" /\ P = run.product
        /\ Writes /\ UNCHANGED <<authority, journal, evictions, cache, tags, releases, verified>>
        /\ handoffs' = handoffs \cup {<<P, run.mode>>}
        /\ run' = [run EXCEPT !.at = "handoffRead"]
    BY DEF Copy, At, Writing, Goto, bounds, IInv, TypeOK, P
  <1>2. /\ run' \in Run /\ run'.at = "handoffRead" /\ run'.product = run.product
        /\ run'.mode = run.mode /\ run'.local = run.local /\ run'.proven = run.proven
    BY <1>1 DEF Run, Point
  <1>3. /\ run.product \in Product /\ run.mode \in Mode
        /\ Recorded(run.product, "cache") /\ run.proven
    BY <1>1 DEF IInv, RunKnows, Knows, Asks, Run, BeforeCache, AtHandoff, AfterCache
  <1>4. Steady
    BY <1>1 DEF Steady, Recorded, Complete
  <1>5. TypeOK'
    BY <1>1, <1>2, <1>3 DEF IInv, TypeOK
  <1>6. Downstream'
    BY <1>1, <1>3 DEF IInv, Downstream, Recorded
  <1>7. Asks(run, run.at)' /\ run'.at \notin WritePoint
    BY <1>1, <1>2, <1>3 DEF Asks, Recorded, BeforeCache, AtHandoff, AtProjectTag,
       AtRelease, AfterXoTag, AtXoTag, AfterHandoff, AfterCache, WritePoint
  <1> QED
    BY <1>1, <1>2, <1>3, <1>4, <1>5, <1>6, <1>7, WritingKeeps DEF WritePoint

\* A tag is pushed where there is none; where there is one it stays.
LEMMA PushTagKeeps ==
  ASSUME IInv, NEW tag \in Tag, NEW next \in {"xoRead", "tagRead"},
         \/ At("xoTag") /\ next = "xoRead"
         \/ At("tag") /\ next = "tagRead",
         PushTag(tag, next)
  PROVE  IInv'
  <1>1. /\ run # None /\ run \in Run /\ run.at \in WritePoint /\ P = run.product
        /\ run.product \in Product /\ run.product # None
        /\ Writes
        /\ UNCHANGED <<authority, journal, evictions, cache, handoffs, releases, verified>>
    BY PipelineAssumption
       DEF PushTag, At, Writing, bounds, IInv, TypeOK, P, Run, WritePoint
  <1>2. /\ tags \in [Tag -> Product \cup {None}]
        /\ \A t \in Tag : run.local[t] \in {None, tags[t]}
        /\ TypeOK /\ Downstream
    BY <1>1 DEF IInv, TypeOK
  <1>3. CASE tags[tag] \in {None, P}
    <2>1. /\ tags' = [tags EXCEPT ![tag] = run.product]
          /\ run' = [run EXCEPT !.at = next, !.local[tag] = run.product]
      BY <1>1, <1>3 DEF PushTag
    <2>2. /\ run' \in Run /\ run'.at = next /\ run'.product = run.product
          /\ run'.mode = run.mode /\ run'.proven = run.proven
          /\ run'.purpose = run.purpose
          /\ run'.local = [run.local EXCEPT ![tag] = run.product]
      BY <1>1, <2>1 DEF Run, Point
    <2>3. Steady
      BY <1>1, <1>2, <1>3, <2>1 DEF Steady, Recorded, Complete
    <2>4. TypeOK'
      BY <1>1, <1>2, <2>1, <2>2 DEF TypeOK, Run
    <2>5. Downstream'
      BY <1>1, <1>2, <2>3, DownstreamKept
    <2>6. Asks(run, run.at) /\ (Complete(run.product) => run.proven)
      BY <1>1 DEF IInv, RunKnows, Knows
    <2>7. Asks(run, run.at)' /\ run'.at \notin WritePoint
      BY <1>1, <2>2, <2>6
         DEF At, Asks, Recorded, BeforeCache, AtHandoff, AtProjectTag,
             AtRelease, AfterXoTag, AtXoTag, AfterHandoff, AfterCache, WritePoint
    <2>8. Complete(run.product)' => run'.proven
      BY <1>1, <2>2, <2>6 DEF Complete
    <2> QED
      BY <1>1, <2>2, <2>3, <2>4, <2>5, <2>7, <2>8, WritingKeeps
  <1>4. CASE tags[tag] \notin {None, P}
    <2>1. run' = None /\ UNCHANGED tags
      BY <1>4 DEF PushTag
    <2>2. Steady
      BY <1>1, <2>1 DEF Steady, Recorded, Complete
    <2>3. TypeOK'
      BY <1>1, <1>2, <2>1 DEF TypeOK
    <2> QED
      BY <1>1, <1>2, <2>1, <2>2, <2>3, DownstreamKept, WritingKeeps
  <1> QED
    BY <1>3, <1>4

\* tag-xo-release.sh and tag-release.sh.
LEMMA TagsKeep ==
  ASSUME IInv, TagXoRelease \/ TagRelease
  PROVE  IInv'
  <1>1. CASE TagXoRelease
    <2>1. /\ run # None /\ run \in Run /\ run.at = "xoTag" /\ run.product \in Product
          /\ P = run.product
      BY <1>1 DEF TagXoRelease, At, IInv, TypeOK, Run, P
    <2>2. Asks(run, "xoTag")
      BY <2>1 DEF IInv, RunKnows, Knows
    <2>3. XoTag[P] \in Tag
      BY <2>1, <2>2, PipelineAssumption DEF Asks
    <2>4. CASE PushTag(XoTag[P], "xoRead")
      <3>1. At("xoTag")
        BY <1>1 DEF TagXoRelease
      <3> QED
        BY <2>3, <2>4, <3>1, PushTagKeeps
    <2>5. CASE Read("xoTag", run.local[XoTag[P]] = P, "xoRead")
      <3>1. Asks(run, "xoRead") /\ "xoRead" \notin WritePoint
        BY <2>1, <2>2 DEF Asks, BeforeCache, AtHandoff, AtProjectTag, AtRelease,
           AfterXoTag, AtXoTag, AfterHandoff, AfterCache, WritePoint
      <3>2. Ends \/ Moves("xoRead")
        BY <2>5 DEF Read, Goto, Fail, Ends, Moves
      <3> QED
        BY <2>1, <3>1, <3>2, EndsKeeps, MovesKeeps DEF Point
    <2> QED
      BY <1>1, <2>4, <2>5 DEF TagXoRelease
  <1>2. CASE TagRelease
    <2>1. ProjectTag[P] \in Tag
      BY <1>2, PipelineAssumption DEF TagRelease, At, IInv, TypeOK, Run, P
    <2> QED
      BY <1>2, <2>1, PushTagKeeps DEF TagRelease
  <1> QED
    BY <1>1, <1>2
\* publish-release.sh: a release is published on the recorded tag.
LEMMA PublishReleaseKeeps ==
  ASSUME IInv, PublishRelease
  PROVE  IInv'
  <1> DEFINE writes == /\ run # None /\ run.local[ProjectTag[P]] # None
                      /\ ProjectTag[P] \notin releases /\ tags[ProjectTag[P]] # None
  <1>1. /\ run # None /\ run \in Run /\ run.at = "release" /\ P = run.product
        /\ run.product \in Product /\ ProjectTag[P] \in Tag
    BY PipelineAssumption DEF PublishRelease, At, Read, IInv, TypeOK, Run, P
  <1>2. Asks(run, "release") /\ (Complete(run.product) => run.proven)
    BY <1>1 DEF IInv, RunKnows, Knows
  <1>3. CASE writes
    <2>1. /\ Writes /\ UNCHANGED <<authority, journal, evictions, cache, handoffs, tags, verified>>
          /\ releases' = releases \cup {ProjectTag[P]}
          /\ run' = [run EXCEPT !.at = "releaseRead"]
      BY <1>3 DEF PublishRelease, Writing, Goto, bounds
    <2>2. /\ run' \in Run /\ run'.at = "releaseRead" /\ run'.product = run.product
          /\ run'.purpose = run.purpose /\ run'.mode = run.mode
          /\ run'.local = run.local /\ run'.proven = run.proven
      BY <1>1, <2>1 DEF Run, Point
    <2>3. Steady
      BY <2>1 DEF Steady, Recorded, Complete
    <2>4. TypeOK'
      BY <1>1, <2>1, <2>2 DEF IInv, TypeOK
    <2>5. /\ Recorded(run.product, "xo-tag") /\ Recorded(run.product, "project-tag")
          /\ tags[ProjectTag[run.product]] = run.product
      BY <1>1, <1>2 DEF Asks, AtRelease, AfterXoTag, IInv, Honest, HonestAbout
    <2>6. Downstream'
      BY <1>1, <2>1, <2>5 DEF IInv, Downstream, Recorded
    <2>7. Asks(run, run.at)' /\ run'.at \notin WritePoint
      BY <1>2, <2>1, <2>2 DEF Asks, Recorded, BeforeCache, AtHandoff, AtProjectTag, AtRelease,
           AfterXoTag, AtXoTag, AfterHandoff, AfterCache, WritePoint
    <2>8. Complete(run.product)' => run'.proven
      BY <1>2, <2>1, <2>2 DEF Complete
    <2> QED
      BY <1>1, <2>1, <2>2, <2>3, <2>4, <2>6, <2>7, <2>8, WritingKeeps DEF WritePoint
  <1>4. CASE ~ writes
    <2>1. Ends \/ Moves("releaseRead")
      BY <1>4 DEF PublishRelease, Read, Goto, Fail, Ends, Moves
    <2>2. Asks(run, "releaseRead") /\ "releaseRead" \notin WritePoint
      BY <1>2 DEF Asks, BeforeCache, AtHandoff, AtProjectTag, AtRelease,
           AfterXoTag, AtXoTag, AfterHandoff, AfterCache, WritePoint
    <2> QED
      BY <1>1, <2>1, <2>2, EndsKeeps, MovesKeeps DEF Point
  <1> QED
    BY <1>3, <1>4

\* A project version that the clone knows elsewhere ends the publication; the
\* tag it found is then somebody else's for good.
LEMMA ProjectKeeps ==
  ASSUME IInv, Project
  PROVE  IInv'
  <1>1. /\ run # None /\ run \in Run /\ run.at = "project" /\ P = run.product
        /\ run.product \in Product /\ ProjectTag[P] \in Tag
        /\ \A t \in Tag : run.local[t] \in {None, tags[t]}
    BY PipelineAssumption DEF Project, At, IInv, TypeOK, Run, P
  <1>2. Asks(run, "project")
    BY <1>1 DEF IInv, RunKnows, Knows
  <1>3. CASE run.local[ProjectTag[P]] \notin {None, P}
    <2>1. /\ UNCHANGED <<authority, cache, handoffs, tags, releases, journal, evictions, overdue>>
          /\ run' = None /\ verified' = verified \cup {<<P, "release">>}
      BY <1>1, <1>3 DEF Project, Reading, End, destinations, bounds
    <2>2. tags[ProjectTag[P]] \notin {None, P}
      BY <1>1, <1>3
    <2>3. TypeOK'
      BY <1>1, <2>1 DEF IInv, TypeOK, Purpose
    <2>4. Steady
      BY <2>1 DEF Steady, Recorded, Complete
    <2>5. Honest' /\ Downstream'
      BY <2>1, <2>4, HonestKept, DownstreamKept DEF IInv
    <2>6. Recorded(P, "handoff") /\ Recorded(P, "xo-tag")
      BY <1>1, <1>2 DEF Asks, AfterHandoff, AfterXoTag, AtProjectTag
    <2>7. VerifiedComplete'
      BY <1>1, <2>1, <2>2, <2>6 DEF IInv, VerifiedComplete, Recorded
    <2> QED
      BY <2>1, <2>3, <2>5, <2>7 DEF IInv, Timely, RunKnows
  <1>4. CASE run.local[ProjectTag[P]] \in {None, P}
    <2>1. Ends \/ \E next \in {"tagGate", "tagRead"} : Moves(next)
      BY <1>4 DEF Project, Read, Goto, Fail, Ends, Moves
    <2>2. /\ Asks(run, "tagGate") /\ "tagGate" \in Point \ WritePoint
          /\ Asks(run, "tagRead") /\ "tagRead" \in Point \ WritePoint
      BY <1>2 DEF Asks, Point, BeforeCache, AtHandoff, AtProjectTag, AtRelease,
           AfterXoTag, AtXoTag, AfterHandoff, AfterCache, WritePoint
    <2> QED
      BY <1>1, <2>1, <2>2, EndsKeeps, MovesKeeps
  <1> QED
    BY <1>3, <1>4

-----------------------------------------------------------------------------
(* Lemmas about checkpoints.                                               *)

\* What must be true when a checkpoint is recorded.
Due(step, id) ==
  \/ step = "cache" /\ id = P /\ (evictions = 0 => Complete(P))
  \/ /\ step = "handoff" /\ id \in Mode
     /\ Recorded(P, "cache") /\ <<P, id>> \in handoffs
  \/ /\ step = "xo-tag" /\ id = P /\ Recorded(P, "handoff")
     /\ XoTag[P] # None => tags[XoTag[P]] = P
  \/ /\ step = "project-tag" /\ id = P /\ Recorded(P, "xo-tag")
     /\ tags[ProjectTag[P]] = P
  \/ /\ step = "github-release" /\ id = P /\ Recorded(P, "project-tag")
     /\ ProjectTag[P] \in releases

\* A checkpoint adds itself to what is recorded and takes nothing away.
LEMMA RecordAdds ==
  ASSUME TypeOK, run # None, NEW step \in Step, NEW id \in Product \cup Mode,
         Record(step, id)
  PROVE  /\ \A p \in Product, s \in Step :
              Recorded(p, s)' <=> Recorded(p, s) \/ (p = P /\ s = step)
         /\ \A p \in Product, c \in Step \X (Product \cup Mode) :
              c \in journal'[p] => c \in journal[p] \/ (p = P /\ c = <<step, id>>)
         /\ journal' \in [Product -> SUBSET (Step \X (Product \cup Mode))]
         /\ Steady
  <1>1. P \in Product /\ journal \in [Product -> SUBSET (Step \X (Product \cup Mode))]
    BY DEF TypeOK, Run, P
  <1>2. journal' = [journal EXCEPT ![P] = {c \in journal[P] : c[1] # step} \cup {<<step, id>>}]
    BY DEF Record
  <1>3. journal' \in [Product -> SUBSET (Step \X (Product \cup Mode))]
    BY <1>1, <1>2
  <1>4. \A p \in Product, s \in Step, i \in Product \cup Mode :
          <<s, i>> \in journal'[p] <=>
            IF p = P /\ s = step THEN i = id ELSE <<s, i>> \in journal[p]
    BY <1>1, <1>2
  <1>5. \A p \in Product, s \in Step :
          Recorded(p, s)' <=> Recorded(p, s) \/ (p = P /\ s = step)
    BY <1>4 DEF Recorded
  <1>6. Steady
    BY <1>5 DEF Steady, Record, destinations, Complete
  <1>7. \A p \in Product, c \in Step \X (Product \cup Mode) :
          c \in journal'[p] => c \in journal[p] \/ (p = P /\ c = <<step, id>>)
    BY <1>1, <1>2
  <1> QED
    BY <1>3, <1>5, <1>6, <1>7
\* A due checkpoint leaves the journals honest.
LEMMA DueKeeps ==
  ASSUME IInv, run # None, NEW step \in Step, NEW id \in Product \cup Mode,
         Record(step, id), Due(step, id)
  PROVE  Honest' /\ Downstream'
  <1>1. TypeOK /\ Honest /\ Downstream /\ P \in Product
    BY DEF IInv, TypeOK, Run, P
  <1>2. /\ \A p \in Product, s \in Step :
             Recorded(p, s)' <=> Recorded(p, s) \/ (p = P /\ s = step)
        /\ \A p \in Product, c \in Step \X (Product \cup Mode) :
             c \in journal'[p] => c \in journal[p] \/ (p = P /\ c = <<step, id>>)
        /\ Steady
    BY <1>1, RecordAdds
  <1>3. UNCHANGED <<cache, handoffs, tags, releases, evictions>>
    BY DEF Record, destinations
  <1>4. Honest'
    <2> SUFFICES ASSUME NEW p \in Product
                 PROVE  HonestAbout(p)'
      BY DEF Honest
    <2>1. HonestAbout(p)
      BY <1>1 DEF Honest
    <2>2. \A mode \in Mode : <<"handoff", mode>> \in journal'[p] => <<p, mode>> \in handoffs'
      BY <1>2, <1>3, <2>1 DEF HonestAbout, Due, Step
    <2>3. Complete(p)' <=> Complete(p)
      BY <1>3 DEF Complete
    <2> QED
      BY <1>2, <1>3, <2>1, <2>2, <2>3 DEF HonestAbout, Due, Step
  <1>5. Downstream'
    BY <1>1, <1>2, <1>3, DownstreamKept
  <1> QED
    BY <1>4, <1>5

\* A checkpoint after which the run goes on, or loses the acknowledgement.
LEMMA SaveKeeps ==
  ASSUME IInv, NEW point, NEW step \in Step, NEW id \in Product \cup Mode,
         NEW next \in Point \ WritePoint,
         Save(point, step, id, next), Due(step, id),
         Asks(run, next)' \/ run' = None
  PROVE  IInv'
  <1>1. /\ run # None /\ run \in Run /\ Record(step, id) /\ UNCHANGED verified
        /\ run' = None \/ run' = [run EXCEPT !.at = next]
        /\ TypeOK /\ Honest /\ VerifiedComplete
    BY DEF Save, At, Goto, Fail, IInv, TypeOK
  <1>2. /\ journal' \in [Product -> SUBSET (Step \X (Product \cup Mode))]
        /\ Steady
    BY <1>1, RecordAdds
  <1>3. Honest' /\ Downstream'
    BY <1>1, DueKeeps
  <1>4. VerifiedComplete'
    BY <1>1, <1>2, VerifiedKept
  <1>5. UNCHANGED <<authority, cache, handoffs, tags, releases, evictions, overdue>>
    BY <1>1 DEF Record, destinations
  <1>6. run' # None => /\ run' \in Run /\ run'.at = next /\ run'.product = run.product
                       /\ run'.local = run.local /\ run'.proven = run.proven
    <2>1. next \in Point
      OBVIOUS
    <2> QED
      BY <1>1, <2>1 DEF Run
  <1>7. TypeOK'
    BY <1>1, <1>2, <1>5, <1>6 DEF TypeOK
  <1>8. Timely'
    BY <1>1, <1>5, <1>6 DEF IInv, Timely, P
  <1>9. RunKnows'
    BY <1>1, <1>5, <1>6 DEF IInv, RunKnows, Knows, Complete
  <1> QED
    BY <1>3, <1>4, <1>7, <1>8, <1>9 DEF IInv

\* What a run that saved a checkpoint asks for at the next point.
LEMMA AsksSaved ==
  ASSUME IInv, NEW point \in Point, NEW step \in Step, NEW id \in Product \cup Mode,
         NEW next \in Point, Save(point, step, id, next)
  PROVE  /\ run # None /\ run \in Run /\ P = run.product /\ run.product \in Product
         /\ Asks(run, point) /\ run.at = point
         /\ \/ run' = None
            \/ /\ run'.product = run.product /\ run'.proven = run.proven
               /\ run'.purpose = run.purpose /\ run'.mode = run.mode
               /\ \A p \in Product, s \in Step : Recorded(p, s)' <=>
                     Recorded(p, s) \/ (p = run.product /\ s = step)
               /\ UNCHANGED <<cache, handoffs, tags, releases, evictions>>
  <1>1. /\ run # None /\ run \in Run /\ Record(step, id) /\ run.at = point
        /\ run' = None \/ run' = [run EXCEPT !.at = next]
        /\ TypeOK /\ P = run.product /\ run.product \in Product
    BY DEF Save, At, Goto, Fail, IInv, TypeOK, P, Run
  <1>2. \A p \in Product, s \in Step : Recorded(p, s)' <=>
          Recorded(p, s) \/ (p = run.product /\ s = step)
    BY <1>1, RecordAdds
  <1>3. UNCHANGED <<cache, handoffs, tags, releases, evictions>>
    BY <1>1 DEF Record, destinations
  <1>4. Asks(run, point)
    BY <1>1 DEF IInv, RunKnows, Knows
  <1> QED
    BY <1>1, <1>2, <1>3, <1>4 DEF Run
\* The checkpoints after which a run goes on.
LEMMA SavesKeep ==
  ASSUME IInv,
         \/ SaveCache \/ SaveXo \/ SaveTag
         \/ /\ At("saveHandoff") /\ run.purpose = "release"
            /\ Save("saveHandoff", "handoff", run.mode, "xoGate")
  PROVE  IInv'
  <1>1. /\ {"saveCache", "saveHandoff", "saveXo", "saveTag"} \subseteq Point
        /\ {"handoffProbe", "xoGate", "project", "releaseGate"} \subseteq Point \ WritePoint
        /\ {"cache", "handoff", "xo-tag", "project-tag"} \subseteq Step
    BY DEF Point, WritePoint, Step
  <1>2. run # None => P \in Product
    BY DEF IInv, TypeOK, Run, P
  <1>3. CASE SaveCache
    <2>1. Save("saveCache", "cache", P, "handoffProbe") /\ P \in Product
      BY <1>2, <1>3 DEF SaveCache, Save, At
    <2>2. /\ run # None /\ P = run.product /\ run.product \in Product
          /\ Asks(run, "saveCache") /\ HonestAbout(run.product)
          /\ \/ run' = None
             \/ /\ run'.product = run.product /\ run'.proven = run.proven
                /\ run'.purpose = run.purpose /\ run'.mode = run.mode
                /\ \A p \in Product, s \in Step : Recorded(p, s)' <=>
                      Recorded(p, s) \/ (p = run.product /\ s = "cache")
                /\ UNCHANGED <<cache, handoffs, tags, releases, evictions>>
      BY <1>1, <2>1, AsksSaved DEF IInv, Honest
    <2>3. Due("cache", P)
      BY <2>2 DEF Due, Asks, HonestAbout, BeforeCache, AtHandoff, AtProjectTag, AtRelease,
           AfterXoTag, AtXoTag, AfterHandoff, AfterCache
    <2>4. Asks(run, "handoffProbe")' \/ run' = None
      BY <1>1, <2>2 DEF Asks, BeforeCache, AtHandoff, AtProjectTag, AtRelease,
           AfterXoTag, AtXoTag, AfterHandoff, AfterCache
    <2> QED
      BY <1>1, <2>1, <2>3, <2>4, SaveKeeps
  <1>4. CASE SaveXo
    <2>1. Save("saveXo", "xo-tag", P, "project") /\ P \in Product
      BY <1>2, <1>4 DEF SaveXo, Save, At
    <2>2. /\ run # None /\ P = run.product /\ run.product \in Product
          /\ Asks(run, "saveXo") /\ HonestAbout(run.product)
          /\ \/ run' = None
             \/ /\ run'.product = run.product /\ run'.proven = run.proven
                /\ run'.purpose = run.purpose /\ run'.mode = run.mode
                /\ \A p \in Product, s \in Step : Recorded(p, s)' <=>
                      Recorded(p, s) \/ (p = run.product /\ s = "xo-tag")
                /\ UNCHANGED <<cache, handoffs, tags, releases, evictions>>
      BY <1>1, <2>1, AsksSaved DEF IInv, Honest
    <2>3. Due("xo-tag", P)
      BY <2>2 DEF Due, Asks, HonestAbout, BeforeCache, AtHandoff, AtProjectTag, AtRelease,
           AfterXoTag, AtXoTag, AfterHandoff, AfterCache
    <2>4. Asks(run, "project")' \/ run' = None
      BY <1>1, <2>2 DEF Asks, BeforeCache, AtHandoff, AtProjectTag, AtRelease,
           AfterXoTag, AtXoTag, AfterHandoff, AfterCache
    <2> QED
      BY <1>1, <2>1, <2>3, <2>4, SaveKeeps
  <1>5. CASE SaveTag
    <2>1. Save("saveTag", "project-tag", P, "releaseGate") /\ P \in Product
      BY <1>2, <1>5 DEF SaveTag, Save, At
    <2>2. /\ run # None /\ P = run.product /\ run.product \in Product
          /\ Asks(run, "saveTag") /\ HonestAbout(run.product)
          /\ \/ run' = None
             \/ /\ run'.product = run.product /\ run'.proven = run.proven
                /\ run'.purpose = run.purpose /\ run'.mode = run.mode
                /\ \A p \in Product, s \in Step : Recorded(p, s)' <=>
                      Recorded(p, s) \/ (p = run.product /\ s = "project-tag")
                /\ UNCHANGED <<cache, handoffs, tags, releases, evictions>>
      BY <1>1, <2>1, AsksSaved DEF IInv, Honest
    <2>3. Due("project-tag", P)
      BY <2>2 DEF Due, Asks, HonestAbout, BeforeCache, AtHandoff, AtProjectTag, AtRelease,
           AfterXoTag, AtXoTag, AfterHandoff, AfterCache
    <2>4. Asks(run, "releaseGate")' \/ run' = None
      BY <1>1, <2>2 DEF Asks, BeforeCache, AtHandoff, AtProjectTag, AtRelease,
           AfterXoTag, AtXoTag, AfterHandoff, AfterCache
    <2> QED
      BY <1>1, <2>1, <2>3, <2>4, SaveKeeps
  <1>6. CASE /\ At("saveHandoff") /\ run.purpose = "release"
            /\ Save("saveHandoff", "handoff", run.mode, "xoGate")
    <2>1. run # None /\ Asks(run, "saveHandoff")
      BY <1>6 DEF At, IInv, RunKnows, Knows
    <2>2. Save("saveHandoff", "handoff", run.mode, "xoGate") /\ run.mode \in Mode
      BY <1>6, <2>1 DEF Asks, AtHandoff
    <2>3. /\ run # None /\ P = run.product /\ run.product \in Product
          /\ Asks(run, "saveHandoff")
          /\ \/ run' = None
             \/ /\ run'.product = run.product /\ run'.proven = run.proven
                /\ run'.purpose = run.purpose /\ run'.mode = run.mode
                /\ \A p \in Product, s \in Step : Recorded(p, s)' <=>
                      Recorded(p, s) \/ (p = run.product /\ s = "handoff")
                /\ UNCHANGED <<cache, handoffs, tags, releases, evictions>>
      BY <1>1, <2>2, AsksSaved
    <2>4. Due("handoff", run.mode)
      BY <2>2, <2>3 DEF Due, Asks, BeforeCache, AtHandoff, AtProjectTag, AtRelease,
           AfterXoTag, AtXoTag, AfterHandoff, AfterCache
    <2>5. Asks(run, "xoGate")' \/ run' = None
      BY <1>1, <1>6, <2>3 DEF Asks, BeforeCache, AtHandoff, AtProjectTag, AtRelease,
           AfterXoTag, AtXoTag, AfterHandoff, AfterCache
    <2> QED
      BY <1>1, <2>2, <2>4, <2>5, SaveKeeps
  <1> QED
    BY <1>3, <1>4, <1>5, <1>6

\* The checkpoint that completes a publication.
LEMMA SavesLastKeep ==
  ASSUME IInv,
         \/ SaveLast("saveHandoff", "handoff", run.mode, "rolling")
         \/ SaveRelease
  PROVE  IInv'
  <1> DEFINE Last(point, step, id, purpose) ==
        /\ run # None /\ run \in Run /\ P = run.product /\ run.product \in Product
        /\ TypeOK /\ Honest /\ VerifiedComplete
        /\ run.at = point /\ run.purpose = purpose
        /\ Record(step, id) /\ Asks(run, point) /\ run' = None
        /\ verified' \in {verified, verified \cup {<<run.product, purpose>>}}
  <1>1. SUFFICES \E step \in Step, id \in Product \cup Mode :
                   /\ run # None /\ Record(step, id) /\ Due(step, id)
                   /\ run' = None /\ verified' \subseteq Product \X Purpose
                   /\ VerifiedComplete'
    <2>1. PICK step \in Step, id \in Product \cup Mode :
                   /\ run # None /\ Record(step, id) /\ Due(step, id)
                   /\ run' = None /\ verified' \subseteq Product \X Purpose
                   /\ VerifiedComplete'
      BY <1>1
    <2>2. Honest' /\ Downstream'
      BY <2>1, DueKeeps
    <2>3. journal' \in [Product -> SUBSET (Step \X (Product \cup Mode))]
      BY <2>1, RecordAdds DEF IInv
    <2>4. TypeOK'
      BY <2>1, <2>3 DEF IInv, TypeOK, Record, destinations
    <2> QED
      BY <2>1, <2>2, <2>4 DEF IInv, Timely, RunKnows, Record
  <1>2. CASE SaveLast("saveHandoff", "handoff", run.mode, "rolling")
    <2>1. Last("saveHandoff", "handoff", run.mode, "rolling")
      BY <1>2 DEF SaveLast, At, End, Fail, IInv, TypeOK, Run, P, RunKnows, Knows
    <2>2. run.mode \in Mode /\ Due("handoff", run.mode)
      BY <2>1 DEF Asks, Due, AtHandoff, AfterCache
    <2>3. /\ \A p \in Product, s \in Step : Recorded(p, s)' <=>
                Recorded(p, s) \/ (p = run.product /\ s = "handoff")
          /\ UNCHANGED tags
      BY <2>1, <2>2, RecordAdds DEF Step, Record, destinations
    <2>4. VerifiedComplete'
      <3>1. \A p \in Product, purpose \in Purpose : <<p, purpose>> \in verified' =>
               <<p, purpose>> \in verified \/ (p = run.product /\ purpose = "rolling")
        BY <2>1
      <3>2. \A p \in Product : <<p, "release">> \in verified' => <<p, "release">> \in verified
        BY <3>1 DEF Purpose
      <3> QED
        BY <2>1, <2>3, <3>1, <3>2 DEF VerifiedComplete, Step
    <2>5. verified' \subseteq Product \X Purpose
      BY <2>1 DEF TypeOK, Purpose
    <2> QED
      BY <2>1, <2>2, <2>4, <2>5 DEF Step
  <1>3. CASE SaveRelease
    <2>1. Last("saveRelease", "github-release", P, "release")
      BY <1>3 DEF SaveRelease, SaveLast, At, End, Fail, IInv, TypeOK, Run, P, RunKnows, Knows
    <2>2. /\ Due("github-release", P) /\ Recorded(run.product, "handoff")
          /\ Recorded(run.product, "xo-tag") /\ tags[ProjectTag[run.product]] = run.product
      BY <2>1 DEF Asks, Due, AtRelease, AfterXoTag, AfterHandoff, Honest, HonestAbout
    <2>3. /\ \A p \in Product, s \in Step : Recorded(p, s)' <=>
                Recorded(p, s) \/ (p = run.product /\ s = "github-release")
          /\ UNCHANGED tags
      BY <2>1, <2>2, RecordAdds DEF Step, Record, destinations
    <2>4. run.product # None
      BY <2>1, PipelineAssumption
    <2>5. VerifiedComplete'
      <3>1. \A p \in Product, purpose \in Purpose : <<p, purpose>> \in verified' =>
               <<p, purpose>> \in verified \/ p = run.product
        BY <2>1
      <3> QED
        BY <2>1, <2>2, <2>3, <2>4, <3>1 DEF VerifiedComplete, Step, Purpose
    <2>6. verified' \subseteq Product \X Purpose
      BY <2>1 DEF TypeOK, Purpose
    <2> QED
      BY <2>1, <2>2, <2>5, <2>6 DEF Step
  <1> QED
    BY <1>2, <1>3
\* The runner dies.
LEMMA DieKeeps ==
  ASSUME IInv, Die
  PROVE  IInv'
  <1>1. /\ run' = None
        /\ UNCHANGED <<authority, cache, handoffs, tags, releases, journal, evictions, overdue, verified>>
    BY DEF Die, Fail, destinations
  <1>2. Steady
    BY <1>1, StillSteady DEF destinations
  <1>3. TypeOK'
    BY <1>1 DEF IInv, TypeOK
  <1>4. Honest' /\ Downstream' /\ VerifiedComplete'
    BY <1>1, <1>2, HonestKept, DownstreamKept, VerifiedKept DEF IInv
  <1> QED
    BY <1>1, <1>3, <1>4 DEF IInv, Timely, RunKnows

\* A run starts, knowing nothing but the tags of its clone.
LEMMA BeginKeeps ==
  ASSUME IInv, NEW p \in Product, NEW purpose \in Purpose, Begin(p, purpose)
  PROVE  IInv'
  <1>1. /\ UNCHANGED <<authority, cache, handoffs, tags, releases, journal, evictions, verified>>
        /\ overdue' = 0
        /\ run' = [product |-> p, purpose |-> purpose, mode |-> None, at |-> "admit",
                   missing |-> {}, local |-> tags, proven |-> Complete(p)]
    BY DEF Begin, destinations, bounds
  <1>2. Steady
    BY <1>1, StillSteady DEF destinations
  <1>3. /\ run' \in Run /\ run'.at = "admit" /\ run'.product = p /\ run'.local = tags
        /\ run'.proven = Complete(p)
    <2>1. Complete(p) \in BOOLEAN
      BY DEF Complete
    <2>2. tags \in [Tag -> Product \cup {None}]
      BY DEF IInv, TypeOK
    <2> QED
      BY <1>1, <2>1, <2>2 DEF Run, Point
  <1>4. TypeOK'
    BY <1>1, <1>3 DEF IInv, TypeOK
  <1>5. Honest' /\ Downstream' /\ VerifiedComplete'
    BY <1>1, <1>2, HonestKept, DownstreamKept, VerifiedKept DEF IInv
  <1>6. RunKnows'
    BY <1>1, <1>3 DEF RunKnows, Knows, Complete, Asks, BeforeCache, AtHandoff,
       AtProjectTag, AtRelease, AfterXoTag, AtXoTag, AfterHandoff, AfterCache
  <1> QED
    BY <1>1, <1>4, <1>5, <1>6 DEF IInv, Timely

\* Somebody else's step: what it leaves of the run's knowledge.
LEMMA ElsewhereKeeps ==
  ASSUME IInv, Steady, UNCHANGED <<handoffs, releases, journal, verified>>,
         TypeOK', Timely',
         run # None /\ Complete(run.product)' => run'.proven,
         \/ UNCHANGED run
         \/ /\ run \in Run /\ run'.product = run.product /\ run'.purpose = run.purpose
            /\ run'.mode = run.mode /\ run'.at = run.at /\ run'.proven
            /\ run # None
  PROVE  IInv'
  <1>1. Honest' /\ Downstream' /\ VerifiedComplete'
    BY HonestKept, DownstreamKept, VerifiedKept DEF IInv
  <1>2. RunKnows'
    <2> SUFFICES ASSUME run' # None
                 PROVE  Knows(run)'
      BY DEF RunKnows
    <2>1. run # None /\ run \in Run
      BY DEF IInv, TypeOK
    <2>2. run.at \in Point /\ Asks(run, run.at) /\ run.product \in Product
      BY <2>1 DEF IInv, RunKnows, Knows, Run
    <2>3. PICK r \in Run, at \in Point : r = run /\ at = run.at
      BY <2>1, <2>2
    <2>4. Asks(r, at)'
      BY <2>2, <2>3, AsksKept
    <2>5. /\ run'.product = r.product /\ run'.purpose = r.purpose /\ run'.mode = r.mode
          /\ run'.at = at /\ (r.proven => run'.proven)
      BY <2>3
    <2>6. Asks(run, run.at)'
      BY <2>4, <2>5 DEF Asks, Complete, Recorded
    <2> QED
      BY <2>1, <2>6 DEF Knows
  <1> QED
    BY <1>1, <1>2 DEF IInv

\* Everybody else: authority comes and goes, paths and tags appear, garbage
\* collection drops paths.
LEMMA WorldKeeps ==
  ASSUME IInv, World
  PROVE  IInv'
  <1> USE DEF Elsewhere, destinations, bounds
  <1>0. /\ TypeOK /\ (run # None => run \in Run /\ run.product \in Product)
        /\ (run # None /\ Complete(run.product) => run.proven)
    BY DEF IInv, TypeOK, Run, RunKnows, Knows
  <1>1. ASSUME NEW p \in Product, Revoke(p)
        PROVE  IInv'
    <2>1. /\ UNCHANGED <<cache, handoffs, tags, releases, journal, evictions, run, overdue, verified>>
          /\ authority' = authority \ {p}
      BY <1>1 DEF Revoke
    <2>2. TypeOK' /\ Timely'
      BY <2>1 DEF IInv, TypeOK, Timely, P
    <2>3. run # None /\ Complete(run.product)' => run'.proven
      BY <1>0, <2>1 DEF Complete
    <2> QED
      BY <2>1, <2>2, <2>3, StillSteady, ElsewhereKeeps
  <1>2. ASSUME NEW p \in Product, Grant(p)
        PROVE  IInv'
    <2>1. /\ UNCHANGED <<cache, handoffs, tags, releases, journal, evictions, run, verified>>
          /\ authority' = authority \cup {p}
          /\ overdue' = IF run # None /\ P = p THEN 0 ELSE overdue
      BY <1>2 DEF Grant
    <2>2. TypeOK' /\ Timely'
      BY <2>1 DEF IInv, TypeOK, Timely, P
    <2>3. run # None /\ Complete(run.product)' => run'.proven
      BY <1>0, <2>1 DEF Complete
    <2> QED
      BY <2>1, <2>2, <2>3, StillSteady, ElsewhereKeeps
  <1>3. ASSUME NEW p \in Product, NEW path \in Path, NEW content \in Content,
               ForeignUpload(p, path, content)
        PROVE  IInv'
    <2>1. /\ UNCHANGED <<authority, handoffs, tags, releases, journal, evictions, overdue, verified>>
          /\ cache[p][path] = "absent" /\ cache' = [cache EXCEPT ![p][path] = content]
          /\ cache \in [Product -> [Path -> Content]]
          /\ run' = IF run # None /\ P = p /\ \A q \in Path : cache'[p][q] = "good"
                    THEN [run EXCEPT !.proven = TRUE] ELSE run
      BY <1>0, <1>3 DEF ForeignUpload, TypeOK
    <2>2. \A o \in Product : Complete(o) => Complete(o)'
      BY <2>1 DEF Complete
    <2>3. Steady
      BY <2>1, <2>2 DEF Steady, Recorded
    <2>4. \A o \in Product : o # p => (Complete(o)' <=> Complete(o))
      BY <2>1 DEF Complete
    <2>5. CASE run # None /\ P = p /\ \A q \in Path : cache'[p][q] = "good"
      <3>1. run' = [run EXCEPT !.proven = TRUE]
        BY <2>1, <2>5
      <3>2. /\ run' \in Run /\ run'.product = run.product /\ run'.purpose = run.purpose
            /\ run'.mode = run.mode /\ run'.at = run.at /\ run'.proven
            /\ run'.local = run.local
        BY <1>0, <2>5, <3>1 DEF Run
      <3>3. TypeOK' /\ Timely'
        BY <1>0, <2>1, <2>5, <3>2 DEF IInv, TypeOK, Timely, P
      <3> QED
        BY <1>0, <2>1, <2>3, <2>5, <3>2, <3>3, ElsewhereKeeps
    <2>6. CASE ~ (run # None /\ P = p /\ \A q \in Path : cache'[p][q] = "good")
      <3>1. UNCHANGED run
        BY <2>1, <2>6
      <3>2. TypeOK' /\ Timely'
        BY <1>0, <2>1, <3>1 DEF IInv, TypeOK, Timely, P
      <3>3. run # None /\ Complete(run.product)' => run'.proven
        BY <1>0, <2>4, <2>6, <3>1 DEF Complete, P
      <3> QED
        BY <2>1, <2>3, <3>1, <3>2, <3>3, ElsewhereKeeps
    <2> QED
      BY <2>5, <2>6
  <1>4. ASSUME NEW p \in Product, NEW path \in Path, Evict(p, path)
        PROVE  IInv'
    <2>1. /\ UNCHANGED <<authority, handoffs, tags, releases, journal, run, overdue, verified>>
          /\ evictions' = evictions + 1 /\ cache' = [cache EXCEPT ![p][path] = "absent"]
          /\ cache \in [Product -> [Path -> Content]]
      BY <1>0, <1>4 DEF Evict, TypeOK
    <2>2. \A o \in Product : Complete(o)' => Complete(o)
      BY <2>1 DEF Complete
    <2>3. evictions' \in Nat /\ evictions' # 0
      BY <2>1 DEF IInv, Timely
    <2>4. Steady
      BY <2>1, <2>3 DEF Steady, Recorded
    <2>5. TypeOK' /\ Timely'
      BY <1>0, <2>1, <2>3 DEF IInv, TypeOK, Timely, P, Content
    <2>6. run # None /\ Complete(run.product)' => run'.proven
      <3>1. run # None /\ Complete(run.product)' => Complete(run.product)
        BY <1>0, <2>1, <2>2 DEF Complete
      <3> QED
        BY <1>0, <2>1, <3>1
    <2> QED
      BY <2>1, <2>4, <2>5, <2>6, ElsewhereKeeps
  <1>5. ASSUME NEW tag \in Tag, NEW p \in Product, ForeignTag(tag, p)
        PROVE  IInv'
    <2>1. /\ UNCHANGED <<authority, cache, handoffs, releases, journal, evictions, run, overdue, verified>>
          /\ tags[tag] = None /\ tags' = [tags EXCEPT ![tag] = p]
      BY <1>5 DEF ForeignTag
    <2>2. TypeOK' /\ Timely'
      BY <1>0, <2>1 DEF IInv, TypeOK, Timely, P
    <2>3. Steady
      BY <1>0, <2>1 DEF Steady, Recorded, Complete, TypeOK
    <2>4. run # None /\ Complete(run.product)' => run'.proven
      BY <1>0, <2>1 DEF Complete
    <2> QED
      BY <2>1, <2>2, <2>3, <2>4, ElsewhereKeeps
  <1> QED
    BY <1>1, <1>2, <1>3, <1>4, <1>5 DEF World
-----------------------------------------------------------------------------
(* The invariant, and what follows from it.                                *)

LEMMA InitKeeps == Init => IInv
  <1> SUFFICES ASSUME Init
               PROVE  IInv
    OBVIOUS
  <1>1. \A p \in Product, step \in Step : ~ Recorded(p, step)
    BY DEF Init, Recorded
  <1>2. TypeOK
    BY DEF Init, TypeOK, Content
  <1>3. Honest /\ Downstream
    BY <1>1 DEF Init, Honest, HonestAbout, Downstream, Step
  <1>4. VerifiedComplete /\ Timely /\ RunKnows
    BY DEF Init, VerifiedComplete, Timely, RunKnows
  <1> QED
    BY <1>2, <1>3, <1>4 DEF IInv

LEMMA NextKeeps == IInv /\ [Next]_vars => IInv'
  <1> SUFFICES ASSUME IInv, [Next]_vars
               PROVE  IInv'
    OBVIOUS
  <1>1. CASE Start
    BY <1>1, BeginKeeps DEF Start
  <1>2. CASE RunStep
    <2>1. CASE \/ Admit \/ OpenJournal \/ Probe \/ CacheGate \/ UploadGate \/ Readback
               \/ RequireVerified \/ Reprobe \/ HandoffGate \/ HandoffRead \/ XoGate
               \/ XoRead \/ TagGate \/ TagRead \/ ReleaseGate \/ ReleaseRead
      BY <2>1, ReadsKeep
    <2>2. CASE Inspect \/ HandoffProbe \/ Project
      BY <2>2, InspectKeeps, HandoffProbeKeeps, ProjectKeeps
    <2>3. CASE Upload \/ Copy \/ TagXoRelease \/ TagRelease \/ PublishRelease
      BY <2>3, UploadKeeps, CopyKeeps, TagsKeep, PublishReleaseKeeps
    <2>4. CASE SaveCache \/ SaveXo \/ SaveTag \/ SaveHandoff \/ SaveRelease
      BY <2>4, SavesKeep, SavesLastKeep DEF SaveHandoff
    <2> QED
      BY <1>2, <2>1, <2>2, <2>3, <2>4 DEF RunStep
  <1>3. CASE Die
    BY <1>3, DieKeeps
  <1>4. CASE World
    BY <1>4, WorldKeeps
  <1>5. CASE UNCHANGED vars
    <2>1. /\ UNCHANGED <<authority, cache, handoffs, tags, releases, journal, run,
                       verified, evictions, overdue>>
      BY <1>5 DEF vars
    <2>2. Steady
      BY <2>1, StillSteady DEF destinations
    <2>3. TypeOK' /\ Timely'
      BY <2>1 DEF IInv, TypeOK, Timely, P
    <2>4. run # None /\ Complete(run.product)' => run'.proven
      BY <2>1 DEF IInv, RunKnows, Knows, Complete
    <2> QED
      BY <2>1, <2>2, <2>3, <2>4, ElsewhereKeeps
  <1> QED
    BY <1>1, <1>2, <1>3, <1>4, <1>5 DEF Next

\* Wherever a run dies, whatever acknowledgement is lost and whoever else
\* writes, the invariant of the publication holds.
THEOREM Invariance == Spec => []IInv
  BY InitKeeps, NextKeeps, PTL DEF Spec

\* A checkpoint says something true of its public destination for good, and
\* is never recorded before those of its predecessors.
THEOREM CheckpointHonesty == Spec => []CheckpointsHonest
  <1>1. IInv => CheckpointsHonest
    BY DEF IInv, Honest, HonestAbout, CheckpointsHonest
  <1> QED
    BY <1>1, Invariance, PTL

\* No handoff is public without a complete, recorded cache, no release without
\* a tag of its own product, and no run passes the cache on an old checkpoint.
THEOREM DownstreamOrder == Spec => []DownstreamLast
  <1>1. IInv => DownstreamLast
    <2> SUFFICES ASSUME IInv
                 PROVE  DownstreamLast
      OBVIOUS
    <2>1. \A p \in Product, mode \in Mode :
            <<p, mode>> \in handoffs => Recorded(p, "cache") /\ (evictions = 0 => Complete(p))
      BY DEF IInv, Downstream, Honest, HonestAbout
    <2>2. run # None /\ run.at \notin BeforeCache => run.proven
      BY DEF IInv, RunKnows, Knows, Asks
    <2> QED
      BY <2>1, <2>2 DEF IInv, Downstream, DownstreamLast, BeforeCache
  <1> QED
    BY <1>1, Invariance, PTL

\* After its product lost authority a run makes at most one public write, the
\* one whose gate had passed before.
THEOREM RevocationStops == Spec => []RevocationStopsWrites
  <1>1. IInv => RevocationStopsWrites
    BY DEF IInv, Timely, RevocationStopsWrites
  <1> QED
    BY <1>1, Invariance, PTL

\* A publication that reported "verified" left everything its purpose calls for.
THEOREM VerifiedCompleteness == Spec => []VerifiedComplete
  <1>1. IInv => VerifiedComplete
    BY DEF IInv
  <1> QED
    BY <1>1, Invariance, PTL
=============================================================================
