---------------------- MODULE PublicationJournalProofs ----------------------
(***************************************************************************)
(* Proofs about PublicationJournal, for any number of controllers, commits,*)
(* destinations, identities and readback attempts.                         *)
(***************************************************************************)
EXTENDS PublicationJournal, TLAPS

\* The empty journal is a journal, and it proves and preserves nothing.
LEMMA BlankJournal == Blank \in Journal /\ ReceiptsProve(Blank)
  BY JournalAssumption DEF Blank, Journal, ReceiptsProve

\* Growth of journals is reflexive and transitive.
LEMMA PreservedReflexive == \A j : Preserved(j, j)
  BY DEF Preserved

LEMMA PreservedTransitive ==
  ASSUME NEW i, NEW j, NEW k, Preserved(i, j), Preserved(j, k)
  PROVE  Preserved(i, k)
  BY DEF Preserved

\* Adding one checkpoint to a journal loses none that was there.
LEMMA ExtendsPreserves ==
  ASSUME TypeOK, NEW h \in CommitId, NEW v \in Journal, Extends(h, v)
  PROVE  Preserved(commits[h].value, v)
  <1> DEFINE old == commits[h].value
  <1>1. h # NoCommit
    BY JournalAssumption
  <1>2. PICK p \in Checkpoint :
          /\ old.steps[p.name] \in {Absent, p.identity} \/ p.name = Handoff
          /\ v.steps = [old.steps EXCEPT ![p.name] = p.identity]
    BY <1>1 DEF Extends
  <1>3. p.name \in Step /\ p.identity \in Identity /\ p.identity # Absent
    BY JournalAssumption DEF Checkpoint
  <1>4. old.steps \in [Step -> Identity \cup {Absent}]
    BY DEF TypeOK, Journal
  <1> QED
    BY <1>2, <1>3, <1>4 DEF Preserved

-----------------------------------------------------------------------------
\* Type correctness, action by action.

LEMMA StopTypes ==
  ASSUME TypeOK, NEW c \in Controller, Stop(c), UNCHANGED <<server, acked>>
  PROVE  TypeOK'
  BY BlankJournal, JournalAssumption DEF Stop, TypeOK, server, Head

LEMMA SaveTypes ==
  ASSUME TypeOK, NEW c \in Controller, NEW prior \in Head, NEW v \in Journal,
         NEW p \in Checkpoint \cup {Absent}, BeginSave(c, prior, v, p)
  PROVE  TypeOK'
  <1>1. PICK k \in CommitId \ made :
          /\ made' = made \cup {k}
          /\ commits' = [commits EXCEPT ![k] =
                           [line |-> {k} \cup Line(prior), value |-> v]]
          /\ wire' = wire \cup {[commit |-> k, prior |-> prior]}
          /\ pc' = [pc EXCEPT ![c] = "wait"]
          /\ value' = [value EXCEPT ![c] = v]
          /\ target' = [target EXCEPT ![c] = k]
          /\ call' = [call EXCEPT ![c] = p]
          /\ UNCHANGED <<ref, heads, base, attempt, acked>>
    BY DEF BeginSave
  <1>2. Line(prior) \in SUBSET CommitId
    BY DEF Line, TypeOK, Head
  <1>3. commits' \in [CommitId -> [line : SUBSET CommitId, value : Journal]]
    BY <1>1, <1>2 DEF TypeOK
  <1>4. wire' \subseteq Update
    BY <1>1 DEF TypeOK, Update
  <1> QED
    BY <1>1, <1>3, <1>4 DEF TypeOK, Head

\* The journal that complete() saves.
LEMMA NewJournalType ==
  ASSUME TypeOK, NEW c \in Controller, NEW p \in Checkpoint, NEW v \in Verifier
  PROVE  [steps |-> [value[c].steps EXCEPT ![p.name] = p.identity],
          receipts |-> [value[c].receipts EXCEPT
                     ![p.name] = [expected |-> p.identity, verifier |-> v]]]
           \in Journal
  BY DEF TypeOK, Journal, Checkpoint, Receipt

LEMMA TypePreserved == TypeOK /\ [Next]_vars => TypeOK'
  <1> SUFFICES ASSUME TypeOK, [Next]_vars
               PROVE  TypeOK'
    OBVIOUS
  <1>1. ASSUME NEW c \in Controller, Run(c)
        PROVE  TypeOK'
    <2>1. CASE OpenExisting(c)
      BY <2>1 DEF OpenExisting, TypeOK, server, Head
    <2>2. CASE OpenNew(c)
      BY <2>2, BlankJournal, SaveTypes DEF OpenNew, Head
    <2>3. ASSUME NEW p \in Checkpoint, NEW v \in Verifier, CompleteKnown(c, p, v)
          PROVE  TypeOK'
      BY <2>3 DEF CompleteKnown, TypeOK, server, local
    <2>4. ASSUME NEW p \in Checkpoint, NEW v \in Verifier, CompleteConflict(c, p, v)
          PROVE  TypeOK'
      BY <2>4, StopTypes DEF CompleteConflict
    <2>5. ASSUME NEW p \in Checkpoint, NEW v \in Verifier, CompleteNew(c, p, v)
          PROVE  TypeOK'
      <3>1. base[c] \in Head
        BY DEF TypeOK
      <3> QED
        BY <2>5, <3>1, NewJournalType, SaveTypes DEF CompleteNew
    <2>6. CASE GiveUp(c)
      BY <2>6, StopTypes DEF GiveUp
    <2>7. CASE ReadbackConfirms(c)
      BY <2>7, JournalAssumption DEF ReadbackConfirms, TypeOK, server, Head
    <2>8. CASE ReadbackStale(c)
      BY <2>8, JournalAssumption DEF ReadbackStale, TypeOK, server
    <2>9. CASE ReadbackFails(c)
      BY <2>9, StopTypes DEF ReadbackFails
    <2>10. CASE Exit(c)
      BY <2>10, StopTypes DEF Exit
    <2> QED
      BY <1>1, <2>1, <2>2, <2>3, <2>4, <2>5, <2>6, <2>7, <2>8, <2>9, <2>10
         DEF Run, Complete, Readback
  <1>2. ASSUME NEW w \in wire, AcceptUpdate(w)
        PROVE  TypeOK'
    <2>1. w.commit \in CommitId
      BY DEF TypeOK, Update
    <2> QED
      BY <1>2, <2>1, JournalAssumption DEF AcceptUpdate, TypeOK, Head
  <1>3. ASSUME NEW w \in wire, RefuseUpdate(w)
        PROVE  TypeOK'
    <2>1. CASE UNCHANGED local
      BY <1>3, <2>1 DEF RefuseUpdate, TypeOK, local
    <2>2. ASSUME NEW c \in Controller, Stop(c)
          PROVE  TypeOK'
      BY <1>3, <2>2, BlankJournal, JournalAssumption
         DEF RefuseUpdate, Stop, TypeOK, Head
    <2> QED
      BY <1>3, <2>1, <2>2 DEF RefuseUpdate
  <1>4. CASE UNCHANGED vars
    BY <1>4 DEF vars, server, local, TypeOK
  <1> QED
    BY <1>1, <1>2, <1>3, <1>4 DEF Next

LEMMA InitTypes == Init => TypeOK
  BY BlankJournal, JournalAssumption DEF Init, TypeOK, Head

\* Every variable keeps its type, whatever the controllers and GitHub do.
THEOREM TypeCorrect == Spec => []TypeOK
  BY InitTypes, TypePreserved, PTL DEF Spec

-----------------------------------------------------------------------------
\* The inductive invariant.

\* The parts of the invariant that speak of the server only.
ServerInv ==
  LinesClosed /\ LinesAcyclic /\ HeadsOnLine /\ LinesGrow /\ CommitsProve /\ WireExtends

LEMMA ServerUnchanged ==
  ASSUME ServerInv, UNCHANGED server
  PROVE  ServerInv'
  <1> USE DEF server
  <1>1. LinesClosed' /\ LinesAcyclic' /\ LinesGrow' /\ CommitsProve'
    BY DEF ServerInv, LinesClosed, LinesAcyclic, LinesGrow, CommitsProve
  <1>2. HeadsOnLine'
    BY DEF ServerInv, HeadsOnLine, Line
  <1>3. WireExtends'
    BY DEF ServerInv, WireExtends, Extends, Line
  <1> QED
    BY <1>1, <1>2, <1>3 DEF ServerInv

LEMMA RecordedUnchanged ==
  ASSUME UNCHANGED server
  PROVE  Recorded' = Recorded
  BY DEF server, Recorded

\* A run that stops leaves the server and the promises made as they were.
LEMMA StopLocal ==
  ASSUME TypeOK, LocalMatches, NEW c \in Controller, Stop(c),
         UNCHANGED <<heads, made, commits>>
  PROVE  LocalMatches'
  BY DEF Stop, LocalMatches, TypeOK

LEMMA StopKeeps ==
  ASSUME JournalInv, NEW c \in Controller, Stop(c), UNCHANGED <<server, acked>>
  PROVE  JournalInv'
  <1>1. TypeOK'
    BY StopTypes DEF JournalInv
  <1>2. ServerInv'
    BY ServerUnchanged DEF JournalInv, ServerInv
  <1>3. LocalMatches'
    BY StopLocal DEF JournalInv, server
  <1>4. AckedRecorded'
    BY RecordedUnchanged DEF JournalInv, AckedRecorded
  <1> QED
    BY <1>1, <1>2, <1>3, <1>4 DEF JournalInv, ServerInv

\* Saving creates a commit on top of a former head and leaves all others alone.
LEMMA SaveKeeps ==
  ASSUME JournalInv, NEW c \in Controller, NEW prior \in heads,
         NEW v \in Journal, NEW p \in Checkpoint \cup {Absent},
         ReceiptsProve(v), Extends(prior, v),
         p # Absent => v.steps[p.name] = p.identity,
         BeginSave(c, prior, v, p)
  PROVE  JournalInv'
  <1>1. PICK k \in CommitId \ made :
          /\ made' = made \cup {k}
          /\ commits' = [commits EXCEPT ![k] =
                           [line |-> {k} \cup Line(prior), value |-> v]]
          /\ wire' = wire \cup {[commit |-> k, prior |-> prior]}
          /\ pc' = [pc EXCEPT ![c] = "wait"]
          /\ value' = [value EXCEPT ![c] = v]
          /\ target' = [target EXCEPT ![c] = k]
          /\ call' = [call EXCEPT ![c] = p]
          /\ UNCHANGED <<ref, heads, base, attempt, acked>>
    BY DEF BeginSave
  <1>2. TypeOK /\ TypeOK'
    BY SaveTypes DEF JournalInv, TypeOK
  <1>3. k # NoCommit /\ k \notin heads
    BY JournalAssumption, <1>1 DEF JournalInv, HeadsOnLine
  <1>4. /\ commits'[k] = [line |-> {k} \cup Line(prior), value |-> v]
        /\ \A j \in made : commits'[j] = commits[j]
    BY <1>1, <1>2 DEF TypeOK
  <1>5. \A h \in made \cup {NoCommit} : Line(h)' = Line(h)
    BY <1>4 DEF Line
  <1>6. prior \in made \cup {NoCommit} /\ Line(prior) \subseteq made
    BY DEF JournalInv, HeadsOnLine, LinesClosed, Line
  <1>7. LinesClosed'
    <2>1. \A j \in Line(prior) : commits[j].line \subseteq Line(prior)
      BY <1>6 DEF JournalInv, LinesClosed, Line
    <2> QED
      BY <1>1, <1>4, <1>6, <2>1 DEF JournalInv, LinesClosed
  <1>8. LinesAcyclic'
    BY <1>1, <1>4, <1>6 DEF JournalInv, LinesAcyclic, LinesClosed
  <1>9. HeadsOnLine'
    BY <1>1, <1>5 DEF JournalInv, HeadsOnLine
  <1>10. LinesGrow'
    <2> SUFFICES ASSUME NEW i \in made', NEW j \in commits'[i].line
                 PROVE  Preserved(commits'[j].value, commits'[i].value)
      BY DEF LinesGrow, Preserved
    <2>1. CASE i \in made
      <3>1. j \in made /\ j \in commits[i].line
        BY <1>4, <2>1 DEF JournalInv, LinesClosed
      <3> QED
        BY <1>4, <2>1, <3>1 DEF JournalInv, LinesGrow
    <2>2. CASE i = k /\ j = k
      BY <2>2, PreservedReflexive
    <2>3. CASE i = k /\ j # k
      <3>1. j \in Line(prior) /\ prior # NoCommit /\ prior \in made
        BY <1>4, <1>6, <2>3 DEF Line
      <3>2. Preserved(commits[j].value, commits[prior].value)
        BY <3>1 DEF JournalInv, LinesGrow, Line
      <3>3. Preserved(commits[prior].value, v)
        BY <1>2, <3>1, ExtendsPreserves DEF TypeOK
      <3>4. commits'[j].value = commits[j].value /\ commits'[i].value = v
        BY <1>4, <1>6, <2>3, <3>1
      <3> QED
        BY <3>2, <3>3, <3>4, PreservedTransitive
    <2> QED
      BY <1>1, <2>1, <2>2, <2>3
  <1>11. CommitsProve'
    BY <1>1, <1>4 DEF JournalInv, CommitsProve, ReceiptsProve
  <1>12. WireExtends'
    <2>1. \A w \in wire : w.commit \in made /\ w.commit # k
      BY <1>1 DEF JournalInv, WireExtends
    <2>2. \A h \in heads : h \in made \cup {NoCommit}
      BY DEF JournalInv, HeadsOnLine
    <2>3. ASSUME NEW w \in wire
          PROVE  /\ w.commit \in made' \ heads'
                 /\ w.prior \in heads'
                 /\ commits'[w.commit].line = {w.commit} \cup Line(w.prior)'
                 /\ Extends(w.prior, commits[w.commit].value)'
      <3>1. /\ w.commit \in made \ heads
            /\ w.prior \in heads
            /\ commits[w.commit].line = {w.commit} \cup Line(w.prior)
            /\ Extends(w.prior, commits[w.commit].value)
        BY DEF JournalInv, WireExtends
      <3>2. commits'[w.commit] = commits[w.commit] /\ Line(w.prior)' = Line(w.prior)
        BY <1>4, <1>5, <2>2, <3>1
      <3>3. Extends(w.prior, commits[w.commit].value)'
        BY <1>4, <2>2, <3>1, <3>2 DEF Extends
      <3> QED
        BY <1>1, <3>1, <3>2, <3>3
    <2>4. /\ k \in made' \ heads'
          /\ prior \in heads'
          /\ commits'[k].line = {k} \cup Line(prior)'
          /\ Extends(prior, commits[k].value)'
      <3>1. Extends(prior, commits[k].value)'
        <4>1. commits'[k].value = v
          BY <1>4
        <4>2. CASE prior = NoCommit
          BY <4>1, <4>2 DEF Extends, Blank
        <4>3. CASE prior # NoCommit
          <5>1. commits'[prior] = commits[prior]
            BY <1>4, <1>6, <4>3
          <5> QED
            BY <4>1, <4>3, <5>1 DEF Extends
        <4> QED
          BY <4>2, <4>3
      <3>2. Line(prior)' = Line(prior) /\ commits'[k].line = {k} \cup Line(prior)
        BY <1>4, <1>5, <1>6
      <3>3. k \in made' \ heads' /\ prior \in heads'
        BY <1>1, <1>3
      <3> QED
        BY <3>1, <3>2, <3>3
    <2>5. \A u, w \in wire' : u.commit = w.commit => u = w
      BY <1>1, <2>1 DEF JournalInv, WireExtends
    <2> QED
      BY <1>1, <2>3, <2>4, <2>5 DEF WireExtends
  <1>13. LocalMatches'
    <2> SUFFICES ASSUME NEW d \in Controller
                 PROVE  /\ pc'[d] = "ready" =>
                             /\ base'[d] \in heads' \ {NoCommit}
                             /\ value'[d] = commits'[base'[d]].value
                        /\ pc'[d] \in {"wait", "readback"} =>
                             /\ target'[d] \in made'
                             /\ value'[d] = commits'[target'[d]].value
                             /\ call'[d] # Absent =>
                                  value'[d].steps[call'[d].name] = call'[d].identity
                        /\ pc'[d] = "readback" => target'[d] \in heads'
      BY DEF LocalMatches
    <2>1. CASE d = c
      BY <1>1, <1>2, <1>4, <2>1 DEF TypeOK
    <2>2. CASE d # c
      <3>1. /\ pc'[d] = pc[d] /\ value'[d] = value[d] /\ target'[d] = target[d]
            /\ call'[d] = call[d] /\ base'[d] = base[d]
        BY <1>1, <1>2, <2>2 DEF TypeOK
      <3> QED
        BY <1>1, <1>4, <3>1 DEF JournalInv, LocalMatches, HeadsOnLine
    <2> QED
      BY <2>1, <2>2
  <1>14. AckedRecorded'
    BY <1>1, <1>4 DEF JournalInv, AckedRecorded, Recorded, HeadsOnLine
  <1> QED
    BY <1>2, <1>7, <1>8, <1>9, <1>10, <1>11, <1>12, <1>13, <1>14 DEF JournalInv

\* A reference update is accepted only on top of the very head it was built on,
\* so that nothing recorded in between can be lost.
LEMMA AcceptedPrior ==
  ASSUME JournalInv, NEW w \in wire, Accepts(w)
  PROVE  ref = w.prior
  <1>1. /\ w.commit \in made /\ w.commit \notin heads /\ w.prior \in heads
        /\ commits[w.commit].line = {w.commit} \cup Line(w.prior)
    BY DEF JournalInv, WireExtends
  <1>2. CASE w.prior = NoCommit
    BY <1>2 DEF Accepts
  <1>3. CASE w.prior # NoCommit
    <2>1. ref \in Line(w.prior)
      BY <1>1, <1>3 DEF Accepts, JournalInv, HeadsOnLine
    <2>2. ref \in made /\ w.prior \in made
      BY <1>1, <1>3, <2>1 DEF JournalInv, HeadsOnLine, LinesClosed, Line
    <2>3. ref # NoCommit
      BY <2>2, JournalAssumption DEF JournalInv, TypeOK
    <2>4. w.prior \in commits[ref].line /\ ref \in commits[w.prior].line
      BY <1>1, <1>3, <2>1, <2>3 DEF JournalInv, HeadsOnLine, Line
    <2> QED
      BY <2>2, <2>4 DEF JournalInv, LinesAcyclic
  <1> QED
    BY <1>2, <1>3

LEMMA AcceptKeeps ==
  ASSUME JournalInv, NEW w \in wire, AcceptUpdate(w)
  PROVE  JournalInv'
  <1> USE DEF AcceptUpdate
  <1>1. TypeOK'
    BY TypePreserved DEF JournalInv, Next
  <1>2. /\ w.commit \in made /\ w.commit \notin heads /\ w.prior \in heads
        /\ commits[w.commit].line = {w.commit} \cup Line(w.prior)
        /\ w.commit # NoCommit
    BY JournalAssumption DEF JournalInv, WireExtends, TypeOK
  <1>3. LinesClosed' /\ LinesAcyclic' /\ LinesGrow' /\ CommitsProve'
    BY DEF JournalInv, LinesClosed, LinesAcyclic, LinesGrow, CommitsProve
  <1>4. HeadsOnLine'
    <2>1. heads \ {NoCommit} \subseteq Line(w.prior)
      BY AcceptedPrior DEF JournalInv, HeadsOnLine
    <2>2. Line(w.commit)' = {w.commit} \cup Line(w.prior)
      BY <1>2 DEF Line
    <2>3. w.commit \in Line(w.commit)' /\ heads' = heads \cup {w.commit}
      BY <2>2
    <2>4. \A h \in made \cup {NoCommit} : Line(h)' = Line(h)
      BY DEF Line
    <2>5. heads' \subseteq made' \cup {NoCommit} /\ {ref, NoCommit}' \subseteq heads'
      BY <1>2 DEF JournalInv, HeadsOnLine
    <2>6. \A a, b \in heads \ {NoCommit} : a \in Line(b)' \/ b \in Line(a)'
      BY <2>4 DEF JournalInv, HeadsOnLine
    <2> QED
      BY <2>1, <2>2, <2>3, <2>5, <2>6 DEF HeadsOnLine
  <1>5. WireExtends'
    BY DEF JournalInv, WireExtends, Extends, Line
  <1>6. LocalMatches'
    <2> SUFFICES ASSUME NEW d \in Controller
                 PROVE  /\ pc'[d] = "ready" =>
                             /\ base'[d] \in heads' \ {NoCommit}
                             /\ value'[d] = commits'[base'[d]].value
                        /\ pc'[d] \in {"wait", "readback"} =>
                             /\ target'[d] \in made'
                             /\ value'[d] = commits'[target'[d]].value
                             /\ call'[d] # Absent =>
                                  value'[d].steps[call'[d].name] = call'[d].identity
                        /\ pc'[d] = "readback" => target'[d] \in heads'
      BY DEF LocalMatches
    <2>1. CASE Awaits(d, w)
      BY <2>1 DEF Awaits, JournalInv, LocalMatches
    <2>2. CASE ~ Awaits(d, w)
      BY <2>2 DEF JournalInv, LocalMatches
    <2> QED
      BY <2>1, <2>2
  <1>7. AckedRecorded'
    BY DEF JournalInv, AckedRecorded, Recorded
  <1> QED
    BY <1>1, <1>3, <1>4, <1>5, <1>6, <1>7 DEF JournalInv

LEMMA RefuseKeeps ==
  ASSUME JournalInv, NEW w \in wire, RefuseUpdate(w)
  PROVE  JournalInv'
  <1>1. TypeOK'
    BY TypePreserved DEF JournalInv, Next
  <1>2. UNCHANGED <<ref, heads, made, commits, acked>> /\ wire' \subseteq wire
    BY DEF RefuseUpdate
  <1>3. LinesClosed' /\ LinesAcyclic' /\ LinesGrow' /\ CommitsProve'
    BY <1>2 DEF JournalInv, LinesClosed, LinesAcyclic, LinesGrow, CommitsProve
  <1>4. HeadsOnLine' /\ WireExtends'
    BY <1>2 DEF JournalInv, HeadsOnLine, WireExtends, Extends, Line
  <1>5. LocalMatches'
    <2>1. CASE UNCHANGED local
      BY <1>2, <2>1 DEF local, JournalInv, LocalMatches
    <2>2. ASSUME NEW c \in Controller, Stop(c)
          PROVE  LocalMatches'
      BY <1>2, <2>2, StopLocal DEF JournalInv
    <2> QED
      BY <2>1, <2>2 DEF RefuseUpdate
  <1>6. AckedRecorded'
    BY <1>2 DEF JournalInv, AckedRecorded, Recorded
  <1> QED
    BY <1>1, <1>3, <1>4, <1>5, <1>6 DEF JournalInv

\* Steps that change neither the server nor, except for confirmed checkpoints,
\* the promises made.
LEMMA LocalStepKeeps ==
  ASSUME JournalInv, [Next]_vars, UNCHANGED server, LocalMatches',
         acked' \subseteq acked \cup Recorded
  PROVE  JournalInv'
  <1>1. TypeOK'
    BY TypePreserved DEF JournalInv
  <1>2. ServerInv'
    BY ServerUnchanged DEF JournalInv, ServerInv
  <1>3. AckedRecorded'
    BY RecordedUnchanged DEF JournalInv, AckedRecorded
  <1> QED
    BY <1>1, <1>2, <1>3 DEF JournalInv, ServerInv

LEMMA OpenExistingKeeps ==
  ASSUME JournalInv, NEW c \in Controller, OpenExisting(c)
  PROVE  JournalInv'
  <1>1. [Next]_vars /\ UNCHANGED server /\ acked' = acked
    BY DEF Next, Run, OpenExisting
  <1>2. LocalMatches'
    BY DEF OpenExisting, JournalInv, LocalMatches, TypeOK, server
  <1> QED
    BY <1>1, <1>2, LocalStepKeeps

LEMMA CompleteKnownKeeps ==
  ASSUME JournalInv, NEW c \in Controller, NEW p \in Checkpoint,
         NEW v \in Verifier, CompleteKnown(c, p, v)
  PROVE  JournalInv'
  <1>1. [Next]_vars /\ UNCHANGED <<server, local>> /\ acked' = acked \cup {p}
    BY DEF Next, Run, Complete, CompleteKnown
  <1>2. LocalMatches'
    BY <1>1 DEF JournalInv, LocalMatches, local, server
  <1>3. /\ base[c] \in heads \ {NoCommit} /\ base[c] \in made
        /\ value[c] = commits[base[c]].value
    BY DEF CompleteKnown, JournalInv, LocalMatches, HeadsOnLine
  <1>4. value[c].receipts[p.name] # Absent
    BY JournalAssumption DEF CompleteKnown, Known, Checkpoint
  <1>5. value[c].steps[p.name] = p.identity
    <2>1. value[c].receipts[p.name].expected = value[c].steps[p.name]
      BY <1>3, <1>4 DEF JournalInv, CommitsProve, ReceiptsProve, Checkpoint
    <2> QED
      BY <2>1 DEF CompleteKnown, Known
  <1>6. p \in Recorded
    BY <1>3, <1>5 DEF Recorded
  <1> QED
    BY <1>1, <1>2, <1>6, LocalStepKeeps

LEMMA CompleteNewKeeps ==
  ASSUME JournalInv, NEW c \in Controller, NEW p \in Checkpoint,
         NEW v \in Verifier, CompleteNew(c, p, v)
  PROVE  JournalInv'
  <1> DEFINE new == [steps |-> [value[c].steps EXCEPT ![p.name] = p.identity],
                     receipts |-> [value[c].receipts EXCEPT
                       ![p.name] = [expected |-> p.identity, verifier |-> v]]]
  <1>1. new \in Journal
    BY NewJournalType DEF JournalInv
  <1>2. /\ base[c] \in heads \ {NoCommit} /\ base[c] \in made
        /\ value[c] = commits[base[c]].value
    BY DEF CompleteNew, JournalInv, LocalMatches, HeadsOnLine
  <1>3. /\ value[c].steps \in [Step -> Identity \cup {Absent}]
        /\ value[c].receipts \in [Step -> Receipt \cup {Absent}]
        /\ p.name \in Step /\ p.identity \in Identity
    BY DEF JournalInv, TypeOK, Journal, Checkpoint
  <1>4. ReceiptsProve(new)
    <2>1. ReceiptsProve(value[c])
      BY <1>2 DEF JournalInv, CommitsProve
    <2> QED
      BY <1>3, <2>1 DEF ReceiptsProve
  <1>5. Extends(base[c], new)
    BY <1>2 DEF Extends, CompleteNew, Conflicting
  <1>6. new.steps[p.name] = p.identity
    BY <1>3
  <1>7. BeginSave(c, base[c], new, p)
    BY DEF CompleteNew
  <1> HIDE DEF new
  <1> QED
    BY <1>1, <1>2, <1>4, <1>5, <1>6, <1>7, SaveKeeps

LEMMA ReadbackConfirmsKeeps ==
  ASSUME JournalInv, NEW c \in Controller, ReadbackConfirms(c)
  PROVE  JournalInv'
  <1>1. [Next]_vars /\ UNCHANGED server
    BY DEF Next, Run, Readback, ReadbackConfirms
  <1>2. /\ target[c] \in heads \ {NoCommit}
        /\ value[c] = commits[target[c]].value
        /\ call[c] # Absent => value[c].steps[call[c].name] = call[c].identity
    BY JournalAssumption DEF ReadbackConfirms, JournalInv, LocalMatches, TypeOK
  <1>3. LocalMatches'
    BY <1>2 DEF ReadbackConfirms, JournalInv, LocalMatches, TypeOK, server
  <1>4. acked' \subseteq acked \cup Recorded
    BY <1>2 DEF ReadbackConfirms, Recorded, JournalInv, TypeOK
  <1> QED
    BY <1>1, <1>3, <1>4, LocalStepKeeps

LEMMA ReadbackStaleKeeps ==
  ASSUME JournalInv, NEW c \in Controller, ReadbackStale(c)
  PROVE  JournalInv'
  <1>1. [Next]_vars /\ UNCHANGED server /\ acked' = acked
    BY DEF Next, Run, Readback, ReadbackStale
  <1>2. LocalMatches'
    BY DEF ReadbackStale, JournalInv, LocalMatches, server
  <1> QED
    BY <1>1, <1>2, LocalStepKeeps

LEMMA InvPreserved == JournalInv /\ [Next]_vars => JournalInv'
  <1> SUFFICES ASSUME JournalInv, [Next]_vars
               PROVE  JournalInv'
    OBVIOUS
  <1>1. ASSUME NEW c \in Controller, Run(c)
        PROVE  JournalInv'
    <2>1. CASE OpenExisting(c)
      BY <2>1, OpenExistingKeeps
    <2>2. CASE OpenNew(c)
      <3>1. Extends(NoCommit, Blank) /\ NoCommit \in heads
        BY <2>2 DEF Extends, OpenNew
      <3>2. BeginSave(c, NoCommit, Blank, Absent)
        BY <2>2 DEF OpenNew
      <3> QED
        BY <3>1, <3>2, BlankJournal, SaveKeeps
    <2>3. CASE Complete(c)
      <3> SUFFICES ASSUME NEW p \in Checkpoint, NEW v \in Verifier,
                          \/ CompleteKnown(c, p, v)
                          \/ CompleteConflict(c, p, v)
                          \/ CompleteNew(c, p, v)
                   PROVE  JournalInv'
        BY <2>3 DEF Complete
      <3> QED
        BY CompleteKnownKeeps, CompleteNewKeeps, StopKeeps DEF CompleteConflict
    <2>4. CASE GiveUp(c) \/ ReadbackFails(c) \/ Exit(c)
      BY <2>4, StopKeeps DEF GiveUp, ReadbackFails, Exit
    <2>5. CASE ReadbackConfirms(c) \/ ReadbackStale(c)
      BY <2>5, ReadbackConfirmsKeeps, ReadbackStaleKeeps
    <2> QED
      BY <1>1, <2>1, <2>2, <2>3, <2>4, <2>5 DEF Run, Readback
  <1>2. CASE UNCHANGED vars
    <2>1. LocalMatches' /\ UNCHANGED server /\ acked' = acked
      BY <1>2 DEF JournalInv, LocalMatches, vars, server, local
    <2> QED
      BY <2>1, LocalStepKeeps
  <1> QED
    BY <1>1, <1>2, AcceptKeeps, RefuseKeeps DEF Next

LEMMA InitInv == Init => JournalInv
  <1> SUFFICES ASSUME Init
               PROVE  JournalInv
    OBVIOUS
  <1>1. TypeOK
    BY InitTypes
  <1>2. /\ LinesClosed /\ LinesAcyclic /\ HeadsOnLine /\ LinesGrow
        /\ CommitsProve /\ WireExtends /\ AckedRecorded
    BY DEF Init, LinesClosed, LinesAcyclic, HeadsOnLine, LinesGrow,
           CommitsProve, WireExtends, AckedRecorded
  <1>3. LocalMatches
    BY DEF Init, LocalMatches
  <1> QED
    BY <1>1, <1>2, <1>3 DEF JournalInv

\* The inductive invariant holds in every reachable state.
THEOREM Invariance == Spec => []JournalInv
  BY InitInv, InvPreserved, PTL DEF Spec

-----------------------------------------------------------------------------
\* The promises.

\* Every earlier head lies on the line of the present one.
LEMMA HeadFacts ==
  ASSUME JournalInv, NEW h \in heads \ {NoCommit}
  PROVE  /\ h \in made /\ ref \in made /\ ref # NoCommit
         /\ h \in commits[ref].line
         /\ Preserved(commits[h].value, commits[ref].value)
  <1>1. ref # NoCommit
    BY DEF JournalInv, HeadsOnLine, Line
  <1>2. h \in made /\ ref \in made /\ h \in commits[ref].line
    BY <1>1 DEF JournalInv, HeadsOnLine, Line
  <1> QED
    BY <1>1, <1>2 DEF JournalInv, LinesGrow

\* What complete() confirmed to its caller stays in the journal, however many
\* controllers write it and however long requests and reads are delayed.
THEOREM AcknowledgedDurability == Spec => []AcknowledgedDurable
  <1>1. JournalInv => AcknowledgedDurable
    <2> SUFFICES ASSUME JournalInv, NEW p \in acked
                 PROVE  \/ Current.steps[p.name] = p.identity
                        \/ p.name = Handoff /\ Current.steps[p.name] # Absent
      BY DEF AcknowledgedDurable
    <2>1. PICK h \in heads \ {NoCommit} :
            commits[h].value.steps[p.name] = p.identity
      BY DEF JournalInv, AckedRecorded, Recorded
    <2>2. ref # NoCommit /\ Preserved(commits[h].value, commits[ref].value)
      BY HeadFacts
    <2>3. p.name \in Step /\ p.identity # Absent
      BY JournalAssumption DEF JournalInv, TypeOK, Checkpoint
    <2> QED
      BY <2>1, <2>2, <2>3 DEF Current, Preserved
  <1> QED
    BY <1>1, Invariance, PTL

\* Every receipt of a journal that was ever published proves its step.
THEOREM ReceiptSoundness == Spec => []ReceiptsMatchSteps
  <1>1. JournalInv => ReceiptsMatchSteps
    <2> SUFFICES ASSUME JournalInv, NEW h \in heads \ {NoCommit}, NEW n \in Step,
                        commits[h].value.receipts[n] # Absent
                 PROVE  /\ commits[h].value.steps[n] # Absent
                        /\ commits[h].value.receipts[n].expected
                             = commits[h].value.steps[n]
      BY DEF ReceiptsMatchSteps, Readable
    <2>1. h \in made /\ h \in CommitId
      BY DEF JournalInv, HeadsOnLine, TypeOK
    <2>2. commits[h].value.receipts[n].expected = commits[h].value.steps[n]
      BY <2>1 DEF JournalInv, CommitsProve, ReceiptsProve
    <2>3. commits[h].value.receipts[n].expected \in Identity
      BY <2>1 DEF JournalInv, TypeOK, Journal, Receipt
    <2> QED
      BY <2>2, <2>3, JournalAssumption
  <1> QED
    BY <1>1, Invariance, PTL

\* The journal never forks: its heads form one line of descent.
THEOREM Linearity == Spec => []LinearHistory
  <1>1. JournalInv => LinearHistory
    BY DEF JournalInv, HeadsOnLine, LinearHistory
  <1> QED
    BY <1>1, Invariance, PTL

-----------------------------------------------------------------------------
\* Refinement.

\* A step that does not accept an update leaves heads, and what they contain,
\* as they were.
LEMMA HeadsStable ==
  ASSUME JournalInv, [Next]_vars, ~ \E w \in wire : AcceptUpdate(w)
  PROVE  UNCHANGED <<ref, heads, Current, Recorded>>
  <1>1. UNCHANGED <<ref, heads>> /\ \A k \in made : commits'[k] = commits[k]
    <2>1. ASSUME NEW c \in Controller, NEW prior, NEW v, NEW p, BeginSave(c, prior, v, p)
          PROVE  UNCHANGED <<ref, heads>> /\ \A k \in made : commits'[k] = commits[k]
      BY <2>1 DEF BeginSave, JournalInv, TypeOK
    <2>2. ASSUME NEW c \in Controller, Run(c)
          PROVE  UNCHANGED <<ref, heads>> /\ \A k \in made : commits'[k] = commits[k]
      <3>1. CASE OpenNew(c)
        BY <2>1, <3>1 DEF OpenNew
      <3>2. CASE Complete(c)
        BY <2>1, <3>2 DEF Complete, CompleteNew, CompleteKnown, CompleteConflict, server
      <3> QED
        BY <2>2, <3>1, <3>2 DEF Run, OpenExisting, GiveUp, Readback,
             ReadbackConfirms, ReadbackStale, ReadbackFails, Exit, server
    <2>3. ASSUME NEW w \in wire, RefuseUpdate(w)
          PROVE  UNCHANGED <<ref, heads, commits>>
      BY <2>3 DEF RefuseUpdate
    <2>4. CASE UNCHANGED vars
      BY <2>4 DEF vars, server
    <2> QED
      BY <2>2, <2>3, <2>4 DEF Next
  <1>2. heads \subseteq made \cup {NoCommit} /\ ref \in heads
    BY DEF JournalInv, HeadsOnLine
  <1>3. Current' = Current
    BY <1>1, <1>2 DEF Current, Blank
  <1>4. Recorded' = Recorded
    BY <1>1, <1>2 DEF Recorded
  <1> QED
    BY <1>1, <1>3, <1>4

\* An accepted update records one checkpoint, or creates the empty journal.
LEMMA AcceptRecords ==
  ASSUME JournalInv, NEW w \in wire, AcceptUpdate(w)
  PROVE  \/ UNCHANGED <<Current.steps, Recorded, acked>>
         \/ \E p \in Checkpoint : Register!Record(p)
  <1>1. /\ w.commit \in made /\ w.commit \notin heads /\ w.prior \in heads
        /\ w.commit # NoCommit
        /\ Extends(w.prior, commits[w.commit].value)
        /\ ref = w.prior
    BY AcceptedPrior, JournalAssumption
       DEF AcceptUpdate, JournalInv, WireExtends, TypeOK
  <1>2. /\ Current' = commits[w.commit].value
        /\ heads' = heads \cup {w.commit} /\ commits' = commits /\ acked' = acked
    BY <1>1 DEF AcceptUpdate, Current
  <1>3. CASE ref = NoCommit
    <2>1. commits[w.commit].value.steps = Blank.steps
      BY <1>1, <1>3 DEF Extends
    <2>2. Current'.steps = Current.steps
      BY <1>2, <1>3, <2>1 DEF Current
    <2>3. Recorded' = Recorded
      BY <1>2, <2>1, JournalAssumption DEF Recorded, Blank, Checkpoint
    <2> QED
      BY <1>2, <2>2, <2>3
  <1>4. CASE ref # NoCommit
    <2>1. PICK p \in Checkpoint :
            /\ Current.steps[p.name] \in {Absent, p.identity} \/ p.name = Handoff
            /\ Current'.steps = [Current.steps EXCEPT ![p.name] = p.identity]
      BY <1>1, <1>2, <1>4 DEF Extends, Current
    <2>2. Current.steps \in [Step -> Identity \cup {Absent}]
      BY <1>1, <1>4 DEF Current, JournalInv, TypeOK, Journal, Head
    <2>3. Recorded' = Recorded \cup {p}
      <3>1. ASSUME NEW q \in Checkpoint, q # p,
                   commits[w.commit].value.steps[q.name] = q.identity
            PROVE  q \in Recorded
        <4>1. q.name # p.name
          BY <1>2, <2>1, <2>2, <3>1 DEF Checkpoint
        <4>2. commits[ref].value.steps[q.name] = q.identity
          BY <1>2, <1>4, <2>1, <2>2, <3>1, <4>1 DEF Checkpoint, Current
        <4> QED
          BY <1>1, <1>4, <4>2 DEF Recorded
      <3>2. commits[w.commit].value.steps[p.name] = p.identity
        BY <1>2, <2>1, <2>2 DEF Checkpoint
      <3> QED
        BY <1>1, <1>2, <3>1, <3>2 DEF Recorded
    <2> QED
      BY <1>2, <2>1, <2>3 DEF Register!Record
  <1> QED
    BY <1>3, <1>4

\* A step of a controller promises a recorded checkpoint, or nothing.
LEMMA StepAcknowledges ==
  ASSUME JournalInv, JournalInv', [Next]_vars, ~ \E w \in wire : AcceptUpdate(w)
  PROVE  \/ UNCHANGED acked
         \/ \E p \in Checkpoint : p \in Recorded /\ acked' = acked \cup {p}
  <1>1. acked' \subseteq Recorded
    BY HeadsStable DEF JournalInv, AckedRecorded
  <1>2. ASSUME NEW c \in Controller, Run(c)
        PROVE  UNCHANGED acked \/ \E p \in Checkpoint : acked' = acked \cup {p}
    <2>1. CASE ReadbackConfirms(c)
      BY <2>1 DEF ReadbackConfirms, JournalInv, TypeOK
    <2> QED
      BY <1>2, <2>1 DEF Run, Complete, OpenExisting, OpenNew, CompleteKnown,
           CompleteConflict, CompleteNew, BeginSave, GiveUp, Readback,
           ReadbackStale, ReadbackFails, Exit
  <1>3. UNCHANGED acked \/ \E p \in Checkpoint : acked' = acked \cup {p}
    BY <1>2 DEF Next, RefuseUpdate, vars
  <1> QED
    BY <1>1, <1>3

\* The journal implements the register: each step of it is a step of the
\* register or leaves the register alone.
THEOREM Refinement == Spec => ImplementsRegister
  <1>1. Init => Register!Init
    BY DEF Init, Register!Init, Current, Recorded, Blank
  <1>2. JournalInv /\ JournalInv' /\ [Next]_vars => [Register!Next]_(Register!vars)
    <2> SUFFICES ASSUME JournalInv, JournalInv', [Next]_vars
                 PROVE  [Register!Next]_(Register!vars)
      OBVIOUS
    <2> USE DEF Register!Next, Register!vars, Register!Checkpoint, Checkpoint
    <2>1. CASE \E w \in wire : AcceptUpdate(w)
      BY <2>1, AcceptRecords
    <2>2. CASE ~ \E w \in wire : AcceptUpdate(w)
      <3>1. UNCHANGED <<Current, Recorded>>
        BY <2>2, HeadsStable
      <3>2. \/ UNCHANGED acked
            \/ \E p \in Checkpoint : p \in Recorded /\ acked' = acked \cup {p}
        BY <2>2, StepAcknowledges
      <3> QED
        BY <3>1, <3>2 DEF Register!Acknowledge
    <2> QED
      BY <2>1, <2>2
  <1> QED
    BY <1>1, <1>2, Invariance, PTL DEF Spec, ImplementsRegister, Register!Spec

\* No step loses or changes a checkpoint of the journal.
THEOREM Preservation == Spec => CheckpointsPreserved
  <1>1. JournalInv /\ [Next]_vars => [Preserved(Current, Current')]_vars
    <2> SUFFICES ASSUME JournalInv, [Next]_vars
                 PROVE  Preserved(Current, Current')
      OBVIOUS
    <2>1. ASSUME NEW w \in wire, AcceptUpdate(w)
          PROVE  Preserved(Current, Current')
      <3>1. w.commit \in made /\ w.commit # NoCommit /\ ref = w.prior
        BY <2>1, AcceptedPrior, JournalAssumption
           DEF AcceptUpdate, JournalInv, WireExtends, TypeOK
      <3>2. Current' = commits[w.commit].value
        BY <2>1, <3>1 DEF AcceptUpdate, Current
      <3>3. CASE ref = NoCommit
        BY <3>3 DEF Current, Blank, Preserved
      <3>4. CASE ref # NoCommit
        <4>1. ref \in commits[w.commit].line
          BY <2>1, <3>1, <3>4 DEF AcceptUpdate, Accepts
        <4> QED
          BY <3>1, <3>2, <3>4, <4>1 DEF JournalInv, LinesGrow, Current
      <3> QED
        BY <3>3, <3>4
    <2>2. CASE ~ \E w \in wire : AcceptUpdate(w)
      <3>1. Current' = Current
        BY <2>2, HeadsStable
      <3> QED
        BY <3>1, PreservedReflexive
    <2> QED
      BY <2>1, <2>2
  <1> QED
    BY <1>1, Invariance, PTL DEF Spec, CheckpointsPreserved
=============================================================================
