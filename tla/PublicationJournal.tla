------------------------- MODULE PublicationJournal -------------------------
(***************************************************************************)
(* The compare-and-swap journal of one product (class Journal of           *)
(* ci/publication-controller.py).  The journal is the tree of the commit   *)
(* that the Git reference automation/publication-<productHash> points to.  *)
(* Controllers read the reference, extend the journal they read by one     *)
(* checkpoint, commit it on top of the commit they read, and ask GitHub to *)
(* move the reference without force.  The environment is as hostile as the *)
(* code takes it to be: other controllers write the same reference, reads  *)
(* may return an older head, a write may be applied after its sender gave  *)
(* up, and a controller may stop at any point.                             *)
(*                                                                         *)
(* Abstractions.  A commit is a member of CommitId; its line is the set of *)
(* its ancestors and itself.  Creating tree and commit objects and sending *)
(* the reference update form one action: the objects are unreachable until *)
(* the reference moves, so no other party can tell the difference.  An     *)
(* exception ends the run of a controller, which is Exit.                  *)
(***************************************************************************)
EXTENDS Naturals

CONSTANTS Controller,  \* runs of the publication controller
          CommitId,    \* commit objects that can be created (bounds TLC)
          Step,        \* destination names
          Identity,    \* immutable identities of destinations
          Verifier,    \* hashes of the verifier code (destinations.py)
          Handoff,     \* the step whose identity may be replaced
          NoCommit,    \* the reference does not exist
          Absent,      \* no identity, no receipt, no pending call
          MaxReads     \* readback attempts of save()

ASSUME JournalAssumption ==
  /\ Handoff \in Step
  /\ NoCommit \notin CommitId
  /\ Absent \notin Identity
  /\ Absent \notin [expected : Identity, verifier : Verifier]
  /\ Absent \notin [name : Step, identity : Identity]
  /\ MaxReads \in Nat \ {0}

VARIABLES ref,      \* the commit the reference points to, or NoCommit
          heads,    \* every value the reference has had: what a read may return
          made,     \* commit objects created so far
          commits,  \* commits[k]: line and journal value of commit k
          wire,     \* reference updates sent and not yet processed
          pc,       \* control state of each controller
          base,     \* self.commit
          value,    \* self.value
          target,   \* "expected" of the save in progress
          call,     \* arguments of the complete() in progress
          attempt,  \* readback attempt of the save in progress
          acked     \* checkpoints for which complete() has returned

server == <<ref, heads, made, commits, wire>>
local == <<pc, base, value, target, call, attempt>>
vars == <<server, local, acked>>

Receipt == [expected : Identity, verifier : Verifier]
Checkpoint == [name : Step, identity : Identity]
Journal == [steps : [Step -> Identity \cup {Absent}],
            receipts : [Step -> Receipt \cup {Absent}]]
Head == CommitId \cup {NoCommit}
Update == [commit : CommitId, prior : Head]

Blank == [steps |-> [n \in Step |-> Absent],
          receipts |-> [n \in Step |-> Absent]]

Line(h) == IF h = NoCommit THEN {} ELSE commits[h].line

\* Journal.__init__ refuses a journal with a receipt for an incomplete step.
Readable(j) == \A n \in Step : j.receipts[n] # Absent => j.steps[n] # Absent

-----------------------------------------------------------------------------
Init ==
  /\ ref = NoCommit
  /\ heads = {NoCommit}
  /\ made = {}
  /\ commits = [k \in CommitId |-> [line |-> {}, value |-> Blank]]
  /\ wire = {}
  /\ pc = [c \in Controller |-> "idle"]
  /\ base = [c \in Controller |-> NoCommit]
  /\ value = [c \in Controller |-> Blank]
  /\ target = [c \in Controller |-> NoCommit]
  /\ call = [c \in Controller |-> Absent]
  /\ attempt = [c \in Controller |-> 0]
  /\ acked = {}

\* The run ends and its memory is gone: it finished, it raised, its runner was
\* lost.  A reference update it sent may still be on the wire.
Stop(c) ==
  /\ pc' = [pc EXCEPT ![c] = "idle"]
  /\ base' = [base EXCEPT ![c] = NoCommit]
  /\ value' = [value EXCEPT ![c] = Blank]
  /\ target' = [target EXCEPT ![c] = NoCommit]
  /\ call' = [call EXCEPT ![c] = Absent]
  /\ attempt' = [attempt EXCEPT ![c] = 0]

\* Faulty variant: the commit is put on top of the present head, not of the
\* head that its journal was read from.
BeginSaveRebased(c, prior, v, p) ==
  \E k \in CommitId \ made :
    /\ made' = made \cup {k}
    /\ commits' = [commits EXCEPT ![k] =
                     [line |-> {k} \cup Line(ref), value |-> v]]
    /\ wire' = wire \cup {[commit |-> k, prior |-> prior]}
    /\ pc' = [pc EXCEPT ![c] = "wait"]
    /\ value' = [value EXCEPT ![c] = v]
    /\ target' = [target EXCEPT ![c] = k]
    /\ call' = [call EXCEPT ![c] = p]
    /\ UNCHANGED <<ref, heads, base, attempt, acked>>

\* save(): commit v on top of prior, send the update, await its answer.
BeginSave(c, prior, v, p) ==
  \E k \in CommitId \ made :
    /\ made' = made \cup {k}
    /\ commits' = [commits EXCEPT ![k] =
                     [line |-> {k} \cup Line(prior), value |-> v]]
    /\ wire' = wire \cup {[commit |-> k, prior |-> prior]}
    /\ pc' = [pc EXCEPT ![c] = "wait"]
    /\ value' = [value EXCEPT ![c] = v]
    /\ target' = [target EXCEPT ![c] = k]
    /\ call' = [call EXCEPT ![c] = p]
    /\ UNCHANGED <<ref, heads, base, attempt, acked>>

\* Journal.__init__ finds a journal.
OpenExisting(c) ==
  /\ pc[c] = "idle"
  /\ \E h \in heads \ {NoCommit} :
       /\ Readable(commits[h].value)
       /\ pc' = [pc EXCEPT ![c] = "ready"]
       /\ base' = [base EXCEPT ![c] = h]
       /\ value' = [value EXCEPT ![c] = commits[h].value]
  /\ UNCHANGED <<server, target, call, attempt, acked>>

\* Journal.__init__ finds none and saves an empty one.
OpenNew(c) ==
  /\ pc[c] = "idle"
  /\ NoCommit \in heads
  /\ BeginSave(c, NoCommit, Blank, Absent)

Known(c, p, v) ==
  value[c].receipts[p.name] = [expected |-> p.identity, verifier |-> v]

Conflicting(c, p) ==
  /\ value[c].steps[p.name] \notin {Absent, p.identity}
  /\ p.name # Handoff

\* complete() returns at once when the receipt is already in the journal.
CompleteKnown(c, p, v) ==
  /\ pc[c] = "ready"
  /\ Known(c, p, v)
  /\ acked' = acked \cup {p}
  /\ UNCHANGED <<server, local>>

\* complete() refuses another identity for an immutable step.
CompleteConflict(c, p, v) ==
  /\ pc[c] = "ready"
  /\ ~ Known(c, p, v)
  /\ Conflicting(c, p)
  /\ Stop(c)
  /\ UNCHANGED <<server, acked>>

\* Faulty variant: a receipt is added to a step that exists without updating
\* the identity of the step.
CompleteReceiptOnly(c, p, v) ==
  /\ pc[c] = "ready"
  /\ ~ Known(c, p, v)
  /\ ~ Conflicting(c, p)
  /\ BeginSave(c, base[c],
       [steps |-> [value[c].steps EXCEPT
                     ![p.name] = IF @ = Absent THEN p.identity ELSE @],
        receipts |-> [value[c].receipts EXCEPT
                        ![p.name] = [expected |-> p.identity, verifier |-> v]]],
       p)

\* complete() records the step and its receipt, and saves.
CompleteNew(c, p, v) ==
  /\ pc[c] = "ready"
  /\ ~ Known(c, p, v)
  /\ ~ Conflicting(c, p)
  /\ BeginSave(c, base[c],
       [steps |-> [value[c].steps EXCEPT ![p.name] = p.identity],
        receipts |-> [value[c].receipts EXCEPT
                        ![p.name] = [expected |-> p.identity, verifier |-> v]]],
       p)

\* Faulty variant: the reference is moved by force.
AcceptsForced(w) == TRUE

\* GitHub creates a reference only when there is none, and without force moves
\* one only to a descendant of the commit it points to.
Accepts(w) ==
  IF w.prior = NoCommit THEN ref = NoCommit
                        ELSE ref \in commits[w.commit].line

Awaits(c, w) == pc[c] = "wait" /\ target[c] = w.commit

\* GitHub processes an update; its sender, if it still waits, learns at once.
AcceptUpdate(w) ==
  /\ w \in wire
  /\ Accepts(w)
  /\ ref' = w.commit
  /\ heads' = heads \cup {w.commit}
  /\ wire' = wire \ {w}
  /\ pc' = [c \in Controller |-> IF Awaits(c, w) THEN "readback" ELSE pc[c]]
  /\ attempt' = [c \in Controller |-> IF Awaits(c, w) THEN 1 ELSE attempt[c]]
  /\ UNCHANGED <<made, commits, base, value, target, call, acked>>

RefuseUpdate(w) ==
  /\ w \in wire
  /\ ~ Accepts(w)
  /\ wire' = wire \ {w}
  /\ IF \E c \in Controller : Awaits(c, w)
       THEN \E c \in Controller : Awaits(c, w) /\ Stop(c)
       ELSE UNCHANGED local
  /\ UNCHANGED <<ref, heads, made, commits, acked>>

\* Faulty variants: an unanswered request counts as done; requests have no
\* time limit.
GiveUpAssumesSuccess(c) ==
  /\ pc[c] = "wait"
  /\ Stop(c)
  /\ acked' = IF call[c] = Absent THEN acked ELSE acked \cup {call[c]}
  /\ UNCHANGED server

GiveUpNever(c) == FALSE

\* The request times out; it may be applied later, or never.
GiveUp(c) ==
  /\ pc[c] = "wait"
  /\ Stop(c)
  /\ UNCHANGED <<server, acked>>

\* save() reads the new head: complete() returns to its caller.
ReadbackConfirms(c) ==
  /\ pc[c] = "readback"
  /\ target[c] \in heads
  /\ pc' = [pc EXCEPT ![c] = "ready"]
  /\ base' = [base EXCEPT ![c] = target[c]]
  /\ target' = [target EXCEPT ![c] = NoCommit]
  /\ call' = [call EXCEPT ![c] = Absent]
  /\ attempt' = [attempt EXCEPT ![c] = 0]
  /\ acked' = IF call[c] = Absent THEN acked ELSE acked \cup {call[c]}
  /\ UNCHANGED <<server, value>>

\* save() reads the head it built on, and reads again.
ReadbackStale(c) ==
  /\ pc[c] = "readback"
  /\ base[c] \in heads
  /\ attempt[c] < MaxReads
  /\ attempt' = [attempt EXCEPT ![c] = @ + 1]
  /\ UNCHANGED <<server, pc, base, value, target, call, acked>>

\* save() reads somebody else's head, or the old head once too often.
ReadbackFails(c) ==
  /\ pc[c] = "readback"
  /\ \/ \E h \in heads : h \notin {target[c], base[c]}
     \/ base[c] \in heads /\ attempt[c] = MaxReads
  /\ Stop(c)
  /\ UNCHANGED <<server, acked>>

Readback(c) == ReadbackConfirms(c) \/ ReadbackStale(c) \/ ReadbackFails(c)

Exit(c) ==
  /\ pc[c] # "idle"
  /\ Stop(c)
  /\ UNCHANGED <<server, acked>>

Complete(c) ==
  \E p \in Checkpoint, v \in Verifier :
    CompleteKnown(c, p, v) \/ CompleteConflict(c, p, v) \/ CompleteNew(c, p, v)

Run(c) ==
  OpenExisting(c) \/ OpenNew(c) \/ Complete(c) \/ GiveUp(c) \/ Readback(c) \/ Exit(c)

Next ==
  \/ \E c \in Controller : Run(c)
  \/ \E w \in wire : AcceptUpdate(w) \/ RefuseUpdate(w)

Spec == Init /\ [][Next]_vars

\* A live process keeps reading back and its requests have a time limit; GitHub
\* owes nothing, and nobody is forced to start, complete or stop.
Fairness == \A c \in Controller : WF_vars(GiveUp(c)) /\ WF_vars(Readback(c))

FairSpec == Spec /\ Fairness

-----------------------------------------------------------------------------
\* Types: the reference, every journal and the local state of class Journal hold
\* what the code can put there; a save reads back at most MaxReads times.
TypeOK ==
  /\ ref \in Head
  /\ heads \subseteq Head
  /\ made \subseteq CommitId
  /\ commits \in [CommitId -> [line : SUBSET CommitId, value : Journal]]
  /\ wire \subseteq Update
  /\ pc \in [Controller -> {"idle", "ready", "wait", "readback"}]
  /\ base \in [Controller -> Head]
  /\ value \in [Controller -> Journal]
  /\ target \in [Controller -> Head]
  /\ call \in [Controller -> Checkpoint \cup {Absent}]
  /\ attempt \in [Controller -> 0 .. MaxReads]
  /\ acked \subseteq Checkpoint

Current == IF ref = NoCommit THEN Blank ELSE commits[ref].value

\* The journal never forks: of two heads it has had, one descends from the
\* other ("refuses its non-fast-forward update instead of losing either
\* checkpoint", save()), and the present head descends from both.
LinearHistory ==
  /\ \A a, b \in heads \ {NoCommit} : a \in Line(b) \/ b \in Line(a)
  /\ \A a \in heads \ {NoCommit} : a \in Line(ref)

\* What complete() confirmed to its caller is in the journal for good: under
\* the confirmed identity, or for the hand-off possibly a later one.
AcknowledgedDurable ==
  \A p \in acked :
    \/ Current.steps[p.name] = p.identity
    \/ p.name = Handoff /\ Current.steps[p.name] # Absent

\* Every journal that was ever the head passes the checks of its reader, and
\* each receipt proves the very identity that its step records.
ReceiptsMatchSteps ==
  \A h \in heads \ {NoCommit} :
    LET j == commits[h].value
    IN /\ Readable(j)
       /\ \A n \in Step :
            j.receipts[n] # Absent => j.receipts[n].expected = j.steps[n]

\* A checkpoint in the journal is never lost, and never changed unless it is
\* the hand-off, whichever of the controllers writes.
Preserved(old, new) ==
  \A n \in Step :
    old.steps[n] # Absent =>
      \/ new.steps[n] = old.steps[n]
      \/ n = Handoff /\ new.steps[n] # Absent

CheckpointsPreserved == [][Preserved(Current, Current')]_vars

\* A save in progress ends: the journal holds the call, or the run stops.
SaveTerminates ==
  \A c \in Controller :
    pc[c] \in {"wait", "readback"} ~> pc[c] \in {"ready", "idle"}

-----------------------------------------------------------------------------
\* Refinement of the abstract register.
Recorded ==
  {p \in Checkpoint : \E h \in heads \ {NoCommit} :
                        commits[h].value.steps[p.name] = p.identity}

Register == INSTANCE CheckpointRegister
              WITH current <- Current.steps, log <- Recorded, acked <- acked

\* The journal implements the abstract register: every move of the reference
\* records exactly one checkpoint (or the empty journal), and complete()
\* returns only for recorded checkpoints.
ImplementsRegister == Register!Spec
-----------------------------------------------------------------------------
\* The inductive invariant behind the safety properties.

\* Commits form a forest, and a line is closed under ancestors.
LinesClosed ==
  \A k \in made :
    /\ k \in commits[k].line
    /\ commits[k].line \subseteq made
    /\ \A j \in commits[k].line : commits[j].line \subseteq commits[k].line

LinesAcyclic ==
  \A j, k \in made :
    j \in commits[k].line /\ k \in commits[j].line => j = k

\* All heads so far are ancestors of the present one.
HeadsOnLine ==
  /\ {ref, NoCommit} \subseteq heads
  /\ heads \subseteq made \cup {NoCommit}
  /\ heads \ {NoCommit} \subseteq Line(ref)
  /\ \A a, b \in heads \ {NoCommit} : a \in Line(b) \/ b \in Line(a)

\* Down a line, journals only grow.
LinesGrow ==
  \A k \in made : \A j \in commits[k].line :
    Preserved(commits[j].value, commits[k].value)

ReceiptsProve(j) ==
  \A n \in Step :
    j.receipts[n] # Absent => j.receipts[n].expected = j.steps[n]

CommitsProve == \A k \in made : ReceiptsProve(commits[k].value)

\* The steps of v are those of the commit prior with one checkpoint added.
Extends(prior, v) ==
  IF prior = NoCommit
    THEN v.steps = Blank.steps
    ELSE \E p \in Checkpoint :
           /\ \/ commits[prior].value.steps[p.name] \in {Absent, p.identity}
              \/ p.name = Handoff
           /\ v.steps = [commits[prior].value.steps EXCEPT ![p.name] = p.identity]

\* A pending update would add one checkpoint to a journal that was a head.
WireExtends ==
  /\ \A w \in wire :
       /\ w.commit \in made \ heads
       /\ w.prior \in heads
       /\ commits[w.commit].line = {w.commit} \cup Line(w.prior)
       /\ Extends(w.prior, commits[w.commit].value)
  /\ \A u, w \in wire : u.commit = w.commit => u = w

\* What a controller holds is what the commit it names contains.
LocalMatches ==
  \A c \in Controller :
    /\ pc[c] = "ready" =>
         base[c] \in heads \ {NoCommit} /\ value[c] = commits[base[c]].value
    /\ pc[c] \in {"wait", "readback"} =>
         /\ target[c] \in made
         /\ value[c] = commits[target[c]].value
         /\ call[c] # Absent => value[c].steps[call[c].name] = call[c].identity
    /\ pc[c] = "readback" => target[c] \in heads

AckedRecorded == acked \subseteq Recorded

\* Together these are preserved by every step.
JournalInv ==
  /\ TypeOK
  /\ LinesClosed
  /\ LinesAcyclic
  /\ HeadsOnLine
  /\ LinesGrow
  /\ CommitsProve
  /\ WireExtends
  /\ LocalMatches
  /\ AckedRecorded
=============================================================================
