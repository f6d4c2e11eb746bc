# A verification development for xo-nixpkg

This repository packages Xen Orchestra with Nix. Almost all of its behaviour over
time is in its release automation: scripts and GitHub workflows that decide
whether a built product may be published, collect the human decisions this takes,
and write the product to public places that cannot be rolled back. The modules
in this directory model that automation call by call, TLC checks them on small
instances, and TLAPS proves the core of it for every size.

Paths below are relative to the repository root.

## 1. The system

### Components, their state and operations

| Component | State it keeps | Operations | Code | Modules |
|---|---|---|---|---|
| Publication journal | a commit per checkpoint behind the reference `automation/publication-<hash>` | open, save, complete | `ci/publication-controller.py` (class Journal), `ci/decisions/publication_receipts.py` | PublicationJournal, CheckpointRegister |
| Publication controller | nothing of its own; public cache, registry, tags, GitHub releases | probe, write, read back, checkpoint, five destinations | `ci/publication-controller.py` (publish), `ci/publish.sh`, `ci/tag-xo-release.sh`, `ci/tag-release.sh`, `ci/publish-release.sh` | PublicationPipeline |
| Admission gate | what one gate has read so far | config and _gate | `ci/decisions/common.py`, `ci/publication-gate.sh` | PublicationGate |
| Decision ledger | immutable documents under `automation/decisions/` on main | active_security, active_release | `ci/decisions/common.py` | DecisionLedger |
| Decision proposals and queue | proposal branches and pull requests, auto-merge, queue commits, main | reconcile, propose, queue_proposal, parent selection, merge | `ci/decisions/reconciliation.py`, `.github/rulesets/main.json` | DecisionQueue, DecisionLog |
| Maintainer authority check | check runs per commit; workflow runs and concurrency groups | discover, schedule, judge, post | `ci/decisions/check.py`, `.github/workflows/decision-authority.yml` | AuthorityCheck |
| Reviews and approval | native reviews of a pull request | effective_review, approval, review_fingerprint | `ci/decisions/review_protocol.py`, `ci/decisions/decision_authority.py` | ReviewAuthority |
| CI admission | held workflow runs of pull requests, wake-ups | approve_run, the pass over pending_runs, the judgement of Dependabot's trees | `ci/decisions/ci_admission.py`, `ci/decisions/dependency_update.py` | DependencyDelta, DependencyPull, CiAdmission, Admission |
| Dependency lock synchronisation | the head of Dependabot's branch | discover, execute, the commit that pairs two locks | `ci/sync-dependabot-lock.py` | LockSync, Admission |
| Update branches | the update branch, its lease, its pull request | leased push, dequeue, retry, create, edit, draft | `ci/open-update-pr.sh` | UpdateRequest, UpdateBranch, Updates |
| Trusted updates | a pull request's head, files, CI, approvals, queue entry | list, validate, release held CI, enrol | `ci/trusted-update.sh`, `ci/queue-automation.sh` | UpdateRequest, TrustedUpdate, Updates |
| Bounded GitHub reads | attempts and time left of one call | send, classify the answer, wait, give up | `ci/decisions/github_retry.py`, `github_api` of `decision_authority.py` | GitHubGet, JobCaches |
| Immutable byte caches | a gate's facts, a job's blobs and packets, a publisher's attestation bundles | get, keep, verify, stage and rename, link | `ci/decisions/immutable_reads.py`, `decision_authority.py`, `decision_packets.py` (fetch), `attestation_session.py` | JobDisk, GateDocuments, PacketCache, AttestationSession, JobCaches |
| Process supervision | a command's family of processes, signals, a deadline | start, look up the family, terminate, kill, read to the end | `ci/decisions/operations.py`, `ci/bounded-gh.sh`, `ci/fetch-evidence.sh` | Supervision, Processes |
| Flake plan runner | workers and their process ids, results, manifest, links | start, wait, reap, stop, link | `nix/flake-plan-runner.sh` | PlanRunner, Processes |
| Retained reconciliation, findings, classifier, signal relay check, builds, scans, capacity reports, secret observation, update scripts, packaging | files of one job | batch transformations | see `PROJECT.json` | not modelled (section 5) |

### How they interact

A build product, its scan evidence and its attestations are immutable bytes
named by hashes. A *reconciliation* compares the scan with the decision in force
and, when it is not covered, drafts a new decision document whose parent is the
decision in force. The document becomes a pull request. Maintainers review it
natively on GitHub; every review, push and queue event wakes a *collector*
workflow, whose end wakes the *authority check*, whose workers judge the reviews
and post the required check of the pull request's head and of its merge-queue
commit. The queue merges the document into main: it is then part of the
*ledger*.

The *publication controller* takes an approved product to the public
destinations. Before every public write it runs the *admission gate*, a live
reading of main, its ledger, its policy, its ruleset and the standing of the
reviewers. After every write it reads the destination back and records a
checkpoint in the product's *journal*, a Git reference moved by compare and swap.
Controllers communicate through nothing but these references and the public
destinations themselves, so a crash at any point must leave a state that the
next run can understand.

Around this core work the controllers that keep pull requests moving. *Updater*
workflows push a candidate to an *update branch*; the *trusted-update* controller
checks the resulting request and enrols it in the merge queue. GitHub holds back
the CI of requests it does not trust: the *CI admission* controller lets it run
for trusted people and for Dependabot updates that change nothing but pins, and
the *lock synchroniser* completes those that move one of two locks.

Every job reads GitHub through one *bounded GET* with retries, keeps immutable
bytes in *caches* that its processes share, and runs its commands under
*supervisors* that must leave nothing behind. Local builds of a whole plan go
through the *plan runner*.

### What is hard about it

- Everything is read through an API while people change it: a check, a gate, an
  admission, an enrolment and a publication each consist of many reads with no
  snapshot, and the write at the end is not conditional on them.
- Public writes cannot be undone; of many writes the acknowledgement may be lost,
  and a cancelled run's push may still arrive.
- Runs die anywhere; workers of one group replace each other; obsolete ones must
  fall silent without leaving a commit unanswered.
- The ledger is a graph of documents merged by a queue that builds ahead.
- Processes of one job share files through hard links and renames, and start
  processes in sessions of their own that outlive a naive kill.

The complete list, with the line where each hazard bites and the properties
that cover it, is `hazards` in `PROJECT.json`.

### What makes each component correct

- *Journal*: it never forks; a checkpoint is never lost, nor changed (except the
  hand-off); what a caller was told is recorded, is recorded.
- *Controller*: checkpoints tell the truth about public destinations; nothing
  downstream is public before what it depends on; after a revocation at most the
  write whose gate had passed goes out; every crash can be recovered from.
- *Gate*: a gate that passes was right about main at one single moment, and no
  revocation passes, whatever else was merged next to it.
- *Ledger, queue*: main only gets well-formed decisions; two are in force at
  once only when the queue overtook a check; a current proposal gets queued.
- *Authority check*: the last word on a commit is computed from the present
  head, reviews and queue; main receives only approved content; every head gets
  an answer.
- *CI admission*: no run starts on a tree that was not vetted whole, or on a head
  that moved; what may start does.
- *Lock synchronisation*: it never discards a push, and what can be paired is.
- *Update branches*: nobody's unseen commit is overwritten; the newest upstream
  state arrives, whatever runs are cancelled.
- *Trusted updates*: only the head that was checked, tested and approved is
  enrolled; what meets its policy is.
- *Reads and caches*: a reader gets right bytes or an error, and nothing mutable
  from before it asked; no retry earlier than GitHub allows.
- *Supervision, plan runner*: nothing outlives its supervisor, which itself ends;
  links mean a complete, successful plan.

## 2. The modules

**CheckpointRegister** is what a journal promises: a map from steps to
identities that only grows, and acknowledgements only of what is recorded.

**PublicationJournal** is class Journal with any number of controllers.
`BeginSave` creates tree and commit and sends the update; `AcceptUpdate` and
`RefuseUpdate` are GitHub's, at any later time, also after `GiveUp` (the request
timed out) or `Exit` (the run died). `Readback*` are the turns of the loop in
`save`, which may see any earlier head. The three outcomes of `complete` are
`CompleteKnown`, `CompleteConflict` and `CompleteNew`. Creating objects and
sending the update is one action because nobody can see the objects before.

**PublicationPipeline** is `publish()` with its four leaves inlined. A run is a
record with the point it has reached; each action is one read or write of a
public destination, one gate or one checkpoint. The gate is one step here, being
opened in PublicationGate, and a checkpoint is one step, being opened in
PublicationJournal: the first is sound for `RevocationStopsWrites` because
authority counts from the moment the gate is *done*, the second because the
workflow's concurrency group keeps other runs of it out. The store paths of a
product are probed one after another in the code and in one read here. Runs that
die, lost acknowledgements, foreign uploads and tags, revocations and cache
eviction come between any two steps. The second reading of the cache (the
leaf's, then the controller's) is kept although the first already decides.

**DecisionLedger** has the pure functions: which security decision is in force,
and which release decision, by the same rules. A ledger is a set of documents,
because a document is named by its hash.

**PublicationGate** is one gate, read by read, against merges to main, policy
changes, reviewers who lose standing, ruleset edits and expiring evidence. A read
of main's head followed by a read of its tree is one action, because a tree is
immutable. Attestations, producer identity and coverage look only at immutable
bytes and are constants. Each of its two authorizations (`verify_proposal`) is
two reads, the evaluation of the approval and the reviewer's standing once more;
the evaluation itself is opened in AuthorityCheck. The second gate that
`publish.sh` runs after restoring the closures is the step `UploadGate` of the
pipeline.

**DecisionLog** is what main promises about decisions: it only grows, one
document at a time, and stays well formed.

**DecisionQueue** drafts, proposes, checks, queues and merges decisions.
`Selects` is the parent selection that `reconcile` and the check share, for
security and release decisions alike (TLC's instances have security decisions
only; the proofs cover both); `Select`
and `Verify` are its two turns in a worker, before and after the packet is
verified. A reconciliation is `Draft`, `Validate`, `Open` (the branch, then the
pull request), `Read`, `Arm` (auto-merge) and `RequestEntry` (the queue
mutation): `run` says where it is. A request may be applied, refused or left
unanswered; one left unanswered is in `late` and `TakeEffect` applies it at any
later time, or never. `Abandon` is a run that dies. Reconciliations run one at a
time, as the concurrency group of `security-reconcile.yml` has it; reconciling by
hand at the same time is left out. A head that somebody pushed finds no approver
and counts as closed, and approval itself is taken for granted, being the subject
of AuthorityCheck.

**ReviewAuthority** has effective_review, approval and review_fingerprint as
operators on the sequence of reviews.

**AuthorityCheck** has the events, the discovery job with its two reads, the
concurrency groups and the worker with one action per GitHub call, next to
people who review, dismiss, edit, push, close, reopen, queue and lose their
standing. `Obsolete` is the outcome that posts nothing. `queue_proposal` reads
approvals under the older approval policy while the check uses the governance
policy; the check is what the ruleset requires, so its policy is the one here.

**DependencyDelta** is the judgement of `dependency_update.py` as operators on
trees: which files changed, whether only pins did, whether each pin is the object
its published tag names, whether a workflow reaches anything privileged, and
whether exactly one nixpkgs identity moved in both locks. `Judgement` answers
"admitted", "unsupported" or "refused" in the order of the code, as the last two
end differently: an unsupported family outside the first evaluation is an
uncaught exception that ends the whole pass. `Vetted` is the independent
definition the properties use: it compares whole trees and knows no order. Text
is abstract: a workflow is its pins and the rest of its bytes.

**DependencyPull** is the request and its held run, with its author, the base
that GitHub reports (and may report late), main and people's standing.
**CiAdmission** is a pass of `ci_admission.py`: `TakeRun` fetches a run, then
each read of the first evaluation and of `revalidate` is an action, up to
`Approve`. A pass takes one wake-up's run or every held run; `Other` stands for
the held run of another request, whose evaluation may end the pass. **LockSync**
makes its plan anew `Rounds` times and writes once, on condition that the
branch is still where it was. **Admission** composes them.

**UpdateRequest** is the update branch with its request, CI and queue entry, and
what people and GitHub do to them. **UpdateBranch** is `open-update-pr.sh`: the
lease is taken by listing the branch once, `Push` presents it, a push that the
queue's lock refuses leads to a dequeue and a further attempt with the same
lease. A cancelled run's push may be under way (`late`) and arrive. Then the
request is found, edited, turned to a draft or created. **TrustedUpdate** is one
request's way through `queue-automation.sh` and `trusted-update.sh`: listing,
files, the request, CI, and for a release the approval of a maintainer, all read
twice before `Enroll`. **Updates** composes them.

**JobDisk** is what caches of one job share. **GitHubGet** is `github_api`: a
failed attempt is lost, busy, throttled, limited or final, and may name a delay;
time counts in ticks, and `Wait` decides whether there is a next attempt and
when. **GateDocuments** is a read of a document, an ancestry or
something mutable through GateReads and the job's blob cache; `spent` is the
counter of bytes that GateReads adds to with every fact it keeps, which the
code checks instead of the facts themselves. **PacketCache** is
`fetch`: look, verify, stage, download, rename, link; processes die between any
two, and whoever writes to an output writes to the entry it is linked to. Each
process (`Caller`) fetches once, as the callers in `ci/` do: it returns, or ends
as it died or a registry call failed, as another process made the entry
meanwhile ("raced"), or as it verified something wrong ("refused").
**AttestationSession** is `verify`: observe, look for a bundle, run the
verifier (which may also fail, time out or say too much), compare again, keep
what the named producer's own run attested. **JobCaches** composes the three errands; they
share no file, so `errand` fixes which one a behaviour is about.

**Supervision** is `run` and `terminate` of `operations.py` for two kinds of
commands: a helper that supervises one transport in a session of its own
(`bounded-gh.sh`), and a script that calls such helpers one after another
(`fetch-evidence.sh`). `up` are the live processes, `family` the identities the
supervisor remembers from its looks at the process table. `Told` says what a
SIGTERM does at each point of a helper: before its handler is set and inside
Popen it dies and leaves its transport to init. **PlanRunner** is
`flake-plan-runner.sh`, with `at` the next command of the script; a trap runs
between two commands or out of a `wait`. The script sets no errexit, but
`nix/flake-plan-runner.nix` packages it with writeShellApplication, which does:
`strict` is the packaged runner, which a failing command ends; otherwise it is run
from its file, as its tests do, and a manifest or a link that cannot be written is
passed over. `asked` says whether `--manifest` was given. **Processes** puts the two side by
side; `scene` fixes which one a behaviour is about.

The MC modules give constants to TLC. The Proofs modules hold the theorems.
Definitions marked "Faulty variant" are plausible mistakes; no specification uses
them, and `mutants` in `PROJECT.json` says which property notices each. A field
named `calm`, and everything else marked "history", is written and never read by
an action: it only lets a property say "unless somebody intervened since".

## 3. What is checked

| Run | Question | Bounds |
|---|---|---|
| `journal` | two controllers, stale reads, late and refused updates: no fork, durable acknowledgements, receipts prove steps, register implemented, a started save ends | 3 commits, 2 steps (one the hand-off), 2 identities, 2 verifiers, 2 readbacks |
| `check_queue` | queue commits; the last word; what reaches main | 2 heads, one with a malformed proposal, 1 queue commit, 1 reviewer, 2 reviews, 3 changes, 1 failing call |
| `check_live` | pushes there and back, vetoes, review commands: overtaken results are discarded, and there is a last word | 2 reviewers, 2 heads, 4 verbs, 2 reviews, 2 changes, 1 failing call |
| `pipeline` | all destinations: honest checkpoints, order, revocation, verified releases, resumption | 2 products sharing a version, 2 paths each, 1 fault, 1 foreign change |
| `gate` | a passing gate was right at its last read | 7 decisions, 2 policies, 4 changes around one gate |
| `queue` | the ledger stays well formed, ambiguous only if overtaken; a current proposal is queued | 3 decisions, 2 queue slots, 1 fault |
| `queue_overtaken` | *disagreement*, see below | 3 decisions, 2 slots, no fault |
| `queue_wedge` | *defect*, see below | 4 decisions, 2 slots, no fault |
| `updates` | update branch and enrolment: nothing unseen overwritten, a run that succeeds published, only checked heads enrolled, the newest candidate arrives, a request that meets its policy is enrolled | 2 upstream states, 1 foreign commit that touches other files, 2 attempts, 2 changes |
| `admission` | which held runs start, which locks are paired | 2 commits of main; 5 heads: moved pins, the same on the other main, a changed script, one lock, both locks; 2 plans, 1 change |
| `caches` | what readers, fetchers and verifiers are given | 2 processes, 3 that fetch a packet, 2 documents (one inline), 3 attempts of at most 2 ticks in 4, 1 fact, 1 member, 1 bundle, 1 damaged file, 2 faults, 3 tamperings |
| `processes` | links, cancellation and supervision | 3 targets (2 linked), 1 or 2 jobs, with and without `--manifest` and errexit; a helper, or a script with 2 calls |

Why these bounds are enough to be interesting:

- *Journal.* Three commits let one controller create the journal and both extend
  it, or one extend it twice while the other's late update is still under way.
  Beyond two controllers nothing new happens at a compare and swap, and the
  proofs cover every number.
- *Check.* The changes allow an approval, its dismissal or veto, and a further
  push or enqueue inside one worker's reads, and a push away and back. One
  failing call reaches every failure branch of the worker.
- *Pipeline.* Two products with the same project version compete for one tag, and
  only one of them has a new Xen Orchestra pin. Two paths allow partial uploads.
  One fault per history kills the run or loses an acknowledgement at each of its
  points; a further run resumes. Any of the products may lack approval at
  first, and be granted it between any two calls.
- *Gate.* Its ledger has an acceptance, a successor and a revocation that both
  supersede it, and a reconciliation of those, a release approval, and a
  revocation and a successor that both supersede that. It starts from every ledger closed under parents. Four changes
  exceed the two ledger reads they have to straddle.
- *Queue.* Two slots suffice for one merge to overtake another check; one fault
  leaves any one request unanswered or kills a run at any of its points. The
  fourth decision, which would supersede both overtaken ones, is what
  `queue_wedge` is about.
- *Updates.* The second upstream state makes a run obsolete while it works; two
  changes allow a push by somebody and a cancellation, or a dequeue and a review;
  the second attempt is the one with the old lease. A third would repeat it.
- *Admission.* The heads are one of each kind that the judgement tells apart, on
  either commit of main. Two plans make the one before the write a repeated one.
  The one change falls between any two reads of a pass.
- *Caches.* Limits of one entry make every second fact and bundle an eviction or
  a refusal. Four ticks hold two full attempts, or one after a named wait, and
  not three. Two faults kill two of the three fetches; the third meets what
  they left, or loses its race to one that died later. Three
  tamperings change the subject and put it back under one verify.
- *Processes.* Three targets are one more than the slots; the signal, the
  deadline and every end come between any two steps. In a family of three
  processes each is a child, a grandchild or an orphan.

Every counter that TLC needs bounded is a constant with a Max name, in the
guard of the actions that count. No run uses symmetry where it checks liveness.

Type invariants are conjuncts of a deeper property where there is room for one
more: `CheckpointsHonest` (pipeline), `AmbiguousOnlyOvertaken` (queue),
`SettledCorrect` (check) and `BudgetsKept` (caches: there the types bound the
caches). They also carry small structural facts named in their comments: no
waiting worker without a running one, a queue without duplicates, a clone that
knows no tag the remote has elsewhere.

`MergedApproved` says that main receives content of a head that at one moment was
approved and not vetoed; when somebody's standing changed in between it only says
that an eligible person had endorsed that head, because approval reads standing
person by person, and GitHub announces no such change. Whether a standing success
should survive it is a design decision: publication reads approvals live again.

`EnrolledValidated` and `AdmittedCurrent` cannot promise that nothing moved
between the last read and the write: neither GitHub call is conditional on what
was read, except for the head. They say exactly what remains true without
intervention, and what remains true in any case (the head's own CI; the vetted
tree).

Deadlock is not checked for the gate, which ends when it has passed or blocked;
for the queue, whose stock of documents is finite; for updates, which rest once
the newest candidate is merged; for the caches, whose errands end; and for
processes, where a plan exits and a supervisor returns.

### Fairness

- *Journal*: a live process reads back, and its requests have a time limit. GitHub
  is owed nothing.
- *Authority check*: GitHub delivers the events that it accepted and runs the
  jobs; started workers go on. People are owed nothing. Lost workers and
  discoveries are excused in `HeadAnswered`, since nothing repeats them.
- *Pipeline*: a started run goes on, and somebody keeps asking for each release
  (dispatches queue up behind the running one, "queue: max"). Asking is strongly
  fair because other runs occupy the concurrency group again and again.
- *Queue*: for `ProposalServed` a started reconciliation goes on, one is asked for
  again and again (strongly fair, as reconciliations of other products take the
  concurrency group), and heads are judged; merging is owed nothing. `queue_wedge`
  adds that queue commits are judged and merged, to show that the wedge is not
  mere idleness.
- *Updates*: updater and controller run on a schedule and go on; CI ends; what
  auto-merge waits for is queued; what keeps coming back to the queue is merged in
  the end (strong, as people may dequeue it).
- *Admission*: controller and synchroniser run on a schedule and go on, and GitHub
  reports a new base in the end. The evaluation of another request does not end
  *every* pass (strong): which run comes first is not determined.
- *Caches*: a process goes on until its fetch ends; nothing fetches again for it.
  Deaths are bounded.
- *Processes*: the runner, a worker that was told to stop or whose build ended, and
  the supervisor go on. Builds, scripts, helpers and transports are owed nothing
  and need never end.

### What the checks found

- **Overtaken selection** (`queue_overtaken`). "An advancing ledger must pass
  parent selection again" holds until the check is posted. The ruleset lets the
  queue build several commits ahead, so two decisions with one parent can both be
  checked, then both merged. Publication is safe (`NeverAgainstRevocation`):
  two decisions in force block everything.
- **No way out** (`queue_wedge`). An ambiguous ledger "requires explicit
  reconciliation", but drafting a decision and checking one both call
  active_security on main first, which raises. No decision that supersedes both
  can be drafted or pass the check.

Modelling also showed what no run is spent on:

- `ci/decisions/README.md` says a worker discards its result if the review
  snapshot changed during evaluation. `check.py:272` compares the snapshots
  before and after; a command edited away and back in between escapes. The edits
  wake another worker, so the last word is right.
- A run that dies between making a proposal's branch and its pull request
  (`reconciliation.py:215`) leaves a branch that every later run of the same
  proposal refuses as existing, or takes for divergent: nothing opens the pull
  request. The stage "branch" in DecisionQueue is that state.
- In `ci_admission.py` the repeated judgement may raise an unsupported family
  that only the first evaluation catches; it ends the pass, and the runs listed
  after it wait for another one. `RunServed` holds, as the next pass starts anew.
- A damaged entry of the packet cache is refused on every use and never
  replaced within the job (`PacketServed` excuses it); the same holds for a
  damaged attestation bundle. Of two fetches that stage the same packet at once,
  the one whose rename comes second raises (`decision_packets.py:442`) although
  the entry is there; nothing tries it again. `PacketServed` says that this is
  the only way one process makes another fail, and not everyone.
- The plan runner run from its file makes links though the manifest it was asked
  for could not be installed, and reports success; packaged, it ends instead.
  `LinksComplete` promises the manifest only for the latter.
- `docs/ci-resilience.md:64-66` says detached or reparented descendants cannot
  outlive an outer supervisor. A transport that a helper starts after the first
  look at the family, when the supervised command dies at once of the SIGTERM,
  is in no later look: `FamilyGone` excepts exactly this. With captured output
  the last `communicate()` then waits for it without a limit (`CleanupEnds`).
- A TERM that reaches the plan runner's worker, or the runner, between the start
  of a process and the assignment that keeps its id leaves that build running;
  `CancelledStops` excepts it (`unrecorded`).

## 4. What is proved

For every value of the constants (any number of controllers, commits, decisions,
candidates, trees, targets, processes, any limits and bounds), from the
constants' named assumptions alone:

- **PublicationJournalProofs** proves `JournalInv` inductive (`Invariance`). No
  single property of the journal is: that a head is never forked depends on
  pending updates naming as prior a commit that was once the head and extending
  exactly its line (`WireExtends`), which depends on what controllers hold being
  what the commits contain (`LocalMatches`), and durability depends on journals
  growing along every line (`LinesGrow`), whichever heads a stale read returns
  (`HeadsOnLine`). From it follow `Linearity`, `AcknowledgedDurability`,
  `ReceiptSoundness`, the action property `Preservation`, and `Refinement`: the
  journal implements CheckpointRegister, under the mapping of its present head to
  the map and all its past heads to the log.
- **DecisionLedgerProofs** is about both ends of the ledger, and one module since
  they share what is proved about it.

  The queue: `IInv` says that every check was computed from a ledger main has had
  and succeeded only if the parent was selected there (`Judged`), that only built
  commits have checks, that queued decisions are open and queued once, and that
  main is readable. The argument is `SelectedJoins`: a parent selected on an
  older ledger is on main still, since main only grows, so the ledger stays
  well-formed with the decision; and `SelectedUnambiguous`: selected on the
  ledger it joins, the decision supersedes exactly the one in force. From them
  follow `OneInForce` and `LogRefinement`, that the queue implements
  DecisionLog.

  The gate: once it is past a read, what it went on with still is what it read
  (`Established`: equal ledgers, an accepting and covering decision, the release
  decision in force). `RejectionsSuperseded` is about the ledger alone: when the
  decision in force is an acceptance, every rejection and revocation is
  superseded. `RevocationsBlock` and `LastReadSoundness` follow, the latter
  because the pinned revision determines main's ledger and policy.

  `QueueFeedsGate` joins the two: the ledgers the gate's model assumes, closed
  under parents and growing by one decision at a time, are those the queue
  produces.
- **PublicationPipelineProofs**: what a run knows at each of its points
  (`RunKnows`): what its latest read established stays true, whoever else writes,
  except for what garbage collection drops; with it checkpoints are honest
  (`Honest`) and downstream artefacts have recorded predecessors (`Downstream`),
  since each write follows the checkpoints before it. `Timely` says that the one
  write after a revocation is the one whose gate had passed. `CheckpointHonesty`,
  `DownstreamOrder`, `RevocationStops` and `VerifiedCompleteness` follow.
- **AuthorityCheckProofs** has three invariants, for any number of reviewers,
  workers, events and faults. `MergeInv`: whatever a worker, a check or main
  rests on was endorsed by somebody with standing and, unless anybody's standing
  changed, at one moment approved and not vetoed (`Vetting`); a queue commit's check is about the head that was queued. Hence
  `MergedWasApproved`. `OvertakenInv`: what a worker read between two snapshots
  lies between them, and since without edits a review only becomes dismissed,
  equal fingerprints mean that nothing changed in between. Hence
  `OvertakenResults`. `SettlingInv`: for every commit the last in line, be it an
  undelivered event, a waiting job, the running worker or the check itself, is
  right about the present, or a fault is to blame; when nothing is in line the
  check is. Hence `LastWordRight`, the safety half of "the last word is right".
- **AdmissionProofs** first proves `JudgementSound`, about trees alone: what the
  code's sequence of comparisons admits is `Vetted`. `PassInv` then says at every
  point of a pass that its file list, base and judgement are of the head it
  holds (`Lanes`, `Judged`), and that, if nobody moved anything since the last
  checks of the actors began, what those checks saw still holds (`BotCalm`,
  `PersonCalm`; two parts, since Dependabot's requests and people's take different
  reads). `AdmissionVetted` and `AdmissionCurrent` follow. For the synchroniser
  `SyncInv` says that what it is about to write was compared on the base and head
  it names; `PairingSound` follows.
- **UpdatesProofs**: a run's lease, and that of a late push, is a head that was
  listed; what the controller goes on with was read of the head it expects, and
  still holds while the request is calm (`Listed`, `Tested`, `Reviewed`).
  `ForeignCommitsKept` and `EnrolmentValidated` follow. `RunInv` says of an
  undisturbed run what it finds its request to be from the push on;
  `RunLeavesRequest` follows.
- **JobCachesProofs** has one invariant per errand. `DocumentInv`: blobs, facts
  and answers are right or as old as the read that asked for them. `PacketInv`:
  what was checked before the rename and verified after it is whole, and right
  unless a file was damaged; so is what makes a fetch lose its race, and nothing
  else is refused (`FailuresAreExplained`, the safety half of `PacketServed`). `AttestationInv`: what was observed still holds
  while nothing was tampered with. `ReadsAreTrue`, `CacheEntriesWhole`, `PacketsStayIntact` and
  `AttestationCurrent` follow. `BudgetInv` is about the limits: the counter a
  gate's cache checks is the size of what it keeps, because nothing is asked of
  GitHub that is kept already (`FactsInv`), and a call is only ever sent within its
  attempts and its time (`CallInv`); `Budgets` follows.
- **ProcessesProofs**: `PlanInv` ties the runner's bookkeeping (active ids,
  results, manifest, what it was told) to the workers that live, with `Stopping` for the
  course of a cancellation; `SupervisionInv` says of every live process that it
  is in the command's tree, known to the family, or a missed transport (`Known`).
  `CompleteLinks`, `CancellationStops` and `SupervisionComplete` follow.

Every safety property that a passing run checks is stated by one of these
theorems. Model-checked only is what is about liveness (`SaveTerminates`,
`HeadAnswered`, `NotWedged`, `ProposalServed`, `CandidateArrives`,
`RequestServed`, `RunServed`, `LockPaired`, `PacketServed`, `CancelledEnds`,
`CleanupEnds`), which is out of the prover's reach, and the two disagreements,
which are counterexamples. No theorem is about recursive definitions: acyclicity
of the ledger is stated by the absence of a set of documents without a minimal
one, not by a traversal.

What the proofs changed in the models:

- `PairingFollows` used to say that the synchroniser's commit moves nothing but a
  nixpkgs identity. That is false in general: GitHub lists a request's files in a
  call of its own, so a branch that is moved to another head and back while its
  files are listed, in every round, passes; so does a head whose merge base is
  not the main the plan names. Its theorem says what holds (the pull request's
  head is followed, only the native lock changes, the locks are paired as main has
  them) and under which condition the whole commit only moves nixpkgs. The
  admission judges whole trees again before it lets anything run.
- `Active` used to take some unsuperseded decision whenever there are decisions.
  That an acyclic set has one is an induction on finite sets, beyond the prover.
  The code asks whether there is one (`if not leaves: return None`), and so does
  the model now.
- `Selects` demands the disposition "revoked" of a revocation, as
  `validate_proposal_packet` does: without it a malformed revocation could join
  main, and `LogRefinement` fails.
- `BudgetsKept` could not be related to the code's check, which looks at a counter
  of bytes; `spent` is that counter.
- AuthorityCheck's workers, jobs and events are typed sets now, as invariants about
  every worker need them to be; `WorkerAssumption` keeps "none" apart from them.

## 5. What is not modelled

- Parsing, hashing, attestation verification, formatting and diagnostics: they
  compare immutable bytes. An attestation that does not verify is a constant.
- GitHub, Cachix, the registry and the kernel, except as the code uses them.
- The FlakeHub probe of `ci/decisions/destinations.py`, which publication does
  not call; `recovery.py`'s validation of an old journal document.
- Packets are fetched here but not made: creating and pushing one, reading its
  metadata alone, and installing members from a directory are left out.
- The retained reconciliation (`ci/reconcile-retained.sh`, `scheduling.py`): a
  sequential choice among runs listed once, whose outcome depends on artefacts.
- Findings normalisation and comparison, the change classifier and the signal
  relay check: pure functions of documents, whose verdict the models take as
  given. Checking them against a reference definition would repeat their tables.
- Builds, their reuse and rescans, capacity reports, scans, secret observation,
  update scripts and packaging: sequential transformations of one job's files.
- Process and group ids are never reused in Supervision; `terminate` signals a
  group after its leader was reaped, which the reuse of an id could misdirect.
- Reconciliations started by hand next to the workflow's.

## 6. Plan

1. *Done*: journal, gate, ledger, authority check, pipeline, proposal queue call
   by call, CI admission and lock synchronisation, update branches and
   enrolment, GitHub reads and caches, plan runner and supervision; theorems for
   every safety property the runs check, and the refinements of CheckpointRegister
   and DecisionLog.
2. The joints between components, as `QueueFeedsGate` is one: that one step of the
   pipeline's gate is what PublicationGate admits, and that one checkpoint step is
   what CheckpointRegister allows.
3. The action-level lemmas behind the liveness properties: what stays enabled, and
   what each step brings nearer.
4. The making of packets next to their fetching; the retained reconciliation's
   choice of product, once composed with DecisionQueue.
