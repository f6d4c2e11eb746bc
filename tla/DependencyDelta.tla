--------------------------- MODULE DependencyDelta ---------------------------
(***************************************************************************)
(* What a Dependabot pull request may change and still have its CI run     *)
(* without a person: ci/decisions/dependency_update.py compares complete   *)
(* trees and admits moved Actions pins, or one nixpkgs identity moved in   *)
(* both lock files (ci/sync-dependabot-lock.py).                           *)
(*                                                                         *)
(* A file's text is abstract: a workflow or composite action is its pins   *)
(* and the rest of its bytes, a lock its nixpkgs identity and the rest.    *)
(***************************************************************************)
EXTENDS Naturals, Sequences, FiniteSets

CONSTANTS
  Commit,
  ActionPath,   \* workflow and composite-action files
  CiPath,       \* the workflow whose runs are admitted
  Tree,         \* per commit: its files, path |-> [mode, text]
  MergeBase,    \* per head: the commit of main it was cut from
  Uses,         \* per rest of a workflow or action: the local actions it runs
  Privileged,   \* rests that use secrets, write permissions, other runners or
                \* reusable workflows, attestations or caches
  TagRef,       \* per <<action, version>>: the object the upstream tag names
  TagObject     \* per object: [type, target]

LockPath == {"flake.lock", "devenv.lock"}
Verdict == {"admitted", "unsupported", "refused"}

ASSUME DeltaAssumption ==
  /\ CiPath \in ActionPath /\ ActionPath \cap LockPath = {}
  /\ MergeBase \in [Commit -> Commit]
  /\ \A c \in Commit : \A p \in DOMAIN Tree[c] : DOMAIN Tree[c][p] = {"mode", "text"}

File(c, p) == IF p \in DOMAIN Tree[c] THEN Tree[c][p] ELSE [mode |-> "absent"]

\* The complete delta of two trees, and GitHub's list of a request's files.
Changed(b, h) == {p \in DOMAIN Tree[b] \cup DOMAIN Tree[h] : File(b, p) # File(h, p)}
Files == [h \in Commit |-> Changed(MergeBase[h], h)]

Regular(b, h, p) == File(b, p).mode = "100644" /\ File(h, p).mode = "100644"

\* published_tag: the tag leads to the pinned commit in at most 8 objects.
Peeled(ref) ==
  LET object[n \in 0..7] == IF n = 0 THEN ref ELSE TagObject[object[n - 1]].target
  IN object

Published(pin) ==
  /\ <<pin.action, pin.version>> \in DOMAIN TagRef
  /\ LET object == Peeled(TagRef[<<pin.action, pin.version>>])
     IN \E n \in 0..7 :
          /\ object[n] = pin.sha /\ TagObject[object[n]].type = "commit"
          /\ \A m \in 0..(n - 1) : TagObject[object[m]].type = "tag"

\* classify, of one file.  (Faulty variant: the bytes around the pins are not
\* compared.)
PinsMovedAlone(old, new) ==
  /\ DOMAIN old.pins = DOMAIN new.pins
  /\ \A i \in DOMAIN old.pins : old.pins[i].action = new.pins[i].action
  /\ \E i \in DOMAIN old.pins : old.pins[i] # new.pins[i]

PinsMoved(old, new) ==
  /\ DOMAIN old.pins = DOMAIN new.pins
  /\ \A i \in DOMAIN old.pins :
       /\ old.pins[i].action = new.pins[i].action
       /\ old.pins[i] # new.pins[i] =>
            old.pins[i].sha # new.pins[i].sha /\ Published(new.pins[i])
  /\ \E i \in DOMAIN old.pins : old.pins[i] # new.pins[i]
  /\ old.rest = new.rest

\* synchronize: the new native lock, given the pair before and after.
Paired(native, flake) == [nixpkgs |-> flake.nixpkgs, rest |-> native.rest]

Synchronizable(b, h) ==
  LET old == File(b, "flake.lock").text    new == File(h, "flake.lock").text
      native == File(b, "devenv.lock").text
  IN /\ old.nixpkgs = native.nixpkgs
     /\ old.rest = new.rest /\ old.nixpkgs.rev # new.nixpkgs.rev
     /\ File(h, "devenv.lock").text \in {native, Paired(native, new)}

Synchronized(b, h) ==
  File(h, "devenv.lock").text
    = Paired(File(b, "devenv.lock").text, File(h, "flake.lock").text)

\* read_only_run: nothing the workflow runs, its local actions included, is
\* privileged; nested at most 16 deep, and no action runs itself.
Reached(h) ==
  LET nested[n \in 0..16] ==
        IF n = 0 THEN {CiPath} ELSE UNION {Uses[File(h, p).text.rest] : p \in nested[n - 1]}
  IN nested

ReadOnlyRuns == {h \in Commit :
  /\ Reached(h)[16] = {}
  /\ \A n \in 0..15 : \A p \in Reached(h)[n] :
       /\ File(h, p).mode = "100644" /\ File(h, p).text.rest \notin Privileged}

\* inspect from the listed files on, classify and read_only_run: everything
\* that is read of immutable commits once the request named base and head.
Judgement(b, h, files) ==
  CASE files = {} \/ \E p \in files : "absent" \in {File(b, p).mode, File(h, p).mode} -> "refused"
    [] ~ (files \subseteq ActionPath)
         /\ ~ (files \subseteq LockPath /\ "flake.lock" \in files)  -> "unsupported"
    [] MergeBase[h] # b                                             -> "unsupported"
    [] Changed(b, h) # files                                        -> "refused"
    [] \E p \in files : ~ Regular(b, h, p)                          -> "refused"
    [] files \subseteq ActionPath
         /\ \E p \in files : ~ PinsMoved(File(b, p).text, File(h, p).text) -> "refused"
    [] files \subseteq LockPath /\ ~ Synchronizable(b, h)            -> "refused"
    [] files \subseteq LockPath /\ ~ Synchronized(b, h)              -> "unsupported"
    [] h \notin ReadOnlyRuns                                           -> "refused"
    [] OTHER                                                        -> "admitted"

------------------------------------------------------------------------------
(* What an admitted delta is, said without the code's case distinctions.   *)

\* A text without what may move.
Skeleton(text) == <<text.rest, [i \in DOMAIN text.pins |-> text.pins[i].action]>>

OnlyPinsMove(b, h) ==
  \A p \in DOMAIN Tree[b] \cup DOMAIN Tree[h] :
    \/ File(h, p) = File(b, p)
    \/ /\ p \in ActionPath /\ Regular(b, h, p)
       /\ Skeleton(File(h, p).text) = Skeleton(File(b, p).text)
       /\ \A i \in DOMAIN File(h, p).text.pins :
            \/ File(h, p).text.pins[i] = File(b, p).text.pins[i]
            \/ Published(File(h, p).text.pins[i])

\* Both locks name one nixpkgs, and nothing else in them moved.
LocksPaired(b, h) ==
  /\ \A p \in LockPath : Regular(b, h, p) /\ File(h, p).text.rest = File(b, p).text.rest
  /\ File(h, "flake.lock").text.nixpkgs = File(h, "devenv.lock").text.nixpkgs

OnlyNixpkgsMoves(b, h) == Changed(b, h) = LockPath /\ LocksPaired(b, h)

Vetted(h) == OnlyPinsMove(MergeBase[h], h) \/ OnlyNixpkgsMoves(MergeBase[h], h)
=============================================================================
