------------------------- MODULE CheckpointRegister -------------------------
(***************************************************************************)
(* What the publication journal of ci/publication-controller.py promises,  *)
(* with no commits, references, retries or controllers: one register per   *)
(* destination ("step"), written once, except for the hand-off register,   *)
(* which a later immutable packet may replace; and acknowledgements, which *)
(* are given only for what has been recorded.                              *)
(***************************************************************************)
CONSTANTS Step,      \* destination names: "cache", "handoff", "xo-tag", ...
          Identity,  \* immutable identities a step can be completed with
          Handoff,   \* the one step whose identity may be replaced
          Absent     \* "no checkpoint yet"

VARIABLES current,   \* current[n]: identity recorded for step n, or Absent
          log,       \* every checkpoint ever recorded
          acked      \* every checkpoint a caller was told is recorded

vars == <<current, log, acked>>

Checkpoint == [name : Step, identity : Identity]

Init ==
  /\ current = [n \in Step |-> Absent]
  /\ log = {}
  /\ acked = {}

\* A step gets its identity once; only the hand-off may get another one.
Record(p) ==
  /\ current[p.name] \in {Absent, p.identity} \/ p.name = Handoff
  /\ current' = [current EXCEPT ![p.name] = p.identity]
  /\ log' = log \cup {p}
  /\ UNCHANGED acked

\* A caller learns of a checkpoint only after it was recorded.
Acknowledge(p) ==
  /\ p \in log
  /\ acked' = acked \cup {p}
  /\ UNCHANGED <<current, log>>

Next == \E p \in Checkpoint : Record(p) \/ Acknowledge(p)

Spec == Init /\ [][Next]_vars
=============================================================================
