------------------------------ MODULE GitHubGet ------------------------------
(***************************************************************************)
(* github_api of ci/decisions/decision_authority.py with the RetryBudget   *)
(* of ci/decisions/github_retry.py: one bounded GET of one child process,  *)
(* tried again only as GitHub's own headers allow.  Time counts in ticks   *)
(* from the start of the call; jitter is less than a tick.                 *)
(***************************************************************************)
EXTENDS JobDisk, FiniteSetsExt

CONSTANTS
  Document,     \* decision files at commits, and pairs of commits to compare
  Small,        \* documents sent inline with their metadata
  Ancestor,     \* the pairs whose comparison says "ahead"
  Total, Cap,   \* 45 seconds for a call, 30 for an attempt
  Attempts,     \* 3
  Named,        \* delays GitHub may ask for
  Fallback,     \* 60 seconds after a throttled answer that names no time
  MaxLive       \* bound: changes of what is mutable

ASSUME GetAssumption ==
  /\ {Total, Cap, Attempts, Fallback, MaxLive} \subseteq Nat \ {0}
  /\ Named \subseteq Nat /\ Small \subseteq Document /\ Ancestor \subseteq Document

VARIABLES
  live,         \* version of everything mutable at GitHub: reviews, policy, refs
  call          \* per child: its GET

Endpoint == ({"contents", "compare", "blob"} \X Document) \cup {<<"live", None>>}

\* An answer: what it says, and the version of what is mutable it says it of.
Says(text) == [text |-> text, version |-> 0]
Value == [text : {"right", "wrong", "ahead", "behind", "state", "nothing"}, version : 0..MaxLive]

\* patient is a history field: the attempt is not before the time GitHub named.
NoCall == [at |-> "none", endpoint |-> None, attempt |-> 0, clock |-> 0,
           patient |-> TRUE, value |-> Says("nothing")]
Call == [at : {"none", "send", "answered", "failed"}, endpoint : Endpoint \cup {None},
         attempt : 0..Attempts, clock : 0..Total, patient : BOOLEAN, value : Value]

GetInit == live = 0 /\ call = [c \in Child |-> NoCall]

\* What a 200 may carry: the transport may have mangled Git bytes.
Answers(e) ==
  CASE e[1] = "live"                 -> {[text |-> "state", version |-> live]}
    [] e[1] = "compare"              -> {Says(IF e[2] \in Ancestor THEN "ahead" ELSE "behind")}
    [] e[1] = "blob"                 -> {Says("right"), Says("wrong")}
    [] e[1] = "contents"             -> {Says("right")}
                                        \cup (IF e[2] \in Small THEN {Says("wrong")} ELSE {})

Get(c, e) == call' = [call EXCEPT ![c] = [NoCall EXCEPT !.at = "send", !.endpoint = e, !.attempt = 1]]

\* A failed attempt: no answer at all; a busy server; a throttled client (429
\* or a secondary limit); a primary limit that is spent, until "reset", or
\* "drained", by a 429 or with a secondary limit, without Retry-After; or what is
\* not tried again: a refusal, a malformed Retry-After, an answer that cannot be
\* parsed.  "after" is Retry-After.
Primary == {"limited", "drained"}

Failure ==
  [kind : {"lost", "final"}, after : {None}, reset : {None}]
  \cup [kind : {"busy", "throttled"}, after : {None} \cup Named, reset : {None}]
  \cup [kind : {"limited"}, after : {None} \cup Named, reset : {None} \cup Named]
  \cup [kind : {"drained"}, after : {None}, reset : {None} \cup Named]

\* What GitHub asked for.
Told(f) == Max({0} \cup ({f.after, f.reset} \ {None}))

Retryable(attempt, f) ==
  attempt < Attempts /\ f.kind # "final" /\ (f.kind \in Primary => f.reset # None)

Delay(attempt, f) ==
  Max({2 ^ (attempt - 1), Told(f)}
      \cup (IF f.kind \in {"throttled", "drained"} /\ f.after = None THEN {Fallback} ELSE {}))

\* Before the next attempt, if the call goes on: wait.  (Faulty variant: the
\* wait is shortened to fit the budget.)
WaitShortened(c, now, f) ==
  LET delay == Min({Delay(call[c].attempt, f), Total - now - 1})
  IN IF Retryable(call[c].attempt, f) /\ now < Total
     THEN call' = [call EXCEPT ![c].attempt = @ + 1, ![c].clock = now + delay,
                               ![c].patient = delay >= Told(f)]
     ELSE call' = [call EXCEPT ![c] = [NoCall EXCEPT !.at = "failed"]]

Wait(c, now, f) ==
  LET delay == Delay(call[c].attempt, f)
  IN IF Retryable(call[c].attempt, f) /\ delay < Total - now
     THEN call' = [call EXCEPT ![c].attempt = @ + 1, ![c].clock = now + delay,
                               ![c].patient = delay >= Told(f)]
     ELSE call' = [call EXCEPT ![c] = [NoCall EXCEPT !.at = "failed"]]

\* One attempt, the time it takes, and its outcome.
Attempt(c) ==
  /\ call[c].at = "send"
  /\ \/ \E v \in Answers(call[c].endpoint) :
          call' = [call EXCEPT ![c] = [NoCall EXCEPT !.at = "answered", !.value = v]]
     \/ \E now \in call[c].clock .. Min({call[c].clock + Cap, Total}), f \in Failure :
          Wait(c, now, f)
  /\ UNCHANGED live

ChangeLive == live < MaxLive /\ live' = live + 1 /\ UNCHANGED call
=============================================================================
