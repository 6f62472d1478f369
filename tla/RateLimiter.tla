----------------------------- MODULE RateLimiter -----------------------------
(***************************************************************************)
(* checkRateLimit: the counter of attempts kept for one identifier and one *)
(* action in auth_rate_limits.  A request reads the row, decides, and then *)
(* writes: two round trips, between which other requests read and write.   *)
(* The table has no UNIQUE key: concurrent first attempts insert two rows, *)
(* and only the oldest is ever read again.                                 *)
(*                                                                         *)
(* A burst is what overlaps: it begins with an attempt that finds none     *)
(* other under way and ends when the last of them is answered.  An attempt *)
(* that overlaps no other is a burst of its own.                           *)
(***************************************************************************)
EXTENDS Integers, FiniteSets

CONSTANTS
  Requests,       \* requests that may be served at the same time
  maxAttempts,    \* attempts let through in a window
  windowSeconds,
  lockoutSeconds,
  MaxTime,        \* bound: the last second that is modelled
  MaxCalls        \* bound: how many attempts are made in all

ASSUME RateLimiterAssumption ==
  /\ maxAttempts \in Nat \ {0}
  /\ windowSeconds \in Nat
  /\ lockoutSeconds \in Nat /\ lockoutSeconds > windowSeconds
  /\ MaxTime \in Nat /\ MaxCalls \in Nat

VARIABLES
  now,       \* the clock, in seconds
  row,       \* the oldest row of the identifier, or NoRow
  plan,      \* what each request has decided to write
  calls,     \* how many attempts were made
  burst,     \* history: the number of the latest burst, and when it began
  accepted   \* history: the attempts let through, with the count they wrote

vars == <<now, row, plan, calls, burst, accepted>>

Unlocked == -1
NoRow == [count |-> 0, locked |-> Unlocked, updated |-> 0]
Rows == [count : 0 .. maxAttempts + 1, locked : Int, updated : Nat]

Plan(kind, count, at) == [kind |-> kind, count |-> count, at |-> at]
Idle == Plan("idle", 0, 0)
Plans == [kind : {"idle", "insert", "restart", "unlock", "lock", "count"},
          count : 0 .. maxAttempts + 1, at : Nat]

TypeOK ==
  /\ now \in 0 .. MaxTime
  /\ row \in Rows
  /\ plan \in [Requests -> Plans]
  /\ calls \in 0 .. MaxCalls
  /\ burst \in [nr : 0 .. MaxCalls, began : 0 .. MaxTime]
  /\ accepted \subseteq
       [at : Nat, burst : 0 .. MaxCalls, began : 0 .. MaxTime, count : 1 .. maxAttempts]

Init == /\ now = 0
        /\ row = NoRow
        /\ plan = [r \in Requests |-> Idle]
        /\ calls = 0 /\ accepted = {}
        /\ burst = [nr |-> 0, began |-> 0]

Tick == /\ now < MaxTime
        /\ now' = now + 1
        /\ UNCHANGED <<row, plan, calls, burst, accepted>>

(* Mutant: a window one second short.                                      *)
DecisionShortWindow ==
  LET next == row.count + 1
  IN  IF row = NoRow THEN Plan("insert", 1, now)
      ELSE IF row.locked # Unlocked
        THEN IF row.locked > now THEN Idle ELSE Plan("unlock", 1, now)
      ELSE IF now - row.updated >= windowSeconds THEN Plan("restart", 1, now)
      ELSE Plan(IF next > maxAttempts THEN "lock" ELSE "count", next, now)

(* What is decided on the row that was read.  A refusal under a lock       *)
(* writes nothing.                                                         *)
Decision ==
  LET next == row.count + 1
  IN  IF row = NoRow THEN Plan("insert", 1, now)
      ELSE IF row.locked # Unlocked
        THEN IF row.locked > now THEN Idle ELSE Plan("unlock", 1, now)
      ELSE IF now - row.updated > windowSeconds THEN Plan("restart", 1, now)
      ELSE Plan(IF next > maxAttempts THEN "lock" ELSE "count", next, now)

(* The clock, the read and the decision: the clock counts seconds, the     *)
(* read takes milliseconds.                                                *)
Check(r) ==
  /\ plan[r] = Idle /\ calls < MaxCalls
  /\ calls' = calls + 1
  /\ burst' = IF \A q \in Requests : plan[q] = Idle
                THEN [nr |-> calls', began |-> now] ELSE burst
  /\ plan' = [plan EXCEPT ![r] = Decision]
  /\ UNCHANGED <<now, row, accepted>>

(* The row after the statement of plan p.  Only the end of a lockout and a *)
(* new lock write locked_until.                                            *)
Written(p) ==
  CASE p.kind = "insert" ->
         IF row = NoRow THEN [count |-> 1, locked |-> Unlocked, updated |-> p.at] ELSE row
    [] p.kind \in {"restart", "count"} ->
         [count |-> p.count, locked |-> row.locked, updated |-> p.at]
    [] p.kind = "unlock" ->
         [count |-> 1, locked |-> Unlocked, updated |-> p.at]
    [] p.kind = "lock" ->
         [count |-> p.count, locked |-> p.at + lockoutSeconds, updated |-> p.at]

Attempt(p) == [at |-> p.at, burst |-> burst.nr, began |-> burst.began, count |-> p.count]

Write(r) ==
  LET p == plan[r]
  IN  /\ p # Idle
      /\ row' = Written(p)
      /\ accepted' = IF p.kind = "lock" THEN accepted ELSE accepted \cup {Attempt(p)}
      /\ plan' = [plan EXCEPT ![r] = Idle]
      /\ UNCHANGED <<now, calls, burst>>

(* The worker dies, or the write fails: the request is answered with an    *)
(* error and its attempt is not counted.                                   *)
Fail(r) == /\ plan[r] # Idle
           /\ plan' = [plan EXCEPT ![r] = Idle]
           /\ UNCHANGED <<now, row, calls, burst, accepted>>

Next == Tick \/ \E r \in Requests : Check(r) \/ Write(r) \/ Fail(r)

Spec == Init /\ [][Next]_vars

-----------------------------------------------------------------------------
In(hist, first, last) == {a \in hist : first <= a.at /\ a.at <= last}

Bursts(hist) == {a.burst : a \in hist}

(* "Limits: signup (3/min)", as far as it goes: attempts that overlap may  *)
(* all be let through and count as one, and a stale write may set the      *)
(* counter back and take a lock away; but a burst of them counts as one at *)
(* least.  In no window are attempts of more bursts let through than the   *)
(* limit allows, and one more if a burst was under way when the window     *)
(* opened: across resets, lockouts, stale writes and attempts that failed. *)
BurstsWithinLimit ==
  \A t \in 0 .. MaxTime :
    LET these == In(accepted, t, t + windowSeconds)
    IN  Cardinality(Bursts(these))
          <= maxAttempts + (IF \E a \in these : a.began < t THEN 1 ELSE 0)
=============================================================================
