---------------------------- MODULE CircuitBreaker ----------------------------
(***************************************************************************)
(* The circuit breaker in front of an archive reader's primary source, and *)
(* the FallbackExecutor whose concurrent requests share it.                *)
(*                                                                         *)
(* The lock is never held across an await, so each lock acquisition is one *)
(* step; should_use_fallback takes the lock twice.  Time is reduced to     *)
(* whether recovery_timeout has passed since opened_at.                    *)
(***************************************************************************)
EXTENDS Integers

CONSTANTS
  Request,           \* the tasks that execute requests, one after another
  FailureThreshold,  \* failure_threshold
  FailureCap,        \* failure_count is only compared with the threshold, so it is
                     \* counted up to this value
  MaxFlips           \* bound: how often the primary's health changes

ASSUME BreakerAssumption ==
  /\ FailureThreshold \in Nat
  /\ FailureCap \in Nat /\ FailureCap > FailureThreshold
  /\ MaxFlips \in Nat

VARIABLES
  circuit,      \* "closed", "open" or "half_open"
  failureCount, \* consecutive failures
  openedAt,     \* "none", "recent" or, once recovery_timeout has passed, "elapsed"
  pc,           \* where each request is
  hasFallback,  \* the executor was built with a fallback
  primaryUp,    \* the primary answers requests
  flips

breaker == <<circuit, failureCount, openedAt>>
breakerVars == <<breaker, pc, hasFallback, primaryUp, flips>>

BreakerInit ==
  /\ circuit = "closed"
  /\ failureCount = 0
  /\ openedAt = "none"
  /\ pc = [r \in Request |-> "idle"]
  /\ hasFallback \in BOOLEAN
  /\ primaryUp = TRUE
  /\ flips = 0

Goto(r, place) == pc' = [pc EXCEPT ![r] = place]

(* execute(): without a fallback the breaker is not consulted. *)
Begin(r) ==
  /\ pc[r] = "idle"
  /\ Goto(r, IF hasFallback THEN "check" ELSE "primary_only")
  /\ UNCHANGED <<breaker, hasFallback, primaryUp, flips>>

PrimaryOnly(r) ==
  /\ pc[r] = "primary_only"
  /\ Goto(r, "idle")
  /\ UNCHANGED <<breaker, hasFallback, primaryUp, flips>>

(* should_use_fallback() under the read lock. *)
Check(r) ==
  /\ pc[r] = "check"
  /\ Goto(r, IF circuit # "open" THEN "primary"
             ELSE IF openedAt = "elapsed" THEN "upgrade" ELSE "fallback")
  /\ UNCHANGED <<breaker, hasFallback, primaryUp, flips>>

(* The same call under the write lock, after the read lock was dropped. *)
Upgrade(r) ==
  /\ pc[r] = "upgrade"
  /\ circuit' = IF circuit = "open" THEN "half_open" ELSE circuit
  /\ Goto(r, "primary")
  /\ UNCHANGED <<failureCount, openedAt, hasFallback, primaryUp, flips>>

AskPrimary(r) ==
  /\ pc[r] = "primary"
  /\ Goto(r, IF primaryUp THEN "succeeded" ELSE "failed")
  /\ UNCHANGED <<breaker, hasFallback, primaryUp, flips>>

(* Mutant: closing the circuit keeps the failures that opened it. *)
RecordSuccessKeepsCount(r) ==
  /\ pc[r] = "succeeded"
  /\ IF circuit = "half_open"
       THEN circuit' = "closed" /\ openedAt' = "none" /\ UNCHANGED failureCount
       ELSE failureCount' = 0 /\ UNCHANGED <<circuit, openedAt>>
  /\ Goto(r, "idle")
  /\ UNCHANGED <<hasFallback, primaryUp, flips>>

RecordSuccess(r) ==
  /\ pc[r] = "succeeded"
  /\ failureCount' = 0
  /\ IF circuit = "half_open"
       THEN circuit' = "closed" /\ openedAt' = "none"
       ELSE UNCHANGED <<circuit, openedAt>>
  /\ Goto(r, "idle")
  /\ UNCHANGED <<hasFallback, primaryUp, flips>>

CountFailure == IF failureCount < FailureCap THEN failureCount + 1 ELSE failureCount

Opens == circuit = "half_open" \/ (circuit = "closed" /\ CountFailure >= FailureThreshold)

(* Mutant: the time of opening is not recorded. *)
RecordFailureUntimed(r) ==
  /\ pc[r] = "failed"
  /\ failureCount' = CountFailure
  /\ circuit' = IF Opens THEN "open" ELSE circuit
  /\ Goto(r, "fallback")
  /\ UNCHANGED <<openedAt, hasFallback, primaryUp, flips>>

RecordFailure(r) ==
  /\ pc[r] = "failed"
  /\ failureCount' = CountFailure
  /\ IF Opens
       THEN circuit' = "open" /\ openedAt' = "recent"
       ELSE UNCHANGED <<circuit, openedAt>>
  /\ Goto(r, "fallback")
  /\ UNCHANGED <<hasFallback, primaryUp, flips>>

AskFallback(r) ==
  /\ pc[r] = "fallback"
  /\ Goto(r, "idle")
  /\ UNCHANGED <<breaker, hasFallback, primaryUp, flips>>

(* The caller drops the request while it awaits a source. *)
Cancel(r) ==
  /\ pc[r] \in {"primary", "primary_only", "fallback"}
  /\ Goto(r, "idle")
  /\ UNCHANGED <<breaker, hasFallback, primaryUp, flips>>

RecoveryTimeout ==
  /\ openedAt = "recent"
  /\ openedAt' = "elapsed"
  /\ UNCHANGED <<circuit, failureCount, pc, hasFallback, primaryUp, flips>>

Flip ==
  /\ flips < MaxFlips
  /\ flips' = flips + 1
  /\ primaryUp' = ~primaryUp
  /\ UNCHANGED <<breaker, pc, hasFallback>>

Execute(r) ==
  \/ Begin(r)
  \/ PrimaryOnly(r)
  \/ Check(r)
  \/ Upgrade(r)
  \/ AskPrimary(r)
  \/ RecordSuccess(r)
  \/ RecordFailure(r)
  \/ AskFallback(r)

BreakerNext ==
  \/ \E r \in Request : Execute(r) \/ Cancel(r)
  \/ RecoveryTimeout
  \/ Flip

-----------------------------------------------------------------------------
(***************************************************************************)
(* Properties.                                                             *)
(***************************************************************************)
Places == {"idle", "check", "upgrade", "primary", "primary_only", "succeeded",
           "failed", "fallback"}

(* The variables keep their types. *)
BreakerTypeOK ==
  /\ circuit \in {"closed", "open", "half_open"}
  /\ failureCount \in 0 .. FailureCap
  /\ openedAt \in {"none", "recent", "elapsed"}
  /\ pc \in [Request -> Places]
  /\ flips \in Nat

(* However the requests interleave, an open circuit knows when it was      *)
(* opened, so that it can be left again, and a closed one has counted      *)
(* fewer failures than would have opened it.                               *)
BreakerConsistent ==
  /\ circuit # "closed" <=> openedAt # "none"
  /\ circuit = "closed" => failureCount = 0 \/ failureCount < FailureThreshold

(* A request turned away from the primary never outlives its reason for    *)
(* good: once the primary stays healthy the circuit closes and stays       *)
(* closed, late failures of old requests included.                         *)
ClosesAgain == (<>[]primaryUp) => <>[](circuit = "closed")

(* While the primary is down for good and requests are made, the circuit   *)
(* keeps opening: it never settles in a state that sends all requests to   *)
(* the dead primary.                                                       *)
OpensAgain == (<>[](~primaryUp) /\ hasFallback) => []<>(circuit = "open")

(* The circuit follows the primary: it does not stay away from one that    *)
(* has recovered, nor settle on one that is dead.                          *)
FollowsPrimary == ClosesAgain /\ OpensAgain
=============================================================================
