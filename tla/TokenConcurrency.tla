-------------------------- MODULE TokenConcurrency --------------------------
(***************************************************************************)
(* The concurrency limit of one API token (service/token_limit.go and      *)
(* middleware/token_limit.go).  A request takes a lease in a Redis sorted  *)
(* set that all replicas share, and a goroutine renews the lease until the *)
(* request ends; when Redis fails, the request falls back to a counter in  *)
(* the memory of its own process.                                          *)
(*                                                                         *)
(* A call to Redis is not atomic: it is sent, its script runs, its answer  *)
(* returns.  The client may give up at any point of it, and a script whose *)
(* client has given up may still run much later, or never.  Time is        *)
(* discrete.  Local steps take no time: a ticker or a timeout that is due  *)
(* fires before time passes.                                               *)
(*                                                                         *)
(* A request is the identifier of its lease.  A lease is written with the  *)
(* score now + LeaseDuration, so `age', the time since it was written,     *)
(* stands for its score: it is expired when age >= LeaseDuration.  The     *)
(* context of a request with a lease is cancelled exactly when its renewal *)
(* goroutine has returned.  Tokens without a limit take no slot, and       *)
(* without Redis every request takes the path of AcquireFails.             *)
(***************************************************************************)
EXTENDS Integers, FiniteSets

CONSTANTS Request,           \* requests made with the token
          Node,              \* replicas of the gateway
          Limit,             \* the token's concurrency limit
          LeaseDuration,     \* tokenConcurrencyLeaseDuration
          RenewInterval,     \* tokenConcurrencyRenewInterval
          OperationTimeout   \* RedisOperationContext and the timeout of renew

ASSUME RequestAssumption == IsFiniteSet(Request)
ASSUME LimitAssumption == Limit \in Nat \ {0}
ASSUME TimeAssumption ==
    /\ LeaseDuration \in Nat
    /\ RenewInterval \in Nat
    /\ OperationTimeout \in Nat
    /\ 0 < OperationTimeout
    /\ OperationTimeout < RenewInterval
    /\ RenewInterval + OperationTimeout < LeaseDuration

VARIABLES
    slot,     \* slot[r]: the request and its TokenConcurrencySlot
    call,     \* call[r]: the Redis call that r is waiting for
    late,     \* scripts whose client has given up and that may still run
    leases,   \* members of the sorted set
    age,      \* age[r]: time since the lease of r was written
    keyAge,   \* time since the key's PEXPIRE
    count     \* count[n]: tokenConcurrencyCount of replica n

vars == <<slot, call, late, leases, age, keyAge, count>>

Script == {"acquire", "renew", "release"}

Slot == [pc : {"idle", "acquiring", "running", "releasing", "ended"},
         backend : {"none", "redis", "memory"},
         node : Node,
         worker : {"off", "waiting", "renewing"},   \* the renewal goroutine
         tick : 0..RenewInterval,                   \* time to the next tick
         since : Nat]                               \* time.Since(lastRenewed)

Call == [script : Script \cup {"none"},
         reply : {"sent", "yes", "no", "done"},
         waited : 0..OperationTimeout]

KeyLife == 2 * LeaseDuration

TypeOK ==
    /\ slot \in [Request -> Slot]
    /\ call \in [Request -> Call]
    /\ late \subseteq Request \X Script
    /\ leases \subseteq Request
    /\ age \in [Request -> 0..KeyLife]
    /\ keyAge \in 0..KeyLife
    /\ count \in [Node -> Nat]

NoCall == [script |-> "none", reply |-> "sent", waited |-> 0]
Sent(k) == [script |-> k, reply |-> "sent", waited |-> 0]

NewSlot(n) == [pc |-> "idle", backend |-> "none", node |-> n,
               worker |-> "off", tick |-> 0, since |-> 0]

Init ==
    /\ slot \in [Request -> {NewSlot(n) : n \in Node}]
    /\ call = [r \in Request |-> NoCall]
    /\ late = {}
    /\ leases = {}
    /\ age = [r \in Request |-> KeyLife]
    /\ keyAge = KeyLife
    /\ count = [n \in Node |-> 0]

-----------------------------------------------------------------------------
(* The scripts that Redis runs: the sorted set after one, and its answer. *)

\* What ZREMRANGEBYSCORE leaves.
Unexpired == {m \in leases : age[m] < LeaseDuration}

\* An acquisition that admits one lease too many.
AfterAcquireOverLimit(r) ==
    IF Cardinality(Unexpired) =< Limit
    THEN [leases |-> Unexpired \cup {r}, reply |-> "yes"]
    ELSE [leases |-> Unexpired, reply |-> "no"]

\* tokenConcurrencyAcquireScript: expired members are dropped first.
AfterAcquire(r) ==
    IF Cardinality(Unexpired) < Limit
    THEN [leases |-> Unexpired \cup {r}, reply |-> "yes"]
    ELSE [leases |-> Unexpired, reply |-> "no"]

\* tokenConcurrencyRenewScript: only a lease that is still there is renewed.
AfterRenew(r) ==
    [leases |-> leases, reply |-> IF r \in leases THEN "yes" ELSE "no"]

\* A release that unlinks the key whatever else it holds.
AfterReleaseUnlinks(r) == [leases |-> {}, reply |-> "done"]

\* tokenConcurrencyReleaseScript
AfterRelease(r) == [leases |-> leases \ {r}, reply |-> "done"]

After(r, k) ==
    CASE k = "acquire" -> AfterAcquire(r)
      [] k = "renew"   -> AfterRenew(r)
      [] k = "release" -> AfterRelease(r)

\* What a script leaves behind.  The answer is "yes" when the lease of r was
\* written, which does the PEXPIRE too.
Written(r, k) ==
    /\ leases' = After(r, k).leases
    /\ age' = IF After(r, k).reply = "yes" THEN [age EXCEPT ![r] = 0] ELSE age
    /\ keyAge' = IF After(r, k).reply = "yes" THEN 0 ELSE keyAge

\* Redis runs the script of a call that its client is waiting for.
RedisRuns(r) ==
    /\ call[r].script \in Script
    /\ call[r].reply = "sent"
    /\ Written(r, call[r].script)
    /\ call' = [call EXCEPT ![r].reply = After(r, call[r].script).reply]
    /\ UNCHANGED <<slot, late, count>>

\* Redis runs a script that its client no longer waits for.
RedisRunsLate(r, k) ==
    /\ <<r, k>> \in late
    /\ late' = late \ {<<r, k>>}
    /\ Written(r, k)
    /\ UNCHANGED <<slot, call, count>>

\* The scripts that may still run once r gives up the call it waits for.
GivenUp(r) ==
    IF call[r].script \in Script /\ call[r].reply = "sent"
    THEN {<<r, call[r].script>>} ELSE {}

-----------------------------------------------------------------------------
(* Acquiring a slot: AcquireTokenConcurrency. *)

Acquire(r) ==
    /\ slot[r].pc = "idle"
    /\ slot' = [slot EXCEPT ![r].pc = "acquiring"]
    /\ call' = [call EXCEPT ![r] = Sent("acquire")]
    /\ UNCHANGED <<late, leases, age, keyAge, count>>

Ended(s) == [s EXCEPT !.pc = "ended", !.backend = "none"]

\* startRenewal: the ticker starts and lastRenewed is now.
Renewing(s) == [s EXCEPT !.pc = "running", !.backend = "redis",
                         !.worker = "waiting", !.tick = RenewInterval, !.since = 0]

\* A slot of the process's counter; nothing renews it.
InMemory(s) == [s EXCEPT !.pc = "running", !.backend = "memory"]

\* Redis has answered: the request starts with a lease, or is refused.
AcquireAnswered(r) ==
    /\ call[r].script = "acquire"
    /\ call[r].reply # "sent"
    /\ slot' = [slot EXCEPT ![r] = IF call[r].reply = "yes" THEN Renewing(@)
                                                             ELSE Ended(@)]
    /\ call' = [call EXCEPT ![r] = NoCall]
    /\ UNCHANGED <<late, leases, age, keyAge, count>>

\* The call failed or timed out, whether or not its script ran: the request
\* falls back to the counter of its process.
AcquireFails(r) ==
    /\ call[r].script = "acquire"
    /\ late' = late \cup GivenUp(r)
    /\ call' = [call EXCEPT ![r] = NoCall]
    /\ LET n == slot[r].node
           room == count[n] < Limit
       IN  /\ slot' = [slot EXCEPT ![r] =
                          IF room THEN InMemory(@) ELSE Ended(@)]
           /\ count' = IF room THEN [count EXCEPT ![n] = @ + 1] ELSE count
    /\ UNCHANGED <<leases, age, keyAge>>

-----------------------------------------------------------------------------
(* The renewal goroutine: startRenewal and renew. *)

TickerFires(r) ==
    /\ slot[r].worker = "waiting"
    /\ slot[r].tick = 0
    /\ slot' = [slot EXCEPT ![r].worker = "renewing", ![r].tick = RenewInterval]
    /\ call' = [call EXCEPT ![r] = Sent("renew")]
    /\ UNCHANGED <<late, leases, age, keyAge, count>>

\* The goroutine returns and the context of the request is cancelled.
Stopped(s) == [s EXCEPT !.worker = "off", !.tick = 0, !.since = 0]

\* The goroutine waits for its next tick; lastRenewed is now.
Renewed(s) == [s EXCEPT !.worker = "waiting", !.since = 0]

RenewAnswered(r) ==
    /\ call[r].script = "renew"
    /\ call[r].reply # "sent"
    /\ slot' = [slot EXCEPT ![r] = IF call[r].reply = "yes" THEN Renewed(@)
                                                             ELSE Stopped(@)]
    /\ call' = [call EXCEPT ![r] = NoCall]
    /\ UNCHANGED <<late, leases, age, keyAge, count>>

\* A goroutine that retries for ever.
MayRetryAlways(s) == TRUE

\* time.Since(lastRenewed) < tokenConcurrencyLeaseDuration - tokenConcurrencyRenewInterval
MayRetry(s) == s.since < LeaseDuration - RenewInterval

RenewFails(r) ==
    /\ call[r].script = "renew"
    /\ late' = late \cup GivenUp(r)
    /\ slot' = [slot EXCEPT ![r] = IF MayRetry(@) THEN [@ EXCEPT !.worker = "waiting"]
                                                  ELSE Stopped(@)]
    /\ call' = [call EXCEPT ![r] = NoCall]
    /\ UNCHANGED <<leases, age, keyAge, count>>

\* The client disconnects: the parent context is cancelled and with it the
\* slot's, which ends the goroutine; the handler may run on for a while.
ClientGone(r) ==
    /\ slot[r].pc = "running"
    /\ slot[r].worker # "off"
    /\ late' = late \cup GivenUp(r)
    /\ slot' = [slot EXCEPT ![r] = Stopped(@)]
    /\ call' = [call EXCEPT ![r] = NoCall]
    /\ UNCHANGED <<leases, age, keyAge, count>>

-----------------------------------------------------------------------------
(* The handler returns and the deferred Release runs. *)

\* A release that goes to the process's counter wherever the slot came from.
FinishInMemoryAlways(r) ==
    /\ slot[r].pc = "running"
    /\ LET n == slot[r].node
       IN  count' = [count EXCEPT ![n] = IF @ > 1 THEN @ - 1 ELSE 0]
    /\ slot' = [slot EXCEPT ![r] = Ended(@)]
    /\ call' = [call EXCEPT ![r] = NoCall]
    /\ UNCHANGED <<late, leases, age, keyAge>>

\* releaseTokenConcurrencyMemory
FinishInMemory(r) ==
    /\ slot[r].pc = "running"
    /\ slot[r].backend = "memory"
    /\ LET n == slot[r].node
       IN  count' = [count EXCEPT ![n] = IF @ > 1 THEN @ - 1 ELSE 0]
    /\ slot' = [slot EXCEPT ![r] = Ended(@)]
    /\ UNCHANGED <<call, late, leases, age, keyAge>>

\* A release that does not stop the renewal goroutine.
ReleaseBegunRenewing(s) == [s EXCEPT !.pc = "releasing"]

\* The release function cancels the context and waits for the goroutine.
ReleaseBegun(s) == [Stopped(s) EXCEPT !.pc = "releasing"]

FinishInRedis(r) ==
    /\ slot[r].pc = "running"
    /\ slot[r].backend = "redis"
    /\ late' = late \cup GivenUp(r)
    /\ slot' = [slot EXCEPT ![r] = ReleaseBegun(@)]
    /\ call' = [call EXCEPT ![r] = Sent("release")]
    /\ UNCHANGED <<leases, age, keyAge, count>>

\* The release call returns; its error is only logged.
ReleaseReturns(r) ==
    /\ call[r].script = "release"
    /\ late' = late \cup GivenUp(r)
    /\ slot' = [slot EXCEPT ![r] = Ended(@)]
    /\ call' = [call EXCEPT ![r] = NoCall]
    /\ UNCHANGED <<leases, age, keyAge, count>>

\* A replica dies with the requests that it serves.
Crash(n) ==
    LET dead == {r \in Request : slot[r].node = n /\ slot[r].pc # "idle"}
    IN  /\ \E r \in dead : slot[r].pc # "ended"
        /\ slot' = [r \in Request |-> IF r \in dead THEN Ended(Stopped(slot[r])) ELSE slot[r]]
        /\ call' = [r \in Request |-> IF r \in dead THEN NoCall ELSE call[r]]
        /\ late' = late \cup UNION {GivenUp(r) : r \in dead}
        /\ count' = [count EXCEPT ![n] = 0]
        /\ UNCHANGED <<leases, age, keyAge>>

-----------------------------------------------------------------------------
Older(a) == IF a < KeyLife THEN a + 1 ELSE a

\* Time passes unless a timeout or a ticker is due.  Redis drops the key
\* when nothing has been written to it for KeyLife.
Tick ==
    /\ \A r \in Request : call[r].script # "none" => call[r].waited < OperationTimeout
    /\ \A r \in Request : slot[r].worker # "off" => slot[r].tick > 0
    /\ call' = [r \in Request |-> IF call[r].script = "none" THEN call[r]
                                  ELSE [call[r] EXCEPT !.waited = @ + 1]]
    /\ slot' = [r \in Request |-> IF slot[r].worker = "off" THEN slot[r]
                                  ELSE [slot[r] EXCEPT !.tick = @ - 1, !.since = @ + 1]]
    /\ age' = [r \in Request |-> Older(age[r])]
    /\ keyAge' = Older(keyAge)
    /\ leases' = IF keyAge' = KeyLife THEN {} ELSE leases
    /\ UNCHANGED <<late, count>>

\* The steps of a request whose Redis call has ended, or whose ticker is due.
ClientStep(r) ==
    \/ AcquireAnswered(r) \/ AcquireFails(r)
    \/ TickerFires(r) \/ RenewAnswered(r) \/ RenewFails(r)
    \/ ReleaseReturns(r)

Next ==
    \/ Tick
    \/ \E r \in Request :
          \/ Acquire(r) \/ ClientStep(r) \/ RedisRuns(r)
          \/ ClientGone(r) \/ FinishInMemory(r) \/ FinishInRedis(r)
          \/ \E k \in Script : RedisRunsLate(r, k)
    \/ \E n \in Node : Crash(n)

Spec == Init /\ [][Next]_vars

\* Timeouts and tickers fire and time passes.  Nothing is assumed of Redis,
\* of the handlers or of the clients.
Fairness == WF_vars(Tick) /\ \A r \in Request : WF_vars(ClientStep(r))

FairSpec == Spec /\ Fairness

-----------------------------------------------------------------------------
\* The request runs with a lease and its context is not cancelled.
Holding(r) == slot[r].pc = "running" /\ slot[r].worker # "off"

\* What a request waits for follows from where it is.
CallFits(r) ==
    /\ call[r].script = "acquire" <=> slot[r].pc = "acquiring"
    /\ call[r].script = "renew" <=> slot[r].worker = "renewing"
    /\ call[r].script = "release" <=> slot[r].pc = "releasing"
    /\ slot[r].worker # "off" => slot[r].pc = "running" /\ slot[r].backend = "redis"
    /\ <<r, "release">> \in late => slot[r].pc = "ended"

\* The next attempt comes before lastRenewed is LeaseDuration ago, and the
\* lease was written at most one call timeout before lastRenewed.
TimerFits(r) ==
    /\ slot[r].worker = "waiting" => slot[r].since + slot[r].tick < LeaseDuration
    /\ slot[r].worker = "renewing" =>
          /\ slot[r].since < LeaseDuration + call[r].waited
          /\ slot[r].tick + call[r].waited = RenewInterval
    /\ Holding(r) => age[r] =< slot[r].since + OperationTimeout

\* A lease that was granted and has not expired is in the set.
LeaseFits(r) ==
    /\ Holding(r) /\ age[r] < LeaseDuration => r \in leases
    /\ call[r].script \in {"acquire", "renew"} /\ call[r].reply = "yes" =>
          r \in leases /\ age[r] =< call[r].waited
    /\ r \in leases => keyAge =< age[r]

\* The sorted set never has more members than the limit, whatever calls are
\* lost, late or repeated (tokenConcurrencyAcquireScript).
LimitHeld == Cardinality(leases) =< Limit

\* A request that holds an unexpired lease is counted in the sorted set: no
\* release, no late script of another request and no expiry of the key takes
\* its slot away.  With LimitHeld, at most Limit requests hold one.
HolderIsCounted ==
    \A r \in Request : Holding(r) /\ age[r] < LeaseDuration => r \in leases

\* A request whose lease has run out is cancelled less than two call timeouts
\* later, although no renewal ever succeeds (startRenewal).
OverrunIsBounded ==
    \A r \in Request : Holding(r) => age[r] < LeaseDuration + 2 * OperationTimeout

\* The counter of a process is the number of its requests that run without a
\* lease: releases go to the backend that granted the slot, once.
MemoryCountExact ==
    \A n \in Node : count[n] = Cardinality({r \in Request :
        slot[r].node = n /\ slot[r].pc = "running" /\ slot[r].backend = "memory"})

\* The inductive invariant of the proofs: where a request is, what it waits
\* for, its timers and its lease agree, and the set is within its limit.
LeaseInv ==
    /\ TypeOK
    /\ LimitHeld
    /\ \A r \in Request : CallFits(r) /\ TimerFits(r) /\ LeaseFits(r)

\* "Stop before the lease expires if Redis remains unavailable": a request
\* whose lease has expired is already cancelled (startRenewal).
StopsBeforeExpiry == \A r \in Request : Holding(r) => age[r] < LeaseDuration

\* The slot of an ended request is free for good after some time, although
\* its release was lost, its process died or its acquisition ran late.
SlotsReturn ==
    \A r \in Request :
        slot[r].pc = "ended" ~> [](r \notin leases \/ age[r] >= LeaseDuration)

=============================================================================
