----------------------- MODULE TokenConcurrencyProofs -----------------------
(***************************************************************************)
(* Proofs about TokenConcurrency, for every number of requests and         *)
(* replicas, every limit and all durations that satisfy TimeAssumption:    *)
(* LeaseInv is inductive, and it implies that the sorted set is within its *)
(* limit, that whoever holds an unexpired lease is counted in it, that no  *)
(* more than Limit requests do, and that a request outlives its lease by   *)
(* less than two call timeouts.  The counter in the memory of a replica,   *)
(* used without Redis, is the number of requests that hold a slot of it.   *)
(***************************************************************************)
EXTENDS TokenConcurrency, FiniteSetTheorems, TLAPS

USE TimeAssumption, LimitAssumption DEF KeyLife, Script

\* The initial states: nobody holds or waits for anything.
LEMMA LeaseInit == Init => LeaseInv
<1>. SUFFICES ASSUME Init PROVE LeaseInv
  OBVIOUS
<1>1. \A r \in Request : \E n \in Node : slot[r] = NewSlot(n)
  BY DEF Init
<1>2. TypeOK
  BY <1>1 DEF Init, TypeOK, NewSlot, NoCall, Slot, Call
<1>3. LimitHeld
  BY FS_EmptySet DEF Init, LimitHeld
<1>4. ASSUME NEW r \in Request PROVE CallFits(r) /\ TimerFits(r) /\ LeaseFits(r)
  BY <1>1 DEF Init, NewSlot, NoCall, CallFits, TimerFits, LeaseFits, Holding
<1>. QED
  BY <1>2, <1>3, <1>4 DEF LeaseInv

\* What a script does to the set: the set stays within its limit; a lease
\* disappears only when it has expired or is released by its own request; the
\* lease of the script's request is the only one that can appear, and it is in
\* the set after a positive answer.
LEMMA ScriptEffect ==
    ASSUME TypeOK, LimitHeld, NEW r \in Request, NEW k \in Script
    PROVE  /\ After(r, k).leases \subseteq Request
           /\ Cardinality(After(r, k).leases) =< Limit
           /\ After(r, k).reply \in {"yes", "no", "done"}
           /\ \A m \in leases : age[m] < LeaseDuration /\ ~(m = r /\ k = "release")
                                   => m \in After(r, k).leases
           /\ \A m \in After(r, k).leases : m \in leases \/ (m = r /\ After(r, k).reply = "yes")
           /\ After(r, k).reply = "yes" => r \in After(r, k).leases
<1>1. IsFiniteSet(leases) /\ leases \subseteq Request
  BY RequestAssumption, FS_Subset DEF TypeOK
<1>2. Cardinality(leases) \in Nat /\ Cardinality(leases) =< Limit
  BY <1>1, FS_CardinalityType DEF LimitHeld
<1>3. CASE k = "acquire"
  <2>1. IsFiniteSet(Unexpired) /\ Cardinality(Unexpired) =< Cardinality(leases)
    BY <1>1, FS_Subset DEF Unexpired
  <2>2. Cardinality(Unexpired) \in Nat
    BY <2>1, FS_CardinalityType
  <2>3. Cardinality(Unexpired \cup {r}) =< Cardinality(Unexpired) + 1
    BY <2>1, <2>2, FS_AddElement
  <2>3a. Cardinality(Unexpired \cup {r}) \in Nat
    BY <2>1, FS_AddElement, FS_CardinalityType
  <2>4. CASE Cardinality(Unexpired) < Limit
    <3>1. After(r, k) = [leases |-> Unexpired \cup {r}, reply |-> "yes"]
      BY <1>3, <2>4 DEF After, AfterAcquire
    <3>2. Cardinality(Unexpired \cup {r}) =< Limit
      BY <2>2, <2>3, <2>3a, <2>4
    <3>. QED
      BY <3>1, <3>2, <1>1, <1>3 DEF Unexpired
  <2>5. CASE ~(Cardinality(Unexpired) < Limit)
    <3>1. After(r, k) = [leases |-> Unexpired, reply |-> "no"]
      BY <1>3, <2>5 DEF After, AfterAcquire
    <3>2. Cardinality(Unexpired) =< Limit
      BY <2>1, <2>2, <1>2
    <3>. QED
      BY <3>1, <3>2, <1>1, <1>3 DEF Unexpired
  <2>. QED
    BY <2>4, <2>5
<1>4. CASE k = "renew"
  BY <1>1, <1>2, <1>4 DEF After, AfterRenew
<1>5. CASE k = "release"
  <2>1. Cardinality(leases \ {r}) =< Cardinality(leases)
    BY <1>1, FS_Subset
  <2>2. Cardinality(leases \ {r}) \in Nat
    BY <1>1, FS_Subset, FS_CardinalityType
  <2>. QED
    BY <1>1, <1>2, <1>5, <2>1, <2>2 DEF After, AfterRelease
<1>. QED
  BY <1>3, <1>4, <1>5

\* A script that Redis runs, for a waiting client or late, keeps the leases of
\* all requests in order and writes the lease of r when it says "yes".
LEMMA WrittenKeeps ==
    ASSUME LeaseInv, NEW r \in Request, NEW k \in Script, Written(r, k),
           k = "release" => ~Holding(r) /\ call[r].script \notin {"acquire", "renew"}
    PROVE  /\ leases' \subseteq Request
           /\ Cardinality(leases') =< Limit
           /\ age' \in [Request -> 0..KeyLife]
           /\ keyAge' \in 0..KeyLife
           /\ \A m \in Request : age'[m] =< age[m]
           /\ After(r, k).reply = "yes" => r \in leases' /\ age'[r] = 0
           /\ \A m \in Request : Holding(m) /\ age'[m] < LeaseDuration => m \in leases'
           /\ \A m \in Request : call[m].script \in {"acquire", "renew"} /\ call[m].reply = "yes"
                                    => m \in leases'
           /\ \A m \in leases' : keyAge' =< age'[m]
<1>1. TypeOK /\ LimitHeld /\ \A m \in Request : TimerFits(m) /\ LeaseFits(m)
  BY DEF LeaseInv
<1>2. /\ leases' = After(r, k).leases
      /\ age' = IF After(r, k).reply = "yes" THEN [age EXCEPT ![r] = 0] ELSE age
      /\ keyAge' = IF After(r, k).reply = "yes" THEN 0 ELSE keyAge
  BY DEF Written
<1>3. /\ After(r, k).leases \subseteq Request
      /\ Cardinality(After(r, k).leases) =< Limit
      /\ \A m \in leases : age[m] < LeaseDuration /\ ~(m = r /\ k = "release")
                               => m \in After(r, k).leases
      /\ \A m \in After(r, k).leases : m \in leases \/ (m = r /\ After(r, k).reply = "yes")
      /\ After(r, k).reply = "yes" => r \in After(r, k).leases
  BY <1>1, ScriptEffect
<1>4. age \in [Request -> 0..KeyLife] /\ keyAge \in 0..KeyLife
  BY <1>1 DEF TypeOK
<1>5. /\ age' \in [Request -> 0..KeyLife]
      /\ keyAge' \in 0..KeyLife
      /\ \A m \in Request : age'[m] =< age[m]
      /\ \A m \in Request : m # r => age'[m] = age[m]
      /\ After(r, k).reply = "yes" => age'[r] = 0
      /\ After(r, k).reply # "yes" => age' = age /\ keyAge' = keyAge
      /\ After(r, k).reply = "yes" => keyAge' = 0
  BY <1>2, <1>4
<1>6. ASSUME NEW m \in Request, Holding(m), age'[m] < LeaseDuration PROVE m \in leases'
  <2>1. CASE m = r /\ After(r, k).reply = "yes"
    BY <2>1, <1>2, <1>3
  <2>2. CASE ~(m = r /\ After(r, k).reply = "yes")
    <3>1. age[m] < LeaseDuration
      BY <2>2, <1>6, <1>5
    <3>2. m \in leases
      BY <3>1, <1>1, <1>6 DEF LeaseFits
    <3>. QED
      BY <3>1, <3>2, <1>3, <1>2, <1>6
  <2>. QED
    BY <2>1, <2>2
<1>7. ASSUME NEW m \in Request, call[m].script \in {"acquire", "renew"}, call[m].reply = "yes"
      PROVE  m \in leases'
  <2>1. m \in leases /\ age[m] =< call[m].waited
    BY <1>1, <1>7 DEF LeaseFits
  <2>2. call[m].waited \in 0..OperationTimeout
    BY <1>1 DEF TypeOK, Call
  <2>3. age[m] < LeaseDuration
    BY <2>1, <2>2, <1>4
  <2>. QED
    BY <2>1, <2>3, <1>3, <1>2, <1>7
<1>8. ASSUME NEW m \in leases' PROVE keyAge' =< age'[m]
  <2>1. m \in Request
    BY <1>2, <1>3
  <2>2. CASE After(r, k).reply = "yes"
    BY <2>1, <2>2, <1>5
  <2>3. CASE After(r, k).reply # "yes"
    <3>1. m \in leases
      BY <2>3, <1>2, <1>3
    <3>. QED
      BY <2>1, <2>3, <3>1, <1>1, <1>5 DEF LeaseFits
  <2>. QED
    BY <2>2, <2>3
<1>. QED
  BY <1>2, <1>3, <1>5, <1>6, <1>7, <1>8

\* Redis runs the script of a waiting client.
LEMMA RedisRunsKeeps ==
    ASSUME LeaseInv, NEW r \in Request, RedisRuns(r) PROVE LeaseInv'
<1>. DEFINE k == call[r].script
<1>1. k \in Script /\ call[r].reply = "sent" /\ Written(r, k)
      /\ call' = [call EXCEPT ![r].reply = After(r, k).reply]
      /\ slot' = slot /\ late' = late /\ count' = count
  BY DEF RedisRuns
<1>2. TypeOK /\ LimitHeld /\ \A m \in Request : CallFits(m) /\ TimerFits(m) /\ LeaseFits(m)
  BY DEF LeaseInv
<1>3. k = "release" => ~Holding(r) /\ k \notin {"acquire", "renew"}
  BY <1>2 DEF CallFits, Holding
<1>. HIDE DEF k
<1>4. /\ leases' \subseteq Request
      /\ Cardinality(leases') =< Limit
      /\ age' \in [Request -> 0..KeyLife]
      /\ keyAge' \in 0..KeyLife
      /\ \A m \in Request : age'[m] =< age[m]
      /\ After(r, k).reply = "yes" => r \in leases' /\ age'[r] = 0
      /\ \A m \in Request : Holding(m) /\ age'[m] < LeaseDuration => m \in leases'
      /\ \A m \in Request : call[m].script \in {"acquire", "renew"} /\ call[m].reply = "yes"
                               => m \in leases'
      /\ \A m \in leases' : keyAge' =< age'[m]
  BY <1>1, <1>3, WrittenKeeps DEF k
<1>5. After(r, k).reply \in {"yes", "no", "done"}
  BY <1>1, <1>2, ScriptEffect
<1>6. call' \in [Request -> Call]
  BY <1>1, <1>2, <1>5 DEF TypeOK, Call
<1>7. \A m \in Request : /\ call'[m].script = call[m].script
                          /\ call'[m].waited = call[m].waited
                          /\ m # r => call'[m].reply = call[m].reply
  BY <1>1, <1>2 DEF TypeOK, Call
<1>7a. call'[r].reply = After(r, k).reply
  BY <1>1, <1>2 DEF TypeOK, Call
<1>8. TypeOK' /\ LimitHeld'
  BY <1>1, <1>2, <1>4, <1>6 DEF TypeOK, LimitHeld
<1>9. ASSUME NEW m \in Request PROVE CallFits(m)'
  BY <1>1, <1>2, <1>7 DEF CallFits
<1>10. ASSUME NEW m \in Request PROVE TimerFits(m)'
  <2>1. age[m] \in Nat /\ age'[m] \in Nat /\ age'[m] =< age[m] /\ slot[m].since \in Nat
    BY <1>2, <1>4 DEF TypeOK, Slot
  <2>. QED
    BY <1>1, <1>2, <1>7, <2>1 DEF TimerFits, Holding
<1>11. ASSUME NEW m \in Request PROVE LeaseFits(m)'
  <2>1. age[m] \in Nat /\ age'[m] \in Nat /\ age'[m] =< age[m] /\ call[m].waited \in Nat
    BY <1>2, <1>4 DEF TypeOK, Call
  <2>2. CASE m = r
    BY <1>1, <1>2, <1>4, <1>7, <1>7a, <2>1, <2>2 DEF LeaseFits, Holding
  <2>3. CASE m # r
    BY <1>1, <1>2, <1>4, <1>7, <2>1, <2>3 DEF LeaseFits, Holding
  <2>. QED
    BY <2>2, <2>3
<1>. QED
  BY <1>8, <1>9, <1>10, <1>11 DEF LeaseInv

\* Redis runs a script that nobody waits for any more.
LEMMA RedisRunsLateKeeps ==
    ASSUME LeaseInv, NEW r \in Request, NEW k \in Script, RedisRunsLate(r, k) PROVE LeaseInv'
<1>1. <<r, k>> \in late /\ late' = late \ {<<r, k>>} /\ Written(r, k)
      /\ slot' = slot /\ call' = call /\ count' = count
  BY DEF RedisRunsLate
<1>2. TypeOK /\ LimitHeld /\ \A m \in Request : CallFits(m) /\ TimerFits(m) /\ LeaseFits(m)
  BY DEF LeaseInv
<1>3. k = "release" => ~Holding(r) /\ call[r].script \notin {"acquire", "renew"}
  BY <1>1, <1>2 DEF CallFits, Holding
<1>4. /\ leases' \subseteq Request
      /\ Cardinality(leases') =< Limit
      /\ age' \in [Request -> 0..KeyLife]
      /\ keyAge' \in 0..KeyLife
      /\ \A m \in Request : age'[m] =< age[m]
      /\ \A m \in Request : Holding(m) /\ age'[m] < LeaseDuration => m \in leases'
      /\ \A m \in Request : call[m].script \in {"acquire", "renew"} /\ call[m].reply = "yes"
                               => m \in leases'
      /\ \A m \in leases' : keyAge' =< age'[m]
  BY <1>1, <1>3, WrittenKeeps
<1>5. TypeOK' /\ LimitHeld'
  BY <1>1, <1>2, <1>4 DEF TypeOK, LimitHeld
<1>6. ASSUME NEW m \in Request PROVE CallFits(m)' /\ TimerFits(m)' /\ LeaseFits(m)'
  <2>1. /\ age[m] \in Nat /\ age'[m] \in Nat /\ age'[m] =< age[m]
        /\ slot[m].since \in Nat /\ call[m].waited \in Nat
    BY <1>2, <1>4 DEF TypeOK, Call, Slot
  <2>2. CallFits(m)'
    BY <1>1, <1>2 DEF CallFits
  <2>3. TimerFits(m)'
    BY <1>1, <1>2, <2>1 DEF TimerFits, Holding
  <2>4. LeaseFits(m)'
    BY <1>1, <1>2, <1>4, <2>1 DEF LeaseFits, Holding
  <2>. QED
    BY <2>2, <2>3, <2>4
<1>. QED
  BY <1>5, <1>6 DEF LeaseInv

\* A step of request r that leaves Redis alone keeps the invariant when it
\* leaves r itself in order.
LEMMA LocalStep ==
    ASSUME LeaseInv, NEW r \in Request,
           slot' \in [Request -> Slot], call' \in [Request -> Call],
           \A m \in Request \ {r} : slot'[m] = slot[m] /\ call'[m] = call[m],
           late' = late \/ late' = late \cup GivenUp(r),
           leases' = leases, age' = age, keyAge' = keyAge,
           count' \in [Node -> Nat],
           CallFits(r)', TimerFits(r)', LeaseFits(r)'
    PROVE  LeaseInv'
<1>1. TypeOK /\ LimitHeld /\ \A m \in Request : CallFits(m) /\ TimerFits(m) /\ LeaseFits(m)
  BY DEF LeaseInv
<1>2. GivenUp(r) \subseteq {r} \X Script
  BY DEF GivenUp
<1>3. TypeOK' /\ LimitHeld'
  BY <1>1, <1>2 DEF TypeOK, LimitHeld
<1>4. ASSUME NEW m \in Request, m # r PROVE CallFits(m)' /\ TimerFits(m)' /\ LeaseFits(m)'
  <2>1. slot'[m] = slot[m] /\ call'[m] = call[m]
    BY <1>4
  <2>2. <<m, "release">> \in late' => <<m, "release">> \in late
    BY <1>2, <1>4
  <2>3. CallFits(m)'
    BY <1>1, <2>1, <2>2 DEF CallFits
  <2>4. TimerFits(m)' /\ LeaseFits(m)'
    BY <1>1, <2>1 DEF TimerFits, LeaseFits, Holding
  <2>. QED
    BY <2>3, <2>4
<1>. QED
  BY <1>3, <1>4 DEF LeaseInv

\* The ways in which steps rewrite a slot keep its type.
LEMMA SlotUpdates ==
    ASSUME NEW s \in Slot
    PROVE  /\ Ended(s) \in Slot
           /\ Renewing(s) \in Slot
           /\ Stopped(s) \in Slot
           /\ ReleaseBegun(s) \in Slot
           /\ InMemory(s) \in Slot
           /\ Renewed(s) \in Slot
<1>. 0 \in 0..RenewInterval /\ RenewInterval \in 0..RenewInterval
  OBVIOUS
<1>1. Stopped(s) \in Slot
  BY DEF Slot, Stopped
<1>2. Ended(s) \in Slot
  BY DEF Slot, Ended
<1>3. Renewing(s) \in Slot
  BY DEF Slot, Renewing
<1>4. ReleaseBegun(s) \in Slot
  BY <1>1 DEF Slot, ReleaseBegun
<1>5. InMemory(s) \in Slot
  BY DEF Slot, InMemory
<1>6. Renewed(s) \in Slot
  BY DEF Slot, Renewed
<1>. QED
  BY <1>1, <1>2, <1>3, <1>4, <1>5, <1>6

\* Every step of a request by itself keeps the invariant.
LEMMA RequestKeeps ==
    ASSUME LeaseInv, NEW r \in Request,
           \/ Acquire(r) \/ ClientStep(r)
           \/ ClientGone(r) \/ FinishInMemory(r) \/ FinishInRedis(r)
    PROVE  LeaseInv'
<1>. DEFINE s == slot'[r]
<1>. DEFINE c == call'[r]
<1>1. TypeOK /\ CallFits(r) /\ TimerFits(r) /\ LeaseFits(r)
  BY DEF LeaseInv
<1>2. /\ slot \in [Request -> Slot] /\ call \in [Request -> Call]
      /\ count \in [Node -> Nat]
      /\ slot[r] \in Slot /\ call[r] \in Call /\ slot[r].node \in Node
      /\ age[r] \in 0..KeyLife
  BY <1>1 DEF TypeOK, Slot
<1>2a. /\ slot[r].tick \in 0..RenewInterval /\ slot[r].since \in Nat
       /\ call[r].waited \in 0..OperationTimeout /\ age[r] \in Nat
  BY <1>2 DEF Slot, Call
<1>3. <<r, "release">> \in GivenUp(r) => call[r].script = "release"
  BY DEF GivenUp
<1>4. SUFFICES /\ slot' \in [Request -> Slot] /\ call' \in [Request -> Call]
               /\ \A m \in Request \ {r} : slot'[m] = slot[m] /\ call'[m] = call[m]
               /\ late' = late \/ late' = late \cup GivenUp(r)
               /\ leases' = leases /\ age' = age /\ keyAge' = keyAge
               /\ count' \in [Node -> Nat]
               /\ CallFits(r)' /\ TimerFits(r)' /\ LeaseFits(r)'
  BY LocalStep
<1>5. CASE Acquire(r)
  <2>1. /\ slot' \in [Request -> Slot] /\ call' \in [Request -> Call]
        /\ \A m \in Request \ {r} : slot'[m] = slot[m] /\ call'[m] = call[m]
    BY <1>2, <1>5, SMTT(60) DEF Acquire, Sent, Slot, Call
  <2>2. /\ slot[r].pc = "idle"
        /\ s.pc = "acquiring" /\ s.backend = slot[r].backend
        /\ s.worker = slot[r].worker /\ s.tick = slot[r].tick /\ s.since = slot[r].since
        /\ c.script = "acquire" /\ c.reply = "sent" /\ c.waited = 0
    BY <1>2, <1>5 DEF Acquire, Sent, Slot, Call
  <2>3. /\ late' = late \/ late' = late \cup GivenUp(r)
        /\ leases' = leases /\ age' = age /\ keyAge' = keyAge
        /\ count' \in [Node -> Nat]
    BY <1>2, <1>5 DEF Acquire
  <2>4. CallFits(r)'
    BY <1>1, <1>3, <2>2, <2>3 DEF CallFits
  <2>5. TimerFits(r)' /\ LeaseFits(r)'
    BY <1>1, <1>2a, <2>2, <2>3 DEF CallFits, TimerFits, LeaseFits, Holding
  <2>. QED
    BY <2>1, <2>3, <2>4, <2>5
<1>6. CASE AcquireAnswered(r)
  <2>1. CASE call[r].reply = "yes"
    <3>1. /\ slot' \in [Request -> Slot] /\ call' \in [Request -> Call]
          /\ \A m \in Request \ {r} : slot'[m] = slot[m] /\ call'[m] = call[m]
      BY <1>2, <1>6, <2>1, SlotUpdates DEF AcquireAnswered, NoCall, Call
    <3>2. /\ call[r].script = "acquire" /\ call[r].reply # "sent"
          /\ s.pc = "running" /\ s.backend = "redis"
          /\ s.worker = "waiting" /\ s.tick = RenewInterval /\ s.since = 0
          /\ c.script = "none" /\ c.reply = "sent" /\ c.waited = 0
      BY <1>2, <1>6, <2>1 DEF AcquireAnswered, Renewing, NoCall, Slot, Call
    <3>3. /\ late' = late \/ late' = late \cup GivenUp(r)
          /\ leases' = leases /\ age' = age /\ keyAge' = keyAge
          /\ count' \in [Node -> Nat]
      BY <1>2, <1>6 DEF AcquireAnswered
    <3>4. CallFits(r)'
      BY <1>1, <1>3, <3>2, <3>3 DEF CallFits
    <3>5. TimerFits(r)' /\ LeaseFits(r)'
      BY <1>1, <1>2a, <2>1, <3>2, <3>3 DEF CallFits, TimerFits, LeaseFits, Holding
    <3>. QED
      BY <3>1, <3>3, <3>4, <3>5
  <2>2. CASE call[r].reply # "yes"
    <3>1. /\ slot' \in [Request -> Slot] /\ call' \in [Request -> Call]
          /\ \A m \in Request \ {r} : slot'[m] = slot[m] /\ call'[m] = call[m]
      BY <1>2, <1>6, <2>2, SlotUpdates DEF AcquireAnswered, NoCall, Call
    <3>2. /\ call[r].script = "acquire" /\ call[r].reply # "sent"
          /\ s.pc = "ended" /\ s.backend = "none"
          /\ s.worker = slot[r].worker /\ s.tick = slot[r].tick /\ s.since = slot[r].since
          /\ c.script = "none" /\ c.reply = "sent" /\ c.waited = 0
      BY <1>2, <1>6, <2>2 DEF AcquireAnswered, Ended, NoCall, Slot, Call
    <3>3. /\ late' = late \/ late' = late \cup GivenUp(r)
          /\ leases' = leases /\ age' = age /\ keyAge' = keyAge
          /\ count' \in [Node -> Nat]
      BY <1>2, <1>6 DEF AcquireAnswered
    <3>4. CallFits(r)'
      BY <1>1, <1>3, <3>2, <3>3 DEF CallFits
    <3>5. TimerFits(r)' /\ LeaseFits(r)'
      BY <1>1, <1>2a, <2>2, <3>2, <3>3 DEF CallFits, TimerFits, LeaseFits, Holding
    <3>. QED
      BY <3>1, <3>3, <3>4, <3>5
  <2>. QED
    BY <2>1, <2>2
<1>7. CASE AcquireFails(r)
  <2>1. CASE count[slot[r].node] < Limit
    <3>1. /\ slot' \in [Request -> Slot] /\ call' \in [Request -> Call]
          /\ \A m \in Request \ {r} : slot'[m] = slot[m] /\ call'[m] = call[m]
      BY <1>2, <1>7, <2>1, SlotUpdates DEF AcquireFails, NoCall, Call
    <3>2. /\ call[r].script = "acquire"
          /\ s.pc = "running" /\ s.backend = "memory"
          /\ s.worker = slot[r].worker /\ s.tick = slot[r].tick /\ s.since = slot[r].since
          /\ c.script = "none" /\ c.reply = "sent" /\ c.waited = 0
      BY <1>2, <1>7, <2>1 DEF AcquireFails, InMemory, NoCall, Slot, Call
    <3>3. /\ late' = late \/ late' = late \cup GivenUp(r)
          /\ leases' = leases /\ age' = age /\ keyAge' = keyAge
          /\ count' \in [Node -> Nat]
      BY <1>2, <1>7 DEF AcquireFails
    <3>4. CallFits(r)'
      BY <1>1, <1>3, <3>2, <3>3 DEF CallFits
    <3>5. TimerFits(r)' /\ LeaseFits(r)'
      BY <1>1, <1>2a, <2>1, <3>2, <3>3 DEF CallFits, TimerFits, LeaseFits, Holding
    <3>. QED
      BY <3>1, <3>3, <3>4, <3>5
  <2>2. CASE ~(count[slot[r].node] < Limit)
    <3>1. /\ slot' \in [Request -> Slot] /\ call' \in [Request -> Call]
          /\ \A m \in Request \ {r} : slot'[m] = slot[m] /\ call'[m] = call[m]
      BY <1>2, <1>7, <2>2, SlotUpdates DEF AcquireFails, NoCall, Call
    <3>2. /\ call[r].script = "acquire"
          /\ s.pc = "ended" /\ s.backend = "none"
          /\ s.worker = slot[r].worker /\ s.tick = slot[r].tick /\ s.since = slot[r].since
          /\ c.script = "none" /\ c.reply = "sent" /\ c.waited = 0
      BY <1>2, <1>7, <2>2 DEF AcquireFails, Ended, NoCall, Slot, Call
    <3>3. /\ late' = late \/ late' = late \cup GivenUp(r)
          /\ leases' = leases /\ age' = age /\ keyAge' = keyAge
          /\ count' \in [Node -> Nat]
      BY <1>2, <1>7 DEF AcquireFails
    <3>4. CallFits(r)'
      BY <1>1, <1>3, <3>2, <3>3 DEF CallFits
    <3>5. TimerFits(r)' /\ LeaseFits(r)'
      BY <1>1, <1>2a, <2>2, <3>2, <3>3 DEF CallFits, TimerFits, LeaseFits, Holding
    <3>. QED
      BY <3>1, <3>3, <3>4, <3>5
  <2>. QED
    BY <2>1, <2>2
<1>8. CASE TickerFires(r)
  <2>1. /\ slot' \in [Request -> Slot] /\ call' \in [Request -> Call]
        /\ \A m \in Request \ {r} : slot'[m] = slot[m] /\ call'[m] = call[m]
    BY <1>2, <1>8 DEF TickerFires, Sent, Slot, Call
  <2>2. /\ slot[r].worker = "waiting" /\ slot[r].tick = 0
        /\ s.pc = slot[r].pc /\ s.backend = slot[r].backend
        /\ s.worker = "renewing" /\ s.tick = RenewInterval /\ s.since = slot[r].since
        /\ c.script = "renew" /\ c.reply = "sent" /\ c.waited = 0
    BY <1>2, <1>8 DEF TickerFires, Sent, Slot, Call
  <2>3. /\ late' = late \/ late' = late \cup GivenUp(r)
        /\ leases' = leases /\ age' = age /\ keyAge' = keyAge
        /\ count' \in [Node -> Nat]
    BY <1>2, <1>8 DEF TickerFires
  <2>4. CallFits(r)'
    BY <1>1, <1>3, <2>2, <2>3 DEF CallFits
  <2>5. TimerFits(r)' /\ LeaseFits(r)'
    BY <1>1, <1>2a, <2>2, <2>3 DEF CallFits, TimerFits, LeaseFits, Holding
  <2>. QED
    BY <2>1, <2>3, <2>4, <2>5
<1>9. CASE RenewAnswered(r)
  <2>1. CASE call[r].reply = "yes"
    <3>1. /\ slot' \in [Request -> Slot] /\ call' \in [Request -> Call]
          /\ \A m \in Request \ {r} : slot'[m] = slot[m] /\ call'[m] = call[m]
      BY <1>2, <1>9, <2>1, SlotUpdates DEF RenewAnswered, NoCall, Call
    <3>2. /\ call[r].script = "renew" /\ call[r].reply # "sent"
          /\ s.pc = slot[r].pc /\ s.backend = slot[r].backend
          /\ s.worker = "waiting" /\ s.tick = slot[r].tick /\ s.since = 0
          /\ c.script = "none" /\ c.reply = "sent" /\ c.waited = 0
      BY <1>2, <1>9, <2>1 DEF RenewAnswered, Renewed, NoCall, Slot, Call
    <3>3. /\ late' = late \/ late' = late \cup GivenUp(r)
          /\ leases' = leases /\ age' = age /\ keyAge' = keyAge
          /\ count' \in [Node -> Nat]
      BY <1>2, <1>9 DEF RenewAnswered
    <3>4. CallFits(r)'
      BY <1>1, <1>3, <3>2, <3>3 DEF CallFits
    <3>5. TimerFits(r)' /\ LeaseFits(r)'
      BY <1>1, <1>2a, <2>1, <3>2, <3>3 DEF CallFits, TimerFits, LeaseFits, Holding
    <3>. QED
      BY <3>1, <3>3, <3>4, <3>5
  <2>2. CASE call[r].reply # "yes"
    <3>1. /\ slot' \in [Request -> Slot] /\ call' \in [Request -> Call]
          /\ \A m \in Request \ {r} : slot'[m] = slot[m] /\ call'[m] = call[m]
      BY <1>2, <1>9, <2>2, SlotUpdates DEF RenewAnswered, NoCall, Call
    <3>2. /\ call[r].script = "renew" /\ call[r].reply # "sent"
          /\ s.pc = slot[r].pc /\ s.backend = slot[r].backend
          /\ s.worker = "off" /\ s.tick = 0 /\ s.since = 0
          /\ c.script = "none" /\ c.reply = "sent" /\ c.waited = 0
      BY <1>2, <1>9, <2>2 DEF RenewAnswered, Stopped, NoCall, Slot, Call
    <3>3. /\ late' = late \/ late' = late \cup GivenUp(r)
          /\ leases' = leases /\ age' = age /\ keyAge' = keyAge
          /\ count' \in [Node -> Nat]
      BY <1>2, <1>9 DEF RenewAnswered
    <3>4. CallFits(r)'
      BY <1>1, <1>3, <3>2, <3>3 DEF CallFits
    <3>5. TimerFits(r)' /\ LeaseFits(r)'
      BY <1>1, <1>2a, <2>2, <3>2, <3>3 DEF CallFits, TimerFits, LeaseFits, Holding
    <3>. QED
      BY <3>1, <3>3, <3>4, <3>5
  <2>. QED
    BY <2>1, <2>2
<1>10. CASE RenewFails(r)
  <2>1. CASE MayRetry(slot[r])
    <3>1. /\ slot' \in [Request -> Slot] /\ call' \in [Request -> Call]
          /\ \A m \in Request \ {r} : slot'[m] = slot[m] /\ call'[m] = call[m]
      BY <1>2, <1>10, <2>1 DEF RenewFails, NoCall, Slot, Call
    <3>2. /\ call[r].script = "renew"
          /\ s.pc = slot[r].pc /\ s.backend = slot[r].backend
          /\ s.worker = "waiting" /\ s.tick = slot[r].tick /\ s.since = slot[r].since
          /\ c.script = "none" /\ c.reply = "sent" /\ c.waited = 0
      BY <1>2, <1>10, <2>1 DEF RenewFails, NoCall, Slot, Call
    <3>3. /\ late' = late \/ late' = late \cup GivenUp(r)
          /\ leases' = leases /\ age' = age /\ keyAge' = keyAge
          /\ count' \in [Node -> Nat]
      BY <1>2, <1>10 DEF RenewFails
    <3>4. CallFits(r)'
      BY <1>1, <1>3, <3>2, <3>3 DEF CallFits
    <3>5. TimerFits(r)' /\ LeaseFits(r)'
      BY <1>1, <1>2a, <2>1, <3>2, <3>3 DEF CallFits, TimerFits, LeaseFits, Holding, MayRetry
    <3>. QED
      BY <3>1, <3>3, <3>4, <3>5
  <2>2. CASE ~MayRetry(slot[r])
    <3>1. /\ slot' \in [Request -> Slot] /\ call' \in [Request -> Call]
          /\ \A m \in Request \ {r} : slot'[m] = slot[m] /\ call'[m] = call[m]
      BY <1>2, <1>10, <2>2, SlotUpdates DEF RenewFails, NoCall, Call
    <3>2. /\ call[r].script = "renew"
          /\ s.pc = slot[r].pc /\ s.backend = slot[r].backend
          /\ s.worker = "off" /\ s.tick = 0 /\ s.since = 0
          /\ c.script = "none" /\ c.reply = "sent" /\ c.waited = 0
      BY <1>2, <1>10, <2>2 DEF RenewFails, Stopped, NoCall, Slot, Call
    <3>3. /\ late' = late \/ late' = late \cup GivenUp(r)
          /\ leases' = leases /\ age' = age /\ keyAge' = keyAge
          /\ count' \in [Node -> Nat]
      BY <1>2, <1>10 DEF RenewFails
    <3>4. CallFits(r)'
      BY <1>1, <1>3, <3>2, <3>3 DEF CallFits
    <3>5. TimerFits(r)' /\ LeaseFits(r)'
      BY <1>1, <1>2a, <2>2, <3>2, <3>3 DEF CallFits, TimerFits, LeaseFits, Holding
    <3>. QED
      BY <3>1, <3>3, <3>4, <3>5
  <2>. QED
    BY <2>1, <2>2
<1>11. CASE ReleaseReturns(r)
  <2>1. /\ slot' \in [Request -> Slot] /\ call' \in [Request -> Call]
        /\ \A m \in Request \ {r} : slot'[m] = slot[m] /\ call'[m] = call[m]
    BY <1>2, <1>11, SlotUpdates DEF ReleaseReturns, NoCall, Call
  <2>2. /\ call[r].script = "release"
        /\ s.pc = "ended" /\ s.backend = "none"
        /\ s.worker = slot[r].worker /\ s.tick = slot[r].tick /\ s.since = slot[r].since
        /\ c.script = "none" /\ c.reply = "sent" /\ c.waited = 0
    BY <1>2, <1>11 DEF ReleaseReturns, Ended, NoCall, Slot, Call
  <2>3. /\ late' = late \/ late' = late \cup GivenUp(r)
        /\ leases' = leases /\ age' = age /\ keyAge' = keyAge
        /\ count' \in [Node -> Nat]
    BY <1>2, <1>11 DEF ReleaseReturns
  <2>4. CallFits(r)'
    BY <1>1, <1>3, <2>2, <2>3 DEF CallFits
  <2>5. TimerFits(r)' /\ LeaseFits(r)'
    BY <1>1, <1>2a, <2>2, <2>3 DEF CallFits, TimerFits, LeaseFits, Holding
  <2>. QED
    BY <2>1, <2>3, <2>4, <2>5
<1>12. CASE ClientGone(r)
  <2>1. /\ slot' \in [Request -> Slot] /\ call' \in [Request -> Call]
        /\ \A m \in Request \ {r} : slot'[m] = slot[m] /\ call'[m] = call[m]
    BY <1>2, <1>12, SlotUpdates DEF ClientGone, NoCall, Call
  <2>2. /\ slot[r].pc = "running" /\ slot[r].worker # "off"
        /\ s.pc = slot[r].pc /\ s.backend = slot[r].backend
        /\ s.worker = "off" /\ s.tick = 0 /\ s.since = 0
        /\ c.script = "none" /\ c.reply = "sent" /\ c.waited = 0
    BY <1>2, <1>12 DEF ClientGone, Stopped, NoCall, Slot, Call
  <2>3. /\ late' = late \/ late' = late \cup GivenUp(r)
        /\ leases' = leases /\ age' = age /\ keyAge' = keyAge
        /\ count' \in [Node -> Nat]
    BY <1>2, <1>12 DEF ClientGone
  <2>4. CallFits(r)'
    BY <1>1, <1>3, <2>2, <2>3 DEF CallFits
  <2>5. TimerFits(r)' /\ LeaseFits(r)'
    BY <1>1, <1>2a, <2>2, <2>3 DEF CallFits, TimerFits, LeaseFits, Holding
  <2>. QED
    BY <2>1, <2>3, <2>4, <2>5
<1>13. CASE FinishInMemory(r)
  <2>1. /\ slot' \in [Request -> Slot] /\ call' \in [Request -> Call]
        /\ \A m \in Request \ {r} : slot'[m] = slot[m] /\ call'[m] = call[m]
    BY <1>2, <1>13, SlotUpdates DEF FinishInMemory, Call
  <2>2. /\ slot[r].pc = "running" /\ slot[r].backend = "memory"
        /\ s.pc = "ended" /\ s.backend = "none"
        /\ s.worker = slot[r].worker /\ s.tick = slot[r].tick /\ s.since = slot[r].since
        /\ c = call[r]
    BY <1>2, <1>13 DEF FinishInMemory, Ended, Slot, Call
  <2>3. /\ late' = late \/ late' = late \cup GivenUp(r)
        /\ leases' = leases /\ age' = age /\ keyAge' = keyAge
        /\ count' \in [Node -> Nat]
    BY <1>2, <1>13 DEF FinishInMemory
  <2>4. CallFits(r)'
    BY <1>1, <1>3, <2>2, <2>3 DEF CallFits
  <2>5. TimerFits(r)' /\ LeaseFits(r)'
    BY <1>1, <1>2a, <2>2, <2>3 DEF CallFits, TimerFits, LeaseFits, Holding
  <2>. QED
    BY <2>1, <2>3, <2>4, <2>5
<1>14. CASE FinishInRedis(r)
  <2>1. /\ slot' \in [Request -> Slot] /\ call' \in [Request -> Call]
        /\ \A m \in Request \ {r} : slot'[m] = slot[m] /\ call'[m] = call[m]
    BY <1>2, <1>14, SlotUpdates DEF FinishInRedis, Sent, Call
  <2>2. /\ slot[r].pc = "running" /\ slot[r].backend = "redis"
        /\ s.pc = "releasing" /\ s.backend = slot[r].backend
        /\ s.worker = "off" /\ s.tick = 0 /\ s.since = 0
        /\ c.script = "release" /\ c.reply = "sent" /\ c.waited = 0
    BY <1>2, <1>14 DEF FinishInRedis, ReleaseBegun, Stopped, Sent, Slot, Call
  <2>3. /\ late' = late \/ late' = late \cup GivenUp(r)
        /\ leases' = leases /\ age' = age /\ keyAge' = keyAge
        /\ count' \in [Node -> Nat]
    BY <1>2, <1>14 DEF FinishInRedis
  <2>4. CallFits(r)'
    BY <1>1, <1>3, <2>2, <2>3 DEF CallFits
  <2>5. TimerFits(r)' /\ LeaseFits(r)'
    BY <1>1, <1>2a, <2>2, <2>3 DEF CallFits, TimerFits, LeaseFits, Holding
  <2>. QED
    BY <2>1, <2>3, <2>4, <2>5
<1>. QED
  BY <1>5, <1>6, <1>7, <1>8, <1>9, <1>10, <1>11, <1>12, <1>13, <1>14 DEF ClientStep

\* A crash ends the requests of one replica; their leases stay.
LEMMA CrashKeeps ==
    ASSUME LeaseInv, NEW n \in Node, Crash(n) PROVE LeaseInv'
<1>. DEFINE dead == {r \in Request : slot[r].node = n /\ slot[r].pc # "idle"}
<1>1. TypeOK /\ LimitHeld /\ \A m \in Request : CallFits(m) /\ TimerFits(m) /\ LeaseFits(m)
  BY DEF LeaseInv
<1>2. /\ slot' = [r \in Request |-> IF r \in dead THEN Ended(Stopped(slot[r])) ELSE slot[r]]
      /\ call' = [r \in Request |-> IF r \in dead THEN NoCall ELSE call[r]]
      /\ late' = late \cup UNION {GivenUp(r) : r \in dead}
      /\ count' = [count EXCEPT ![n] = 0]
      /\ leases' = leases /\ age' = age /\ keyAge' = keyAge
  BY DEF Crash
<1>3. \A r \in Request : GivenUp(r) \subseteq {r} \X Script
  BY DEF GivenUp
<1>4. \A r \in Request : slot[r] \in Slot /\ call[r] \in Call
  BY <1>1 DEF TypeOK
<1>5. TypeOK'
  <2>1. slot' \in [Request -> Slot]
    BY <1>2, <1>4, SlotUpdates
  <2>2. call' \in [Request -> Call]
    BY <1>2, <1>4 DEF NoCall, Call
  <2>3. late' \subseteq Request \X Script
    BY <1>1, <1>2, <1>3 DEF TypeOK
  <2>4. count' \in [Node -> Nat]
    BY <1>1, <1>2 DEF TypeOK
  <2>. QED
    BY <1>1, <1>2, <2>1, <2>2, <2>3, <2>4 DEF TypeOK
<1>6. LimitHeld'
  BY <1>1, <1>2 DEF LimitHeld
<1>7. ASSUME NEW m \in Request PROVE CallFits(m)' /\ TimerFits(m)' /\ LeaseFits(m)'
  <2>1. <<m, "release">> \in late' => <<m, "release">> \in late \/ m \in dead
    BY <1>2, <1>3
  <2>2. CASE m \in dead
    <3>1. slot'[m].pc = "ended" /\ slot'[m].worker = "off" /\ call'[m].script = "none"
      BY <1>2, <1>4, <2>2 DEF Ended, Stopped, NoCall, Slot
    <3>. QED
      BY <1>1, <1>2, <3>1 DEF CallFits, TimerFits, LeaseFits, Holding
  <2>3. CASE m \notin dead
    <3>1. slot'[m] = slot[m] /\ call'[m] = call[m]
      BY <1>2, <2>3
    <3>2. CallFits(m)'
      BY <1>1, <2>1, <2>3, <3>1 DEF CallFits
    <3>. QED
      BY <1>1, <1>2, <3>1, <3>2 DEF TimerFits, LeaseFits, Holding
  <2>. QED
    BY <2>2, <2>3
<1>. QED
  BY <1>5, <1>6, <1>7 DEF LeaseInv

\* Time passes: timers advance together, and the key is dropped only when
\* every lease in it has expired.
LEMMA TickKeeps ==
    ASSUME LeaseInv, Tick PROVE LeaseInv'
<1>1. TypeOK /\ LimitHeld /\ \A m \in Request : CallFits(m) /\ TimerFits(m) /\ LeaseFits(m)
  BY DEF LeaseInv
<1>2. \A r \in Request : call[r].script # "none" => call[r].waited < OperationTimeout
  BY DEF Tick
<1>3. \A r \in Request : slot[r].worker # "off" => slot[r].tick > 0
  BY DEF Tick
<1>4. call' = [r \in Request |-> IF call[r].script = "none" THEN call[r]
                                ELSE [call[r] EXCEPT !.waited = @ + 1]]
  BY DEF Tick
<1>5. slot' = [r \in Request |-> IF slot[r].worker = "off" THEN slot[r]
                                ELSE [slot[r] EXCEPT !.tick = @ - 1, !.since = @ + 1]]
  BY DEF Tick
<1>6. /\ age' = [r \in Request |-> Older(age[r])]
      /\ keyAge' = Older(keyAge)
      /\ leases' = IF keyAge' = KeyLife THEN {} ELSE leases
      /\ late' = late /\ count' = count
  BY DEF Tick
<1>7. \A r \in Request : slot[r] \in Slot /\ call[r] \in Call /\ age[r] \in 0..KeyLife
  BY <1>1 DEF TypeOK
<1>8. \A a \in 0..KeyLife : /\ Older(a) \in 0..KeyLife
                             /\ a =< Older(a) /\ Older(a) =< a + 1
                             /\ \A b \in 0..KeyLife : a =< b => Older(a) =< Older(b)
  BY DEF Older
<1>9. \A r \in Request : /\ age'[r] = Older(age[r]) /\ age'[r] \in 0..KeyLife
                          /\ age[r] =< age'[r] /\ age'[r] =< age[r] + 1
  BY <1>6, <1>7, <1>8
<1>10. keyAge \in 0..KeyLife /\ keyAge' \in 0..KeyLife /\ keyAge' =< keyAge + 1
  BY <1>1, <1>6, <1>8 DEF TypeOK
<1>11. ASSUME NEW r \in Request
       PROVE  /\ call'[r] \in Call
              /\ call'[r].script = call[r].script /\ call'[r].reply = call[r].reply
              /\ call[r].script # "none" => call'[r].waited = call[r].waited + 1
  <2>1. CASE call[r].script = "none"
    BY <1>4, <1>7, <2>1
  <2>2. CASE call[r].script # "none"
    <3>1. call[r].waited \in 0..OperationTimeout /\ call[r].waited < OperationTimeout
      BY <1>2, <1>7, <2>2 DEF Call
    <3>2. call[r].waited + 1 \in 0..OperationTimeout
      BY <3>1
    <3>3. call'[r] = [call[r] EXCEPT !.waited = @ + 1]
      BY <1>4, <2>2
    <3>. QED
      BY <1>7, <2>2, <3>2, <3>3 DEF Call
  <2>. QED
    BY <2>1, <2>2
<1>12. ASSUME NEW r \in Request
       PROVE  /\ slot'[r] \in Slot
              /\ slot'[r].pc = slot[r].pc /\ slot'[r].backend = slot[r].backend
              /\ slot'[r].worker = slot[r].worker
              /\ slot[r].worker # "off" => /\ slot'[r].tick = slot[r].tick - 1
                                           /\ slot'[r].since = slot[r].since + 1
  <2>1. CASE slot[r].worker = "off"
    BY <1>5, <1>7, <2>1
  <2>2. CASE slot[r].worker # "off"
    <3>1. slot[r].tick \in 0..RenewInterval /\ slot[r].tick > 0 /\ slot[r].since \in Nat
      BY <1>3, <1>7, <2>2 DEF Slot
    <3>2. slot[r].tick - 1 \in 0..RenewInterval /\ slot[r].since + 1 \in Nat
      BY <3>1
    <3>3. slot'[r] = [slot[r] EXCEPT !.tick = @ - 1, !.since = @ + 1]
      BY <1>5, <2>2
    <3>. QED
      BY <1>7, <2>2, <3>2, <3>3 DEF Slot
  <2>. QED
    BY <2>1, <2>2
<1>13. TypeOK'
  <2>1. slot' \in [Request -> Slot] /\ call' \in [Request -> Call]
    BY <1>4, <1>5, <1>11, <1>12
  <2>2. age' \in [Request -> 0..KeyLife]
    BY <1>6, <1>9
  <2>. QED
    BY <1>1, <1>6, <1>10, <2>1, <2>2 DEF TypeOK
<1>14. LimitHeld'
  <2>1. CASE keyAge' = KeyLife
    BY <1>6, <2>1, FS_EmptySet DEF LimitHeld
  <2>2. CASE keyAge' # KeyLife
    BY <1>1, <1>6, <2>2 DEF LimitHeld
  <2>. QED
    BY <2>1, <2>2
<1>15. ASSUME NEW m \in Request PROVE CallFits(m)' /\ TimerFits(m)' /\ LeaseFits(m)'
  <2>1. /\ slot[m].tick \in Nat /\ slot[m].since \in Nat /\ call[m].waited \in Nat
    BY <1>7 DEF Slot, Call
  <2>2. age[m] \in Nat /\ age'[m] \in Nat /\ age[m] =< age'[m] /\ age'[m] =< age[m] + 1
    BY <1>7, <1>9
  <2>3. CallFits(m)'
    BY <1>1, <1>6, <1>11, <1>12 DEF CallFits
  <2>4. TimerFits(m)'
    <3>1. CASE slot[m].worker = "waiting"
      BY <1>1, <1>12, <2>1, <2>2, <3>1 DEF TimerFits, Holding
    <3>2. CASE slot[m].worker = "renewing"
      <4>1. call'[m].waited = call[m].waited + 1
        BY <1>1, <1>11, <3>2 DEF CallFits
      <4>. QED
        BY <1>1, <1>12, <2>1, <2>2, <3>2, <4>1 DEF TimerFits, Holding
    <3>3. CASE slot[m].worker = "off"
      BY <1>12, <3>3 DEF TimerFits, Holding
    <3>. QED
      BY <1>7, <3>1, <3>2, <3>3 DEF Slot
  <2>5. m \in leases => keyAge =< age[m]
    BY <1>1 DEF LeaseFits
  <2>6. m \in leases => keyAge' =< age'[m]
    BY <1>6, <1>7, <1>8, <1>9, <1>10, <2>5
  <2>7. m \in leases /\ age'[m] < LeaseDuration => m \in leases'
    BY <1>6, <1>10, <2>2, <2>6
  <2>8. m \in leases' => m \in leases
    BY <1>6
  <2>9. call[m].script \in {"acquire", "renew"} => call[m].waited + 1 < LeaseDuration
    BY <1>2, <2>1
  <2>10. LeaseFits(m)'
    BY <1>1, <1>11, <1>12, <2>1, <2>2, <2>6, <2>7, <2>8, <2>9 DEF LeaseFits, Holding
  <2>. QED
    BY <2>3, <2>4, <2>10
<1>. QED
  BY <1>13, <1>14, <1>15 DEF LeaseInv

\* LeaseInv is an invariant of token_limit.go: whatever calls are lost, late
\* or answered twice, and whichever replica dies, the slots, their timers and
\* the sorted set agree.
THEOREM LeaseInvariant == Spec => []LeaseInv
<1>1. Init => LeaseInv
  BY LeaseInit
<1>2. LeaseInv /\ [Next]_vars => LeaseInv'
  <2>. SUFFICES ASSUME LeaseInv, [Next]_vars PROVE LeaseInv'
    OBVIOUS
  <2>1. CASE Tick
    BY <2>1, TickKeeps
  <2>2. ASSUME NEW r \in Request,
               \/ Acquire(r) \/ ClientStep(r)
               \/ ClientGone(r) \/ FinishInMemory(r) \/ FinishInRedis(r)
        PROVE  LeaseInv'
    BY <2>2, RequestKeeps
  <2>3. ASSUME NEW r \in Request, RedisRuns(r) PROVE LeaseInv'
    BY <2>3, RedisRunsKeeps
  <2>4. ASSUME NEW r \in Request, NEW k \in Script, RedisRunsLate(r, k) PROVE LeaseInv'
    BY <2>4, RedisRunsLateKeeps
  <2>5. ASSUME NEW n \in Node, Crash(n) PROVE LeaseInv'
    BY <2>5, CrashKeeps
  <2>6. CASE UNCHANGED vars
    BY <2>6 DEF vars, LeaseInv, TypeOK, LimitHeld, CallFits, TimerFits, LeaseFits, Holding
  <2>. QED
    BY <2>1, <2>2, <2>3, <2>4, <2>5, <2>6 DEF Next
<1>. QED
  BY <1>1, <1>2, PTL DEF Spec

\* The sorted set is within the token's limit (tokenConcurrencyAcquireScript).
THEOREM LimitIsHeld == Spec => []LimitHeld
<1>1. LeaseInv => LimitHeld
  BY DEF LeaseInv
<1>. QED
  BY <1>1, LeaseInvariant, PTL

\* Nobody takes the place of a request that holds an unexpired lease: it is a
\* member of the sorted set.
THEOREM HoldersAreCounted == Spec => []HolderIsCounted
<1>1. LeaseInv => HolderIsCounted
  BY DEF LeaseInv, LeaseFits, HolderIsCounted
<1>. QED
  BY <1>1, LeaseInvariant, PTL

\* At most Limit requests run on an unexpired lease, over all replicas.
HoldersWithinLimit ==
    Cardinality({r \in Request : Holding(r) /\ age[r] < LeaseDuration}) =< Limit

\* What the concurrency limit of token_limit.go promises while Redis serves:
\* at most Limit requests of all replicas run at a time, those apart whose
\* lease has run out and that are about to be cancelled (OverrunBounded).
THEOREM HoldersAreLimited == Spec => []HoldersWithinLimit
<1>1. ASSUME LeaseInv PROVE HoldersWithinLimit
  <2> DEFINE H == {r \in Request : Holding(r) /\ age[r] < LeaseDuration}
  <2>1. H \subseteq leases /\ IsFiniteSet(leases) /\ Cardinality(leases) =< Limit
    BY <1>1, RequestAssumption, FS_Subset DEF LeaseInv, LeaseFits, TypeOK, LimitHeld
  <2>2. IsFiniteSet(H) /\ Cardinality(H) =< Cardinality(leases)
    BY <2>1, FS_Subset
  <2>3. Cardinality(H) \in Nat /\ Cardinality(leases) \in Nat
    BY <2>1, <2>2, FS_CardinalityType
  <2>. QED
    BY <2>1, <2>2, <2>3 DEF HoldersWithinLimit
<1>2. LeaseInv => HoldersWithinLimit
  BY <1>1
<1>. QED
  BY <1>2, LeaseInvariant, PTL

\* A request is cancelled less than two call timeouts after its lease ran out
\* (startRenewal), whatever the durations.
THEOREM OverrunBounded == Spec => []OverrunIsBounded
<1>1. LeaseInv => OverrunIsBounded
  <2>. SUFFICES ASSUME LeaseInv, NEW r \in Request, Holding(r)
                PROVE  age[r] < LeaseDuration + 2 * OperationTimeout
    BY DEF OverrunIsBounded
  <2>1. /\ slot[r].tick \in Nat /\ slot[r].since \in Nat /\ age[r] \in Nat
        /\ call[r].waited \in 0..OperationTimeout
        /\ slot[r].worker \in {"waiting", "renewing"}
    BY DEF LeaseInv, TypeOK, Slot, Call, Holding
  <2>. QED
    BY <2>1 DEF LeaseInv, TimerFits
<1>. QED
  BY <1>1, LeaseInvariant, PTL

-----------------------------------------------------------------------------
(* The counter that a process falls back to.                               *)

\* A slot of the counter of replica n.
OnCounter(s, n) == s.node = n /\ s.pc = "running" /\ s.backend = "memory"
Counted(n) == {r \in Request : OnCounter(slot[r], n)}

\* A slot update that neither takes nor gives back a place on a counter.
LEMMA CounterKept ==
    ASSUME MemoryCountExact, UNCHANGED count,
           \A m \in Request, n \in Node : OnCounter(slot'[m], n) <=> OnCounter(slot[m], n)
    PROVE  MemoryCountExact'
<1>1. \A n \in Node : count[n] = Cardinality(Counted(n))
  BY DEF MemoryCountExact, Counted, OnCounter
<1>2. \A n \in Node : Counted(n)' = Counted(n)
  BY DEF Counted
<1>3. \A n \in Node : count'[n] = Cardinality(Counted(n)')
  BY <1>1, <1>2
<1>. QED
  BY <1>3 DEF MemoryCountExact, Counted, OnCounter

\* A request that fails to reach Redis takes a place, if there is one.
LEMMA CounterTaken ==
    ASSUME LeaseInv, MemoryCountExact, NEW r \in Request, AcquireFails(r)
    PROVE  MemoryCountExact'
<1> DEFINE n == slot[r].node
<1>1. /\ slot \in [Request -> Slot] /\ slot[r] \in Slot /\ n \in Node
      /\ slot[r].pc = "acquiring" /\ count \in [Node -> Nat]
  BY DEF LeaseInv, TypeOK, CallFits, AcquireFails, Slot
<1>2. CASE count[n] < Limit
  <2>1. /\ slot' = [slot EXCEPT ![r] = InMemory(slot[r])]
        /\ count' = [count EXCEPT ![n] = count[n] + 1]
    BY <1>1, <1>2 DEF AcquireFails
  <2>2. /\ InMemory(slot[r]).node = n /\ InMemory(slot[r]).pc = "running"
        /\ InMemory(slot[r]).backend = "memory"
    BY <1>1 DEF InMemory, Slot
  <2>3. ASSUME NEW m \in Node PROVE count'[m] = Cardinality(Counted(m)')
    <3>1. count[m] = Cardinality(Counted(m)) /\ IsFiniteSet(Counted(m))
      BY RequestAssumption, FS_Subset DEF MemoryCountExact, Counted, OnCounter
    <3>2. CASE m = n
      <4>1. r \notin Counted(m) /\ Counted(m)' = Counted(m) \cup {r}
        BY <1>1, <2>1, <2>2, <3>2 DEF Counted, OnCounter
      <4>2. Cardinality(Counted(m)') = Cardinality(Counted(m)) + 1
        BY <3>1, <4>1, FS_AddElement
      <4>. QED
        BY <1>1, <2>1, <3>1, <3>2, <4>2
    <3>3. CASE m # n
      <4>1. Counted(m)' = Counted(m)
        BY <1>1, <2>1, <2>2, <3>3 DEF Counted, OnCounter
      <4>. QED
        BY <1>1, <2>1, <3>1, <3>3, <4>1
    <3>. QED
      BY <3>2, <3>3
  <2>. QED
    BY <2>3 DEF MemoryCountExact, Counted, OnCounter
<1>3. CASE ~(count[n] < Limit)
  <2>1. slot' = [slot EXCEPT ![r] = Ended(slot[r])] /\ count' = count
    BY <1>1, <1>3 DEF AcquireFails
  <2>2. Ended(slot[r]).pc = "ended"
    BY <1>1 DEF Ended, Slot
  <2>3. \A m \in Request, x \in Node : OnCounter(slot'[m], x) <=> OnCounter(slot[m], x)
    BY <1>1, <2>1, <2>2 DEF OnCounter
  <2>. QED
    BY <2>1, <2>3, CounterKept
<1>. QED
  BY <1>2, <1>3

\* releaseTokenConcurrencyMemory gives the place back; the counter is not 0.
LEMMA CounterReturned ==
    ASSUME LeaseInv, MemoryCountExact, NEW r \in Request, FinishInMemory(r)
    PROVE  MemoryCountExact'
<1> DEFINE n == slot[r].node
<1>1. /\ slot \in [Request -> Slot] /\ slot[r] \in Slot /\ n \in Node
      /\ slot[r].pc = "running" /\ slot[r].backend = "memory" /\ count \in [Node -> Nat]
  BY DEF LeaseInv, TypeOK, FinishInMemory, Slot
<1>2. /\ slot' = [slot EXCEPT ![r] = Ended(slot[r])] /\ Ended(slot[r]).pc = "ended"
      /\ count' = [count EXCEPT ![n] = IF count[n] > 1 THEN count[n] - 1 ELSE 0]
  BY <1>1 DEF FinishInMemory, Ended, Slot
<1>3. ASSUME NEW m \in Node PROVE count'[m] = Cardinality(Counted(m)')
  <2>1. count[m] = Cardinality(Counted(m)) /\ IsFiniteSet(Counted(m)) /\ count[m] \in Nat
    BY <1>1, RequestAssumption, FS_Subset DEF MemoryCountExact, Counted, OnCounter
  <2>2. CASE m = n
    <3>1. r \in Counted(m) /\ Counted(m)' = Counted(m) \ {r}
      BY <1>1, <1>2, <2>2 DEF Counted, OnCounter
    <3>2. /\ Cardinality(Counted(m)') = Cardinality(Counted(m)) - 1
          /\ Cardinality(Counted(m)') \in Nat
      BY <2>1, <3>1, FS_RemoveElement, FS_CardinalityType
    <3>. QED
      BY <1>1, <1>2, <2>1, <2>2, <3>2
  <2>3. CASE m # n
    <3>1. Counted(m)' = Counted(m)
      BY <1>1, <1>2, <2>3 DEF Counted, OnCounter
    <3>. QED
      BY <1>1, <1>2, <2>1, <2>3, <3>1
  <2>. QED
    BY <2>2, <2>3
<1>. QED
  BY <1>3 DEF MemoryCountExact, Counted, OnCounter

\* A replica that dies takes its counter and its requests with it.
LEMMA CounterLost ==
    ASSUME LeaseInv, MemoryCountExact, NEW n \in Node, Crash(n)
    PROVE  MemoryCountExact'
<1> DEFINE dead == {r \in Request : slot[r].node = n /\ slot[r].pc # "idle"}
<1>1. slot \in [Request -> Slot] /\ count \in [Node -> Nat]
  BY DEF LeaseInv, TypeOK
<1>2. /\ slot' = [r \in Request |-> IF r \in dead THEN Ended(Stopped(slot[r])) ELSE slot[r]]
      /\ count' = [count EXCEPT ![n] = 0]
  BY DEF Crash
<1>3. \A r \in Request : Ended(Stopped(slot[r])).pc = "ended"
  BY <1>1 DEF Ended, Stopped, Slot
<1>4. ASSUME NEW m \in Node PROVE count'[m] = Cardinality(Counted(m)')
  <2>1. count[m] = Cardinality(Counted(m))
    BY DEF MemoryCountExact, Counted, OnCounter
  <2>2. CASE m = n
    <3>1. Counted(m)' = {}
      BY <1>2, <1>3, <2>2 DEF Counted, OnCounter
    <3>. QED
      BY <1>1, <1>2, <2>2, <3>1, FS_EmptySet
  <2>3. CASE m # n
    <3>1. Counted(m)' = Counted(m)
      BY <1>2, <1>3, <2>3 DEF Counted, OnCounter
    <3>. QED
      BY <1>1, <1>2, <2>1, <2>3, <3>1
  <2>. QED
    BY <2>2, <2>3
<1>. QED
  BY <1>4 DEF MemoryCountExact, Counted, OnCounter

\* All other steps leave the counters and who is on them alone.
LEMMA CounterIdle ==
    ASSUME LeaseInv, MemoryCountExact,
           \/ Tick \/ UNCHANGED vars
           \/ \E r \in Request :
                 \/ Acquire(r) \/ AcquireAnswered(r) \/ TickerFires(r) \/ RenewAnswered(r)
                 \/ RenewFails(r) \/ ReleaseReturns(r) \/ RedisRuns(r) \/ ClientGone(r)
                 \/ FinishInRedis(r) \/ \E k \in Script : RedisRunsLate(r, k)
    PROVE  MemoryCountExact'
<1>1. /\ slot \in [Request -> Slot] /\ (\A r \in Request : slot[r] \in Slot)
      /\ \A r \in Request : CallFits(r)
  BY DEF LeaseInv, TypeOK
<1>2. ASSUME UNCHANGED <<slot, count>> PROVE MemoryCountExact'
  BY <1>2, CounterKept
<1>3. ASSUME NEW r \in Request, NEW s, slot' = [slot EXCEPT ![r] = s], UNCHANGED count,
             \A n \in Node : OnCounter(s, n) <=> OnCounter(slot[r], n)
      PROVE  MemoryCountExact'
  <2>1. \A m \in Request, n \in Node : OnCounter(slot'[m], n) <=> OnCounter(slot[m], n)
    BY <1>1, <1>3
  <2>. QED
    BY <1>3, <2>1, CounterKept
<1>4. CASE Tick
  <2>1. ASSUME NEW m \in Request
        PROVE  /\ slot'[m].node = slot[m].node /\ slot'[m].pc = slot[m].pc
               /\ slot'[m].backend = slot[m].backend
    <3>1. \/ slot'[m] = slot[m]
          \/ slot'[m] = [slot[m] EXCEPT !.tick = @ - 1, !.since = @ + 1]
      BY <1>4 DEF Tick
    <3>. QED
      BY <1>1, <3>1 DEF Slot
  <2>2. UNCHANGED count
    BY <1>4 DEF Tick
  <2>. QED
    BY <2>1, <2>2, CounterKept DEF OnCounter
<1>5. CASE UNCHANGED vars
  BY <1>2, <1>5 DEF vars
<1>6. ASSUME NEW r \in Request, RedisRuns(r) \/ \E k \in Script : RedisRunsLate(r, k)
      PROVE  MemoryCountExact'
  BY <1>2, <1>6 DEF RedisRuns, RedisRunsLate
<1>7. ASSUME NEW r \in Request, Acquire(r) PROVE MemoryCountExact'
  <2> DEFINE s == [slot[r] EXCEPT !.pc = "acquiring"]
  <2>1. slot' = [slot EXCEPT ![r] = s] /\ UNCHANGED count /\ slot[r].pc = "idle"
    BY <1>1, <1>7 DEF Acquire
  <2>2. s.pc = "acquiring"
    BY <1>1 DEF Slot
  <2> HIDE DEF s
  <2>. QED
    BY <1>3, <2>1, <2>2 DEF OnCounter
<1>8. ASSUME NEW r \in Request, AcquireAnswered(r) PROVE MemoryCountExact'
  <2>1. PICK s \in {Renewing(slot[r]), Ended(slot[r])} : slot' = [slot EXCEPT ![r] = s]
    BY <1>1, <1>8 DEF AcquireAnswered
  <2>2. UNCHANGED count /\ slot[r].pc = "acquiring"
    BY <1>1, <1>8 DEF AcquireAnswered, CallFits
  <2>3. s.backend = "redis" \/ s.pc = "ended"
    BY <1>1, <2>1 DEF Renewing, Ended, Slot
  <2>. QED
    BY <1>3, <2>1, <2>2, <2>3 DEF OnCounter
<1>9. ASSUME NEW r \in Request,
             TickerFires(r) \/ RenewAnswered(r) \/ RenewFails(r) \/ ClientGone(r)
      PROVE  MemoryCountExact'
  <2>1. PICK s \in {[slot[r] EXCEPT !.worker = "renewing", !.tick = RenewInterval],
                    Renewed(slot[r]), Stopped(slot[r]), [slot[r] EXCEPT !.worker = "waiting"]} :
            slot' = [slot EXCEPT ![r] = s]
    BY <1>1, <1>9 DEF TickerFires, RenewAnswered, RenewFails, ClientGone
  <2>2. UNCHANGED count
    BY <1>9 DEF TickerFires, RenewAnswered, RenewFails, ClientGone
  <2>3. s.node = slot[r].node /\ s.pc = slot[r].pc /\ s.backend = slot[r].backend
    BY <1>1, <2>1 DEF Renewed, Stopped, Slot
  <2>4. \A n \in Node : OnCounter(s, n) <=> OnCounter(slot[r], n)
    BY <2>3 DEF OnCounter
  <2>5. slot' = [slot EXCEPT ![r] = s]
    BY <2>1
  <2>. QED
    BY <1>3, <2>2, <2>4, <2>5
<1>10. ASSUME NEW r \in Request, FinishInRedis(r) PROVE MemoryCountExact'
  <2>1. /\ slot' = [slot EXCEPT ![r] = ReleaseBegun(slot[r])] /\ UNCHANGED count
        /\ slot[r].backend = "redis"
    BY <1>1, <1>10 DEF FinishInRedis
  <2>2. ReleaseBegun(slot[r]).pc = "releasing"
    BY <1>1 DEF ReleaseBegun, Stopped, Slot
  <2>. QED
    BY <1>3, <2>1, <2>2 DEF OnCounter
<1>11. ASSUME NEW r \in Request, ReleaseReturns(r) PROVE MemoryCountExact'
  <2>1. slot' = [slot EXCEPT ![r] = Ended(slot[r])] /\ UNCHANGED count
    BY <1>1, <1>11 DEF ReleaseReturns
  <2>2. slot[r].pc = "releasing" /\ Ended(slot[r]).pc = "ended"
    BY <1>1, <1>11 DEF ReleaseReturns, CallFits, Ended, Slot
  <2>. QED
    BY <1>3, <2>1, <2>2 DEF OnCounter
<1>. QED
  BY <1>4, <1>5, <1>6, <1>7, <1>8, <1>9, <1>10, <1>11

\* tokenConcurrencyCount of a process is the number of its requests that run
\* without a lease: a fallback that follows a script that ran after all, a
\* release and a crash all leave it exact, so no place is lost or given twice.
THEOREM MemoryCountIsExact == Spec => []MemoryCountExact
<1>1. Init => MemoryCountExact
  <2>. SUFFICES ASSUME Init, NEW n \in Node
                PROVE  count[n] = Cardinality(Counted(n))
    BY DEF MemoryCountExact, Counted, OnCounter
  <2>1. Counted(n) = {}
    <3>1. \A r \in Request : slot[r].pc = "idle"
      BY DEF Init, NewSlot
    <3>. QED
      BY <3>1 DEF Counted, OnCounter
  <2>. QED
    BY <2>1, FS_EmptySet DEF Init
<1>2. ASSUME LeaseInv, MemoryCountExact, [Next]_vars PROVE MemoryCountExact'
  <2>1. ASSUME NEW r \in Request, AcquireFails(r) PROVE MemoryCountExact'
    BY <1>2, <2>1, CounterTaken
  <2>2. ASSUME NEW r \in Request, FinishInMemory(r) PROVE MemoryCountExact'
    BY <1>2, <2>2, CounterReturned
  <2>3. ASSUME NEW n \in Node, Crash(n) PROVE MemoryCountExact'
    BY <1>2, <2>3, CounterLost
  <2>. QED
    BY <1>2, <2>1, <2>2, <2>3, CounterIdle DEF Next, ClientStep
<1>3. LeaseInv /\ MemoryCountExact /\ [Next]_vars => MemoryCountExact'
  BY <1>2
<1>. QED
  BY <1>1, <1>3, LeaseInvariant, PTL DEF Spec

=============================================================================
