-------------------------- MODULE HostBreakersProofs --------------------------
(***************************************************************************)
(* Proofs about the circuit breakers of webhook delivery, for any number of  *)
(* hosts, callers, failures and any capacity, and any durations with         *)
(* CallTime < Cooldown.                                                      *)
(***************************************************************************)
EXTENDS HostBreakers, FiniteSetTheorems, TLAPS

(***************************************************************************)
(* The inductive invariant.  A call to a host whose breaker is not closed is *)
(* at least as old as the breaker's state: when the breaker is Ready again,  *)
(* Cooldown later, every such call has ended, so that the probe let through  *)
(* then is alone.  OneProbeAtATime is not inductive without it.             *)
(***************************************************************************)
CallsAreOlder ==
    \A h \in DOMAIN breakers : breakers[h].state # "closed" =>
        \A c \in Callers : Calling(c, h) => calls[c].age >= breakers[h].since

BInv == BreakersTypeOK /\ CallsAreOlder /\ OneProbeAtATime

-----------------------------------------------------------------------------
(* The operators on one breaker                                              *)

\* Less than the counter's threshold while closed, else of type Breaker.
GoodBreaker(b) == b \in Breaker /\ (b.state = "closed" => b.failures < MaxFails)

LEMMA NewIsGood == GoodBreaker(NewCircuitBreaker)
  BY BreakerAssumption DEF GoodBreaker, NewCircuitBreaker, CircuitBreaker, Breaker

LEMMA ArmedIsGood ==
  ASSUME NEW b, GoodBreaker(b)
  PROVE  /\ GoodBreaker(Armed(b))
         /\ Armed(b).state \in {"closed", "half-open"}
         /\ Armed(b).state = "half-open" => b.state # "closed" /\ Armed(b).since = 0
  BY BreakerAssumption DEF GoodBreaker, Breaker, Armed, CircuitBreaker

LEMMA SucceededIsGood ==
  ASSUME NEW b, GoodBreaker(b)
  PROVE  GoodBreaker(Succeeded(b)) /\ Succeeded(b).state = "closed"
  BY BreakerAssumption DEF GoodBreaker, Breaker, Succeeded, CircuitBreaker

LEMMA FailedIsGood ==
  ASSUME NEW b, GoodBreaker(b)
  PROVE  /\ GoodBreaker(Failed(b))
         /\ Failed(b).state # "half-open"
         /\ Failed(b).state = "open" =>
                Failed(b).since = 0 \/ (b.state = "open" /\ Failed(b).since = b.since)
<1> DEFINE kept == IF Window > 0 /\ b.last > Window THEN 0 ELSE b.failures
           n == Older(kept, MaxFails)
<1>1. kept \in 0..MaxFails /\ n \in 0..MaxFails
  BY BreakerAssumption DEF GoodBreaker, Breaker, Older
<1>2. CASE b.state = "half-open" \/ n >= MaxFails
  <2>1. Failed(b) = CircuitBreaker("open", n, 0, 0)
    BY <1>2 DEF Failed
  <2> HIDE DEF n
  <2> QED BY <2>1, <1>1, BreakerAssumption DEF GoodBreaker, Breaker, CircuitBreaker
<1>3. CASE ~ (b.state = "half-open" \/ n >= MaxFails)
  <2>1. Failed(b) = CircuitBreaker(b.state, n, b.since, 0)
    BY <1>3 DEF Failed
  <2> HIDE DEF n
  <2> QED BY <2>1, <1>1, <1>3, BreakerAssumption DEF GoodBreaker, Breaker, CircuitBreaker
<1> QED BY <1>2, <1>3

LEMMA AgedIsGood ==
  ASSUME NEW b, GoodBreaker(b)
  PROVE  /\ GoodBreaker(Aged(b)) /\ Aged(b).state = b.state
         /\ Aged(b).since <= b.since + 1
  BY BreakerAssumption DEF GoodBreaker, Breaker, Aged, Older, CircuitBreaker

-----------------------------------------------------------------------------
(* breakerFor                                                                *)

LEMMA DomainIsFinite ==
  ASSUME BreakersTypeOK
  PROVE  /\ IsFiniteSet(DOMAIN breakers) /\ Cardinality(DOMAIN breakers) \in Nat
         /\ \A h \in DOMAIN breakers : GoodBreaker(breakers[h])
  BY FS_Subset, FS_CardinalityType, BreakerAssumption DEF BreakersTypeOK, GoodBreaker

LEMMA VictimsInDomain == Victims \subseteq DOMAIN breakers
  BY DEF Victims, Closed

\* What holds of any map breakerFor(h) may leave: every breaker in it is one that was there,
\* or the new one of h, and it holds at most Cap.
LEMMA BreakerForIsSound ==
  ASSUME BreakersTypeOK, NEW h \in Hosts, NEW m \in BreakerFor(h)
  PROVE  /\ h \in DOMAIN m /\ DOMAIN m \subseteq Hosts
         /\ m = [k \in DOMAIN m |-> m[k]]
         /\ Cardinality(DOMAIN m) <= Cap
         /\ \A k \in DOMAIN m : GoodBreaker(m[k])
         /\ \A k \in DOMAIN m : IF k \in DOMAIN breakers THEN m[k] = breakers[k]
                                ELSE k = h /\ m[k] = NewCircuitBreaker
<1> DEFINE D == DOMAIN breakers
<1>1. /\ IsFiniteSet(D) /\ Cardinality(D) \in Nat /\ Cardinality(D) <= Cap /\ D \subseteq Hosts
      /\ \A k \in D : GoodBreaker(breakers[k])
  BY DomainIsFinite DEF BreakersTypeOK
<1>2. CASE h \in D
  <2>1. m = breakers
    BY <1>2 DEF BreakerFor
  <2> QED BY <2>1, <1>1, <1>2 DEF BreakersTypeOK
<1>3. CASE h \notin D /\ Cardinality(D) < Cap
  <2>1. m = With(D, h)
    BY <1>3 DEF BreakerFor
  <2>2. Cardinality(D \cup {h}) = Cardinality(D) + 1
    BY <1>1, <1>3, FS_AddElement
  <2> QED BY <2>1, <2>2, <1>1, <1>3, NewIsGood, BreakerAssumption DEF With
<1>4. CASE h \notin D /\ ~ (Cardinality(D) < Cap)
  <2>1. PICK v \in Victims : m = With(D \ {v}, h)
    BY <1>4 DEF BreakerFor
  <2>2. v \in D /\ h \notin D \ {v}
    BY <2>1, <1>4, VictimsInDomain
  <2>3. IsFiniteSet(D \ {v}) /\ Cardinality(D \ {v}) = Cardinality(D) - 1
    BY <1>1, <2>2, FS_RemoveElement
  <2>4. Cardinality((D \ {v}) \cup {h}) = Cardinality(D \ {v}) + 1
    BY <2>2, <2>3, FS_AddElement
  <2>6. DOMAIN m = (D \ {v}) \cup {h}
    BY <2>1 DEF With
  <2>7. \A k \in DOMAIN m : IF k \in D THEN m[k] = breakers[k] ELSE k = h /\ m[k] = NewCircuitBreaker
    BY <2>1, <2>2, <2>6, <1>4 DEF With
  <2>8. \A k \in DOMAIN m : GoodBreaker(m[k])
    BY <2>6, <2>7, <1>1, NewIsGood
  <2>10. Cardinality(DOMAIN m) <= Cap
    BY <2>3, <2>4, <2>6, <1>1, BreakerAssumption
  <2>11. m = [k \in DOMAIN m |-> m[k]]
    BY <2>1 DEF With
  <2>12. h \in DOMAIN m /\ DOMAIN m \subseteq Hosts
    BY <2>6, <1>1
  <2> QED BY <2>7, <2>8, <2>10, <2>11, <2>12
<1> QED BY <1>2, <1>3, <1>4

-----------------------------------------------------------------------------
(* Every step preserves the invariant                                        *)

LEMMA InitBInv == BreakersInit => BInv
<1> SUFFICES ASSUME BreakersInit PROVE BInv
  OBVIOUS
<1>1. DOMAIN breakers = {}
  BY DEF BreakersInit
<1>2. Cardinality(DOMAIN breakers) <= Cap
  BY <1>1, FS_EmptySet, BreakerAssumption
<1> QED BY <1>1, <1>2 DEF BInv, BreakersInit, BreakersTypeOK, CallsAreOlder, OneProbeAtATime

CallType == {Idle} \cup [host : Hosts, age : 0..CallTime]

\* A step that replaces the breaker of h in a map of breakerFor by b and leaves the others.
LEMMA MapStep ==
  ASSUME BInv, NEW h \in Hosts, NEW m \in BreakerFor(h), NEW b, GoodBreaker(b),
         breakers' = [m EXCEPT ![h] = b],
         calls' \in [Callers -> CallType],
         \* only calls to h begin, and no call grows younger
         \A c \in Callers, k \in Hosts : k # h /\ Calling(c, k)' => Calling(c, k) /\ calls'[c] = calls[c],
         \* the breaker of h is right about the calls to h
         b.state # "closed" => \A c \in Callers : Calling(c, h)' => calls'[c].age >= b.since,
         b.state = "half-open" => \A c, e \in Callers : Calling(c, h)' /\ Calling(e, h)' => c = e
  PROVE  BInv'
<1>1. /\ h \in DOMAIN m /\ DOMAIN m \subseteq Hosts /\ m = [k \in DOMAIN m |-> m[k]]
      /\ Cardinality(DOMAIN m) <= Cap
      /\ \A k \in DOMAIN m : GoodBreaker(m[k])
      /\ \A k \in DOMAIN m : IF k \in DOMAIN breakers THEN m[k] = breakers[k]
                             ELSE k = h /\ m[k] = NewCircuitBreaker
  BY BreakerForIsSound DEF BInv
<1>2. DOMAIN breakers' = DOMAIN m /\ breakers'[h] = b
      /\ \A k \in DOMAIN m : k # h => k \in DOMAIN breakers /\ breakers'[k] = breakers[k]
  BY <1>1
<1>3. \A k \in DOMAIN breakers' : GoodBreaker(breakers'[k])
  BY <1>1, <1>2
<1>4. BreakersTypeOK'
  BY <1>1, <1>2, <1>3 DEF BreakersTypeOK, GoodBreaker, CallType
<1>5. CallsAreOlder'
  <2> SUFFICES ASSUME NEW k \in DOMAIN breakers', breakers'[k].state # "closed",
                      NEW c \in Callers, Calling(c, k)'
               PROVE  calls'[c].age >= breakers'[k].since
    BY DEF CallsAreOlder
  <2>1. CASE k = h
    BY <2>1, <1>2
  <2>2. CASE k # h
    <3>1. k \in Hosts /\ k \in DOMAIN breakers /\ breakers'[k] = breakers[k]
      BY <2>2, <1>1, <1>2
    <3> QED BY <3>1, <2>2 DEF BInv, CallsAreOlder
  <2> QED BY <2>1, <2>2
<1>6. OneProbeAtATime'
  <2> SUFFICES ASSUME NEW k \in DOMAIN breakers', breakers'[k].state = "half-open",
                      NEW c \in Callers, NEW e \in Callers, Calling(c, k)', Calling(e, k)'
               PROVE  c = e
    BY DEF OneProbeAtATime
  <2>1. CASE k = h
    BY <2>1, <1>2
  <2>2. CASE k # h
    <3>1. k \in Hosts /\ k \in DOMAIN breakers /\ breakers'[k] = breakers[k]
      BY <2>2, <1>1, <1>2
    <3> QED BY <3>1, <2>2 DEF BInv, OneProbeAtATime
  <2> QED BY <2>1, <2>2
<1> QED BY <1>4, <1>5, <1>6 DEF BInv

LEMMA CallsTyped == BInv => calls \in [Callers -> CallType]
  BY DEF BInv, BreakersTypeOK, CallType

LEMMA AllowKeepsBInv ==
  ASSUME BInv, NEW c \in Callers, NEW h \in Hosts, Allow(c, h)
  PROVE  BInv'
<1>1. PICK m \in BreakerFor(h) : Ready(m[h]) /\ breakers' = [m EXCEPT ![h] = Armed(m[h])]
  BY DEF Allow
<1>2. /\ GoodBreaker(m[h])
      /\ IF h \in DOMAIN breakers THEN m[h] = breakers[h] ELSE m[h] = NewCircuitBreaker
  BY BreakerForIsSound DEF BInv
<1>3. calls' = [calls EXCEPT ![c] = [host |-> h, age |-> 0]] /\ calls[c] = Idle
  BY DEF Allow
<1>4. calls \in [Callers -> CallType]
  BY CallsTyped
<1>5. calls' \in [Callers -> CallType]
  BY <1>3, <1>4, BreakerAssumption DEF CallType
<1>6. \A e \in Callers, k \in Hosts :
         k # h /\ Calling(e, k)' => Calling(e, k) /\ calls'[e] = calls[e]
  BY <1>3, <1>4 DEF Calling
\* When the breaker was not closed and is Ready, no other call to h is still under way.
<1>7. Armed(m[h]).state # "closed" => \A e \in Callers : ~ Calling(e, h)
  <2> SUFFICES ASSUME Armed(m[h]).state # "closed", NEW e \in Callers, Calling(e, h)
               PROVE  FALSE
    OBVIOUS
  <2>1. m[h].state # "closed" /\ m[h].since >= Cooldown
    BY <1>1, <1>2, ArmedIsGood DEF Ready
  <2>2. h \in DOMAIN breakers /\ m[h] = breakers[h]
    BY <1>2, <2>1 DEF NewCircuitBreaker, CircuitBreaker
  <2>3. calls[e].age >= m[h].since
    BY <2>1, <2>2 DEF BInv, CallsAreOlder
  <2>4. calls[e].age \in 0..CallTime
    BY <1>4 DEF Calling, CallType
  <2>5. m[h].since \in 0..Cooldown
    BY <1>2 DEF GoodBreaker, Breaker
  <2> QED BY <2>1, <2>3, <2>4, <2>5, BreakerAssumption
<1>8. Armed(m[h]).state # "closed" => \A e \in Callers : Calling(e, h)' => e = c
  BY <1>3, <1>4, <1>7 DEF Calling
<1>9. Armed(m[h]).state # "closed" => \A e \in Callers : Calling(e, h)' => calls'[e].age >= Armed(m[h]).since
  <2>1. calls'[c].age = 0
    BY <1>3, <1>4
  <2>2. Armed(m[h]).state # "closed" => Armed(m[h]).since = 0
    BY <1>2, ArmedIsGood
  <2> QED BY <1>8, <2>1, <2>2
<1>10. Armed(m[h]).state = "half-open" =>
          \A e, f \in Callers : Calling(e, h)' /\ Calling(f, h)' => e = f
  BY <1>8
<1>11. GoodBreaker(Armed(m[h]))
  BY <1>2, ArmedIsGood
<1> QED BY <1>1, <1>5, <1>6, <1>9, <1>10, <1>11, MapStep

LEMMA RefusedKeepsBInv ==
  ASSUME BInv, NEW h \in Hosts, Refused(h)
  PROVE  BInv'
<1>1. PICK m \in BreakerFor(h) : ~ Ready(m[h]) /\ breakers' = m
  BY DEF Refused
<1>2. h \in DOMAIN breakers
  <2>1. h \notin DOMAIN breakers => m[h] = NewCircuitBreaker
    BY BreakerForIsSound DEF BInv
  <2> QED BY <1>1, <2>1 DEF Ready, NewCircuitBreaker, CircuitBreaker
<1>3. breakers' = breakers /\ calls' = calls
  BY <1>1, <1>2 DEF BreakerFor, Refused
<1> QED BY <1>3 DEF BInv, BreakersTypeOK, CallsAreOlder, OneProbeAtATime, Calling

LEMMA UnusedKeepsBInv ==
  ASSUME BInv, NEW h \in Hosts, Unused(h)
  PROVE  BInv'
<1>1. PICK m \in BreakerFor(h) : Ready(m[h]) /\ breakers' = [m EXCEPT ![h] = Armed(m[h])]
  BY DEF Unused
<1>2. /\ GoodBreaker(m[h])
      /\ IF h \in DOMAIN breakers THEN m[h] = breakers[h] ELSE m[h] = NewCircuitBreaker
  BY BreakerForIsSound DEF BInv
<1>3. calls' = calls /\ calls \in [Callers -> CallType]
  BY CallsTyped DEF Unused
<1>4. Armed(m[h]).state # "closed" => \A e \in Callers : ~ Calling(e, h)
  <2> SUFFICES ASSUME Armed(m[h]).state # "closed", NEW e \in Callers, Calling(e, h)
               PROVE  FALSE
    OBVIOUS
  <2>1. m[h].state # "closed" /\ m[h].since >= Cooldown
    BY <1>1, <1>2, ArmedIsGood DEF Ready
  <2>2. h \in DOMAIN breakers /\ m[h] = breakers[h]
    BY <1>2, <2>1 DEF NewCircuitBreaker, CircuitBreaker
  <2>3. calls[e].age >= m[h].since
    BY <2>1, <2>2 DEF BInv, CallsAreOlder
  <2>4. calls[e].age \in 0..CallTime
    BY <1>3 DEF Calling, CallType
  <2>5. m[h].since \in 0..Cooldown
    BY <1>2 DEF GoodBreaker, Breaker
  <2> QED BY <2>1, <2>3, <2>4, <2>5, BreakerAssumption
<1>5. GoodBreaker(Armed(m[h]))
  BY <1>2, ArmedIsGood
<1> QED BY <1>1, <1>3, <1>4, <1>5, MapStep DEF Calling

LEMMA RecordKeepsBInv ==
  ASSUME BInv, NEW c \in Callers, RecordSuccess(c) \/ RecordFailure(c)
  PROVE  BInv'
<1>1. calls \in [Callers -> CallType] /\ calls[c] # Idle /\ calls' = [calls EXCEPT ![c] = Idle]
  BY CallsTyped DEF RecordSuccess, RecordFailure
<1>2. PICK h \in Hosts : h = calls[c].host
  BY <1>1 DEF CallType
<1>3. PICK m \in BreakerFor(h) : \/ breakers' = [m EXCEPT ![h] = Succeeded(m[h])]
                                \/ breakers' = [m EXCEPT ![h] = Failed(m[h])]
  BY <1>2 DEF RecordSuccess, RecordFailure
<1>4. /\ GoodBreaker(m[h])
      /\ IF h \in DOMAIN breakers THEN m[h] = breakers[h] ELSE m[h] = NewCircuitBreaker
  BY <1>2, BreakerForIsSound DEF BInv
<1>5. calls' \in [Callers -> CallType]
  BY <1>1 DEF CallType
<1>6. \A e \in Callers, k \in Hosts : Calling(e, k)' => Calling(e, k) /\ calls'[e] = calls[e]
  BY <1>1 DEF Calling
<1>7. CASE breakers' = [m EXCEPT ![h] = Succeeded(m[h])]
  <2>1. GoodBreaker(Succeeded(m[h])) /\ Succeeded(m[h]).state = "closed"
    BY <1>4, SucceededIsGood
  <2> QED BY <1>2, <1>5, <1>6, <1>7, <2>1, MapStep
<1>8. CASE breakers' = [m EXCEPT ![h] = Failed(m[h])]
  <2>1. /\ GoodBreaker(Failed(m[h])) /\ Failed(m[h]).state # "half-open"
        /\ Failed(m[h]).state = "open" =>
               Failed(m[h]).since = 0 \/ (m[h].state = "open" /\ Failed(m[h]).since = m[h].since)
    BY <1>4, FailedIsGood
  <2>2. Failed(m[h]).state # "closed" =>
           \A e \in Callers : Calling(e, h)' => calls'[e].age >= Failed(m[h]).since
    <3> SUFFICES ASSUME Failed(m[h]).state # "closed", NEW e \in Callers, Calling(e, h)'
                 PROVE  calls'[e].age >= Failed(m[h]).since
      OBVIOUS
    <3>1. Failed(m[h]).state = "open"
      BY <2>1 DEF GoodBreaker, Breaker
    <3>2. Calling(e, h) /\ calls'[e] = calls[e]
      BY <1>2, <1>6
    <3>3. calls[e].age \in 0..CallTime
      BY <1>1, <3>2 DEF Calling, CallType
    <3>4. CASE Failed(m[h]).since = 0
      BY <3>2, <3>3, <3>4
    <3>5. CASE m[h].state = "open" /\ Failed(m[h]).since = m[h].since
      <4>1. h \in DOMAIN breakers /\ m[h] = breakers[h]
        BY <1>4, <3>5 DEF NewCircuitBreaker, CircuitBreaker
      <4> QED BY <4>1, <3>2, <3>5 DEF BInv, CallsAreOlder
    <3> QED BY <2>1, <3>1, <3>4, <3>5
  <2> QED BY <1>2, <1>5, <1>6, <1>8, <2>1, <2>2, MapStep
<1> QED BY <1>3, <1>7, <1>8

LEMMA VanishKeepsBInv ==
  ASSUME BInv, NEW c \in Callers, Vanish(c)
  PROVE  BInv'
<1>1. calls \in [Callers -> CallType] /\ calls' = [calls EXCEPT ![c] = Idle] /\ breakers' = breakers
  BY CallsTyped DEF Vanish
<1>2. \A e \in Callers, k \in Hosts : Calling(e, k)' => Calling(e, k) /\ calls'[e] = calls[e]
  BY <1>1 DEF Calling
<1>3. BreakersTypeOK'
  BY <1>1 DEF BInv, BreakersTypeOK, CallType
<1>4. CallsAreOlder' /\ OneProbeAtATime'
  BY <1>1, <1>2 DEF BInv, BreakersTypeOK, CallsAreOlder, OneProbeAtATime
<1> QED BY <1>3, <1>4 DEF BInv

LEMMA TickKeepsBInv ==
  ASSUME BInv, Tick
  PROVE  BInv'
<1>1. /\ calls \in [Callers -> CallType]
      /\ \A c \in Callers : calls[c] # Idle => calls[c].age < CallTime
      /\ calls' = [c \in Callers |-> IF calls[c] = Idle THEN Idle
                                   ELSE [host |-> calls[c].host, age |-> calls[c].age + 1]]
      /\ DOMAIN breakers' = DOMAIN breakers
      /\ \A h \in DOMAIN breakers : breakers'[h] = Aged(breakers[h]) /\ GoodBreaker(breakers[h])
  BY CallsTyped, DomainIsFinite DEF Tick, BInv
<1>2. \A c \in Callers : /\ calls'[c] \in CallType
                         /\ calls[c] = Idle => calls'[c] = Idle
                         /\ calls[c] # Idle => /\ calls'[c].host = calls[c].host
                                              /\ calls'[c].age = calls[c].age + 1
  <2> SUFFICES ASSUME NEW c \in Callers
               PROVE  /\ calls'[c] \in CallType
                      /\ calls[c] = Idle => calls'[c] = Idle
                      /\ calls[c] # Idle => /\ calls'[c].host = calls[c].host
                                           /\ calls'[c].age = calls[c].age + 1
    OBVIOUS
  <2>1. CASE calls[c] = Idle
    BY <1>1, <2>1 DEF CallType
  <2>2. CASE calls[c] # Idle
    <3>1. calls[c] \in [host : Hosts, age : 0..CallTime] /\ calls[c].age < CallTime
      BY <1>1, <2>2 DEF CallType
    <3>2. calls'[c] = [host |-> calls[c].host, age |-> calls[c].age + 1]
      BY <1>1, <2>2
    <3>3. calls[c].host \in Hosts /\ calls[c].age + 1 \in 0..CallTime
      BY <3>1, BreakerAssumption
    <3> QED BY <2>2, <3>2, <3>3 DEF CallType
  <2> QED BY <2>1, <2>2
<1>3. \A h \in DOMAIN breakers : /\ GoodBreaker(breakers'[h])
                                 /\ breakers'[h].state = breakers[h].state
                                 /\ breakers'[h].since <= breakers[h].since + 1
  BY <1>1, AgedIsGood
<1>4. BreakersTypeOK'
  <2>1. breakers' = [h \in DOMAIN breakers' |-> breakers'[h]]
    BY DEF Tick
  <2>2. calls' = [c \in Callers |-> calls'[c]]
    BY <1>1
  <2>3. breakers' \in [DOMAIN breakers' -> Breaker]
    BY <1>1, <1>3, <2>1 DEF GoodBreaker
  <2>4. calls' \in [Callers -> CallType]
    BY <1>2, <2>2
  <2>5. \A h \in DOMAIN breakers' : breakers'[h].state = "closed" => breakers'[h].failures < MaxFails
    BY <1>1, <1>3 DEF GoodBreaker
  <2>6. DOMAIN breakers' \subseteq Hosts /\ Cardinality(DOMAIN breakers') <= Cap
    BY <1>1 DEF BInv, BreakersTypeOK
  <2> QED BY <2>3, <2>4, <2>5, <2>6 DEF BreakersTypeOK, CallType
<1>5. \A c \in Callers, h \in Hosts : Calling(c, h)' => Calling(c, h)
  BY <1>2 DEF Calling
<1>6. CallsAreOlder'
  <2> SUFFICES ASSUME NEW h \in DOMAIN breakers, breakers'[h].state # "closed",
                      NEW c \in Callers, Calling(c, h)'
               PROVE  calls'[c].age >= breakers'[h].since
    BY <1>1 DEF CallsAreOlder
  <2>1. Calling(c, h) /\ calls[c].age >= breakers[h].since
    BY <1>3, <1>5 DEF BInv, BreakersTypeOK, CallsAreOlder
  <2>2. calls[c] # Idle /\ calls'[c].age = calls[c].age + 1 /\ calls[c].age \in 0..CallTime
    BY <1>1, <1>2, <2>1 DEF Calling, CallType
  <2>3. breakers[h].since \in Int /\ breakers'[h].since \in Int
    BY <1>1, <1>3 DEF GoodBreaker, Breaker
  <2> QED BY <1>3, <2>1, <2>2, <2>3, BreakerAssumption
<1>7. OneProbeAtATime'
  BY <1>1, <1>3, <1>5 DEF BInv, BreakersTypeOK, OneProbeAtATime
<1> QED BY <1>4, <1>6, <1>7 DEF BInv

LEMMA RestartKeepsBInv == Restart => BInv'
<1> SUFFICES ASSUME Restart PROVE BInv'
  OBVIOUS
<1>1. DOMAIN breakers' = {}
  BY DEF Restart
<1>2. Cardinality(DOMAIN breakers') <= Cap
  BY <1>1, FS_EmptySet, BreakerAssumption
<1> QED BY <1>1, <1>2 DEF BInv, Restart, BreakersTypeOK, CallsAreOlder, OneProbeAtATime

LEMMA NextKeepsBInv == BInv /\ [BreakersNext]_breakerVars => BInv'
<1> SUFFICES ASSUME BInv, [BreakersNext]_breakerVars PROVE BInv'
  OBVIOUS
<1>1. CASE \E c \in Callers, h \in Hosts : Allow(c, h)
  BY <1>1, AllowKeepsBInv
<1>2. CASE \E h \in Hosts : Refused(h) \/ Unused(h)
  BY <1>2, RefusedKeepsBInv, UnusedKeepsBInv
<1>3. CASE \E c \in Callers : RecordSuccess(c) \/ RecordFailure(c) \/ Vanish(c)
  BY <1>3, RecordKeepsBInv, VanishKeepsBInv
<1>4. CASE Tick
  BY <1>4, TickKeepsBInv
<1>5. CASE Restart
  BY <1>5, RestartKeepsBInv
<1>6. CASE UNCHANGED breakerVars
  BY <1>6 DEF breakerVars, BInv, BreakersTypeOK, CallsAreOlder, OneProbeAtATime, Calling
<1> QED BY <1>1, <1>2, <1>3, <1>4, <1>5, <1>6 DEF BreakersNext

-----------------------------------------------------------------------------
(* Theorems                                                                  *)

\* The breakers are typed, at most Cap of them exist, one probe at a time is sent to a host,
\* and a call is never younger than the state of a breaker that is not closed.
THEOREM BreakersInvariant == BreakersSpec => []BInv
  BY InitBInv, NextKeepsBInv, PTL DEF BreakersSpec

\* "One probe at a time, but recover if probe vanished" (circuitbreaker.go:66).
THEOREM OneProbe == BreakersSpec => []OneProbeAtATime
<1>1. BInv => OneProbeAtATime
  BY DEF BInv
<1> QED BY <1>1, BreakersInvariant, PTL

=============================================================================
