----------------------------- MODULE HostBreakers -----------------------------
(***************************************************************************)
(* The circuit breakers of webhook delivery: one per host, created on first  *)
(* use, at most Cap of them, lost when the process restarts.                 *)
(*                                                                         *)
(* A caller asks Allow(host), makes its HTTP call, and records how it ended. *)
(* Other callers do the same meanwhile.  Time is a Tick; a breaker knows how *)
(* long ago it opened or sent its probe, a call how long it has been under   *)
(* way.  Ages are capped where the code compares them.                      *)
(***************************************************************************)
EXTENDS Integers, FiniteSets

CONSTANTS
    Callers,      \* goroutines that deliver webhooks
    Hosts,        \* the keys webhookHost returns, "_unparseable_" among them
    MaxFails, Cooldown, Window,     \* NewHostCircuitBreaker("webhook", 5, 60s, 5min)
    Cap,          \* defaultHostBreakerCap
    CallTime      \* WebhookMaxTimeout: a call ends within that time

ASSUME BreakerAssumption ==
    /\ IsFiniteSet(Hosts) /\ IsFiniteSet(Callers)
    /\ MaxFails \in Nat \ {0} /\ Cap \in Nat \ {0}
    /\ Cooldown \in Nat /\ Window \in Nat /\ CallTime \in Nat
    /\ CallTime < Cooldown          \* 30 s and 60 s in the code

VARIABLES
    breakers,     \* HostCircuitBreaker.breakers
    calls         \* for each caller the call it was allowed to make, or Idle

breakerVars == <<breakers, calls>>

Idle == [host |-> "none", age |-> 0]
Calling(c, h) == calls[c] # Idle /\ calls[c].host = h

Older(age, cap) == IF age < cap THEN age + 1 ELSE cap

-----------------------------------------------------------------------------
(* One CircuitBreaker                                                        *)

\* since: time since openedAt, halfOpenAt or the success that closed it; last: since
\* lastFailureAt
CircuitBreaker(state, failures, since, last) ==
    [state |-> state, failures |-> failures, since |-> since, last |-> last]

NewCircuitBreaker == CircuitBreaker("closed", 0, Cooldown, Window + 1)

\* Mutant: a half-open breaker lets every caller through.
ReadyUnlessOpen(b) == b.state # "open" \/ b.since >= Cooldown
Ready(b) == b.state = "closed" \/ b.since >= Cooldown

\* What Allow leaves when it returns true
Armed(b) == IF b.state = "closed" THEN b ELSE CircuitBreaker("half-open", b.failures, 0, b.last)

Succeeded(b) == CircuitBreaker("closed", 0, 0, b.last)

\* The counter is capped at MaxFails, where the breaker opens.
Failed(b) ==
    LET kept == IF Window > 0 /\ b.last > Window THEN 0 ELSE b.failures
        n    == Older(kept, MaxFails)
    IN  IF b.state = "half-open" \/ n >= MaxFails
          THEN CircuitBreaker("open", n, 0, 0)
          ELSE CircuitBreaker(b.state, n, b.since, 0)

Aged(b) == CircuitBreaker(b.state, b.failures, Older(b.since, Cooldown), Older(b.last, Window + 1))

-----------------------------------------------------------------------------
(* The map of breakers                                                       *)

Closed == {h \in DOMAIN breakers : breakers[h].state = "closed"}

\* evictLocked reads each breaker under that breaker's own lock and deletes afterwards.
\* One that changed a moment ago may have been read as it was before: a closed one as not
\* yet closed, a failed one with its earlier failure, an open one as still closed.
SurelyClosed == {h \in Closed : breakers[h].since > 0}

JustFailed(h) == breakers[h].state # "half-open" /\ breakers[h].last = 0

\* The closed breaker whose last failure is oldest, or any one
Victims ==
    IF SurelyClosed = {} THEN DOMAIN breakers
    ELSE {v \in DOMAIN breakers :
             \/ JustFailed(v)
             \/ v \in Closed /\ \A w \in SurelyClosed : breakers[w].last <= breakers[v].last}

With(hosts, h) == [k \in hosts \cup {h} |-> IF k = h THEN NewCircuitBreaker ELSE breakers[k]]

\* breakerFor(h): the map may be any of these when it returns
BreakerFor(h) ==
    IF h \in DOMAIN breakers THEN {breakers}
    ELSE IF Cardinality(DOMAIN breakers) < Cap THEN {With(DOMAIN breakers, h)}
    ELSE {With(DOMAIN breakers \ {v}, h) : v \in Victims}

Allow(c, h) ==
    /\ calls[c] = Idle
    /\ \E m \in BreakerFor(h) : Ready(m[h]) /\ breakers' = [m EXCEPT ![h] = Armed(m[h])]
    /\ calls' = [calls EXCEPT ![c] = [host |-> h, age |-> 0]]

Refused(h) == \E m \in BreakerFor(h) : ~ Ready(m[h]) /\ breakers' = m /\ UNCHANGED calls

\* Allowed, but the caller makes no call and records nothing
Unused(h) ==
    /\ \E m \in BreakerFor(h) : Ready(m[h]) /\ breakers' = [m EXCEPT ![h] = Armed(m[h])]
    /\ UNCHANGED calls

RecordSuccess(c) ==
    /\ calls[c] # Idle
    /\ \E m \in BreakerFor(calls[c].host) :
           breakers' = [m EXCEPT ![calls[c].host] = Succeeded(m[calls[c].host])]
    /\ calls' = [calls EXCEPT ![c] = Idle]

RecordFailure(c) ==
    /\ calls[c] # Idle
    /\ \E m \in BreakerFor(calls[c].host) :
           breakers' = [m EXCEPT ![calls[c].host] = Failed(m[calls[c].host])]
    /\ calls' = [calls EXCEPT ![c] = Idle]

\* A panic in the goroutine, which FireAndForget recovers: nothing is recorded
Vanish(c) ==
    /\ calls[c] # Idle
    /\ calls' = [calls EXCEPT ![c] = Idle]
    /\ UNCHANGED breakers

Tick ==
    /\ \A c \in Callers : calls[c] # Idle => calls[c].age < CallTime
    /\ calls' = [c \in Callers |-> IF calls[c] = Idle THEN Idle
                               ELSE [host |-> calls[c].host, age |-> calls[c].age + 1]]
    /\ breakers' = [h \in DOMAIN breakers |-> Aged(breakers[h])]

Restart ==
    /\ breakers' = [h \in {} |-> NewCircuitBreaker]
    /\ calls' = [c \in Callers |-> Idle]

BreakersInit ==
    /\ breakers = [h \in {} |-> NewCircuitBreaker]
    /\ calls = [c \in Callers |-> Idle]

BreakersNext ==
    \/ \E c \in Callers, h \in Hosts : Allow(c, h)
    \/ \E h \in Hosts : Refused(h) \/ Unused(h)
    \/ \E c \in Callers : RecordSuccess(c) \/ RecordFailure(c) \/ Vanish(c)
    \/ Tick \/ Restart

BreakersSpec == BreakersInit /\ [][BreakersNext]_breakerVars

-----------------------------------------------------------------------------
(* Properties                                                                *)

Breaker == [state : {"closed", "open", "half-open"}, failures : 0..MaxFails,
            since : 0..Cooldown, last : 0..(Window + 1)]

\* Every breaker belongs to a host, there are at most Cap, and a closed one has fewer
\* failures than would have opened it.
BreakersTypeOK ==
    /\ DOMAIN breakers \subseteq Hosts /\ Cardinality(DOMAIN breakers) <= Cap
    /\ breakers \in [DOMAIN breakers -> Breaker]
    /\ \A h \in DOMAIN breakers : breakers[h].state = "closed" => breakers[h].failures < MaxFails
    /\ calls \in [Callers -> {Idle} \cup [host : Hosts, age : 0..CallTime]]

\* "One probe at a time, but recover if probe vanished": while a host's breaker is
\* half-open, a single call to the host is under way, whatever calls were still running when
\* it opened and whichever probes vanished.
OneProbeAtATime ==
    \A h \in DOMAIN breakers : breakers[h].state = "half-open" =>
        \A c, e \in Callers : Calling(c, h) /\ Calling(e, h) => c = e

=============================================================================
