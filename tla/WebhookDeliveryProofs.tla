------------------------ MODULE WebhookDeliveryProofs ------------------------
(***************************************************************************)
(* WebhookDelivery uses the breakers of HostBreakers as their specification  *)
(* allows, keeps the types of its own variables, and bounds the retries of   *)
(* an event, for any number of messages, webhooks, hosts and passes.         *)
(*                                                                         *)
(* The bound: what the passes may still do to a log is a profile.  Loading a *)
(* log and clearing or saving its retry time never raise the profile, and a  *)
(* saved retry lowers it where it first differs, although it may raise it    *)
(* further on.  So no profile comes twice (PassedGrows), and every call      *)
(* under way still has one to come (CallsHaveProfiles).  An event has as     *)
(* many logs as it had deliveries that were not retries (FewLogs).           *)
(***************************************************************************)
EXTENDS WebhookDelivery, HostBreakersProofs, SequenceTheorems

(***************************************************************************)
(* The inductive invariant: that of the breakers, and TypeOK cut into the    *)
(* parts that actions leave alone.                                          *)
(***************************************************************************)
RecordsOK == /\ hooks \in [Webhooks -> {"active", "inactive", "deleted"}]
             /\ messages \subseteq Messages /\ sent \subseteq messages

LogsOK == logs \in Seq(Logs)

FanoutOK ==
    /\ fanout \in [Messages -> Goroutines]
    /\ \A m \in Messages : /\ calls[m] # Idle <=> fanout[m].at # None
                           /\ calls[m] # Idle => calls[m].host = HostOf[fanout[m].at]
                           /\ fanout[m].at # None => fanout[m].stage = "run"

PassOK ==
    /\ pass \in [Passes -> SUBSET [log : DOMAIN logs, count : 0..(MaxRetries - 1)]]
    /\ \A p \in Passes : calls[p] # Idle => pass[p] # {}

ManualOK ==
    /\ manual \in [log : 0..Len(logs), had : BOOLEAN, stage : {"none", "call", "clear"}]
    /\ manual.stage # "none" => manual.log # 0

CountsOK ==
    /\ autos \in [Messages \X Webhooks -> Nat]
    /\ asked \in Nat /\ trouble \in Nat /\ asked + trouble <= MaxEvents

DInv == RecordsOK /\ LogsOK /\ FanoutOK /\ PassOK /\ ManualOK /\ CountsOK

IInv == BInv /\ DInv

LEMMA InvImpliesTypeOK == IInv => TypeOK
  BY DEF IInv, BInv, DInv, RecordsOK, LogsOK, FanoutOK, PassOK, ManualOK, CountsOK, TypeOK

-----------------------------------------------------------------------------
(* Calls                                                                     *)

\* The callers are the goroutines of messages and the passes, no one both.
LEMMA CallersSplit == /\ Messages \subseteq Callers /\ Passes \subseteq Callers
                      /\ Messages \cap Passes = {}
  BY DeliveryAssumption

\* A call that was allowed is not Idle.
LEMMA CallIsNotIdle == \A h \in Hosts, n \in Nat : [host |-> h, age |-> n] # Idle
  BY DeliveryAssumption DEF Idle, None

LEMMA HostsOfWebhooks == \A w \in Webhooks : HostOf[w] \in Hosts
  BY DeliveryAssumption

\* A result is recorded, and the call is over.
LEMMA RecordEndsCall ==
  ASSUME NEW c \in Callers, NEW o \in Outcomes, Record(c, o)
  PROVE  /\ RecordSuccess(c) \/ RecordFailure(c)
         /\ calls[c] # Idle
         /\ calls' = [calls EXCEPT ![c] = Idle]
  BY DEF Record, RecordSuccess, RecordFailure

\* Every log that has not gone belongs to a webhook.
LEMMA LogsHaveHooks ==
  ASSUME LogsOK, NEW i \in DOMAIN logs
  PROVE  /\ logs[i] \in Logs
         /\ logs[i] # Gone => logs[i].hook \in Webhooks /\ logs[i].msg \in Messages \cup {"test"}
  BY ElementOfSeq, LenProperties DEF LogsOK, Logs

-----------------------------------------------------------------------------
(* Logs                                                                      *)

\* A log is overwritten by another one.
LEMMA LogSaved ==
  ASSUME LogsOK, NEW i \in DOMAIN logs, NEW l \in Logs, logs' = [logs EXCEPT ![i] = l]
  PROVE  LogsOK' /\ Len(logs') = Len(logs)
  BY ExceptSeq, LenProperties DEF LogsOK

\* The columns of a log of a delivery.
LEMMA LogTyped ==
  ASSUME NEW w \in Webhooks, NEW m \in Messages \cup {"test"}, NEW s \in Outcomes,
         NEW n \in {"none", "later", "due"}, NEW k \in 0..MaxRetries
  PROVE  Log(w, m, s, n, k) \in Logs
  BY DEF Log, Logs

\* Only next_retry_at is overwritten.
LEMMA NextSaved ==
  ASSUME LogsOK, NEW i \in DOMAIN logs, NEW n \in {"none", "later", "due"},
         logs[i] # Gone \/ n = "none", logs' = [logs EXCEPT ![i].next = n]
  PROVE  LogsOK' /\ Len(logs') = Len(logs)
<1>1. logs' = [logs EXCEPT ![i] = [logs[i] EXCEPT !.next = n]]
  OBVIOUS
<1>2. logs[i] \in Logs
  BY LogsHaveHooks
<1>3. [logs[i] EXCEPT !.next = n] \in Logs
  <2>1. CASE logs[i] = Gone
    BY <2>1 DEF Gone, Log, Logs
  <2>2. CASE logs[i] # Gone
    BY <2>2, <1>2 DEF Logs
  <2> QED BY <2>1, <2>2
<1> QED BY <1>1, <1>3, LogSaved

\* A delivery is logged.
LEMMA DeliveryLogged ==
  ASSUME LogsOK, NEW w \in Webhooks, NEW m \in Messages \cup {"test"}, NEW o \in Outcomes,
         logDelivery(w, m, o)
  PROVE  LogsOK' /\ Len(logs') \in Nat /\ Len(logs') >= Len(logs)
<1>1. CASE UNCHANGED logs
  BY <1>1, LenProperties DEF LogsOK, Logs, Log
<1>2. CASE hooks[w] # "deleted"
  <2> DEFINE l == Log(w, m, o, IF o = "failed" /\ m # "test" THEN "later" ELSE "none", 0)
  <2>1. l \in Logs
    BY LogTyped, DeliveryAssumption
  <2>2. logs' = Append(logs, l)
    BY <1>2 DEF logDelivery
  <2> QED BY <2>1, <2>2, AppendProperties, LenProperties DEF LogsOK
<1> QED BY <1>1, <1>2 DEF logDelivery

\* What passes and the manual retry point at stays there.
LEMMA PointersKept ==
  ASSUME LogsOK, LogsOK', Len(logs') >= Len(logs), PassOK, ManualOK
  PROVE  /\ pass \in [Passes -> SUBSET [log : DOMAIN logs', count : 0..(MaxRetries - 1)]]
         /\ manual \in [log : 0..Len(logs'), had : BOOLEAN, stage : {"none", "call", "clear"}]
<1>1. DOMAIN logs = 1..Len(logs) /\ DOMAIN logs' = 1..Len(logs') /\ Len(logs) \in Nat /\ Len(logs') \in Nat
  BY LenProperties DEF LogsOK
<1>2. DOMAIN logs \subseteq DOMAIN logs' /\ 0..Len(logs) \subseteq 0..Len(logs')
  BY <1>1
<1>3. [log : DOMAIN logs, count : 0..(MaxRetries - 1)] \subseteq [log : DOMAIN logs', count : 0..(MaxRetries - 1)]
  BY <1>2
<1> QED BY <1>2, <1>3 DEF PassOK, ManualOK

-----------------------------------------------------------------------------
(* The breakers                                                              *)

\* What the fan-out and a pass do to the breakers are steps of BreakersNext.
LEMMA NextUsesBreakers == IInv /\ [Next]_vars => [BreakersNext]_breakerVars
<1> SUFFICES ASSUME IInv, [Next]_vars PROVE [BreakersNext]_breakerVars
  OBVIOUS
<1>1. ASSUME NEW m \in Messages, FanOut(m) PROVE [BreakersNext]_breakerVars
  <2>1. ASSUME NextWebhook(m) PROVE BreakersNext
    <3>1. \A w \in fanout[m].left : HostOf[w] \in Hosts
      BY HostsOfWebhooks DEF IInv, DInv, FanoutOK, Goroutines
    <3> QED BY <2>1, <3>1, CallersSplit DEF NextWebhook, BreakersNext
  <2>2. ASSUME NEW o \in Outcomes, SendWebhookForMessage(m, o) PROVE BreakersNext
    BY <2>2, CallersSplit, RecordEndsCall DEF SendWebhookForMessage, BreakersNext
  <2> QED BY <1>1, <2>1, <2>2 DEF FanOut, Refetch, FanOutDone, breakerVars
<1>2. ASSUME NEW p \in Passes, Pass(p) PROVE [BreakersNext]_breakerVars
  <2>1. ASSUME NEW r \in pass[p], NextRetry(p, r) PROVE [BreakersNext]_breakerVars
    <3>1. r.log \in DOMAIN logs
      BY DEF IInv, DInv, PassOK
    <3>2. logs[r.log] # Gone => HostOf[logs[r.log].hook] \in Hosts
      BY <3>1, LogsHaveHooks, HostsOfWebhooks DEF IInv, DInv
    <3> QED BY <2>1, <3>2, CallersSplit DEF NextRetry, BreakersNext, breakerVars
  <2>2. ASSUME NEW r \in pass[p], NEW o \in Outcomes, RetryAnswered(p, r, o) PROVE BreakersNext
    BY <2>2, CallersSplit, RecordEndsCall DEF RetryAnswered, BreakersNext
  <2> QED BY <1>2, <2>1, <2>2 DEF Pass, RetryFailedWebhooks, breakerVars
<1>3. ASSUME NEW m \in Messages, TriggerWebhooks(m) \/ Panic(m) \/ DeleteMessage(m)
      PROVE [BreakersNext]_breakerVars
  BY <1>3, CallersSplit DEF TriggerWebhooks, Panic, DeleteMessage, BreakersNext, breakerVars
<1>4. ASSUME NEW i \in DOMAIN logs, Elapse(i) \/ RetryWebhookDelivery(i)
      PROVE [BreakersNext]_breakerVars
  BY <1>4 DEF Elapse, RetryWebhookDelivery, breakerVars
<1>5. ASSUME (\E o \in Outcomes : ManualAnswered(o)) \/ ManualClear
      PROVE [BreakersNext]_breakerVars
  BY <1>5 DEF ManualAnswered, ManualClear, breakerVars
<1>6. ASSUME NEW w \in Webhooks, SendTestWebhook(w) \/ ChangeHook(w)
      PROVE [BreakersNext]_breakerVars
  BY <1>6 DEF SendTestWebhook, ChangeHook, breakerVars
<1>7. ASSUME Crash \/ TimePasses PROVE [BreakersNext]_breakerVars
  BY <1>7 DEF Crash, TimePasses, BreakersNext
<1>8. ASSUME UNCHANGED vars PROVE [BreakersNext]_breakerVars
  BY <1>8 DEF vars, breakerVars
<1> QED BY <1>1, <1>2, <1>3, <1>4, <1>5, <1>6, <1>7, <1>8 DEF Next

-----------------------------------------------------------------------------
(* The delivery's own variables                                              *)

LEMMA InitDInv == Init => DInv
<1> SUFFICES ASSUME Init PROVE DInv
  OBVIOUS
<1>1. RecordsOK
  BY DEF Init, RecordsOK
<1>2. LogsOK /\ Len(logs) = 0
  BY EmptySeq DEF Init, LogsOK
<1>3. FanoutOK
  BY CallersSplit DEF Init, BreakersInit, FanoutOK, Fresh, Goroutine, Goroutines
<1>4. PassOK
  BY CallersSplit DEF Init, BreakersInit, PassOK
<1>5. ManualOK
  BY <1>2 DEF Init, ManualOK, NoRetry, ManualRetry
<1>6. CountsOK
  BY DeliveryAssumption DEF Init, CountsOK
<1> QED BY <1>1, <1>2, <1>3, <1>4, <1>5, <1>6 DEF DInv

\* A goroutine that is not at a webhook makes no call.
LEMMA FanoutMoves ==
  ASSUME FanoutOK, NEW m \in Messages, NEW g \in Goroutines, fanout' = [fanout EXCEPT ![m] = g],
         \A n \in Messages \ {m} : calls'[n] = calls[n],
         calls'[m] # Idle <=> g.at # None,
         calls'[m] # Idle => calls'[m].host = HostOf[g.at],
         g.at # None => g.stage = "run"
  PROVE  FanoutOK'
  BY DEF FanoutOK

LEMMA GoroutineTyped ==
  ASSUME NEW s \in {"fresh", "found", "run", "done"}, NEW l \in SUBSET Webhooks,
         NEW a \in Webhooks \cup {None}, NEW b \in BOOLEAN
  PROVE  /\ Goroutine(s, l, a, b) \in Goroutines
         /\ Goroutine(s, l, a, b).at = a
         /\ Goroutine(s, l, a, b).stage = s
  BY DEF Goroutine, Goroutines

LEMMA DoneTyped == Done \in Goroutines /\ Done.at = None
  BY DEF Done, Goroutine, Goroutines

\* Of the calls only that of a message changes.
LEMMA PassesUndisturbed ==
  ASSUME LogsOK, LogsOK', Len(logs') >= Len(logs), PassOK, ManualOK, UNCHANGED <<pass, manual>>,
         \A p \in Passes : calls'[p] = calls[p]
  PROVE  PassOK' /\ ManualOK'
  BY PointersKept DEF PassOK, ManualOK

LEMMA FanOutKeepsDInv ==
  ASSUME IInv, NEW m \in Messages, TriggerWebhooks(m) \/ FanOut(m)
  PROVE  DInv'
<1> USE DEF IInv, DInv
<1>a. m \in Callers /\ m \notin Passes /\ calls \in [Callers -> CallType] /\ Messages \subseteq Callers
      /\ Passes \subseteq Callers /\ Len(logs) \in Nat
  BY CallersSplit, CallsTyped, LenProperties DEF LogsOK
<1>b. fanout[m] \in Goroutines /\ fanout[m].left \subseteq Webhooks
  BY DEF FanoutOK, Goroutines
<1>1. CASE TriggerWebhooks(m)
  <2>1. fanout[m].at = None /\ calls[m] = Idle
    BY <1>1 DEF TriggerWebhooks, FanoutOK, Fresh, Goroutine
  <2> DEFINE matching == {w \in Webhooks : hooks[w] = "active"}
             g == IF matching = {} THEN Done ELSE Goroutine("found", matching, None, FALSE)
  <2>2. g \in Goroutines /\ g.at = None
    <3>1. matching \in SUBSET Webhooks
      OBVIOUS
    <3> HIDE DEF matching
    <3>2. Goroutine("found", matching, None, FALSE) \in Goroutines
          /\ Goroutine("found", matching, None, FALSE).at = None
      BY <3>1 DEF Goroutine, Goroutines
    <3> QED BY <3>2, DoneTyped
  <2>3. fanout' = [fanout EXCEPT ![m] = g] /\ UNCHANGED calls
    BY <1>1 DEF TriggerWebhooks
  <2>4. FanoutOK'
    BY <2>1, <2>2, <2>3, FanoutMoves
  <2> QED BY <1>1, <1>a, <2>4, PassesUndisturbed
          DEF TriggerWebhooks, RecordsOK, LogsOK, CountsOK, bounds
<1>2. CASE Refetch(m)
  <2>1. fanout[m].at = None /\ calls[m] = Idle
    BY <1>2 DEF Refetch, FanoutOK
  <2> DEFINE g == IF m \in messages THEN Goroutine("run", fanout[m].left, None, FALSE) ELSE Done
  <2>2. g \in Goroutines /\ g.at = None
    BY <1>b, DoneTyped DEF Goroutine, Goroutines
  <2>3. fanout' = [fanout EXCEPT ![m] = g] /\ UNCHANGED calls
    BY <1>2 DEF Refetch
  <2>4. FanoutOK'
    BY <2>1, <2>2, <2>3, FanoutMoves
  <2> QED BY <1>2, <1>a, <2>4, PassesUndisturbed
          DEF Refetch, RecordsOK, LogsOK, CountsOK, bounds
<1>3. CASE NextWebhook(m)
  <2>1. PICK w \in fanout[m].left :
           \/ /\ Refused(HostOf[w])
              /\ fanout' = [fanout EXCEPT ![m] = Goroutine("run", @.left \ {w}, None, @.ok)]
           \/ /\ Allow(m, HostOf[w])
              /\ fanout' = [fanout EXCEPT ![m] = Goroutine("run", @.left \ {w}, w, @.ok)]
    BY <1>3 DEF NextWebhook
  <2>2. w \in Webhooks /\ w # None /\ HostOf[w] \in Hosts /\ fanout[m].ok \in BOOLEAN
    BY <1>b, HostsOfWebhooks, DeliveryAssumption DEF Goroutines
  <2>3. CASE Refused(HostOf[w]) /\ fanout' = [fanout EXCEPT ![m] = Goroutine("run", @.left \ {w}, None, @.ok)]
    <3>1. UNCHANGED calls /\ calls[m] = Idle
      BY <1>3, <2>3 DEF Refused, NextWebhook
    <3> DEFINE g == Goroutine("run", fanout[m].left \ {w}, None, fanout[m].ok)
    <3>2. g \in Goroutines /\ g.at = None
      BY <1>b, <2>2, GoroutineTyped
    <3>3. fanout' = [fanout EXCEPT ![m] = g]
      BY <2>3
    <3>4. FanoutOK'
      BY <3>1, <3>2, <3>3, FanoutMoves
    <3> QED BY <1>3, <1>a, <3>1, <3>4, PassesUndisturbed
            DEF NextWebhook, RecordsOK, LogsOK, CountsOK, bounds
  <2>4. CASE Allow(m, HostOf[w]) /\ fanout' = [fanout EXCEPT ![m] = Goroutine("run", @.left \ {w}, w, @.ok)]
    <3>1. calls' = [calls EXCEPT ![m] = [host |-> HostOf[w], age |-> 0]]
      BY <2>4 DEF Allow
    <3>a. calls'[m] = [host |-> HostOf[w], age |-> 0] /\ \A c \in Callers \ {m} : calls'[c] = calls[c]
      BY <3>1, <1>a
    <3>b. calls'[m] # Idle /\ calls'[m].host = HostOf[w]
      BY <3>a, <2>2, CallIsNotIdle
    <3> DEFINE g == Goroutine("run", fanout[m].left \ {w}, w, fanout[m].ok)
    <3>2. g \in Goroutines /\ g.at = w /\ g.stage = "run"
      BY <1>b, <2>2, GoroutineTyped
    <3>3. fanout' = [fanout EXCEPT ![m] = g]
      BY <2>4
    <3> HIDE DEF g
    <3>4. FanoutOK'
      BY <2>2, <3>a, <3>b, <3>2, <3>3, <1>a, FanoutMoves
    <3> QED BY <1>3, <1>a, <3>a, <3>4, PassesUndisturbed
            DEF NextWebhook, RecordsOK, LogsOK, CountsOK, bounds
  <2> QED BY <2>1, <2>3, <2>4
<1>4. ASSUME NEW o \in Outcomes, SendWebhookForMessage(m, o) PROVE DInv'
  <2>1. calls[m] # Idle /\ fanout[m].at \in Webhooks
    BY <1>4, <1>b DEF SendWebhookForMessage, FanoutOK, Goroutines
  <2>2. calls' = [calls EXCEPT ![m] = Idle]
    BY <1>4, <1>a, RecordEndsCall DEF SendWebhookForMessage
  <2>3. LogsOK' /\ Len(logs') >= Len(logs)
    <3>1. CASE logDelivery(fanout[m].at, m, o)
      BY <3>1, <2>1, DeliveryLogged
    <3>2. CASE UNCHANGED logs
      BY <3>2, <1>a DEF LogsOK
    <3> QED BY <1>4, <3>1, <3>2 DEF SendWebhookForMessage
  <2> DEFINE g == Goroutine("run", fanout[m].left, None, fanout[m].ok \/ o = "success")
  <2>4. g \in Goroutines /\ g.at = None
    BY <1>b DEF Goroutine, Goroutines
  <2>5. fanout' = [fanout EXCEPT ![m] = g]
    BY <1>4 DEF SendWebhookForMessage
  <2>6. FanoutOK'
    BY <2>2, <2>4, <2>5, <1>a, FanoutMoves
  <2>7. CountsOK'
    BY <1>4, DeliveryAssumption DEF SendWebhookForMessage, CountsOK, bounds, Trouble
  <2> QED BY <1>4, <1>a, <2>2, <2>3, <2>6, <2>7, PassesUndisturbed
          DEF SendWebhookForMessage, RecordsOK
<1>5. CASE FanOutDone(m)
  <2>1. FanoutOK'
    BY <1>5, DoneTyped, FanoutMoves DEF FanOutDone
  <2>2. RecordsOK'
    BY <1>5 DEF FanOutDone, RecordsOK
  <2> QED BY <1>5, <1>a, <2>1, <2>2, PassesUndisturbed DEF FanOutDone, LogsOK, CountsOK, bounds
<1> QED BY <1>1, <1>2, <1>3, <1>4, <1>5 DEF FanOut

\* Of the calls only those of passes change, and the fan-outs not at all.
LEMMA FanoutUndisturbed ==
  ASSUME FanoutOK, UNCHANGED fanout, \A m \in Messages : calls'[m] = calls[m]
  PROVE  FanoutOK'
  BY DEF FanoutOK

LEMMA PassKeepsDInv ==
  ASSUME IInv, NEW p \in Passes, Pass(p)
  PROVE  DInv'
<1> USE DEF IInv, DInv
<1>a. p \in Callers /\ p \notin Messages /\ calls \in [Callers -> CallType] /\ Messages \subseteq Callers
      /\ Passes \subseteq Callers /\ Len(logs) \in Nat /\ DOMAIN logs = 1..Len(logs)
  BY CallersSplit, CallsTyped, LenProperties DEF LogsOK
<1>1. CASE RetryFailedWebhooks(p)
  <2>1. Loaded \in SUBSET [log : DOMAIN logs, count : 0..(MaxRetries - 1)]
    <3>1. ASSUME NEW i \in Due PROVE i \in DOMAIN logs /\ logs[i].count \in 0..(MaxRetries - 1)
      <4>1. i \in DOMAIN logs /\ logs[i].status = "failed" /\ logs[i].count < MaxRetries
        BY DEF Due, Pending
      <4>2. logs[i] \in Logs
        BY <4>1, <1>a, ElementOfSeq DEF LogsOK
      <4>a. logs[i] # Gone
        BY <4>1 DEF Gone, Log
      <4>3. logs[i].count \in 0..MaxRetries
        BY <4>2, <4>a DEF Logs
      <4> QED BY <4>1, <4>3, DeliveryAssumption
    <3>2. ASSUME NEW r \in Loaded PROVE r \in [log : DOMAIN logs, count : 0..(MaxRetries - 1)]
      <4>1. PICK i \in Due : r = [log |-> i, count |-> logs[i].count]
        BY <3>2 DEF Loaded
      <4> QED BY <4>1, <3>1
    <3> QED BY <3>2
  <2>2. PassOK'
    <3> HIDE DEF Loaded
    <3>1. pass' = [pass EXCEPT ![p] = Loaded] /\ UNCHANGED <<logs, calls>>
      BY <1>1 DEF RetryFailedWebhooks
    <3>2. pass' \in [Passes -> SUBSET [log : DOMAIN logs, count : 0..(MaxRetries - 1)]]
      BY <3>1, <2>1 DEF PassOK
    <3>3. calls[p] = Idle
      BY <1>1 DEF RetryFailedWebhooks, PassOK
    <3> QED BY <3>1, <3>2, <3>3 DEF PassOK
  <2> QED BY <1>1, <1>a, <2>2, FanoutUndisturbed
          DEF RetryFailedWebhooks, RecordsOK, LogsOK, ManualOK, CountsOK, bounds
<1>2. ASSUME NEW r \in pass[p], NextRetry(p, r) PROVE DInv'
  <2> DEFINE l == logs[r.log]
  <2>1. r.log \in DOMAIN logs /\ calls[p] = Idle
    BY <1>2 DEF NextRetry, PassOK
  <2>2. l # Gone => l.hook \in Webhooks /\ HostOf[l.hook] \in Hosts
    BY <2>1, LogsHaveHooks, HostsOfWebhooks
  <2> HIDE DEF l
  <2>3. /\ LogsOK' /\ Len(logs') = Len(logs)
        /\ CountsOK'
        /\ pass' = pass \/ Leaves(p, r)
        /\ UNCHANGED calls \/ (calls' = [calls EXCEPT ![p] = [host |-> HostOf[l.hook], age |-> 0]] /\ pass' = pass)
    <3>1. CASE l = Gone /\ Leaves(p, r) /\ UNCHANGED <<calls, logs, autos>>
      BY <1>2, <3>1 DEF NextRetry, LogsOK, CountsOK, bounds
    <3>2. CASE ClearRetry(r.log) /\ Leaves(p, r) /\ UNCHANGED <<calls, autos>>
      <4>1. LogsOK' /\ Len(logs') = Len(logs)
        BY <3>2, <2>1, NextSaved DEF ClearRetry
      <4> QED BY <1>2, <3>2, <4>1 DEF NextRetry, CountsOK, bounds
    <3>3. CASE Refused(HostOf[l.hook]) /\ Leaves(p, r) /\ UNCHANGED <<logs, autos>>
      BY <1>2, <3>3 DEF NextRetry, Refused, LogsOK, CountsOK, bounds
    <3>4. CASE /\ l # Gone /\ l.msg \in messages /\ Allow(p, HostOf[l.hook])
               /\ autos' = [autos EXCEPT ![<<l.msg, l.hook>>] = @ + 1]
               /\ UNCHANGED <<logs, pass>>
      <4>1. autos' \in [Messages \X Webhooks -> Nat]
        BY <3>4, <2>2 DEF CountsOK, RecordsOK
      <4> QED BY <1>2, <3>4, <4>1 DEF NextRetry, Allow, LogsOK, CountsOK, bounds
    <3> QED BY <1>2, <3>1, <3>2, <3>3, <3>4 DEF NextRetry, Unused, l
  <2>4. Len(logs') \in Nat /\ DOMAIN logs' = DOMAIN logs
    BY <2>3, <1>a, LenProperties DEF LogsOK
  <2>5. PassOK'
    <3>1. pass' \in [Passes -> SUBSET [log : DOMAIN logs', count : 0..(MaxRetries - 1)]]
      BY <2>3, <2>4 DEF PassOK, Leaves
    <3>2. ASSUME NEW q \in Passes, calls'[q] # Idle PROVE pass'[q] # {}
      BY <3>2, <2>1, <2>3, <1>a DEF PassOK, Leaves
    <3> QED BY <3>1, <3>2 DEF PassOK
  <2>6. ManualOK'
    BY <1>2, <2>3 DEF NextRetry, ManualOK
  <2>7. FanoutOK'
    BY <1>2, <2>3, <1>a, FanoutUndisturbed DEF NextRetry
  <2> QED BY <1>2, <2>3, <2>5, <2>6, <2>7 DEF NextRetry, RecordsOK
<1>3. ASSUME NEW r \in pass[p], NEW o \in Outcomes, RetryAnswered(p, r, o) PROVE DInv'
  <2>1. r.log \in DOMAIN logs /\ r.count \in 0..(MaxRetries - 1)
    BY DEF PassOK
  <2>2. calls' = [calls EXCEPT ![p] = Idle] /\ Leaves(p, r)
    BY <1>3, <1>a, RecordEndsCall DEF RetryAnswered
  <2>3. LogsOK' /\ Len(logs') = Len(logs)
    <3>1. CASE logs[r.log] # Gone /\ logs' = Retried(r, o)
      <4> DEFINE l == Edited(logs[r.log], r.count, o)
      <4>1. logs[r.log].hook \in Webhooks /\ logs[r.log].msg \in Messages \cup {"test"}
            /\ logs[r.log].status \in Outcomes
        BY <3>1, <2>1, LogsHaveHooks DEF Logs
      <4>2. r.count + 1 \in 0..MaxRetries
        BY <2>1, DeliveryAssumption
      <4>3. l \in Logs
        BY <4>1, <4>2 DEF Edited, Log, Logs, Outcomes
      <4>4. logs' = [logs EXCEPT ![r.log] = l]
        BY <3>1 DEF Retried
      <4> HIDE DEF l
      <4> QED BY <2>1, <4>3, <4>4, LogSaved
    <3>2. CASE UNCHANGED logs
      BY <3>2 DEF LogsOK
    <3> QED BY <1>3, <3>1, <3>2 DEF RetryAnswered
  <2>4. Len(logs') \in Nat /\ DOMAIN logs' = DOMAIN logs
    BY <2>3, <1>a, LenProperties DEF LogsOK
  <2>5. PassOK'
    <3>1. pass' \in [Passes -> SUBSET [log : DOMAIN logs', count : 0..(MaxRetries - 1)]]
      BY <2>2, <2>4 DEF PassOK, Leaves
    <3>2. ASSUME NEW q \in Passes, calls'[q] # Idle PROVE pass'[q] # {}
      BY <3>2, <2>2, <1>a DEF PassOK, Leaves
    <3> QED BY <3>1, <3>2 DEF PassOK
  <2>6. ManualOK'
    BY <1>3, <2>3 DEF RetryAnswered, ManualOK
  <2>7. FanoutOK'
    BY <1>3, <2>2, <1>a, FanoutUndisturbed DEF RetryAnswered
  <2>8. CountsOK'
    BY <1>3, DeliveryAssumption DEF RetryAnswered, CountsOK, bounds, Trouble
  <2> QED BY <1>3, <2>3, <2>5, <2>6, <2>7, <2>8 DEF RetryAnswered, RecordsOK
<1> QED BY <1>1, <1>2, <1>3 DEF Pass

\* What users ask for, and the backoff.
LEMMA RequestKeepsDInv ==
  ASSUME IInv,
         \/ \E i \in DOMAIN logs : Elapse(i) \/ RetryWebhookDelivery(i)
         \/ \E o \in Outcomes : ManualAnswered(o)
         \/ ManualClear
         \/ \E w \in Webhooks : SendTestWebhook(w)
  PROVE  DInv'
<1> USE DEF IInv, DInv
<1>a. Len(logs) \in Nat /\ DOMAIN logs = 1..Len(logs)
  BY LenProperties DEF LogsOK
<1>1. ASSUME NEW i \in DOMAIN logs, Elapse(i) PROVE DInv'
  <2>1. logs[i] # Gone
    BY <1>1 DEF Elapse, Gone, Log
  <2>2. LogsOK' /\ Len(logs') = Len(logs)
    BY <1>1, <2>1, NextSaved DEF Elapse
  <2>3. PassOK' /\ ManualOK'
    BY <1>1, <1>a, <2>2, PassesUndisturbed DEF Elapse
  <2> QED BY <1>1, <2>2, <2>3, FanoutUndisturbed DEF Elapse, RecordsOK, CountsOK, bounds
<1>2. ASSUME NEW i \in DOMAIN logs, RetryWebhookDelivery(i) PROVE DInv'
  <2>1. ManualOK'
    BY <1>2, <1>a DEF RetryWebhookDelivery, ManualOK, ManualRetry
  <2>2. CountsOK'
    BY <1>2, DeliveryAssumption DEF RetryWebhookDelivery, CountsOK, Ask
  <2> QED BY <1>2, <2>1, <2>2, FanoutUndisturbed DEF RetryWebhookDelivery, RecordsOK, LogsOK, PassOK
<1>3. ASSUME NEW o \in Outcomes, ManualAnswered(o) PROVE DInv'
  <2>1. manual.log \in DOMAIN logs /\ manual.had \in BOOLEAN
    BY <1>3, <1>a DEF ManualAnswered, ManualOK
  <2>2. LogsOK' /\ Len(logs') \in Nat /\ Len(logs') >= Len(logs)
    <3>1. CASE UNCHANGED logs
      BY <3>1, <1>a DEF LogsOK
    <3>2. CASE /\ logs[manual.log] # Gone
               /\ logDelivery(logs[manual.log].hook, logs[manual.log].msg, o)
      BY <3>2, <2>1, LogsHaveHooks, DeliveryLogged
    <3> QED BY <1>3, <3>1, <3>2 DEF ManualAnswered
  <2>3. PassOK' /\ manual \in [log : 0..Len(logs'), had : BOOLEAN, stage : {"none", "call", "clear"}]
    BY <1>3, <2>2, PointersKept DEF ManualAnswered, PassOK
  <2>4. ManualOK'
    BY <1>3, <1>a, <2>1, <2>2 DEF ManualAnswered, ManualOK, ManualRetry
  <2> QED BY <1>3, <2>2, <2>3, <2>4, FanoutUndisturbed DEF ManualAnswered, RecordsOK, CountsOK, bounds
<1>4. CASE ManualClear
  <2>1. manual.log \in DOMAIN logs
    BY <1>4, <1>a DEF ManualClear, ManualOK
  <2>2. LogsOK' /\ Len(logs') = Len(logs)
    <3>1. CASE ClearRetry(manual.log)
      BY <3>1, <2>1, NextSaved DEF ClearRetry
    <3>2. CASE UNCHANGED logs
      BY <3>2 DEF LogsOK
    <3> QED BY <1>4, <3>1, <3>2 DEF ManualClear
  <2>3. PassOK'
    BY <1>4, <1>a, <2>2, PointersKept DEF ManualClear, PassOK
  <2>4. ManualOK'
    BY <1>4, <1>a, <2>2 DEF ManualClear, ManualOK, NoRetry, ManualRetry
  <2> QED BY <1>4, <2>2, <2>3, <2>4, FanoutUndisturbed DEF ManualClear, RecordsOK, CountsOK, bounds
<1>5. ASSUME NEW w \in Webhooks, SendTestWebhook(w) PROVE DInv'
  <2>1. LogsOK' /\ Len(logs') \in Nat /\ Len(logs') >= Len(logs)
    BY <1>5, DeliveryLogged DEF SendTestWebhook
  <2>2. PassOK' /\ ManualOK'
    BY <1>5, <2>1, PassesUndisturbed DEF SendTestWebhook
  <2>3. CountsOK'
    BY <1>5, DeliveryAssumption DEF SendTestWebhook, CountsOK, Ask
  <2> QED BY <1>5, <2>1, <2>2, <2>3, FanoutUndisturbed DEF SendTestWebhook, RecordsOK
<1> QED BY <1>1, <1>2, <1>3, <1>4, <1>5

LEMMA SameInterval ==
  ASSUME NEW n \in Nat, NEW k \in Nat, 1..n = 1..k
  PROVE  n = k
<1>1. CASE n < k
  <2>1. k \in 1..k /\ k \notin 1..n
    BY <1>1
  <2> QED BY <2>1
<1>2. CASE k < n
  <2>1. n \in 1..n /\ n \notin 1..k
    BY <1>2
  <2> QED BY <2>1
<1> QED BY <1>1, <1>2

\* Panics, crashes, time, and records that change.
LEMMA EnvironmentKeepsDInv ==
  ASSUME IInv,
         \/ \E m \in Messages : Panic(m) \/ DeleteMessage(m)
         \/ \E w \in Webhooks : ChangeHook(w)
         \/ Crash \/ TimePasses
  PROVE  DInv'
<1> USE DEF IInv, DInv
<1>a. /\ calls \in [Callers -> CallType] /\ Messages \subseteq Callers /\ Passes \subseteq Callers
      /\ Len(logs) \in Nat /\ DOMAIN logs = 1..Len(logs)
  BY CallersSplit, CallsTyped, LenProperties DEF LogsOK
<1>1. ASSUME NEW m \in Messages, Panic(m) PROVE DInv'
  <2>1. calls' = [calls EXCEPT ![m] = Idle] /\ m \notin Passes
    BY <1>1, CallersSplit DEF Panic, Vanish
  <2>2. fanout' = [fanout EXCEPT ![m] = Done]
    BY <1>1 DEF Panic, Stopped
  <2>3. FanoutOK'
    BY <2>1, <2>2, <1>a, DoneTyped, FanoutMoves
  <2>4. PassOK' /\ ManualOK'
    BY <1>1, <2>1, <1>a, PassesUndisturbed DEF Panic, LogsOK
  <2>5. CountsOK'
    BY <1>1, DeliveryAssumption DEF Panic, CountsOK, Trouble
  <2> QED BY <1>1, <2>3, <2>4, <2>5 DEF Panic, RecordsOK, LogsOK
<1>2. ASSUME NEW m \in Messages, DeleteMessage(m) PROVE DInv'
  <2>1. CountsOK'
    BY <1>2, DeliveryAssumption DEF DeleteMessage, CountsOK, Trouble
  <2>2. RecordsOK'
    BY <1>2 DEF DeleteMessage, RecordsOK
  <2> QED BY <1>2, <2>1, <2>2, FanoutUndisturbed DEF DeleteMessage, LogsOK, PassOK, ManualOK
<1>3. ASSUME NEW w \in Webhooks, ChangeHook(w) PROVE DInv'
  <2>1. PICK s \in {"active", "inactive", "deleted"} \ {hooks[w]} :
           /\ hooks' = [hooks EXCEPT ![w] = s]
           /\ logs' = IF s = "deleted" THEN [i \in DOMAIN logs |-> IF logs[i].hook = w THEN Gone ELSE logs[i]]
                                       ELSE logs
    BY <1>3 DEF ChangeHook
  <2>2. RecordsOK'
    BY <1>3, <2>1 DEF ChangeHook, RecordsOK
  <2>3. LogsOK' /\ Len(logs') = Len(logs)
    <3>1. CASE logs' = logs
      BY <3>1 DEF LogsOK
    <3>2. CASE logs' = [i \in DOMAIN logs |-> IF logs[i].hook = w THEN Gone ELSE logs[i]]
      <4>1. \A i \in 1..Len(logs) : logs[i] \in Logs
        BY <1>a, ElementOfSeq DEF LogsOK
      <4>2. Gone \in Logs
        BY DEF Logs
      <4>3. logs' \in [1..Len(logs) -> Logs]
        BY <3>2, <4>1, <4>2, <1>a
      <4>4. logs' \in Seq(Logs)
        BY <4>3, <1>a, SeqDef
      <4>5. Len(logs') = Len(logs)
        <5>1. DOMAIN logs' = 1..Len(logs') /\ Len(logs') \in Nat
          BY <4>4, LenProperties
        <5>2. DOMAIN logs' = 1..Len(logs)
          BY <4>3
        <5> QED BY <5>1, <5>2, <1>a, SameInterval
      <4> QED BY <4>4, <4>5 DEF LogsOK
    <3> QED BY <2>1, <3>1, <3>2
  <2>4. PassOK' /\ ManualOK'
    BY <1>3, <1>a, <2>3, PassesUndisturbed DEF ChangeHook
  <2>5. CountsOK'
    BY <1>3, DeliveryAssumption DEF ChangeHook, CountsOK, Trouble
  <2> QED BY <1>3, <2>2, <2>3, <2>4, <2>5, FanoutUndisturbed DEF ChangeHook
<1>4. CASE Crash
  <2>1. calls' = [c \in Callers |-> Idle]
    BY <1>4 DEF Crash, Restart
  <2>2. FanoutOK'
    <3>1. \A m \in Messages : fanout'[m] \in Goroutines /\ fanout'[m].at = None
      BY <1>4, DoneTyped DEF Crash, FanoutOK, Fresh, Goroutine
    <3>2. fanout' = [m \in Messages |-> fanout'[m]]
      BY <1>4 DEF Crash
    <3> QED BY <2>1, <3>1, <3>2, <1>a DEF FanoutOK
  <2>3. PassOK'
    BY <1>4, <2>1, <1>a DEF Crash, PassOK
  <2>4. ManualOK'
    BY <1>4, <1>a DEF Crash, ManualOK, NoRetry, ManualRetry
  <2>5. CountsOK'
    BY <1>4, DeliveryAssumption DEF Crash, CountsOK, Trouble
  <2> QED BY <1>4, <2>2, <2>3, <2>4, <2>5 DEF Crash, RecordsOK, LogsOK
<1>5. CASE TimePasses
  <2>1. \A c \in Callers : /\ calls'[c] # Idle <=> calls[c] # Idle
                           /\ calls'[c] # Idle => calls'[c].host = calls[c].host
    <3>1. SUFFICES ASSUME NEW c \in Callers, calls[c] # Idle
                   PROVE  calls'[c] # Idle /\ calls'[c].host = calls[c].host
      BY <1>5 DEF TimePasses, Tick
    <3>2. calls'[c] = [host |-> calls[c].host, age |-> calls[c].age + 1]
      BY <1>5, <3>1 DEF TimePasses, Tick
    <3>3. calls[c].host \in Hosts /\ calls[c].age + 1 \in Nat
      BY <3>1, <1>a, BreakerAssumption DEF CallType
    <3> QED BY <3>2, <3>3, CallIsNotIdle
  <2>2. FanoutOK'
    BY <1>5, <2>1, <1>a DEF TimePasses, FanoutOK
  <2>3. PassOK'
    BY <1>5, <2>1, <1>a DEF TimePasses, PassOK
  <2> QED BY <1>5, <2>2, <2>3 DEF TimePasses, RecordsOK, LogsOK, ManualOK, CountsOK, bounds
<1> QED BY <1>1, <1>2, <1>3, <1>4, <1>5

-----------------------------------------------------------------------------
(* Theorems                                                                  *)

LEMMA InitIInv == Init => IInv
  BY InitDInv, InitBInv DEF Init, IInv

LEMMA NextKeepsIInv == IInv /\ [Next]_vars => IInv'
<1> SUFFICES ASSUME IInv, [Next]_vars PROVE IInv'
  OBVIOUS
<1>1. BInv'
  BY NextUsesBreakers, NextKeepsBInv DEF IInv
<1>2. DInv'
  <2>1. CASE \E m \in Messages : TriggerWebhooks(m) \/ FanOut(m)
    BY <2>1, FanOutKeepsDInv
  <2>2. CASE \E p \in Passes : Pass(p)
    BY <2>2, PassKeepsDInv
  <2>3. CASE \/ \E i \in DOMAIN logs : Elapse(i) \/ RetryWebhookDelivery(i)
             \/ \E o \in Outcomes : ManualAnswered(o)
             \/ ManualClear
             \/ \E w \in Webhooks : SendTestWebhook(w)
    BY <2>3, RequestKeepsDInv
  <2>4. CASE \/ \E m \in Messages : Panic(m) \/ DeleteMessage(m)
             \/ \E w \in Webhooks : ChangeHook(w)
             \/ Crash \/ TimePasses
    BY <2>4, EnvironmentKeepsDInv
  <2>5. CASE UNCHANGED vars
    BY <2>5 DEF vars, bounds, IInv, DInv, RecordsOK, LogsOK, FanoutOK, PassOK, ManualOK, CountsOK
  <2> QED BY <2>1, <2>2, <2>3, <2>4, <2>5 DEF Next
<1> QED BY <1>1, <1>2 DEF IInv

\* The invariant of the deliveries and the breakers they share.
THEOREM DeliveryInvariant == Spec => []IInv
  BY InitIInv, NextKeepsIInv, PTL DEF Spec

\* Every variable keeps its type: a retry_count never passes MaxRetries, a pass and the manual
\* retry only point at logs there are, and a goroutine makes a call exactly while it is at a
\* webhook, to the host of that webhook (webhook.go:484-735).
THEOREM TypeCorrect == Spec => []TypeOK
  BY DeliveryInvariant, InvImpliesTypeOK, PTL

\* Deliveries, retries, crashes and panics use the breakers as their specification allows.
THEOREM ImplementsBreakers == Spec => BreakersSpec
<1>1. Init => BreakersInit
  BY DEF Init
<1> QED BY <1>1, NextUsesBreakers, DeliveryInvariant, PTL DEF Spec, BreakersSpec

\* However fan-outs and retry passes interleave, a host whose breaker is half-open is asked by
\* one call at a time (circuitbreaker.go:66).
THEOREM OneProbeInDelivery == Spec => []OneProbeAtATime
  BY ImplementsBreakers, OneProbe, PTL

-----------------------------------------------------------------------------
(* Profiles                                                                  *)

Counts == 0..(MaxRetries - 1)

\* f is below g where they first differ.
Below(f, g) == \E v \in Counts : f[v] < g[v] /\ \A u \in Counts : u < v => f[u] <= g[u]

LEMMA PassesAreFinite == IsFiniteSet(Passes) /\ Cardinality(Passes) \in Nat
<1>1. IsFiniteSet(Passes)
  BY CallersSplit, BreakerAssumption, FS_Subset
<1> QED BY <1>1, FS_CardinalityType

LEMMA CountsAreNumbers ==
  /\ Counts \subseteq Nat /\ 0 \in Counts /\ MaxRetries - 1 \in Counts
  /\ \A v \in Counts : v <= MaxRetries - 1 /\ v + 1 <= MaxRetries /\ v < MaxRetries
BY DeliveryAssumption DEF Counts

LEMMA FunctionsAreFinite ==
  ASSUME NEW S, IsFiniteSet(S), NEW T, IsFiniteSet(T)
  PROVE  IsFiniteSet([S -> T])
<1>1. IsFiniteSet(SUBSET (S \X T))
  BY FS_Product, FS_SUBSET
<1> DEFINE G == [f \in [S -> T] |-> {<<x, f[x]>> : x \in S}]
<1>2. G \in [[S -> T] -> SUBSET (S \X T)]
  OBVIOUS
<1>3. ASSUME NEW f \in [S -> T], NEW g \in [S -> T], G[f] = G[g]
      PROVE  f = g
  <2>1. ASSUME NEW x \in S
        PROVE  f[x] = g[x]
    <3>1. <<x, f[x]>> \in {<<y, g[y]>> : y \in S}
      BY <1>3
    <3> QED BY <3>1
  <2> QED BY <2>1
<1>4. G \in Injection([S -> T], SUBSET (S \X T))
  BY <1>2, <1>3 DEF Injection, IsInjective
<1> HIDE DEF G
<1> QED BY <1>1, <1>4, FS_Injection

LEMMA ProfilesAreFinite ==
  /\ IsFiniteSet(Profiles) /\ Cardinality(Profiles) \in Nat
  /\ \A f \in Profiles : \A v \in Counts : f[v] \in Nat
<1>1. IsFiniteSet(Counts) /\ IsFiniteSet(0..Cardinality(Passes))
  BY PassesAreFinite, DeliveryAssumption, FS_Interval DEF Counts
<1>2. IsFiniteSet([Counts -> 0..Cardinality(Passes)])
  BY <1>1, FunctionsAreFinite
<1>3. Profiles \subseteq [Counts -> 0..Cardinality(Passes)]
  BY DEF Profiles, Counts
<1>4. IsFiniteSet(Profiles)
  BY <1>2, <1>3, FS_Subset
<1> QED BY <1>3, <1>4, FS_CardinalityType, PassesAreFinite

\* The profile of a log that no pass will retry any more.
Spent == [v \in Counts |-> 0]

LEMMA SpentIsProfile ==
  /\ Spent \in Profiles /\ \A f : ~ (\A v \in Counts : f[v] \in Nat) \/ ~ Below(f, Spent)
  /\ Cardinality(Profiles \ {Spent}) = MostRetries /\ IsFiniteSet(Profiles \ {Spent}) /\ MostRetries \in Nat
<1>1. Spent \in Profiles
  BY PassesAreFinite DEF Spent, Profiles, Counts
<1>2. ASSUME NEW f, \A v \in Counts : f[v] \in Nat
      PROVE  ~ Below(f, Spent)
  BY <1>2 DEF Below, Spent
<1>3. Cardinality(Profiles \ {Spent}) = MostRetries /\ IsFiniteSet(Profiles \ {Spent})
  BY <1>1, ProfilesAreFinite, FS_RemoveElement DEF MostRetries
<1>4. MostRetries \in Nat
  BY <1>3, FS_CardinalityType
<1> QED BY <1>1, <1>2, <1>3, <1>4

LEMMA BelowIsStrict ==
  ASSUME NEW f \in Profiles
  PROVE  ~ Below(f, f)
BY ProfilesAreFinite DEF Below

\* A profile that nowhere exceeds f is not above f, and is below what f is below.
LEMMA BelowFollows ==
  ASSUME NEW f \in Profiles, NEW e \in Profiles, \A v \in Counts : e[v] <= f[v]
  PROVE  ~ Below(f, e) /\ \A g \in Profiles : Below(f, g) => Below(e, g)
<1>1. \A v \in Counts : f[v] \in Nat /\ e[v] \in Nat
  BY ProfilesAreFinite
<1>2. ~ Below(f, e)
  BY <1>1 DEF Below
<1>3. ASSUME NEW g \in Profiles, Below(f, g)
      PROVE  Below(e, g)
  <2>1. PICK v \in Counts : f[v] < g[v] /\ \A u \in Counts : u < v => f[u] <= g[u]
    BY <1>3 DEF Below
  <2>2. \A u \in Counts : g[u] \in Nat
    BY ProfilesAreFinite
  <2>3. e[v] < g[v]
    BY <1>1, <2>1, <2>2
  <2>4. ASSUME NEW u \in Counts, u < v
        PROVE  e[u] <= g[u]
    BY <1>1, <2>1, <2>2, <2>4
  <2> QED BY <2>3, <2>4 DEF Below
<1> QED BY <1>2, <1>3

LEMMA BelowIsTransitive ==
  ASSUME NEW f \in Profiles, NEW g \in Profiles, NEW h \in Profiles, Below(f, g), Below(g, h)
  PROVE  Below(f, h)
<1>1. \A v \in Counts : f[v] \in Nat /\ g[v] \in Nat /\ h[v] \in Nat
  BY ProfilesAreFinite
<1>2. PICK v \in Counts : f[v] < g[v] /\ \A u \in Counts : u < v => f[u] <= g[u]
  BY DEF Below
<1>3. PICK w \in Counts : g[w] < h[w] /\ \A u \in Counts : u < w => g[u] <= h[u]
  BY DEF Below
<1>4. v \in Nat /\ w \in Nat
  BY CountsAreNumbers
<1>5. CASE v <= w
  <2>1. f[v] < h[v]
    BY <1>1, <1>2, <1>3, <1>4, <1>5
  <2>2. ASSUME NEW u \in Counts, u < v
        PROVE  f[u] <= h[u]
    <3>1. u < w
      BY <1>4, <1>5, <2>2, CountsAreNumbers
    <3> QED BY <1>1, <1>2, <1>3, <2>2, <3>1
  <2> QED BY <2>1, <2>2 DEF Below
<1>6. CASE w < v
  <2>1. f[w] < h[w]
    BY <1>1, <1>2, <1>3, <1>6
  <2>2. ASSUME NEW u \in Counts, u < w
        PROVE  f[u] <= h[u]
    <3>1. u < v
      BY <1>4, <1>6, <2>2, CountsAreNumbers
    <3> QED BY <1>1, <1>2, <1>3, <2>2, <3>1
  <2> QED BY <2>1, <2>2 DEF Below
<1> QED BY <1>4, <1>5, <1>6

\* f, cut at k.
Cut(f, k) == [v \in Counts |-> IF f[v] <= k THEN f[v] ELSE k]

LEMMA CutIsProfile ==
  ASSUME NEW f \in Profiles, NEW k \in Nat, k <= f[MaxRetries - 1]
  PROVE  /\ Cut(f, k) \in Profiles
         /\ Cut(f, k)[MaxRetries - 1] = k
         /\ \A v \in Counts : Cut(f, k)[v] <= f[v]
<1>1. \A v \in Counts : f[v] \in Nat /\ f[v] <= Cardinality(Passes)
  BY PassesAreFinite DEF Profiles, Counts
<1>2. \A v \in Counts : Cut(f, k)[v] = IF f[v] <= k THEN f[v] ELSE k
  BY DEF Cut
<1>3. \A v \in Counts : Cut(f, k)[v] \in 0..Cardinality(Passes) /\ Cut(f, k)[v] <= f[v]
  BY <1>1, <1>2, PassesAreFinite
<1>4. \A u, v \in Counts : u <= v => f[u] <= f[v]
  BY DEF Profiles, Counts
<1>5. \A u, v \in Counts : u <= v => Cut(f, k)[u] <= Cut(f, k)[v]
  BY <1>1, <1>2, <1>4
<1>6. Cut(f, k) \in [Counts -> 0..Cardinality(Passes)]
  BY <1>3 DEF Cut
<1>7. Cut(f, k) \in Profiles
  BY <1>5, <1>6 DEF Profiles, Counts
<1>8. Cut(f, k)[MaxRetries - 1] = k
  <2>1. PICK m \in Counts : m = MaxRetries - 1
    BY CountsAreNumbers
  <2>2. f[m] \in Nat /\ k <= f[m] /\ Cut(f, k)[m] = IF f[m] <= k THEN f[m] ELSE k
    BY <1>1, <1>2, <2>1
  <2>3. Cut(f, k)[m] = k
    BY <2>2
  <2> QED BY <2>1, <2>3
<1> QED BY <1>3, <1>7, <1>8

-----------------------------------------------------------------------------
(* What the passes may still do to a log                                     *)

Events == Messages \X Webhooks
Event(l) == <<l.msg, l.hook>>
LogsOf(x) == {i \in DOMAIN logs : Event(logs[i]) = x}

\* The count a pass will save after loading the log now.
Counted(i) == IF Pending(logs[i]) THEN logs[i].count ELSE MaxRetries

\* The passes that may save a count of at most v + 1.
Low(i, v) ==
    IF Counted(i) <= v THEN Passes
                       ELSE {p \in Passes : \E r \in pass[p] : r.log = i /\ r.count <= v}

Profile(i) == [v \in Counts |-> Cardinality(Low(i, v))]

\* The profiles that came before, one for each retry that was saved.
Passed(x) == {e \in LogsOf(x) \X Profiles : Below(Profile(e[1]), e[2])}

\* The passes that are making a call for the event.
Flying(x) == {p \in Passes : calls[p] # Idle /\ \E r \in pass[p] : IsNext(p, r) /\ r.log \in LogsOf(x)}

\* A log of the first delivery, or of a manual retry, that may still be created.
FirstDue(x) ==
    IF fanout[x[1]].stage = "fresh" \/ x[2] \in fanout[x[1]].left \/ fanout[x[1]].at = x[2] THEN 1 ELSE 0
AgainDue(x) == IF manual.stage = "call" /\ manual.log \in LogsOf(x) THEN 1 ELSE 0

\* A pass holds a log once, and a goroutine that is at a webhook has it no longer before it.
Distinct ==
    /\ \A m \in Messages : fanout[m].at \notin fanout[m].left
    /\ \A p \in Passes : \A r, s \in pass[p] : r.log = s.log => r = s

FewLogs(x) == hooks[x[2]] # "deleted" => Cardinality(LogsOf(x)) + FirstDue(x) + AgainDue(x) <= 1 + asked

FewRetries(x) ==
    hooks[x[2]] # "deleted" =>
        autos[x] <= Cardinality(Passed(x)) + Cardinality(Flying(x)) + Cardinality(Passes) * trouble

Bound(x) == autos[x] <= MostRetries * (1 + asked) + Cardinality(Passes) * trouble

RInv == /\ Distinct
        /\ \A x \in Events : FewLogs(x) /\ FewRetries(x) /\ Bound(x)

LEMMA LowIsFinite ==
  ASSUME NEW i, NEW v
  PROVE  /\ Low(i, v) \subseteq Passes /\ IsFiniteSet(Low(i, v))
         /\ Cardinality(Low(i, v)) \in 0..Cardinality(Passes)
<1>1. Low(i, v) \subseteq Passes
  BY DEF Low
<1>2. IsFiniteSet(Low(i, v)) /\ Cardinality(Low(i, v)) <= Cardinality(Passes)
  BY <1>1, PassesAreFinite, FS_Subset
<1>3. Cardinality(Low(i, v)) \in Nat
  BY <1>2, FS_CardinalityType
<1> QED BY <1>1, <1>2, <1>3, PassesAreFinite

LEMMA LogIsTyped ==
  ASSUME LogsOK, NEW i \in DOMAIN logs
  PROVE  /\ logs[i] \in Logs /\ Counted(i) \in 0..MaxRetries
         /\ Event(logs[i]) \in Events => logs[i] # Gone
<1>1. logs[i] \in Logs
  BY LogsHaveHooks
<1>2. Counted(i) \in 0..MaxRetries
  <2>1. CASE logs[i] = Gone
    BY <2>1, DeliveryAssumption DEF Counted, Pending, Gone, Log
  <2>2. CASE logs[i] # Gone
    BY <1>1, <2>2, DeliveryAssumption DEF Counted, Logs
  <2> QED BY <2>1, <2>2
<1>3. Event(logs[i]) \in Events => logs[i] # Gone
  BY DeliveryAssumption DEF Event, Events, Gone, Log
<1> QED BY <1>1, <1>2, <1>3

LEMMA ProfileIsProfile ==
  ASSUME LogsOK, PassOK, NEW i \in DOMAIN logs
  PROVE  Profile(i) \in Profiles
<1>1. Profile(i) \in [Counts -> 0..Cardinality(Passes)]
  BY LowIsFinite DEF Profile
<1>2. ASSUME NEW u \in Counts, NEW v \in Counts, u <= v
      PROVE  Profile(i)[u] <= Profile(i)[v]
  <2>1. u \in Nat /\ v \in Nat /\ Counted(i) \in Nat
    BY CountsAreNumbers, LogIsTyped
  <2>2. Low(i, u) \subseteq Low(i, v)
    <3>1. CASE Counted(i) <= v
      BY <3>1, LowIsFinite DEF Low
    <3>2. CASE ~ (Counted(i) <= v)
      <4>1. ~ (Counted(i) <= u)
        BY <1>2, <2>1, <3>2
      <4>2. \A p \in Passes : \A r \in pass[p] : r.count \in Nat
        BY DeliveryAssumption DEF PassOK
      <4>3. \A p \in Passes : \A r \in pass[p] : r.count <= u => r.count <= v
        BY <1>2, <2>1, <4>2
      <4> QED BY <3>2, <4>1, <4>3 DEF Low
    <3> QED BY <3>1, <3>2
  <2>3. Cardinality(Low(i, u)) <= Cardinality(Low(i, v))
    BY <2>2, LowIsFinite, FS_Subset
  <2> QED BY <2>3 DEF Profile
<1> QED BY <1>1, <1>2 DEF Profiles, Counts

LEMMA LogsOfAreFinite ==
  ASSUME LogsOK, NEW x
  PROVE  /\ LogsOf(x) \subseteq DOMAIN logs /\ IsFiniteSet(LogsOf(x)) /\ Cardinality(LogsOf(x)) \in Nat
         /\ IsFiniteSet(Passed(x)) /\ Cardinality(Passed(x)) \in Nat
         /\ IsFiniteSet(Flying(x)) /\ Cardinality(Flying(x)) \in 0..Cardinality(Passes)
<1>1. LogsOf(x) \subseteq DOMAIN logs /\ IsFiniteSet(DOMAIN logs)
  BY LenProperties, FS_Interval DEF LogsOf, LogsOK
<1>2. IsFiniteSet(LogsOf(x)) /\ Cardinality(LogsOf(x)) \in Nat
  BY <1>1, FS_Subset, FS_CardinalityType
<1>3. Passed(x) \subseteq LogsOf(x) \X Profiles /\ IsFiniteSet(LogsOf(x) \X Profiles)
  BY <1>2, ProfilesAreFinite, FS_Product DEF Passed
<1>4. IsFiniteSet(Passed(x)) /\ Cardinality(Passed(x)) \in Nat
  BY <1>3, FS_Subset, FS_CardinalityType
<1>5. Flying(x) \subseteq Passes
  BY DEF Flying
<1>6. IsFiniteSet(Flying(x)) /\ Cardinality(Flying(x)) <= Cardinality(Passes)
  BY <1>5, PassesAreFinite, FS_Subset
<1>7. Cardinality(Flying(x)) \in Nat
  BY <1>6, FS_CardinalityType
<1> QED BY <1>1, <1>2, <1>4, <1>6, <1>7, PassesAreFinite

\* The elements of a finite set can be numbered.
LEMMA Numbered ==
  ASSUME NEW S, IsFiniteSet(S)
  PROVE  \E g : /\ \A p \in S : g[p] \in 1..Cardinality(S)
                /\ \A p, q \in S : g[p] = g[q] => p = q
<1>1. PICK b : b \in Bijection(1..Cardinality(S), S)
  BY FS_CardinalityType DEF ExistsBijection
<1>2. \A p \in S : \E k \in 1..Cardinality(S) : b[k] = p
  BY <1>1 DEF Bijection, Surjection
<1> DEFINE g == [p \in S |-> CHOOSE k \in 1..Cardinality(S) : b[k] = p]
<1>3. \A p \in S : g[p] \in 1..Cardinality(S) /\ b[g[p]] = p
  BY <1>2
<1> HIDE DEF g
<1>4. \A p, q \in S : g[p] = g[q] => p = q
  BY <1>3
<1> QED BY <1>3, <1>4

FlyingAt(i) == {p \in Passes : calls[p] # Idle /\ \E r \in pass[p] : IsNext(p, r) /\ r.log = i}

LEMMA FlyingIsLow ==
  ASSUME LogsOK, PassOK, NEW i \in DOMAIN logs
  PROVE  /\ IsFiniteSet(FlyingAt(i)) /\ Cardinality(FlyingAt(i)) \in Nat
         /\ Cardinality(FlyingAt(i)) <= Profile(i)[MaxRetries - 1]
<1>1. PICK v \in Counts : v = MaxRetries - 1
  BY CountsAreNumbers
<1>2. \A p \in Passes : \A r \in pass[p] : r.count <= v
  BY <1>1, DeliveryAssumption DEF PassOK
<1>3. FlyingAt(i) \subseteq Low(i, v)
  BY <1>2 DEF FlyingAt, Low
<1>4. IsFiniteSet(FlyingAt(i)) /\ Cardinality(FlyingAt(i)) <= Cardinality(Low(i, v))
  BY <1>3, LowIsFinite, FS_Subset
<1>5. Profile(i)[v] = Cardinality(Low(i, v))
  BY DEF Profile
<1> QED BY <1>1, <1>4, <1>5, FS_CardinalityType

\* Each call under way still has a profile to come.
LEMMA CallsHaveProfiles ==
  ASSUME LogsOK, PassOK, NEW x \in Events
  PROVE  Cardinality(Passed(x)) + Cardinality(Flying(x)) <= Cardinality(LogsOf(x)) * MostRetries
<1> DEFINE Old == Profiles \ {Spent}
           A == LogsOf(x) \X Old
           B == A \ Passed(x)
           Numbers(g, i) == /\ \A p \in FlyingAt(i) : g[p] \in 1..Cardinality(FlyingAt(i))
                            /\ \A p, q \in FlyingAt(i) : g[p] = g[q] => p = q
           N == [i \in LogsOf(x) |-> CHOOSE g : Numbers(g, i)]
           At(p) == CHOOSE i \in LogsOf(x) : p \in FlyingAt(i)
           H == [p \in Flying(x) |-> <<At(p), Cut(Profile(At(p)), N[At(p)][p])>>]
<1>1. IsFiniteSet(A) /\ Cardinality(A) = Cardinality(LogsOf(x)) * MostRetries
  BY LogsOfAreFinite, SpentIsProfile, FS_Product
<1>2. \A i \in LogsOf(x) : i \in DOMAIN logs /\ Profile(i) \in Profiles
  BY ProfileIsProfile DEF LogsOf
<1>3. Passed(x) \subseteq A
  <2>1. ASSUME NEW e \in Passed(x)
        PROVE  e \in A
    <3>1. e \in LogsOf(x) \X Profiles /\ Below(Profile(e[1]), e[2]) /\ e[1] \in LogsOf(x)
      BY DEF Passed
    <3>2. \A v \in Counts : Profile(e[1])[v] \in Nat
      BY <1>2, <3>1, ProfilesAreFinite
    <3>3. e[2] # Spent
      BY <3>1, <3>2, SpentIsProfile
    <3> QED BY <3>1, <3>3
  <2> QED BY <2>1
<1>4. IsFiniteSet(B) /\ Cardinality(B) = Cardinality(A) - Cardinality(Passed(x))
  <2>1. A \cap Passed(x) = Passed(x)
    BY <1>3
  <2> HIDE DEF A
  <2> QED BY <1>1, <2>1, FS_Difference, ZenonT(40)
<1>5. ASSUME NEW i \in LogsOf(x)
      PROVE  Numbers(N[i], i)
  <2>1. \E g : Numbers(g, i)
    BY <1>2, FlyingIsLow, Numbered
  <2> HIDE DEF Numbers
  <2> QED BY <2>1
<1>6. ASSUME NEW p \in Flying(x)
      PROVE  At(p) \in LogsOf(x) /\ p \in FlyingAt(At(p))
  <2>1. \E i \in LogsOf(x) : p \in FlyingAt(i)
    BY DEF Flying, FlyingAt
  <2> QED BY <2>1
<1> HIDE DEF At, N
<1>7. ASSUME NEW p \in Flying(x)
      PROVE  /\ H[p] \in B /\ H[p][1] = At(p)
             /\ H[p][2][MaxRetries - 1] = N[At(p)][p]
  <2>1. PICK i \in LogsOf(x) : i = At(p) /\ p \in FlyingAt(i)
    BY <1>6
  <2>2. PICK k : k = N[i][p]
    OBVIOUS
  <2>3. k \in 1..Cardinality(FlyingAt(i))
    BY <1>5, <2>1, <2>2
  <2>4. PICK f \in Profiles : f = Profile(i)
    BY <1>2
  <2>5. f[MaxRetries - 1] \in Nat
    BY ProfilesAreFinite, CountsAreNumbers
  <2>6. k \in Nat \ {0} /\ k <= f[MaxRetries - 1]
    BY <1>2, <2>3, <2>4, <2>5, FlyingIsLow
  <2>7. PICK e \in Profiles : /\ e = Cut(f, k) /\ e[MaxRetries - 1] = k
                              /\ \A v \in Counts : e[v] <= f[v]
    BY <2>6, CutIsProfile
  <2>8. e # Spent
    BY <2>6, <2>7, CountsAreNumbers DEF Spent
  <2>9. ~ Below(f, e)
    BY <2>7, BelowFollows
  <2>10. H[p] = <<i, e>>
    BY <2>1, <2>2, <2>4, <2>7
  <2>11. <<i, e>> \in A /\ <<i, e>> \notin Passed(x)
    BY <2>4, <2>8, <2>9 DEF Passed
  <2> QED BY <2>1, <2>2, <2>7, <2>10, <2>11
<1> HIDE DEF H
<1>8. ASSUME NEW p \in Flying(x), NEW q \in Flying(x), H[p] = H[q]
      PROVE  p = q
  <2>1. At(p) = At(q) /\ N[At(p)][p] = N[At(q)][q]
    BY <1>7, <1>8
  <2> QED BY <1>5, <1>6, <2>1
<1>9. H \in [Flying(x) -> B]
  BY <1>7 DEF H
<1>10. H \in Injection(Flying(x), B)
  BY <1>8, <1>9 DEF Injection, IsInjective
<1>11. Cardinality(Flying(x)) <= Cardinality(B)
  BY <1>4, <1>10, FS_Injection
<1>12. Cardinality(B) \in Nat /\ Cardinality(A) \in Nat
  BY <1>1, <1>4, FS_CardinalityType
<1> HIDE DEF A, B
<1> QED BY <1>1, <1>4, <1>11, <1>12, LogsOfAreFinite

-----------------------------------------------------------------------------
(* Steps                                                                     *)

Facts == /\ \A i \in DOMAIN logs : Profile(i) \in Profiles /\ Counted(i) \in 0..MaxRetries
         /\ \A x \in Events :
              /\ LogsOf(x) \subseteq DOMAIN logs /\ IsFiniteSet(LogsOf(x)) /\ Cardinality(LogsOf(x)) \in Nat
              /\ IsFiniteSet(Passed(x)) /\ Cardinality(Passed(x)) \in Nat
              /\ IsFiniteSet(Flying(x)) /\ Cardinality(Flying(x)) \in 0..Cardinality(Passes)
              /\ Cardinality(Passed(x)) + Cardinality(Flying(x)) <= Cardinality(LogsOf(x)) * MostRetries

LEMMA StateFacts == LogsOK /\ PassOK => Facts
<1> SUFFICES ASSUME LogsOK, PassOK PROVE Facts
  OBVIOUS
<1>1. \A i \in DOMAIN logs : Profile(i) \in Profiles /\ Counted(i) \in 0..MaxRetries
  BY ProfileIsProfile, LogIsTyped
<1>2. ASSUME NEW x \in Events
      PROVE  /\ LogsOf(x) \subseteq DOMAIN logs /\ IsFiniteSet(LogsOf(x)) /\ Cardinality(LogsOf(x)) \in Nat
             /\ IsFiniteSet(Passed(x)) /\ Cardinality(Passed(x)) \in Nat
             /\ IsFiniteSet(Flying(x)) /\ Cardinality(Flying(x)) \in 0..Cardinality(Passes)
             /\ Cardinality(Passed(x)) + Cardinality(Flying(x)) <= Cardinality(LogsOf(x)) * MostRetries
  BY LogsOfAreFinite, CallsHaveProfiles
<1> QED BY <1>1, <1>2 DEF Facts

LEMMA NextFacts ==
  ASSUME DInv, DInv'
  PROVE  Facts /\ Facts'
<1>1. Facts
  BY StateFacts DEF DInv
<1>2. (LogsOK /\ PassOK)' => Facts'
  BY StateFacts, PTL
<1> QED BY <1>1, <1>2 DEF DInv

\* What keeps the profile of log i from rising: its count does not fall, and the copies that
\* were added have no smaller one.
Settled(i) ==
    /\ Counted(i) <= Counted(i)'
    /\ \A p \in Passes : \A r \in pass'[p] : r.log = i => r \in pass[p] \/ Counted(i) <= r.count

LEMMA LowShrinks ==
  ASSUME DInv, DInv', NEW i \in DOMAIN logs, i \in DOMAIN logs', Settled(i), NEW v \in Counts
  PROVE  Low(i, v)' \subseteq Low(i, v)
<1>1. Counted(i) \in Nat /\ Counted(i)' \in Nat /\ v \in Nat
  BY NextFacts, CountsAreNumbers DEF Facts
<1>2. CASE Counted(i) <= v
  <2>1. Low(i, v) = Passes
    BY <1>2 DEF Low
  <2>2. Low(i, v)' \subseteq Passes
    BY DEF Low
  <2> QED BY <2>1, <2>2
<1>3. CASE ~ (Counted(i) <= v)
  <2>1. ~ (Counted(i)' <= v)
    BY <1>1, <1>3 DEF Settled
  <2>2. \A q \in Passes : \A r \in pass'[q] : r.count \in Nat
    BY DeliveryAssumption DEF DInv, PassOK
  <2>3. Low(i, v)' = {q \in Passes : \E r \in pass'[q] : r.log = i /\ r.count <= v}
    BY <2>1 DEF Low
  <2>4. \A q \in Passes : \A r \in pass'[q] : r.log = i /\ r.count <= v => r \in pass[q]
    BY <1>1, <1>3, <2>2 DEF Settled
  <2> QED BY <1>3, <2>3, <2>4 DEF Low
<1> QED BY <1>2, <1>3

LEMMA ProfileFalls ==
  ASSUME DInv, DInv', NEW i \in DOMAIN logs, i \in DOMAIN logs', Settled(i)
  PROVE  \A g \in Profiles : Below(Profile(i), g) => Below(Profile(i)', g)
<1>1. Profile(i) \in Profiles /\ Profile(i)' \in Profiles
  BY NextFacts DEF Facts
<1>2. ASSUME NEW v \in Counts
      PROVE  Profile(i)'[v] <= Profile(i)[v]
  <2>1. Cardinality(Low(i, v)') <= Cardinality(Low(i, v))
    BY LowShrinks, LowIsFinite, FS_Subset
  <2> QED BY <2>1 DEF Profile
<1> QED BY <1>1, <1>2, BelowFollows

\* Nothing that came before comes again.
LEMMA PassedStays ==
  ASSUME DInv, DInv', NEW x \in Events, \A i \in LogsOf(x) : i \in LogsOf(x)' /\ Settled(i)
  PROVE  Cardinality(Passed(x)) <= Cardinality(Passed(x)')
<1>1. Facts /\ Facts'
  BY NextFacts
<1>2. ASSUME NEW e \in Passed(x)
      PROVE  e \in Passed(x)'
  <2>1. e \in LogsOf(x) \X Profiles /\ Below(Profile(e[1]), e[2])
    BY DEF Passed
  <2>2. PICK i \in LogsOf(x), g \in Profiles : e = <<i, g>>
    BY <2>1
  <2>3. i \in LogsOf(x)' /\ Settled(i) /\ i \in DOMAIN logs /\ i \in DOMAIN logs'
    BY <1>1 DEF Facts
  <2>4. Below(Profile(i)', g)
    BY <2>1, <2>2, <2>3, ProfileFalls
  <2> QED BY <2>2, <2>3, <2>4 DEF Passed
<1> QED BY <1>1, <1>2, FS_Subset DEF Facts

\* A retry of log j was saved: its profile is one that did not come before.
LEMMA PassedGrows ==
  ASSUME DInv, DInv', NEW x \in Events, NEW j \in LogsOf(x),
         \A i \in LogsOf(x) : i \in LogsOf(x)' /\ (i # j => Settled(i)),
         NEW s \in Counts, NEW p \in Low(j, s), p \notin Low(j, s)',
         \A v \in Counts : v <= s => Low(j, v)' \subseteq Low(j, v)
  PROVE  Cardinality(Passed(x)) + 1 <= Cardinality(Passed(x)')
<1>1. Facts /\ Facts' /\ j \in DOMAIN logs /\ j \in DOMAIN logs'
  BY NextFacts DEF Facts
<1>2. Profile(j) \in Profiles /\ Profile(j)' \in Profiles
  BY <1>1 DEF Facts
<1>3. Below(Profile(j)', Profile(j))
  <2>1. ASSUME NEW v \in Counts, v <= s
        PROVE  Cardinality(Low(j, v)') <= Cardinality(Low(j, v))
    BY <2>1, LowIsFinite, FS_Subset
  <2>2. Cardinality(Low(j, s)') # Cardinality(Low(j, s))
    <3>1. s <= s
      BY CountsAreNumbers
    <3>2. Low(j, s)' \subseteq Low(j, s) /\ Low(j, s)' # Low(j, s)
      BY <3>1
    <3> QED BY <3>2, LowIsFinite, FS_Subset
  <2>3. \A v \in Counts : Profile(j)[v] \in Nat /\ Profile(j)'[v] \in Nat
    BY <1>2, ProfilesAreFinite
  <2>4. \A v \in Counts : Profile(j)[v] = Cardinality(Low(j, v)) /\ Profile(j)'[v] = Cardinality(Low(j, v)')
    BY DEF Profile
  <2>5. \A v \in Counts : v <= s => Profile(j)'[v] <= Profile(j)[v]
    BY <2>1, <2>4
  <2>6. Profile(j)'[s] < Profile(j)[s]
    <3>1. s <= s
      BY CountsAreNumbers
    <3> QED BY <2>2, <2>3, <2>4, <2>5, <3>1
  <2>7. \A u \in Counts : u < s => u <= s
    BY CountsAreNumbers
  <2> QED BY <2>5, <2>6, <2>7 DEF Below
<1>4. ASSUME NEW e \in Passed(x)
      PROVE  e \in Passed(x)'
  <2>1. e \in LogsOf(x) \X Profiles /\ Below(Profile(e[1]), e[2])
    BY DEF Passed
  <2>2. PICK i \in LogsOf(x), g \in Profiles : e = <<i, g>>
    BY <2>1
  <2>3. i \in LogsOf(x)' /\ (i # j => Settled(i)) /\ i \in DOMAIN logs /\ i \in DOMAIN logs'
    BY <1>1 DEF Facts
  <2>4. Below(Profile(i)', g)
    <3>1. CASE i # j
      BY <2>1, <2>2, <2>3, <3>1, ProfileFalls
    <3>2. CASE i = j
      BY <1>2, <1>3, <2>1, <2>2, <3>2, BelowIsTransitive
    <3> QED BY <3>1, <3>2
  <2> QED BY <2>2, <2>3, <2>4 DEF Passed
<1>5. PICK f \in Profiles : f = Profile(j)
  BY <1>2
<1>6. <<j, f>> \in Passed(x)'
  BY <1>3, <1>5 DEF Passed
<1>7. <<j, f>> \notin Passed(x)
  BY <1>5, BelowIsStrict DEF Passed
<1>8. Passed(x) \cup {<<j, f>>} \subseteq Passed(x)'
  BY <1>4, <1>6
<1>9. Cardinality(Passed(x) \cup {<<j, f>>}) = Cardinality(Passed(x)) + 1
  BY <1>1, <1>7, FS_AddElement DEF Facts
<1> QED BY <1>1, <1>8, <1>9, FS_Subset DEF Facts

-----------------------------------------------------------------------------
(* Logs of an event                                                          *)

\* Logs that are there stay with their event, and no new one is created for it.
SameLogs(x) == LogsOf(x)' = LogsOf(x) /\ \A i \in LogsOf(x) : Counted(i) <= Counted(i)'

\* At most one is created.
OneMoreLog(x) ==
    /\ \A i \in DOMAIN logs : i \in LogsOf(x)' <=> i \in LogsOf(x)
    /\ \A i \in LogsOf(x) : Counted(i)' = Counted(i)
    /\ Cardinality(LogsOf(x)') <= Cardinality(LogsOf(x)) + 1

LEMMA LogsUnchanged ==
  ASSUME DInv, UNCHANGED logs, NEW x
  PROVE  SameLogs(x)
<1>1. LogsOf(x)' = LogsOf(x) /\ \A i : Counted(i)' = Counted(i)
  BY DEF LogsOf, Counted
<1>2. \A i \in LogsOf(x) : Counted(i) \in 0..MaxRetries
  BY LogIsTyped DEF LogsOf, DInv
<1>3. \A i \in LogsOf(x) : Counted(i) \in Int
  BY <1>2, DeliveryAssumption
<1> QED BY <1>1, <1>3 DEF SameLogs

\* A log is overwritten by one of the same event, with a count that is not lower.
LEMMA LogOverwritten ==
  ASSUME DInv, NEW j \in DOMAIN logs, NEW l, logs' = [logs EXCEPT ![j] = l],
         Event(l) = Event(logs[j]), NEW x
  PROVE  /\ LogsOf(x)' = LogsOf(x)
         /\ \A i \in LogsOf(x) : i # j => Counted(i) <= Counted(i)'
<1>1. /\ DOMAIN logs' = DOMAIN logs /\ logs'[j] = l
      /\ \A i \in DOMAIN logs : i # j => logs'[i] = logs[i]
  OBVIOUS
<1>2. \A i \in DOMAIN logs : Event(logs'[i]) = Event(logs[i])
  BY <1>1
<1>3. LogsOf(x)' = LogsOf(x)
  BY <1>1, <1>2 DEF LogsOf
<1>4. ASSUME NEW i \in LogsOf(x), i # j
      PROVE  Counted(i) <= Counted(i)'
  <2>1. i \in DOMAIN logs /\ Counted(i) \in 0..MaxRetries
    BY LogIsTyped DEF LogsOf, DInv
  <2>2. Counted(i)' = Counted(i)
    BY <1>1, <1>4, <2>1 DEF Counted
  <2>3. Counted(i) \in Int
    BY <2>1, DeliveryAssumption
  <2> QED BY <2>2, <2>3
<1> QED BY <1>3, <1>4

\* next_retry_at passes or is cleared.
LEMMA RetryTimeChanged ==
  ASSUME DInv, NEW j \in DOMAIN logs, NEW n \in {"none", "due"}, logs[j].next = "later" \/ n = "none",
         logs' = [logs EXCEPT ![j].next = n], NEW x \in Events
  PROVE  SameLogs(x)
<1>1. PICK l : l = [logs[j] EXCEPT !.next = n]
  OBVIOUS
<1>2. logs' = [logs EXCEPT ![j] = l]
  BY <1>1
<1>3. logs[j] \in Logs /\ Counted(j) \in 0..MaxRetries
  BY LogIsTyped DEF DInv
<1>4. /\ l.hook = logs[j].hook /\ l.msg = logs[j].msg /\ l.status = logs[j].status
      /\ l.count = logs[j].count /\ l.next = n
  BY <1>1, <1>3 DEF Logs, Gone, Log
<1>5. LogsOf(x)' = LogsOf(x) /\ \A i \in LogsOf(x) : i # j => Counted(i) <= Counted(i)'
  BY <1>2, <1>4, LogOverwritten DEF Event
<1>6. Counted(j)' = IF l.status = "failed" /\ l.next # "none" THEN l.count ELSE MaxRetries
  BY <1>2 DEF Counted, Pending
<1>7. Counted(j) <= MaxRetries /\ Counted(j) \in Int /\ MaxRetries \in Int
  BY <1>3, DeliveryAssumption
<1>8. Counted(j)' = Counted(j) \/ Counted(j)' = MaxRetries
  BY <1>4, <1>6 DEF Counted, Pending
<1>9. Counted(j) <= Counted(j)'
  BY <1>7, <1>8
<1> QED BY <1>5, <1>9 DEF SameLogs

\* A delivery adds a log to its event, if the webhook is still there.
LEMMA DeliveryAdds ==
  ASSUME DInv, NEW w \in Webhooks, NEW m \in Messages \cup {"test"}, NEW o \in Outcomes,
         logDelivery(w, m, o), NEW x \in Events
  PROVE  /\ OneMoreLog(x)
         /\ x # <<m, w>> => SameLogs(x)
<1>1. CASE UNCHANGED logs
  <2>1. SameLogs(x)
    BY <1>1, LogsUnchanged
  <2>2. \A i : Counted(i)' = Counted(i)
    BY <1>1 DEF Counted
  <2>3. Cardinality(LogsOf(x)) \in Nat
    BY LogsOfAreFinite DEF DInv
  <2> QED BY <2>1, <2>2, <2>3 DEF SameLogs, OneMoreLog
<1>2. CASE hooks[w] # "deleted"
  <2>1. PICK l : l = Log(w, m, o, IF o = "failed" /\ m # "test" THEN "later" ELSE "none", 0)
    OBVIOUS
  <2>2. l \in Logs
    BY <2>1, LogTyped, DeliveryAssumption
  <2>3. logs' = Append(logs, l)
    BY <1>2, <2>1 DEF logDelivery
  <2>4. /\ Len(logs) \in Nat /\ DOMAIN logs = 1..Len(logs) /\ DOMAIN logs' = 1..(Len(logs) + 1)
        /\ logs'[Len(logs) + 1] = l /\ \A i \in DOMAIN logs : logs'[i] = logs[i]
    BY <2>2, <2>3, AppendProperties, LenProperties DEF DInv, LogsOK
  <2>5. PICK k : k = Len(logs) + 1
    OBVIOUS
  <2>6. DOMAIN logs' = DOMAIN logs \cup {k} /\ k \notin DOMAIN logs /\ logs'[k] = l
    BY <2>4, <2>5
  <2>7. \A i \in DOMAIN logs : Event(logs'[i]) = Event(logs[i]) /\ Counted(i)' = Counted(i)
    BY <2>4 DEF Counted
  <2>8. /\ Event(l) = x => LogsOf(x)' = LogsOf(x) \cup {k}
        /\ Event(l) # x => LogsOf(x)' = LogsOf(x)
    BY <2>6, <2>7 DEF LogsOf
  <2>9. IsFiniteSet(LogsOf(x)) /\ Cardinality(LogsOf(x)) \in Nat /\ LogsOf(x) \subseteq DOMAIN logs
    BY LogsOfAreFinite DEF DInv
  <2>10. Cardinality(LogsOf(x)') <= Cardinality(LogsOf(x)) + 1
    <3>1. CASE Event(l) = x
      <4>1. Cardinality(LogsOf(x) \cup {k}) = Cardinality(LogsOf(x)) + 1
        BY <2>6, <2>9, FS_AddElement
      <4> QED BY <2>8, <2>9, <3>1, <4>1
    <3>2. CASE Event(l) # x
      BY <3>2, <2>8, <2>9
    <3> QED BY <3>1, <3>2
  <2>11. OneMoreLog(x)
    BY <2>6, <2>7, <2>8, <2>9, <2>10 DEF OneMoreLog
  <2>12. ASSUME x # <<m, w>>
         PROVE  SameLogs(x)
    <3>1. Event(l) = <<m, w>>
      BY <2>1 DEF Event, Log
    <3>2. LogsOf(x)' = LogsOf(x)
      BY <2>8, <2>12, <3>1
    <3>3. \A i \in LogsOf(x) : Counted(i) \in 0..MaxRetries
      BY <2>9, LogIsTyped DEF DInv
    <3>4. \A i \in LogsOf(x) : Counted(i) \in Int /\ Counted(i)' = Counted(i)
      BY <2>7, <2>9, <3>3, DeliveryAssumption
    <3> QED BY <3>2, <3>4 DEF SameLogs
  <2> QED BY <2>11, <2>12
<1> QED BY <1>1, <1>2 DEF logDelivery

-----------------------------------------------------------------------------
(* Steps that no retry takes part in                                         *)

LEMMA TimesGrows ==
  ASSUME NEW c \in Nat, NEW a \in Nat, NEW b \in Nat, a <= b
  PROVE  c * a <= c * b
<1>1. PICK d \in Nat : b = a + d
  <2>1. b - a \in Nat /\ b = a + (b - a)
    OBVIOUS
  <2> QED BY <2>1
<1>2. c * b = c * a + c * d /\ c * d \in Nat /\ c * a \in Nat
  BY <1>1
<1> QED BY <1>2

\* Only the log a pass loads is copied, with the count it has.
NoLowCopy == \A p \in Passes : \A r \in pass'[p] : r \in pass[p] \/ Counted(r.log) <= r.count

\* Calls of passes go on.
CallsGoOn == \A p \in Passes : calls[p] # Idle => calls'[p] # Idle /\ pass'[p] = pass[p]

LEMMA FlyingGoOn ==
  ASSUME DInv, DInv', NEW x \in Events, \A i \in LogsOf(x) : i \in LogsOf(x)', CallsGoOn
  PROVE  Cardinality(Flying(x)) <= Cardinality(Flying(x)')
<1>1. ASSUME NEW p \in Flying(x)
      PROVE  p \in Flying(x)'
  <2>1. p \in Passes /\ calls[p] # Idle
    BY DEF Flying
  <2>2. PICK r \in pass[p] : IsNext(p, r) /\ r.log \in LogsOf(x)
    BY DEF Flying
  <2>3. calls'[p] # Idle /\ pass'[p] = pass[p] /\ r.log \in LogsOf(x)'
    BY <2>1, <2>2 DEF CallsGoOn
  <2>4. IsNext(p, r)'
    BY <2>2, <2>3 DEF IsNext
  <2> QED BY <2>1, <2>2, <2>3, <2>4 DEF Flying
<1>2. IsFiniteSet(Flying(x)')
  BY NextFacts DEF Facts
<1> QED BY <1>1, <1>2, FS_Subset

LEMMA PassedGoOn ==
  ASSUME DInv, DInv', NEW x \in Events, NoLowCopy,
         \A i \in LogsOf(x) : i \in LogsOf(x)' /\ Counted(i) <= Counted(i)'
  PROVE  Cardinality(Passed(x)) <= Cardinality(Passed(x)')
<1>1. \A i \in LogsOf(x) : i \in LogsOf(x)' /\ Settled(i)
  BY DEF NoLowCopy, Settled
<1> QED BY <1>1, PassedStays

\* Without a retry, the retries so far are no more than they were.
LEMMA FewRetriesStay ==
  ASSUME DInv, DInv', NEW x \in Events, FewRetries(x), hooks[x[2]] # "deleted",
         NoLowCopy, CallsGoOn, autos'[x] = autos[x], trouble <= trouble',
         \A i \in LogsOf(x) : i \in LogsOf(x)' /\ Counted(i) <= Counted(i)'
  PROVE  FewRetries(x)'
<1>1. /\ Cardinality(Passed(x)) <= Cardinality(Passed(x)')
      /\ Cardinality(Flying(x)) <= Cardinality(Flying(x)')
  BY PassedGoOn, FlyingGoOn
<1>2. Cardinality(Passes) * trouble <= Cardinality(Passes) * trouble'
  BY PassesAreFinite, TimesGrows DEF DInv, CountsOK
<1>3. /\ Cardinality(Passed(x)) \in Nat /\ Cardinality(Passed(x)') \in Nat
      /\ Cardinality(Flying(x)) \in Nat /\ Cardinality(Flying(x)') \in Nat
  BY NextFacts, PassesAreFinite DEF Facts
<1>4. autos[x] \in Nat /\ Cardinality(Passes) * trouble \in Nat /\ Cardinality(Passes) * trouble' \in Nat
  BY PassesAreFinite DEF DInv, CountsOK, Events
<1>5. autos[x] <= Cardinality(Passed(x)) + Cardinality(Flying(x)) + Cardinality(Passes) * trouble
  BY DEF FewRetries
<1>6. autos'[x] <= Cardinality(Passed(x)') + Cardinality(Flying(x)') + Cardinality(Passes) * trouble'
  BY <1>1, <1>2, <1>3, <1>4, <1>5
<1> QED BY <1>6 DEF FewRetries

LEMMA DueIsOneAtMost == \A x : FirstDue(x) \in {0, 1} /\ AgainDue(x) \in {0, 1}
  BY DEF FirstDue, AgainDue

\* Without a new delivery, the logs are no more than they were.
LEMMA FewLogsStay ==
  ASSUME DInv, DInv', NEW x \in Events, FewLogs(x), hooks[x[2]] # "deleted", LogsOf(x)' = LogsOf(x),
         FirstDue(x)' <= FirstDue(x), AgainDue(x)' <= AgainDue(x), asked <= asked'
  PROVE  FewLogs(x)'
<1>1. FirstDue(x) \in {0, 1} /\ AgainDue(x) \in {0, 1} /\ FirstDue(x)' \in {0, 1} /\ AgainDue(x)' \in {0, 1}
  BY DueIsOneAtMost DEF FirstDue, AgainDue
<1>2. Cardinality(LogsOf(x)) \in Nat /\ asked \in Nat /\ asked' \in Nat
  BY NextFacts DEF Facts, DInv, CountsOK
<1>3. Cardinality(LogsOf(x)) + FirstDue(x) + AgainDue(x) <= 1 + asked
  BY DEF FewLogs
<1>4. Cardinality(LogsOf(x)') + FirstDue(x)' + AgainDue(x)' <= 1 + asked'
  BY <1>1, <1>2, <1>3
<1> QED BY <1>4 DEF FewLogs

\* A goroutine only comes nearer to its end.
LEMMA FirstDueFalls ==
  ASSUME DInv, NEW m \in Messages, NEW f, fanout' = [fanout EXCEPT ![m] = f], f.stage # "fresh",
         \/ fanout[m].stage = "fresh"
         \/ f.left \subseteq fanout[m].left /\ f.at \in fanout[m].left \cup {fanout[m].at, None},
         NEW x \in Events
  PROVE  FirstDue(x)' <= FirstDue(x)
<1>1. x[1] \in Messages /\ x[2] # None
  BY DeliveryAssumption DEF Events
<1>2. fanout'[x[1]] = IF x[1] = m THEN f ELSE fanout[x[1]]
  BY <1>1 DEF DInv, FanoutOK
<1>3. FirstDue(x)' = 1 => FirstDue(x) = 1
  BY <1>1, <1>2 DEF FirstDue
<1> QED BY <1>3 DEF FirstDue

LEMMA AgainDueSame ==
  ASSUME DInv, NEW x, \A i \in DOMAIN logs : i \in LogsOf(x)' <=> i \in LogsOf(x), UNCHANGED manual
  PROVE  AgainDue(x)' = AgainDue(x)
<1>1. manual.stage = "call" => manual.log \in DOMAIN logs
  <2>1. DOMAIN logs = 1..Len(logs) /\ Len(logs) \in Nat
    BY LenProperties DEF DInv, LogsOK
  <2>2. manual.log \in 0..Len(logs) /\ (manual.stage = "call" => manual.log # 0)
    BY DEF DInv, ManualOK
  <2> QED BY <2>1, <2>2
<1> QED BY <1>1 DEF AgainDue

\* Steps of a goroutine other than a delivery.
LEMMA GoroutineKeepsFew ==
  ASSUME IInv, IInv', RInv, NEW m \in Messages, NEW x \in Events,
         TriggerWebhooks(m) \/ Refetch(m) \/ NextWebhook(m) \/ FanOutDone(m) \/ Panic(m)
  PROVE  FewLogs(x)' /\ FewRetries(x)'
<1> USE DEF IInv
<1>a. asked \in Nat /\ trouble \in Nat /\ calls \in [Callers -> CallType] /\ m \notin Passes
      /\ Passes \subseteq Callers /\ fanout[m] \in Goroutines
  BY CallersSplit, CallsTyped DEF DInv, CountsOK, FanoutOK
<1>1. UNCHANGED <<hooks, logs, pass, manual, autos, asked>> /\ trouble <= trouble'
  <2>1. CASE TriggerWebhooks(m)
    BY <1>a, <2>1 DEF TriggerWebhooks, bounds
  <2>2. CASE Refetch(m)
    BY <1>a, <2>2 DEF Refetch, bounds
  <2>3. CASE NextWebhook(m)
    BY <1>a, <2>3 DEF NextWebhook, bounds
  <2>4. CASE FanOutDone(m)
    BY <1>a, <2>4 DEF FanOutDone, bounds
  <2>5. CASE Panic(m)
    BY <1>a, <2>5 DEF Panic, Trouble
  <2> QED BY <2>1, <2>2, <2>3, <2>4, <2>5
<1>2. \A p \in Passes : calls'[p] = calls[p]
  <2>1. CASE TriggerWebhooks(m)
    BY <2>1 DEF TriggerWebhooks
  <2>2. CASE Refetch(m)
    BY <2>2 DEF Refetch
  <2>3. CASE NextWebhook(m)
    <3>1. UNCHANGED calls \/ \E w \in fanout[m].left : Allow(m, HostOf[w])
      BY <2>3 DEF NextWebhook, Refused
    <3>2. ASSUME NEW w, Allow(m, HostOf[w])
          PROVE  \A p \in Passes : calls'[p] = calls[p]
      BY <1>a, <3>2 DEF Allow
    <3> QED BY <3>1, <3>2
  <2>4. CASE FanOutDone(m)
    BY <2>4 DEF FanOutDone
  <2>5. CASE Panic(m)
    BY <1>a, <2>5 DEF Panic, Vanish
  <2> QED BY <2>1, <2>2, <2>3, <2>4, <2>5
<1>3. SameLogs(x)
  BY <1>1, LogsUnchanged
<1>4. NoLowCopy /\ CallsGoOn
  BY <1>1, <1>2 DEF NoLowCopy, CallsGoOn
<1>5. FirstDue(x)' <= FirstDue(x)
  <2>1. CASE TriggerWebhooks(m)
    <3>1. PICK f : fanout' = [fanout EXCEPT ![m] = f] /\ f \in {Done, Goroutine("found", {w \in Webhooks : hooks[w] = "active"}, None, FALSE)}
      BY <2>1 DEF TriggerWebhooks
    <3>2. f.stage # "fresh" /\ fanout[m].stage = "fresh"
      BY <2>1, <3>1 DEF TriggerWebhooks, Done, Fresh, Goroutine
    <3> QED BY <3>1, <3>2, FirstDueFalls
  <2>2. CASE Refetch(m)
    <3>1. PICK f : fanout' = [fanout EXCEPT ![m] = f] /\ f \in {Done, Goroutine("run", fanout[m].left, None, FALSE)}
      BY <2>2 DEF Refetch
    <3>2. f.stage # "fresh" /\ f.left \subseteq fanout[m].left /\ f.at = None
      BY <3>1 DEF Done, Goroutine
    <3> QED BY <3>1, <3>2, FirstDueFalls
  <2>3. CASE NextWebhook(m)
    <3>1. PICK w, f :
             /\ w \in fanout[m].left /\ fanout' = [fanout EXCEPT ![m] = f]
             /\ f \in {Goroutine("run", fanout[m].left \ {w}, v, fanout[m].ok) : v \in {None, w}}
      BY <2>3 DEF NextWebhook
    <3>2. f.stage # "fresh" /\ f.left \subseteq fanout[m].left /\ f.at \in {None, w}
      BY <3>1 DEF Goroutine
    <3> QED BY <3>1, <3>2, FirstDueFalls
  <2>4. CASE FanOutDone(m)
    <3>1. Done.stage # "fresh" /\ Done.left = {} /\ Done.at = None
      BY DEF Done, Goroutine
    <3>2. fanout' = [fanout EXCEPT ![m] = Done]
      BY <2>4 DEF FanOutDone
    <3> QED BY <3>1, <3>2, FirstDueFalls
  <2>5. CASE Panic(m)
    <3>1. Done.stage # "fresh" /\ Done.left = {} /\ Done.at = None
      BY DEF Done, Goroutine
    <3>2. fanout' = [fanout EXCEPT ![m] = Done]
      BY <2>5 DEF Panic, Stopped
    <3> QED BY <3>1, <3>2, FirstDueFalls
  <2> QED BY <2>1, <2>2, <2>3, <2>4, <2>5
<1>6. AgainDue(x)' = AgainDue(x)
  BY <1>1, <1>3, AgainDueSame DEF SameLogs
<1>7. AgainDue(x)' <= AgainDue(x) /\ asked <= asked'
  BY <1>1, <1>6, DueIsOneAtMost DEF DInv, CountsOK
<1>8. CASE hooks[x[2]] = "deleted"
  BY <1>1, <1>8 DEF FewLogs, FewRetries
<1>9. CASE hooks[x[2]] # "deleted"
  <2>1. FewLogs(x)'
    BY <1>3, <1>5, <1>7, <1>9, FewLogsStay DEF RInv, SameLogs
  <2>2. FewRetries(x)'
    BY <1>1, <1>3, <1>4, <1>9, FewRetriesStay DEF RInv, SameLogs
  <2> QED BY <2>1, <2>2
<1> QED BY <1>8, <1>9

\* A delivery is logged: it was due, or the user asked for it.
LEMMA OneMoreIsFew ==
  ASSUME DInv, DInv', NEW x \in Events, FewLogs(x), hooks[x[2]] # "deleted", OneMoreLog(x),
         FirstDue(x)' + AgainDue(x)' + asked + 1 <= FirstDue(x) + AgainDue(x) + asked'
  PROVE  FewLogs(x)'
<1>1. FirstDue(x) \in {0, 1} /\ AgainDue(x) \in {0, 1} /\ FirstDue(x)' \in {0, 1} /\ AgainDue(x)' \in {0, 1}
  BY DueIsOneAtMost DEF FirstDue, AgainDue
<1>2. Cardinality(LogsOf(x)) \in Nat /\ Cardinality(LogsOf(x)') \in Nat /\ asked \in Nat /\ asked' \in Nat
  BY NextFacts DEF Facts, DInv, CountsOK
<1>3. /\ Cardinality(LogsOf(x)) + FirstDue(x) + AgainDue(x) <= 1 + asked
      /\ Cardinality(LogsOf(x)') <= Cardinality(LogsOf(x)) + 1
  BY DEF FewLogs, OneMoreLog
<1>4. Cardinality(LogsOf(x)') + FirstDue(x)' + AgainDue(x)' <= 1 + asked'
  BY <1>1, <1>2, <1>3
<1> QED BY <1>4 DEF FewLogs

\* New logs do not disturb the ones that are there.
LEMMA OldLogsStay ==
  ASSUME DInv, NEW x \in Events, SameLogs(x) \/ OneMoreLog(x)
  PROVE  \A i \in LogsOf(x) : i \in LogsOf(x)' /\ Counted(i) <= Counted(i)'
<1>1. \A i \in LogsOf(x) : i \in DOMAIN logs
  BY DEF LogsOf
<1>2. \A i \in LogsOf(x) : Counted(i) \in Int
  <2>1. \A i \in LogsOf(x) : Counted(i) \in 0..MaxRetries
    BY <1>1, LogIsTyped DEF DInv
  <2> QED BY <2>1, DeliveryAssumption
<1>3. CASE SameLogs(x)
  BY <1>3 DEF SameLogs
<1>4. CASE OneMoreLog(x)
  BY <1>1, <1>2, <1>4 DEF OneMoreLog
<1> QED BY <1>3, <1>4

\* The call a goroutine makes for a webhook ends.
LEMMA DeliveryKeepsFew ==
  ASSUME IInv, IInv', RInv, NEW m \in Messages, NEW o \in Outcomes, NEW x \in Events,
         SendWebhookForMessage(m, o)
  PROVE  FewLogs(x)' /\ FewRetries(x)'
<1> USE DEF IInv
<1>a. asked \in Nat /\ trouble \in Nat /\ calls \in [Callers -> CallType] /\ m \notin Passes
      /\ Passes \subseteq Callers /\ fanout[m] \in Goroutines /\ fanout[m].at \in Webhooks
      /\ m \in Callers
  BY CallersSplit, CallsTyped DEF DInv, CountsOK, FanoutOK, SendWebhookForMessage, Goroutines
<1>1. UNCHANGED <<hooks, pass, manual, autos, asked>> /\ trouble <= trouble'
  BY <1>a DEF SendWebhookForMessage, Trouble, bounds
<1>2. \A p \in Passes : calls'[p] = calls[p]
  <2>1. calls' = [calls EXCEPT ![m] = Idle]
    BY <1>a, RecordEndsCall DEF SendWebhookForMessage
  <2> QED BY <2>1, <1>a
<1>3. NoLowCopy /\ CallsGoOn
  BY <1>1, <1>2 DEF NoLowCopy, CallsGoOn
<1>4. logDelivery(fanout[m].at, m, o) \/ UNCHANGED logs
  BY DEF SendWebhookForMessage
<1>5. \/ OneMoreLog(x) /\ x = <<m, fanout[m].at>>
      \/ SameLogs(x)
  <2>1. CASE logDelivery(fanout[m].at, m, o)
    BY <1>a, <2>1, DeliveryAdds
  <2>2. CASE UNCHANGED logs
    BY <2>2, LogsUnchanged
  <2> QED BY <1>4, <2>1, <2>2
<1>6. /\ FirstDue(x)' <= FirstDue(x)
      /\ x = <<m, fanout[m].at>> => FirstDue(x)' = 0 /\ FirstDue(x) = 1
  <2>1. PICK f : f = Goroutine("run", fanout[m].left, None, fanout[m].ok \/ o = "success")
    OBVIOUS
  <2>2. fanout' = [fanout EXCEPT ![m] = f]
    BY <2>1 DEF SendWebhookForMessage
  <2>3. f.stage = "run" /\ f.left = fanout[m].left /\ f.at = None
    BY <2>1 DEF Goroutine
  <2>4. FirstDue(x)' <= FirstDue(x)
    BY <2>2, <2>3, FirstDueFalls
  <2>5. ASSUME x = <<m, fanout[m].at>>
        PROVE  FirstDue(x)' = 0 /\ FirstDue(x) = 1
    <3>1. fanout'[m] = f
      BY <2>2 DEF DInv, FanoutOK
    <3>2. x[1] = m /\ x[2] = fanout[m].at /\ x[2] \notin fanout[m].left /\ x[2] # None
      BY <1>a, <2>5, DeliveryAssumption DEF RInv, Distinct
    <3> QED BY <2>3, <3>1, <3>2 DEF FirstDue
  <2> QED BY <2>4, <2>5
<1>7. AgainDue(x)' = AgainDue(x)
  <2>1. \A i \in DOMAIN logs : i \in LogsOf(x)' <=> i \in LogsOf(x)
    BY <1>5 DEF SameLogs, OneMoreLog
  <2> QED BY <1>1, <2>1, AgainDueSame
<1>8. AgainDue(x)' <= AgainDue(x) /\ asked <= asked' /\ AgainDue(x) \in Int
  BY <1>1, <1>7, <1>a, DueIsOneAtMost
<1>9. CASE hooks[x[2]] = "deleted"
  BY <1>1, <1>9 DEF FewLogs, FewRetries
<1>10. CASE hooks[x[2]] # "deleted"
  <2>1. FewLogs(x)'
    <3>1. CASE SameLogs(x)
      BY <1>6, <1>8, <1>10, <3>1, FewLogsStay DEF RInv, SameLogs
    <3>2. CASE OneMoreLog(x) /\ x = <<m, fanout[m].at>>
      <4>1. FirstDue(x)' + AgainDue(x)' + asked + 1 <= FirstDue(x) + AgainDue(x) + asked'
        BY <1>1, <1>6, <1>7, <1>8, <1>a, <3>2
      <4> QED BY <1>10, <3>2, <4>1, OneMoreIsFew DEF RInv
    <3> QED BY <1>5, <3>1, <3>2
  <2>2. FewRetries(x)'
    <3>1. \A i \in LogsOf(x) : i \in LogsOf(x)' /\ Counted(i) <= Counted(i)'
      BY <1>5, OldLogsStay
    <3> QED BY <1>1, <1>3, <1>10, <3>1, FewRetriesStay DEF RInv
  <2> QED BY <2>1, <2>2
<1> QED BY <1>9, <1>10

\* What users ask for, and the backoff: no pass and no goroutine moves.
LEMMA RequestKeepsFewRetries ==
  ASSUME DInv, DInv', RInv, NEW x \in Events, UNCHANGED <<calls, hooks, pass, autos>>, trouble <= trouble',
         SameLogs(x) \/ OneMoreLog(x)
  PROVE  FewRetries(x)'
<1>1. NoLowCopy /\ CallsGoOn
  BY DEF NoLowCopy, CallsGoOn
<1>2. \A i \in LogsOf(x) : i \in LogsOf(x)' /\ Counted(i) <= Counted(i)'
  BY OldLogsStay
<1>3. CASE hooks[x[2]] = "deleted"
  BY <1>3 DEF FewRetries
<1>4. CASE hooks[x[2]] # "deleted"
  BY <1>1, <1>2, <1>4, FewRetriesStay DEF RInv
<1> QED BY <1>3, <1>4

LEMMA RequestKeepsFew ==
  ASSUME IInv, IInv', RInv, NEW x \in Events,
         \/ \E i \in DOMAIN logs : Elapse(i) \/ RetryWebhookDelivery(i)
         \/ \E o \in Outcomes : ManualAnswered(o)
         \/ ManualClear
         \/ \E w \in Webhooks : SendTestWebhook(w)
  PROVE  FewLogs(x)' /\ FewRetries(x)'
<1> USE DEF IInv
<1>a. /\ asked \in Nat /\ trouble \in Nat /\ trouble <= trouble
      /\ FirstDue(x) \in {0, 1} /\ AgainDue(x) \in {0, 1}
      /\ Len(logs) \in Nat /\ DOMAIN logs = 1..Len(logs) /\ FewLogs(x)
      /\ manual.log \in 0..Len(logs) /\ (manual.stage # "none" => manual.log # 0)
  BY DueIsOneAtMost, LenProperties DEF DInv, CountsOK, ManualOK, LogsOK, RInv
<1>b. ASSUME UNCHANGED fanout
      PROVE  FirstDue(x)' = FirstDue(x)
  BY <1>b DEF FirstDue
<1>1. ASSUME NEW i \in DOMAIN logs, Elapse(i)
      PROVE  FewLogs(x)' /\ FewRetries(x)'
  <2>1. UNCHANGED <<calls, hooks, pass, autos, fanout, manual, asked, trouble>>
    BY <1>1 DEF Elapse, bounds
  <2>2. SameLogs(x)
    BY <1>1, RetryTimeChanged DEF Elapse
  <2>3. AgainDue(x)' = AgainDue(x)
    BY <2>1, <2>2, AgainDueSame DEF SameLogs
  <2>4. FewLogs(x)'
    BY <1>a, <1>b, <2>1, <2>2, <2>3 DEF FewLogs, SameLogs
  <2> QED BY <1>a, <2>1, <2>2, <2>4, RequestKeepsFewRetries
<1>2. ASSUME NEW i \in DOMAIN logs, RetryWebhookDelivery(i)
      PROVE  FewLogs(x)' /\ FewRetries(x)'
  <2>1. UNCHANGED <<calls, hooks, pass, autos, fanout, logs, trouble>> /\ asked' = asked + 1 /\ AgainDue(x) = 0
    BY <1>2 DEF RetryWebhookDelivery, Ask, AgainDue, NoRetry, ManualRetry
  <2>2. SameLogs(x) /\ LogsOf(x)' = LogsOf(x)
    BY <2>1, LogsUnchanged DEF SameLogs
  <2>3. AgainDue(x)' \in {0, 1} /\ Cardinality(LogsOf(x)) \in Nat
    BY NextFacts DEF AgainDue, Facts
  <2>4. FewLogs(x)'
    BY <1>a, <1>b, <2>1, <2>2, <2>3 DEF FewLogs
  <2> QED BY <1>a, <2>1, <2>2, <2>4, RequestKeepsFewRetries
<1>3. ASSUME NEW o \in Outcomes, ManualAnswered(o)
      PROVE  FewLogs(x)' /\ FewRetries(x)'
  <2>1. UNCHANGED <<calls, hooks, pass, autos, fanout, asked, trouble>> /\ AgainDue(x)' = 0
    BY <1>3 DEF ManualAnswered, bounds, AgainDue, ManualRetry
  <2>2. manual.log \in DOMAIN logs /\ manual.stage = "call"
    BY <1>3, <1>a DEF ManualAnswered
  <2>3. SameLogs(x) \/ (OneMoreLog(x) /\ manual.log \in LogsOf(x))
    <3>1. CASE UNCHANGED logs
      BY <3>1, LogsUnchanged
    <3>2. CASE /\ logs[manual.log] # Gone
               /\ logDelivery(logs[manual.log].hook, logs[manual.log].msg, o)
      <4>1. PICK w \in Webhooks, m \in Messages \cup {"test"} : w = logs[manual.log].hook /\ m = logs[manual.log].msg
        BY <2>2, <3>2, LogsHaveHooks DEF DInv
      <4>2. OneMoreLog(x) /\ (x # <<m, w>> => SameLogs(x))
        BY <3>2, <4>1, DeliveryAdds
      <4>3. x = <<m, w>> => manual.log \in LogsOf(x)
        BY <2>2, <4>1 DEF LogsOf, Event
      <4> QED BY <4>2, <4>3
    <3> QED BY <1>3, <3>1, <3>2 DEF ManualAnswered
  <2>4. FewLogs(x)'
    <3>1. CASE hooks[x[2]] = "deleted"
      BY <2>1, <3>1 DEF FewLogs
    <3>2. CASE hooks[x[2]] # "deleted" /\ SameLogs(x)
      BY <1>a, <1>b, <2>1, <3>2, FewLogsStay DEF SameLogs
    <3>3. CASE hooks[x[2]] # "deleted" /\ OneMoreLog(x) /\ manual.log \in LogsOf(x)
      <4>1. AgainDue(x) = 1
        BY <2>2, <3>3 DEF AgainDue
      <4>2. FirstDue(x)' + AgainDue(x)' + asked + 1 <= FirstDue(x) + AgainDue(x) + asked'
        BY <1>a, <1>b, <2>1, <4>1
      <4> QED BY <1>a, <3>3, <4>2, OneMoreIsFew
    <3> QED BY <2>3, <3>1, <3>2, <3>3
  <2> QED BY <1>a, <2>1, <2>3, <2>4, RequestKeepsFewRetries
<1>4. CASE ManualClear
  <2>1. UNCHANGED <<calls, hooks, pass, autos, fanout, asked, trouble>> /\ AgainDue(x)' = 0
    BY <1>4 DEF ManualClear, bounds, AgainDue, NoRetry, ManualRetry
  <2>2. manual.log \in DOMAIN logs
    BY <1>4, <1>a DEF ManualClear
  <2>3. SameLogs(x)
    <3>1. CASE UNCHANGED logs
      BY <3>1, LogsUnchanged
    <3>2. CASE ClearRetry(manual.log)
      BY <2>2, <3>2, RetryTimeChanged DEF ClearRetry
    <3> QED BY <1>4, <3>1, <3>2 DEF ManualClear
  <2>4. FewLogs(x)'
    <3>1. CASE hooks[x[2]] = "deleted"
      BY <2>1, <3>1 DEF FewLogs
    <3>2. CASE hooks[x[2]] # "deleted"
      BY <1>a, <1>b, <2>1, <2>3, <3>2, FewLogsStay DEF SameLogs
    <3> QED BY <3>1, <3>2
  <2> QED BY <1>a, <2>1, <2>3, <2>4, RequestKeepsFewRetries
<1>5. ASSUME NEW w \in Webhooks, SendTestWebhook(w)
      PROVE  FewLogs(x)' /\ FewRetries(x)'
  <2>1. UNCHANGED <<calls, hooks, pass, autos, fanout, manual, trouble>> /\ asked' = asked + 1
    BY <1>5 DEF SendTestWebhook, Ask
  <2>2. OneMoreLog(x)
    BY <1>5, DeliveryAdds DEF SendTestWebhook
  <2>3. AgainDue(x)' = AgainDue(x)
    BY <2>1, <2>2, AgainDueSame DEF OneMoreLog
  <2>4. FewLogs(x)'
    <3>1. CASE hooks[x[2]] = "deleted"
      BY <2>1, <3>1 DEF FewLogs
    <3>2. CASE hooks[x[2]] # "deleted"
      <4>1. FirstDue(x)' + AgainDue(x)' + asked + 1 <= FirstDue(x) + AgainDue(x) + asked'
        BY <1>a, <1>b, <2>1, <2>3
      <4> QED BY <1>a, <2>2, <3>2, <4>1, OneMoreIsFew
    <3> QED BY <3>1, <3>2
  <2> QED BY <1>a, <2>1, <2>2, <2>4, RequestKeepsFewRetries
<1> QED BY <1>1, <1>2, <1>3, <1>4, <1>5

\* The logs of a deleted webhook are gone, the other ones are not touched.
LEMMA OtherHooksKeepLogs ==
  ASSUME DInv, NEW w \in Webhooks, NEW x \in Events, x[2] # w,
         logs' = [i \in DOMAIN logs |-> IF logs[i].hook = w THEN Gone ELSE logs[i]]
  PROVE  SameLogs(x)
<1>1. Event(Gone) # x
  BY DeliveryAssumption DEF Event, Events, Gone, Log
<1>2. DOMAIN logs' = DOMAIN logs
  OBVIOUS
<1>3. \A i \in DOMAIN logs : /\ logs[i].hook = w => logs'[i] = Gone /\ Event(logs[i]) # x
                             /\ logs[i].hook # w => logs'[i] = logs[i]
  BY DEF Event
<1>4. LogsOf(x)' = LogsOf(x)
  BY <1>1, <1>2, <1>3 DEF LogsOf
<1>5. \A i \in LogsOf(x) : i \in DOMAIN logs /\ logs'[i] = logs[i]
  BY <1>3 DEF LogsOf
<1>6. \A i \in LogsOf(x) : Counted(i)' = Counted(i)
  BY <1>5 DEF Counted
<1>7. \A i \in LogsOf(x) : Counted(i) \in 0..MaxRetries
  BY <1>5, LogIsTyped DEF DInv
<1>8. \A i \in LogsOf(x) : Counted(i) \in Int
  BY <1>7, DeliveryAssumption
<1> QED BY <1>4, <1>6, <1>8 DEF SameLogs

\* A crash may lose the result of one call of each pass.
LEMMA CrashKeepsFewRetries ==
  ASSUME DInv, DInv', RInv, NEW x \in Events, Crash
  PROVE  FewRetries(x)'
<1>1. UNCHANGED <<hooks, logs, autos>> /\ trouble' = trouble + 1 /\ \A p \in Passes : pass'[p] = {}
  BY DEF Crash, Trouble
<1>2. CASE hooks[x[2]] = "deleted"
  BY <1>1, <1>2 DEF FewRetries
<1>3. CASE hooks[x[2]] # "deleted"
  <2>1. SameLogs(x) /\ NoLowCopy
    BY <1>1, LogsUnchanged DEF NoLowCopy
  <2>2. Cardinality(Passed(x)) <= Cardinality(Passed(x)')
    BY <2>1, PassedGoOn DEF SameLogs
  <2>3. /\ Cardinality(Passed(x)) \in Nat /\ Cardinality(Passed(x)') \in Nat
        /\ Cardinality(Flying(x)) \in 0..Cardinality(Passes) /\ Cardinality(Flying(x)') \in 0..Cardinality(Passes)
    BY NextFacts DEF Facts
  <2>4. PICK c \in Nat, t \in Nat : c = Cardinality(Passes) /\ t = trouble
    BY PassesAreFinite DEF DInv, CountsOK
  <2>5. c * (t + 1) = c * t + c /\ c * t \in Nat
    OBVIOUS
  <2>6. autos[x] <= Cardinality(Passed(x)) + Cardinality(Flying(x)) + c * t /\ autos[x] \in Nat
    BY <1>3, <2>4 DEF RInv, FewRetries, DInv, CountsOK, Events
  <2>7. autos[x] <= Cardinality(Passed(x)') + Cardinality(Flying(x)') + c * (t + 1)
    BY <2>2, <2>3, <2>4, <2>5, <2>6
  <2>8. autos'[x] = autos[x] /\ trouble' = t + 1
    BY <1>1, <2>4
  <2>9. autos'[x] <= Cardinality(Passed(x)') + Cardinality(Flying(x)') + Cardinality(Passes) * trouble'
    BY <2>4, <2>7, <2>8
  <2> QED BY <2>9 DEF FewRetries
<1> QED BY <1>2, <1>3

\* Crashes, time, and records that change.
LEMMA EnvironmentKeepsFew ==
  ASSUME IInv, IInv', RInv, NEW x \in Events,
         \/ \E m \in Messages : DeleteMessage(m)
         \/ \E w \in Webhooks : ChangeHook(w)
         \/ Crash \/ TimePasses
  PROVE  FewLogs(x)' /\ FewRetries(x)'
<1> USE DEF IInv
<1>a. /\ asked \in Nat /\ trouble \in Nat /\ trouble <= trouble /\ asked <= asked
      /\ FirstDue(x) \in {0, 1} /\ AgainDue(x) \in {0, 1} /\ FewLogs(x) /\ x[2] \in Webhooks
  BY DueIsOneAtMost DEF DInv, CountsOK, RInv, Events
<1>b. ASSUME UNCHANGED fanout
      PROVE  FirstDue(x)' = FirstDue(x)
  BY <1>b DEF FirstDue
<1>1. ASSUME NEW m \in Messages, DeleteMessage(m)
      PROVE  FewLogs(x)' /\ FewRetries(x)'
  <2>1. UNCHANGED <<calls, hooks, pass, autos, fanout, logs, manual, asked>> /\ trouble' = trouble + 1
    BY <1>1 DEF DeleteMessage, Trouble
  <2>2. SameLogs(x)
    BY <2>1, LogsUnchanged
  <2>3. AgainDue(x)' = AgainDue(x)
    BY <2>1, <2>2, AgainDueSame DEF SameLogs
  <2>4. FewLogs(x)'
    BY <1>a, <1>b, <2>1, <2>2, <2>3 DEF FewLogs, SameLogs
  <2> QED BY <1>a, <2>1, <2>2, <2>4, RequestKeepsFewRetries
<1>2. ASSUME NEW w \in Webhooks, ChangeHook(w)
      PROVE  FewLogs(x)' /\ FewRetries(x)'
  <2>1. UNCHANGED <<calls, pass, autos, fanout, manual, asked>> /\ trouble' = trouble + 1 /\ hooks[w] # "deleted"
    BY <1>2 DEF ChangeHook, Trouble
  <2>2. PICK s \in {"active", "inactive", "deleted"} \ {hooks[w]} :
           /\ hooks' = [hooks EXCEPT ![w] = s]
           /\ logs' = IF s = "deleted" THEN [i \in DOMAIN logs |-> IF logs[i].hook = w THEN Gone ELSE logs[i]]
                                       ELSE logs
    BY <1>2 DEF ChangeHook
  <2>3. CASE hooks'[x[2]] = "deleted"
    BY <2>3 DEF FewLogs, FewRetries
  <2>4. CASE hooks'[x[2]] # "deleted"
    <3>1. hooks[x[2]] # "deleted" /\ (x[2] = w => s # "deleted")
      BY <1>a, <2>1, <2>2, <2>4 DEF DInv, RecordsOK
    <3>2. SameLogs(x)
      <4>1. CASE s = "deleted"
        BY <2>2, <3>1, <4>1, OtherHooksKeepLogs
      <4>2. CASE s # "deleted"
        BY <2>2, <4>2, LogsUnchanged
      <4> QED BY <4>1, <4>2
    <3>3. AgainDue(x)' = AgainDue(x)
      BY <2>1, <3>2, AgainDueSame DEF SameLogs
    <3>4. FewLogs(x)'
      BY <1>a, <1>b, <2>1, <3>1, <3>2, <3>3, FewLogsStay DEF SameLogs
    <3>5. NoLowCopy /\ CallsGoOn /\ trouble <= trouble'
      BY <1>a, <2>1 DEF NoLowCopy, CallsGoOn
    <3>6. FewRetries(x)'
      BY <2>1, <3>1, <3>2, <3>5, FewRetriesStay DEF SameLogs, RInv
    <3> QED BY <3>4, <3>6
  <2> QED BY <2>3, <2>4
<1>3. CASE Crash
  <2>1. UNCHANGED <<hooks, logs, asked>>
    BY <1>3 DEF Crash
  <2>2. SameLogs(x)
    BY <2>1, LogsUnchanged
  <2>3. AgainDue(x)' = 0
    BY <1>3 DEF Crash, AgainDue, NoRetry, ManualRetry
  <2>4. FirstDue(x)' = 1 => FirstDue(x) = 1
    <3>1. x[1] \in Messages /\ x[2] # None
      BY DeliveryAssumption DEF Events
    <3>2. fanout'[x[1]] = IF fanout[x[1]] = Fresh THEN Fresh ELSE Done
      BY <1>3, <3>1 DEF Crash
    <3> QED BY <3>1, <3>2 DEF FirstDue, Fresh, Done, Goroutine
  <2>5. FirstDue(x)' <= FirstDue(x)
    BY <1>a, <2>4 DEF FirstDue
  <2>6. FewLogs(x)'
    <3>1. CASE hooks[x[2]] = "deleted"
      BY <2>1, <3>1 DEF FewLogs
    <3>2. CASE hooks[x[2]] # "deleted"
      <4>1. AgainDue(x)' <= AgainDue(x) /\ asked <= asked'
        BY <1>a, <2>1, <2>3
      <4> QED BY <1>a, <2>2, <2>5, <3>2, <4>1, FewLogsStay DEF SameLogs
    <3> QED BY <3>1, <3>2
  <2> QED BY <1>3, <2>6, CrashKeepsFewRetries
<1>4. CASE TimePasses
  <2>1. UNCHANGED <<hooks, pass, autos, fanout, logs, manual, asked, trouble>>
    BY <1>4 DEF TimePasses, bounds
  <2>2. SameLogs(x)
    BY <2>1, LogsUnchanged
  <2>3. AgainDue(x)' = AgainDue(x)
    BY <2>1, <2>2, AgainDueSame DEF SameLogs
  <2>4. FewLogs(x)'
    BY <1>a, <1>b, <2>1, <2>2, <2>3 DEF FewLogs, SameLogs
  <2>5. \A p \in Passes : calls[p] # Idle => calls'[p] # Idle
    <3>1. SUFFICES ASSUME NEW p \in Passes, calls[p] # Idle
                   PROVE  calls'[p] # Idle
      OBVIOUS
    <3>2. p \in Callers /\ calls[p] \in CallType
      BY CallersSplit, CallsTyped
    <3>3. calls'[p] = [host |-> calls[p].host, age |-> calls[p].age + 1]
      BY <1>4, <3>1, <3>2 DEF TimePasses, Tick
    <3>4. calls[p].host \in Hosts /\ calls[p].age + 1 \in Nat
      BY <3>1, <3>2, BreakerAssumption DEF CallType
    <3> QED BY <3>3, <3>4, CallIsNotIdle
  <2>6. FewRetries(x)'
    <3>1. CASE hooks[x[2]] = "deleted"
      BY <2>1, <3>1 DEF FewRetries
    <3>2. CASE hooks[x[2]] # "deleted"
      <4>1. NoLowCopy /\ CallsGoOn
        BY <2>1, <2>5 DEF NoLowCopy, CallsGoOn
      <4> QED BY <1>a, <2>1, <2>2, <3>2, <4>1, FewRetriesStay DEF SameLogs, RInv
    <3> QED BY <3>1, <3>2
  <2> QED BY <2>4, <2>6
<1> QED BY <1>1, <1>2, <1>3, <1>4

-----------------------------------------------------------------------------
(* Steps of a pass                                                           *)

\* A pass creates no log.
LEMMA PassKeepsFewLogs ==
  ASSUME DInv, DInv', NEW x \in Events, FewLogs(x), UNCHANGED <<hooks, fanout, manual, asked>>,
         LogsOf(x)' = LogsOf(x)
  PROVE  FewLogs(x)'
<1>1. FirstDue(x)' = FirstDue(x) /\ AgainDue(x)' = AgainDue(x)
  BY DEF FirstDue, AgainDue
<1> QED BY <1>1 DEF FewLogs

LEMMA LoadKeepsFew ==
  ASSUME IInv, IInv', RInv, NEW p \in Passes, NEW x \in Events, RetryFailedWebhooks(p)
  PROVE  FewLogs(x)' /\ FewRetries(x)'
<1> USE DEF IInv
<1>1. /\ UNCHANGED <<calls, hooks, logs, fanout, manual, autos, asked, trouble>>
      /\ pass' = [pass EXCEPT ![p] = Loaded] /\ pass[p] = {}
  BY DEF RetryFailedWebhooks, bounds
<1>2. SameLogs(x)
  BY <1>1, LogsUnchanged
<1>3. FewLogs(x)'
  BY <1>1, <1>2, PassKeepsFewLogs DEF RInv, SameLogs
<1>4. ASSUME NEW r \in Loaded
      PROVE  Counted(r.log) <= r.count
  <2>1. PICK i \in Due : r = [log |-> i, count |-> logs[i].count]
    BY DEF Loaded
  <2>2. i \in DOMAIN logs /\ Pending(logs[i])
    BY DEF Due
  <2>3. Counted(i) = logs[i].count /\ Counted(i) \in 0..MaxRetries
    BY <2>2, LogIsTyped DEF Counted, DInv
  <2>4. Counted(i) \in Int
    BY <2>3, DeliveryAssumption
  <2> QED BY <2>1, <2>3, <2>4
<1>5. \A q \in Passes : pass'[q] = IF q = p THEN Loaded ELSE pass[q]
  <2> HIDE DEF Loaded
  <2> QED BY <1>1 DEF DInv, PassOK
<1>6. NoLowCopy
  BY <1>4, <1>5 DEF NoLowCopy
<1>7. CallsGoOn
  BY <1>1, <1>5 DEF CallsGoOn, DInv, PassOK
<1>8. FewRetries(x)'
  <2>1. CASE hooks[x[2]] = "deleted"
    BY <1>1, <2>1 DEF FewRetries
  <2>2. CASE hooks[x[2]] # "deleted"
    <3>1. trouble <= trouble'
      BY <1>1 DEF DInv, CountsOK
    <3> QED BY <1>1, <1>2, <1>6, <1>7, <2>2, <3>1, FewRetriesStay DEF RInv, SameLogs
  <2> QED BY <2>1, <2>2
<1> QED BY <1>3, <1>8

\* A retry is sent: the pass that sends it made no call before.
LEMMA RetryTakesOff ==
  ASSUME IInv, IInv', RInv, NEW p \in Passes, NEW r \in pass[p], NEW x \in Events,
         calls[p] = Idle, IsNext(p, r), UNCHANGED <<hooks, logs, pass, trouble>>,
         NEW c, c # Idle, calls' = [calls EXCEPT ![p] = c],
         autos' = [autos EXCEPT ![Event(logs[r.log])] = @ + 1]
  PROVE  FewRetries(x)'
<1> USE DEF IInv
<1>a. p \in Callers /\ calls \in [Callers -> CallType] /\ Passes \subseteq Callers /\ r.log \in DOMAIN logs
  BY CallersSplit, CallsTyped DEF DInv, PassOK
<1>1. SameLogs(x) /\ NoLowCopy /\ CallsGoOn
  BY <1>a, LogsUnchanged DEF NoLowCopy, CallsGoOn
<1>2. trouble <= trouble'
  BY DEF DInv, CountsOK
<1>3. CASE hooks[x[2]] = "deleted"
  BY <1>3 DEF FewRetries
<1>4. CASE hooks[x[2]] # "deleted" /\ Event(logs[r.log]) # x
  <2>1. autos'[x] = autos[x]
    BY <1>4 DEF DInv, CountsOK, Events
  <2> QED BY <1>1, <1>2, <1>4, <2>1, FewRetriesStay DEF RInv, SameLogs
<1>5. CASE hooks[x[2]] # "deleted" /\ Event(logs[r.log]) = x
  <2>1. p \notin Flying(x)
    BY DEF Flying
  <2>2. p \in Flying(x)'
    <3>1. r.log \in LogsOf(x)'
      BY <1>a, <1>5, <1>1 DEF LogsOf, SameLogs
    <3>2. calls'[p] # Idle /\ IsNext(p, r)' /\ r \in pass'[p]
      BY <1>a DEF IsNext
    <3> QED BY <3>1, <3>2 DEF Flying
  <2>3. \A q \in Flying(x) : q \in Flying(x)'
    <3>1. ASSUME NEW q \in Flying(x)
          PROVE  q \in Flying(x)'
      <4>1. q \in Passes /\ calls'[q] # Idle
        BY <1>1 DEF Flying, CallsGoOn
      <4>2. \E s \in pass'[q] : IsNext(q, s)' /\ s.log \in LogsOf(x)'
        BY <1>1 DEF Flying, IsNext, SameLogs
      <4> QED BY <4>1, <4>2 DEF Flying
    <3> QED BY <3>1
  <2>4. Cardinality(Flying(x)) + 1 <= Cardinality(Flying(x)')
    <3>1. Facts /\ Facts'
      BY NextFacts
    <3>2. Flying(x) \cup {p} \subseteq Flying(x)'
      BY <2>2, <2>3
    <3>3. Cardinality(Flying(x) \cup {p}) = Cardinality(Flying(x)) + 1
      BY <2>1, <3>1, FS_AddElement DEF Facts
    <3> QED BY <3>1, <3>2, <3>3, FS_Subset DEF Facts
  <2>5. Cardinality(Passed(x)) <= Cardinality(Passed(x)')
    BY <1>1, PassedGoOn DEF SameLogs
  <2>6. /\ Cardinality(Passed(x)) \in Nat /\ Cardinality(Passed(x)') \in Nat
        /\ Cardinality(Flying(x)) \in 0..Cardinality(Passes) /\ Cardinality(Flying(x)') \in 0..Cardinality(Passes)
    BY NextFacts DEF Facts
  <2>7. PICK n \in Nat : n = Cardinality(Passes) * trouble
    BY PassesAreFinite DEF DInv, CountsOK
  <2>8. autos[x] <= Cardinality(Passed(x)) + Cardinality(Flying(x)) + n /\ autos[x] \in Nat
    BY <1>5, <2>7 DEF RInv, FewRetries, DInv, CountsOK, Events
  <2>9. autos'[x] = autos[x] + 1
    BY <1>5 DEF DInv, CountsOK, Events
  <2>10. Cardinality(Flying(x)) \in Int /\ Cardinality(Flying(x)') \in Int
    BY <2>6, PassesAreFinite
  <2>11. autos'[x] <= Cardinality(Passed(x)') + Cardinality(Flying(x)') + n
    BY <2>4, <2>5, <2>6, <2>8, <2>9, <2>10
  <2>12. autos'[x] <= Cardinality(Passed(x)') + Cardinality(Flying(x)') + Cardinality(Passes) * trouble'
    BY <2>7, <2>11
  <2> QED BY <2>12 DEF FewRetries
<1> QED BY <1>3, <1>4, <1>5

LEMMA NextRetryKeepsFew ==
  ASSUME IInv, IInv', RInv, NEW p \in Passes, NEW r \in pass[p], NEW x \in Events, NextRetry(p, r)
  PROVE  FewLogs(x)' /\ FewRetries(x)'
<1> USE DEF IInv
<1>a. /\ p \in Callers /\ calls \in [Callers -> CallType] /\ Passes \subseteq Callers /\ r.log \in DOMAIN logs
      /\ calls[p] = Idle /\ IsNext(p, r)
  BY CallersSplit, CallsTyped DEF DInv, PassOK, NextRetry
<1>1. UNCHANGED <<hooks, fanout, manual, asked, trouble>>
  BY DEF NextRetry, bounds
<1>2. \/ /\ UNCHANGED <<calls, autos>> /\ Leaves(p, r)
         /\ UNCHANGED logs \/ ClearRetry(r.log)
      \/ /\ logs[r.log] # Gone /\ Allow(p, HostOf[logs[r.log].hook]) /\ UNCHANGED <<logs, pass>>
         /\ autos' = [autos EXCEPT ![Event(logs[r.log])] = @ + 1]
  BY DEF NextRetry, Refused, Unused, Event
<1>3. SameLogs(x)
  <2>1. CASE UNCHANGED logs
    BY <2>1, LogsUnchanged
  <2>2. CASE ClearRetry(r.log)
    BY <1>a, <2>2, RetryTimeChanged DEF ClearRetry
  <2> QED BY <1>2, <2>1, <2>2
<1>4. FewLogs(x)'
  BY <1>1, <1>3, PassKeepsFewLogs DEF RInv, SameLogs
<1>5. CASE UNCHANGED <<calls, autos>> /\ Leaves(p, r)
  <2>1. \A q \in Passes : pass'[q] \subseteq pass[q] /\ (q # p => pass'[q] = pass[q])
    BY <1>5 DEF Leaves, DInv, PassOK
  <2>2. NoLowCopy /\ CallsGoOn
    BY <1>a, <1>5, <2>1 DEF NoLowCopy, CallsGoOn
  <2>3. FewRetries(x)'
    <3>1. CASE hooks[x[2]] = "deleted"
      BY <1>1, <3>1 DEF FewRetries
    <3>2. CASE hooks[x[2]] # "deleted"
      <4>1. trouble <= trouble'
        BY <1>1 DEF DInv, CountsOK
      <4> QED BY <1>3, <1>5, <2>2, <3>2, <4>1, FewRetriesStay DEF RInv, SameLogs
    <3> QED BY <3>1, <3>2
  <2> QED BY <1>4, <2>3
<1>6. CASE /\ logs[r.log] # Gone /\ Allow(p, HostOf[logs[r.log].hook]) /\ UNCHANGED <<logs, pass>>
           /\ autos' = [autos EXCEPT ![Event(logs[r.log])] = @ + 1]
  <2>1. HostOf[logs[r.log].hook] \in Hosts
    BY <1>a, <1>6, LogsHaveHooks, HostsOfWebhooks DEF DInv
  <2>2. PICK c : c # Idle /\ calls' = [calls EXCEPT ![p] = c]
    BY <1>6, <2>1, CallIsNotIdle DEF Allow
  <2>3. FewRetries(x)'
    BY <1>a, <1>1, <1>6, <2>2, RetryTakesOff
  <2> QED BY <1>4, <2>3
<1> QED BY <1>2, <1>5, <1>6

\* The call a pass makes ends: the other passes still make theirs.
LEMMA RetryLands ==
  ASSUME DInv, DInv', RInv, NEW p \in Passes, NEW r \in pass[p], NEW x \in Events, IsNext(p, r),
         Leaves(p, r), \A q \in Passes : q # p => calls'[q] = calls[q], LogsOf(x)' = LogsOf(x)
  PROVE  /\ Cardinality(Flying(x)) <= Cardinality(Flying(x)') + 1
         /\ r.log \notin LogsOf(x) => Cardinality(Flying(x)) <= Cardinality(Flying(x)')
<1>1. \A q \in Passes : q # p => pass'[q] = pass[q]
  BY DEF Leaves, DInv, PassOK
<1>2. ASSUME NEW q \in Flying(x), q # p
      PROVE  q \in Flying(x)'
  <2>1. q \in Passes /\ calls'[q] # Idle /\ pass'[q] = pass[q]
    BY <1>1, <1>2 DEF Flying
  <2>2. \E s \in pass'[q] : IsNext(q, s)' /\ s.log \in LogsOf(x)'
    BY <2>1 DEF Flying, IsNext
  <2> QED BY <2>1, <2>2 DEF Flying
<1>3. /\ IsFiniteSet(Flying(x)) /\ IsFiniteSet(Flying(x)')
      /\ Cardinality(Flying(x)) \in Int /\ Cardinality(Flying(x)') \in Int
  BY NextFacts, PassesAreFinite DEF Facts
<1>4. Cardinality(Flying(x) \ {p}) <= Cardinality(Flying(x)')
  BY <1>2, <1>3, FS_Subset
<1>5. CASE p \in Flying(x)
  <2>1. Cardinality(Flying(x) \ {p}) = Cardinality(Flying(x)) - 1
    BY <1>3, <1>5, FS_RemoveElement
  <2>2. PICK s \in pass[p] : IsNext(p, s) /\ s.log \in LogsOf(x)
    BY <1>5 DEF Flying
  <2>3. s.log <= r.log /\ r.log <= s.log /\ s.log \in DOMAIN logs /\ r.log \in DOMAIN logs
    BY <2>2 DEF IsNext, DInv, PassOK
  <2>4. s.log \in Nat /\ r.log \in Nat
    BY <2>3, LenProperties DEF DInv, LogsOK
  <2>5. r.log = s.log
    BY <2>3, <2>4
  <2> QED BY <1>3, <1>4, <2>1, <2>2, <2>5
<1>6. CASE p \notin Flying(x)
  <2>1. Flying(x) \ {p} = Flying(x)
    BY <1>6
  <2> QED BY <1>3, <1>4, <2>1
<1> QED BY <1>5, <1>6

\* The retry of a log is saved: a pass has one chance less to save a count this low.
LEMMA SavedRetryCounts ==
  ASSUME DInv, DInv', RInv, NEW p \in Passes, NEW r \in pass[p], NEW o \in Outcomes, NEW x \in Events,
         r.log \in LogsOf(x), logs' = Retried(r, o), Leaves(p, r)
  PROVE  /\ LogsOf(x)' = LogsOf(x)
         /\ Cardinality(Passed(x)) + 1 <= Cardinality(Passed(x)')
<1>1. PICK j \in DOMAIN logs : j = r.log
  BY DEF DInv, PassOK
<1>2. r.count \in Counts /\ r.count \in Nat /\ r.count + 1 <= MaxRetries /\ MaxRetries \in Nat
  BY DeliveryAssumption DEF DInv, PassOK, Counts
<1>3. PICK l : l = Edited(logs[j], r.count, o)
  OBVIOUS
<1>4. logs' = [logs EXCEPT ![j] = l] /\ logs'[j] = l
  BY <1>1, <1>3 DEF Retried
<1>5. Event(l) = Event(logs[j]) /\ l.count = r.count + 1
  BY <1>3 DEF Event, Edited, Log
<1>6. /\ LogsOf(x)' = LogsOf(x)
      /\ \A i \in LogsOf(x) : i # j => Counted(i) <= Counted(i)'
  BY <1>4, <1>5, LogOverwritten
<1>7. Counted(j)' = r.count + 1 \/ Counted(j)' = MaxRetries
  BY <1>4, <1>5 DEF Counted
<1>8. \A v \in Counts : v <= r.count => ~ (Counted(j)' <= v)
  BY <1>2, <1>7, CountsAreNumbers
<1>9. \A q \in Passes : pass'[q] \subseteq pass[q] /\ (q = p => pass'[q] = pass[q] \ {r})
  BY DEF Leaves, DInv, PassOK
<1>10. \A i \in LogsOf(x) : i \in LogsOf(x)' /\ (i # j => Settled(i))
  BY <1>6, <1>9 DEF Settled
<1>11. p \in Low(j, r.count)
  <2>1. r.count <= r.count
    BY <1>2
  <2> QED BY <1>1, <2>1 DEF Low
<1>12. \A v \in Counts : v <= r.count => Low(j, v)' = {q \in Passes : \E s \in pass'[q] : s.log = j /\ s.count <= v}
  BY <1>8 DEF Low
<1>13. p \notin Low(j, r.count)'
  <2>1. \A s \in pass'[p] : s \in pass[p] /\ s # r
    BY <1>9
  <2>2. \A s \in pass'[p] : s.log # j
    BY <1>1, <2>1 DEF RInv, Distinct
  <2>3. r.count <= r.count
    BY <1>2
  <2> QED BY <1>2, <1>12, <2>2, <2>3
<1>14. \A v \in Counts : v <= r.count => Low(j, v)' \subseteq Low(j, v)
  <2>1. ASSUME NEW v \in Counts, v <= r.count
        PROVE  Low(j, v)' \subseteq Low(j, v)
    <3>1. Low(j, v)' \subseteq {q \in Passes : \E s \in pass[q] : s.log = j /\ s.count <= v}
      BY <1>9, <1>12, <2>1
    <3> QED BY <3>1 DEF Low
  <2> QED BY <2>1
<1>15. Cardinality(Passed(x)) + 1 <= Cardinality(Passed(x)')
  <2>1. PICK s \in Counts : s = r.count
    BY <1>2
  <2>2. p \in Low(j, s) /\ p \notin Low(j, s)' /\ j \in LogsOf(x)
    BY <1>1, <1>11, <1>13, <2>1
  <2>3. \A v \in Counts : v <= s => Low(j, v)' \subseteq Low(j, v)
    BY <1>14, <2>1
  <2> QED BY <1>10, <2>2, <2>3, PassedGrows
<1> QED BY <1>6, <1>15

LEMMA RetryAnsweredKeepsFew ==
  ASSUME IInv, IInv', RInv, NEW p \in Passes, NEW r \in pass[p], NEW o \in Outcomes, NEW x \in Events,
         RetryAnswered(p, r, o)
  PROVE  FewLogs(x)' /\ FewRetries(x)'
<1> USE DEF IInv
<1>a. /\ p \in Callers /\ calls \in [Callers -> CallType] /\ Passes \subseteq Callers /\ r.log \in DOMAIN logs
      /\ IsNext(p, r) /\ Leaves(p, r)
  BY CallersSplit, CallsTyped DEF DInv, PassOK, RetryAnswered
<1>1. UNCHANGED <<hooks, fanout, manual, autos, asked>>
  BY DEF RetryAnswered, bounds
<1>2. \A q \in Passes : q # p => calls'[q] = calls[q]
  <2>1. calls' = [calls EXCEPT ![p] = Idle]
    BY <1>a, RecordEndsCall DEF RetryAnswered
  <2> QED BY <1>a, <2>1
<1>3. \A q \in Passes : pass'[q] \subseteq pass[q]
  BY <1>a DEF Leaves, DInv, PassOK
<1>4. NoLowCopy
  BY <1>3 DEF NoLowCopy
<1>5. PICK c \in Nat, t \in Nat : c = Cardinality(Passes) /\ t = trouble
  BY PassesAreFinite DEF DInv, CountsOK
<1>6. c >= 1
  BY <1>5, PassesAreFinite, FS_EmptySet
<1>7. c * (t + 1) = c * t + c /\ c * t \in Nat
  BY <1>5
<1>8. /\ Cardinality(Passed(x)) \in Nat /\ Cardinality(Passed(x)') \in Nat
      /\ Cardinality(Flying(x)) \in Int /\ Cardinality(Flying(x)') \in Int
  BY NextFacts, PassesAreFinite DEF Facts
<1>9. ASSUME hooks[x[2]] # "deleted"
      PROVE  autos[x] <= Cardinality(Passed(x)) + Cardinality(Flying(x)) + c * t /\ autos[x] \in Nat
  BY <1>5, <1>9 DEF RInv, FewRetries, DInv, CountsOK, Events
<1>b. ASSUME autos[x] <= Cardinality(Passed(x)') + Cardinality(Flying(x)') + c * trouble'
      PROVE  FewRetries(x)'
  BY <1>1, <1>5, <1>b DEF FewRetries
<1>10. ASSUME LogsOf(x)' = LogsOf(x)
       PROVE  FewLogs(x)'
  BY <1>1, <1>10, PassKeepsFewLogs DEF RInv
<1>c. CASE hooks[x[2]] = "deleted"
  BY <1>1, <1>c DEF FewLogs, FewRetries
\* A result that is lost is one of the troubles.
<1>11. CASE hooks[x[2]] # "deleted" /\ Trouble /\ UNCHANGED logs
  <2>1. SameLogs(x) /\ LogsOf(x)' = LogsOf(x)
    BY <1>11, LogsUnchanged DEF SameLogs
  <2>2. Cardinality(Passed(x)) <= Cardinality(Passed(x)')
    BY <1>4, <2>1, PassedGoOn DEF SameLogs
  <2>3. Cardinality(Flying(x)) <= Cardinality(Flying(x)') + 1
    BY <1>a, <1>2, <2>1, RetryLands
  <2>4. trouble' = t + 1
    BY <1>5, <1>11 DEF Trouble
  <2>5. autos[x] <= Cardinality(Passed(x)') + Cardinality(Flying(x)') + c * (t + 1)
    BY <1>5, <1>6, <1>7, <1>8, <1>9, <1>11, <2>2, <2>3
  <2> QED BY <1>b, <1>10, <2>1, <2>4, <2>5
\* The log is gone, with its webhook.
<1>12. CASE hooks[x[2]] # "deleted" /\ logs[r.log] = Gone /\ UNCHANGED <<logs, asked, trouble>>
  <2>1. SameLogs(x) /\ LogsOf(x)' = LogsOf(x)
    BY <1>12, LogsUnchanged DEF SameLogs
  <2>2. Cardinality(Passed(x)) <= Cardinality(Passed(x)')
    BY <1>4, <2>1, PassedGoOn DEF SameLogs
  <2>3. r.log \notin LogsOf(x)
    BY <1>12, DeliveryAssumption DEF LogsOf, Event, Gone, Log, Events
  <2>4. Cardinality(Flying(x)) <= Cardinality(Flying(x)')
    BY <1>a, <1>2, <2>1, <2>3, RetryLands
  <2>5. autos[x] <= Cardinality(Passed(x)') + Cardinality(Flying(x)') + c * t
    BY <1>7, <1>8, <1>9, <1>12, <2>2, <2>4
  <2>6. trouble' = t
    BY <1>5, <1>12
  <2> QED BY <1>b, <1>10, <2>1, <2>5, <2>6
<1>13. CASE hooks[x[2]] # "deleted" /\ logs[r.log] # Gone /\ logs' = Retried(r, o) /\ UNCHANGED <<asked, trouble>>
  <2>1. trouble' = t
    BY <1>5, <1>13
  <2>2. CASE r.log \in LogsOf(x)
    <3>1. LogsOf(x)' = LogsOf(x) /\ Cardinality(Passed(x)) + 1 <= Cardinality(Passed(x)')
      BY <1>a, <1>13, <2>2, SavedRetryCounts
    <3>2. Cardinality(Flying(x)) <= Cardinality(Flying(x)') + 1
      BY <1>a, <1>2, <3>1, RetryLands
    <3>3. autos[x] <= Cardinality(Passed(x)') + Cardinality(Flying(x)') + c * t
      BY <1>7, <1>8, <1>9, <1>13, <3>1, <3>2
    <3> QED BY <1>b, <1>10, <2>1, <3>1, <3>3
  <2>3. CASE r.log \notin LogsOf(x)
    <3>1. PICK l : l = Edited(logs[r.log], r.count, o)
      OBVIOUS
    <3>2. logs' = [logs EXCEPT ![r.log] = l] /\ Event(l) = Event(logs[r.log])
      BY <1>13, <3>1 DEF Retried, Event, Edited, Log
    <3>3. /\ LogsOf(x)' = LogsOf(x)
          /\ \A i \in LogsOf(x) : i # r.log => Counted(i) <= Counted(i)'
      BY <1>a, <3>2, LogOverwritten
    <3>4. SameLogs(x)
      BY <2>3, <3>3 DEF SameLogs
    <3>5. Cardinality(Passed(x)) <= Cardinality(Passed(x)')
      BY <1>4, <3>4, PassedGoOn DEF SameLogs
    <3>6. Cardinality(Flying(x)) <= Cardinality(Flying(x)')
      BY <1>a, <1>2, <2>3, <3>3, RetryLands
    <3>7. autos[x] <= Cardinality(Passed(x)') + Cardinality(Flying(x)') + c * t
      BY <1>7, <1>8, <1>9, <1>13, <3>5, <3>6
    <3> QED BY <1>b, <1>10, <2>1, <3>3, <3>7
  <2> QED BY <2>2, <2>3
<1> QED
  <2>1. \/ logs' = (IF logs[r.log] = Gone THEN logs ELSE Retried(r, o)) /\ UNCHANGED <<asked, trouble>>
        \/ Trouble /\ UNCHANGED <<logs, asked>>
    BY DEF RetryAnswered, bounds
  <2> QED BY <1>c, <1>11, <1>12, <1>13, <2>1

-----------------------------------------------------------------------------
(* How often an event is retried                                             *)

LEMMA NextKeepsFew ==
  ASSUME IInv, IInv', RInv, [Next]_vars, NEW x \in Events
  PROVE  FewLogs(x)' /\ FewRetries(x)'
<1>1. ASSUME NEW m \in Messages, TriggerWebhooks(m) \/ FanOut(m) \/ Panic(m)
      PROVE  FewLogs(x)' /\ FewRetries(x)'
  BY <1>1, GoroutineKeepsFew, DeliveryKeepsFew DEF FanOut
<1>2. ASSUME NEW p \in Passes, Pass(p)
      PROVE  FewLogs(x)' /\ FewRetries(x)'
  BY <1>2, LoadKeepsFew, NextRetryKeepsFew, RetryAnsweredKeepsFew DEF Pass
<1>3. CASE \/ \E i \in DOMAIN logs : Elapse(i) \/ RetryWebhookDelivery(i)
           \/ \E o \in Outcomes : ManualAnswered(o)
           \/ ManualClear
           \/ \E w \in Webhooks : SendTestWebhook(w)
  BY <1>3, RequestKeepsFew
<1>4. CASE \/ \E m \in Messages : DeleteMessage(m)
           \/ \E w \in Webhooks : ChangeHook(w)
           \/ Crash \/ TimePasses
  BY <1>4, EnvironmentKeepsFew
<1>5. CASE UNCHANGED vars
  <2>1. UNCHANGED <<calls, hooks, logs, fanout, pass, manual, autos, asked, trouble>>
    BY <1>5 DEF vars, bounds
  <2>2. SameLogs(x) /\ trouble <= trouble'
    BY <2>1, LogsUnchanged DEF IInv, DInv, CountsOK
  <2>3. FewLogs(x)'
    BY <2>1, <2>2, PassKeepsFewLogs DEF IInv, RInv, SameLogs
  <2>4. FewRetries(x)'
    BY <2>1, <2>2, RequestKeepsFewRetries DEF IInv
  <2> QED BY <2>3, <2>4
<1> QED BY <1>1, <1>2, <1>3, <1>4, <1>5 DEF Next

LEMMA DistinctGoroutines ==
  ASSUME DInv, NEW m \in Messages, NEW f, fanout' = [fanout EXCEPT ![m] = f], Distinct, f.at \notin f.left
  PROVE  \A n \in Messages : fanout'[n].at \notin fanout'[n].left
<1>1. \A n \in Messages : fanout'[n] = IF n = m THEN f ELSE fanout[n]
  BY DEF DInv, FanoutOK
<1> QED BY <1>1 DEF Distinct

LEMMA NextKeepsDistinct ==
  ASSUME IInv, RInv, [Next]_vars
  PROVE  Distinct'
<1> USE DEF IInv
<1>1. \A m \in Messages : fanout'[m].at \notin fanout'[m].left
  <2>a. \A m \in Messages : fanout[m] \in Goroutines /\ fanout[m].left \subseteq Webhooks /\ None \notin fanout[m].left
    BY DeliveryAssumption DEF DInv, FanoutOK, Goroutines
  <2>b. Done.at \notin Done.left /\ Distinct
    BY DEF Done, Goroutine, RInv
  <2>1. ASSUME NEW m \in Messages, TriggerWebhooks(m) \/ Refetch(m)
        PROVE  \A n \in Messages : fanout'[n].at \notin fanout'[n].left
    <3>1. None \notin Webhooks
      BY DeliveryAssumption
    <3>2. PICK f : fanout' = [fanout EXCEPT ![m] = f]
                   /\ f \in {Done, Goroutine("found", {w \in Webhooks : hooks[w] = "active"}, None, FALSE),
                             Goroutine("run", fanout[m].left, None, FALSE)}
      BY <2>1 DEF TriggerWebhooks, Refetch
    <3>3. f.at \notin f.left
      BY <2>a, <2>b, <3>1, <3>2 DEF Goroutine
    <3> QED BY <2>b, <3>2, <3>3, DistinctGoroutines
  <2>2. ASSUME NEW m \in Messages, NextWebhook(m)
        PROVE  \A n \in Messages : fanout'[n].at \notin fanout'[n].left
    <3>1. PICK w, f :
             /\ w \in fanout[m].left /\ fanout' = [fanout EXCEPT ![m] = f]
             /\ f \in {Goroutine("run", fanout[m].left \ {w}, v, fanout[m].ok) : v \in {None, w}}
      BY <2>2 DEF NextWebhook
    <3>2. f.at \notin f.left
      BY <2>a, <3>1 DEF Goroutine
    <3> QED BY <2>b, <3>1, <3>2, DistinctGoroutines
  <2>3. ASSUME NEW m \in Messages, NEW o \in Outcomes, SendWebhookForMessage(m, o)
        PROVE  \A n \in Messages : fanout'[n].at \notin fanout'[n].left
    <3>1. PICK f : f = Goroutine("run", fanout[m].left, None, fanout[m].ok \/ o = "success")
      OBVIOUS
    <3>2. fanout' = [fanout EXCEPT ![m] = f]
      BY <2>3, <3>1 DEF SendWebhookForMessage
    <3>3. f.at \notin f.left
      BY <2>a, <3>1 DEF Goroutine
    <3> QED BY <2>b, <3>2, <3>3, DistinctGoroutines
  <2>4. ASSUME NEW m \in Messages, FanOutDone(m) \/ Panic(m)
        PROVE  \A n \in Messages : fanout'[n].at \notin fanout'[n].left
    <3>1. fanout' = [fanout EXCEPT ![m] = Done]
      BY <2>4 DEF FanOutDone, Panic, Stopped
    <3> QED BY <2>b, <3>1, DistinctGoroutines
  <2>5. CASE Crash
    BY <2>5 DEF Crash, Fresh, Done, Goroutine
  <2>6. CASE UNCHANGED fanout
    BY <2>b, <2>6 DEF Distinct
  <2>7. UNCHANGED fanout \/ Crash
        \/ \E m \in Messages : TriggerWebhooks(m) \/ FanOut(m) \/ Panic(m)
    BY DEF Next, vars, Pass, Elapse, RetryFailedWebhooks, NextRetry, RetryAnswered, RetryWebhookDelivery,
           ManualAnswered, ManualClear, SendTestWebhook, ChangeHook, DeleteMessage, TimePasses
  <2> QED BY <2>1, <2>2, <2>3, <2>4, <2>5, <2>6, <2>7 DEF FanOut
<1>2. \A p \in Passes : \A r, s \in pass'[p] : r.log = s.log => r = s
  <2>1. ASSUME NEW p \in Passes, RetryFailedWebhooks(p)
        PROVE  \A q \in Passes : \A r, s \in pass'[q] : r.log = s.log => r = s
    <3>1. \A r, s \in Loaded : r.log = s.log => r = s
      <4>1. SUFFICES ASSUME NEW r \in Loaded, NEW s \in Loaded, r.log = s.log
                     PROVE  r = s
        OBVIOUS
      <4>2. PICK i \in Due : r = [log |-> i, count |-> logs[i].count]
        BY DEF Loaded
      <4>3. PICK j \in Due : s = [log |-> j, count |-> logs[j].count]
        BY DEF Loaded
      <4> QED BY <4>1, <4>2, <4>3
    <3>2. \A q \in Passes : pass'[q] = IF q = p THEN Loaded ELSE pass[q]
      <4>1. pass' = [pass EXCEPT ![p] = Loaded]
        BY <2>1 DEF RetryFailedWebhooks
      <4> HIDE DEF Loaded
      <4> QED BY <4>1 DEF DInv, PassOK
    <3> QED BY <3>1, <3>2 DEF RInv, Distinct
  <2>2. ASSUME \A q \in Passes : pass'[q] \subseteq pass[q]
        PROVE  \A q \in Passes : \A r, s \in pass'[q] : r.log = s.log => r = s
    BY <2>2 DEF RInv, Distinct
  <2>3. ASSUME NEW p \in Passes, NEW r, Leaves(p, r)
        PROVE  \A q \in Passes : pass'[q] \subseteq pass[q]
    BY <2>3 DEF Leaves, DInv, PassOK
  <2>4. CASE Crash
    <3>1. \A q \in Passes : pass'[q] = {}
      BY <2>4 DEF Crash
    <3> QED BY <2>2, <3>1
  <2>5. CASE UNCHANGED pass
    BY <2>2, <2>5
  <2>6. ASSUME NEW p \in Passes, Pass(p)
        PROVE  RetryFailedWebhooks(p) \/ UNCHANGED pass \/ \E r : Leaves(p, r)
    BY <2>6 DEF Pass, NextRetry, RetryAnswered
  <2>7. UNCHANGED pass \/ Crash \/ \E p \in Passes : Pass(p)
    BY DEF Next, vars, FanOut, TriggerWebhooks, Refetch, NextWebhook, SendWebhookForMessage, FanOutDone, Panic,
           Elapse, RetryWebhookDelivery, ManualAnswered, ManualClear, SendTestWebhook, ChangeHook, DeleteMessage,
           TimePasses
  <2> QED BY <2>1, <2>2, <2>3, <2>4, <2>5, <2>6, <2>7
<1> QED BY <1>1, <1>2 DEF Distinct

\* Attempts are only counted for active webhooks, and the bounds never fall.
LEMMA NextCounts ==
  ASSUME IInv, [Next]_vars, NEW x \in Events
  PROVE  /\ asked <= asked' /\ trouble <= trouble'
         /\ hooks'[x[2]] = "deleted" => autos'[x] = autos[x]
<1> USE DEF IInv
<1>a. asked \in Nat /\ trouble \in Nat /\ autos \in [Events -> Nat] /\ \A e \in Events : e = <<e[1], e[2]>>
  BY DEF DInv, CountsOK, Events
<1>1. asked <= asked' /\ trouble <= trouble'
  <2>1. (asked' = asked \/ asked' = asked + 1) /\ (trouble' = trouble \/ trouble' = trouble + 1)
    <3>1. CASE \E m \in Messages : TriggerWebhooks(m) \/ FanOut(m) \/ Panic(m) \/ DeleteMessage(m)
      BY <3>1 DEF FanOut, TriggerWebhooks, Refetch, NextWebhook, SendWebhookForMessage, FanOutDone, Panic,
                  DeleteMessage, Trouble, bounds
    <3>2. CASE \E p \in Passes : Pass(p)
      BY <3>2 DEF Pass, RetryFailedWebhooks, NextRetry, RetryAnswered, Trouble, bounds
    <3>3. CASE \/ \E i \in DOMAIN logs : Elapse(i) \/ RetryWebhookDelivery(i)
               \/ \E o \in Outcomes : ManualAnswered(o)
               \/ ManualClear
               \/ \E w \in Webhooks : SendTestWebhook(w) \/ ChangeHook(w)
      BY <3>3 DEF Elapse, RetryWebhookDelivery, ManualAnswered, ManualClear, SendTestWebhook, ChangeHook,
                  Trouble, Ask, bounds
    <3>4. CASE Crash \/ TimePasses \/ UNCHANGED vars
      BY <3>4 DEF Crash, TimePasses, Trouble, vars, bounds
    <3> QED BY <3>1, <3>2, <3>3, <3>4 DEF Next
  <2> QED BY <1>a, <2>1
<1>2. UNCHANGED autos \/ \E p \in Passes : \E r \in pass[p] : NextRetry(p, r)
  BY DEF Next, vars, FanOut, TriggerWebhooks, Refetch, NextWebhook, SendWebhookForMessage, FanOutDone, Panic,
         Pass, RetryFailedWebhooks, RetryAnswered, Elapse, RetryWebhookDelivery, ManualAnswered, ManualClear,
         SendTestWebhook, ChangeHook, DeleteMessage, Crash, TimePasses
<1>3. ASSUME NEW p \in Passes, NEW r \in pass[p], NextRetry(p, r), hooks'[x[2]] = "deleted"
      PROVE  autos'[x] = autos[x]
  <2>1. UNCHANGED hooks
    BY <1>3 DEF NextRetry
  <2>2. UNCHANGED autos
        \/ \E e : e[2] = logs[r.log].hook /\ hooks[e[2]] = "active" /\ autos' = [autos EXCEPT ![e] = @ + 1]
    BY <1>3 DEF NextRetry
  <2>3. ASSUME NEW e, hooks[e[2]] = "active", autos' = [autos EXCEPT ![e] = @ + 1]
        PROVE  autos'[x] = autos[x]
    <3>1. e # x
      BY <1>3, <2>1, <2>3
    <3> QED BY <1>a, <2>3, <3>1
  <2> QED BY <2>2, <2>3
<1> QED BY <1>1, <1>2, <1>3

LEMMA BoundFollows ==
  ASSUME IInv, IInv', [Next]_vars, NEW x \in Events, Bound(x), FewLogs(x)', FewRetries(x)'
  PROVE  Bound(x)'
<1>1. PICK c \in Nat, k \in Nat, a \in Nat, b \in Nat, t \in Nat, u \in Nat :
         /\ c = Cardinality(Passes) /\ k = MostRetries
         /\ a = asked /\ b = asked' /\ t = trouble /\ u = trouble'
  BY PassesAreFinite, SpentIsProfile DEF IInv, DInv, CountsOK
<1>2. a <= b /\ t <= u /\ (hooks'[x[2]] = "deleted" => autos'[x] = autos[x])
  BY <1>1, NextCounts
<1>3. k * (1 + a) <= k * (1 + b) /\ c * t <= c * u
  <2>1. 1 + a <= 1 + b /\ 1 + a \in Nat /\ 1 + b \in Nat
    BY <1>2
  <2> QED BY <1>2, <2>1, TimesGrows
<1>4. /\ k * (1 + a) \in Nat /\ k * (1 + b) \in Nat /\ c * t \in Nat /\ c * u \in Nat
      /\ autos[x] \in Nat /\ autos'[x] \in Nat
  <2>1. k * (1 + a) \in Nat /\ k * (1 + b) \in Nat /\ c * t \in Nat /\ c * u \in Nat
    OBVIOUS
  <2>2. autos[x] \in Nat /\ autos'[x] \in Nat
    BY DEF IInv, DInv, CountsOK, Events
  <2> QED BY <2>1, <2>2
<1>5. autos'[x] <= k * (1 + b) + c * u
  <2>1. CASE hooks'[x[2]] = "deleted"
    <3>1. autos[x] <= k * (1 + a) + c * t
      BY <1>1 DEF Bound
    <3> QED BY <1>2, <1>3, <1>4, <2>1, <3>1
  <2>2. CASE hooks'[x[2]] # "deleted"
    <3>1. PICK l \in Nat : l = Cardinality(LogsOf(x)')
      BY NextFacts DEF Facts, IInv
    <3>2. /\ Cardinality(Passed(x)') \in Nat /\ Cardinality(Flying(x)') \in Nat
          /\ Cardinality(Passed(x)') + Cardinality(Flying(x)') <= l * k
      BY <1>1, <3>1, NextFacts, PassesAreFinite DEF Facts, IInv
    <3>3. l <= 1 + b
      <4>1. FirstDue(x)' \in {0, 1} /\ AgainDue(x)' \in {0, 1}
        BY DEF FirstDue, AgainDue
      <4>2. l + FirstDue(x)' + AgainDue(x)' <= 1 + b
        BY <1>1, <2>2, <3>1 DEF FewLogs
      <4> QED BY <4>1, <4>2
    <3>4. k * l <= k * (1 + b)
      <4>1. 1 + b \in Nat
        OBVIOUS
      <4> QED BY <3>3, <4>1, TimesGrows
    <3>5. l * k = k * l /\ k * l \in Nat
      OBVIOUS
    <3>6. autos'[x] <= Cardinality(Passed(x)') + Cardinality(Flying(x)') + c * u
      BY <1>1, <2>2 DEF FewRetries
    <3> QED BY <1>4, <3>2, <3>4, <3>5, <3>6
  <2> QED BY <2>1, <2>2
<1> QED BY <1>1, <1>5 DEF Bound

LEMMA InitRInv == Init => RInv
<1> SUFFICES ASSUME Init PROVE RInv
  OBVIOUS
<1>0. IInv
  BY InitIInv
<1>1. Distinct
  BY DEF Init, Distinct, Fresh, Goroutine
<1>2. ASSUME NEW x \in Events
      PROVE  FewLogs(x) /\ FewRetries(x) /\ Bound(x)
  <2>1. asked = 0 /\ trouble = 0 /\ autos[x] = 0 /\ LogsOf(x) = {}
    BY <1>2 DEF Init, Events, LogsOf
  <2>2. FirstDue(x) \in {0, 1} /\ AgainDue(x) = 0 /\ Cardinality(LogsOf(x)) = 0
    BY <2>1, DueIsOneAtMost, FS_EmptySet DEF AgainDue
  <2>3. PICK c \in Nat, k \in Nat : c = Cardinality(Passes) /\ k = MostRetries
    BY PassesAreFinite, SpentIsProfile
  <2>4. Cardinality(Passed(x)) \in Nat /\ Cardinality(Flying(x)) \in Nat
    BY <1>0, LogsOfAreFinite, PassesAreFinite DEF IInv, DInv
  <2>5. FewLogs(x)
    BY <2>1, <2>2 DEF FewLogs
  <2>6. c * 0 = 0 /\ k * (1 + 0) = k
    OBVIOUS
  <2>7. FewRetries(x) /\ Bound(x)
    BY <2>1, <2>3, <2>4, <2>6 DEF FewRetries, Bound
  <2> QED BY <2>5, <2>7
<1> QED BY <1>1, <1>2 DEF RInv

LEMMA NextKeepsRInv == IInv /\ IInv' /\ RInv /\ [Next]_vars => RInv'
<1> SUFFICES ASSUME IInv, IInv', RInv, [Next]_vars PROVE RInv'
  OBVIOUS
<1>1. ASSUME NEW x \in Events
      PROVE  FewLogs(x)' /\ FewRetries(x)' /\ Bound(x)'
  <2>1. FewLogs(x)' /\ FewRetries(x)'
    BY NextKeepsFew
  <2>2. Bound(x)
    BY DEF RInv
  <2> QED BY <2>1, <2>2, BoundFollows
<1>2. Distinct'
  BY NextKeepsDistinct
<1> QED BY <1>1, <1>2 DEF RInv

LEMMA RInvImpliesBounded == RInv => RetriesAreBounded
  BY DEF RInv, Bound, Events, RetriesAreBounded

\* However many passes of the cron overlap, and however manual retries, tests, crashes, panics,
\* lost saves and deleted records come between, an event is retried at most MostRetries times
\* for each of its logs, and once more by each pass for each result that was not saved
\* (webhook.go:613-690).
THEOREM RetriesBounded == Spec => []RetriesAreBounded
<1>1. Spec => []RInv
  BY DeliveryInvariant, InitRInv, NextKeepsRInv, PTL DEF Spec
<1> QED BY <1>1, RInvImpliesBounded, PTL
=============================================================================
