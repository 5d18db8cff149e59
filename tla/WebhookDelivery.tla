--------------------------- MODULE WebhookDelivery ---------------------------
(***************************************************************************)
(* Delivery of a message's event to the webhooks of its user: the fan-out    *)
(* when the event happens, the cron that retries failed deliveries in place, *)
(* the retry a user asks for, and the test.                                 *)
(*                                                                         *)
(* The cron starts a pass every minute whether or not the one before has     *)
(* ended.  Handlers work on the copies they loaded; a save writes the        *)
(* columns the handler changed.  The breakers are those of HostBreakers: a   *)
(* fan-out and a pass ask them, the manual retry and the test do not.        *)
(***************************************************************************)
EXTENDS HostBreakers, Sequences

CONSTANTS
    Messages,       \* each has one event, whose fan-out is a goroutine
    Passes,         \* bound: passes of the cron at the same time
    Webhooks,
    HostOf,         \* webhookHost of the webhook's url
    Batch,          \* limit of RetryFailedWebhooks (50)
    MaxRetries,     \* WebhookMaxRetries
    MaxLogs,        \* bound: delivery logs
    MaxEvents       \* bound: retries and tests a user asks for, crashes, panics, failed
                    \* saves, changed or deleted records

None == "none"

ASSUME DeliveryAssumption ==
    /\ Callers = Messages \cup Passes /\ Messages \cap Passes = {}
    /\ HostOf \in [Webhooks -> Hosts] /\ None \notin Webhooks \cup Hosts
    /\ {Batch, MaxRetries} \subseteq Nat \ {0}
    /\ {MaxLogs, MaxEvents} \subseteq Nat

VARIABLES
    hooks,          \* webhook_configs: active, inactive or deleted
    messages,       \* sms_messages that exist
    sent,           \* those with webhook_sent
    logs,           \* webhook_delivery_logs in the order they were created
    fanout,         \* for each message, its goroutine in TriggerWebhooks
    pass,           \* for each pass, the copies it has not dealt with
    manual,         \* the manual retry under way
    autos,          \* history: attempts of the cron for a message and a webhook
    asked, trouble  \* bounds

bounds == <<asked, trouble>>
vars == <<breakers, calls, hooks, messages, sent, logs, fanout, pass, manual, autos, bounds>>

\* next: next_retry_at is empty, in the future or past
Log(w, m, status, next, count) ==
    [hook |-> w, msg |-> m, status |-> status, next |-> next, count |-> count]
Gone == Log(None, None, "deleted", "none", 0)

Pending(l) == l.status = "failed" /\ l.next # "none"

\* left: webhooks still to be called; at: the one being called; ok: anySuccess
Goroutine(stage, left, at, ok) == [stage |-> stage, left |-> left, at |-> at, ok |-> ok]
Fresh == Goroutine("fresh", {}, None, FALSE)
Done == Goroutine("done", {}, None, FALSE)

\* had: the copy had next_retry_at set
ManualRetry(i, had, stage) == [log |-> i, had |-> had, stage |-> stage]
NoRetry == ManualRetry(0, FALSE, "none")

Trouble == asked + trouble < MaxEvents /\ trouble' = trouble + 1
Ask == asked + trouble < MaxEvents /\ asked' = asked + 1
Outcomes == {"success", "failed"}

\* executeWebhookRequest's outcome goes to the breaker of the host that was asked
Record(c, outcome) == IF outcome = "success" THEN RecordSuccess(c) ELSE RecordFailure(c)

-----------------------------------------------------------------------------
(* Delivery logs                                                             *)

\* logDelivery: a failed delivery that is not a test is due for a retry later.  The save is
\* refused when the webhook has been deleted.
logDelivery(w, m, outcome) ==
    IF hooks[w] = "deleted" THEN UNCHANGED logs
    ELSE /\ Len(logs) < MaxLogs
         /\ logs' = Append(logs, Log(w, m, outcome,
                                    IF outcome = "failed" /\ m # "test" THEN "later" ELSE "none", 0))

\* next_retry_at passes
Elapse(i) ==
    /\ logs[i].next = "later"
    /\ logs' = [logs EXCEPT ![i].next = "due"]
    /\ UNCHANGED <<breakers, calls, hooks, messages, sent, fanout, pass, manual, autos, bounds>>

\* A save writes to the record if it still exists
ClearRetry(i) == logs' = [logs EXCEPT ![i].next = "none"]

-----------------------------------------------------------------------------
(* TriggerWebhooks                                                           *)

TriggerWebhooks(m) ==
    /\ fanout[m] = Fresh /\ m \in messages
    /\ LET matching == {w \in Webhooks : hooks[w] = "active"}
       IN  fanout' = [fanout EXCEPT ![m] =
               IF matching = {} THEN Done ELSE Goroutine("found", matching, None, FALSE)]
    /\ UNCHANGED <<breakers, calls, hooks, messages, sent, logs, pass, manual, autos, bounds>>

\* The goroutine re-fetches the message
Refetch(m) ==
    /\ fanout[m].stage = "found"
    /\ fanout' = [fanout EXCEPT ![m] = IF m \in messages THEN Goroutine("run", @.left, None, FALSE) ELSE Done]
    /\ UNCHANGED <<breakers, calls, hooks, messages, sent, logs, pass, manual, autos, bounds>>

\* The next webhook of the fan-out: skipped without a log, or called
NextWebhook(m) ==
    /\ fanout[m].stage = "run" /\ calls[m] = Idle
    /\ \E w \in fanout[m].left :
         \/ /\ Refused(HostOf[w])
            /\ fanout' = [fanout EXCEPT ![m] = Goroutine("run", @.left \ {w}, None, @.ok)]
         \/ /\ Allow(m, HostOf[w])
            /\ fanout' = [fanout EXCEPT ![m] = Goroutine("run", @.left \ {w}, w, @.ok)]
    /\ UNCHANGED <<hooks, messages, sent, logs, pass, manual, autos, bounds>>

SendWebhookForMessage(m, outcome) ==
    /\ calls[m] # Idle
    /\ \/ logDelivery(fanout[m].at, m, outcome) /\ UNCHANGED bounds
       \/ Trouble /\ UNCHANGED <<logs, asked>>
    /\ Record(m, outcome)
    /\ fanout' = [fanout EXCEPT ![m] = Goroutine("run", @.left, None, @.ok \/ outcome = "success")]
    /\ UNCHANGED <<hooks, messages, sent, pass, manual, autos>>

FanOutDone(m) ==
    /\ fanout[m].stage = "run" /\ fanout[m].left = {} /\ calls[m] = Idle
    /\ sent' = IF fanout[m].ok THEN sent \cup ({m} \cap messages) ELSE sent
    /\ fanout' = [fanout EXCEPT ![m] = Done]
    /\ UNCHANGED <<breakers, calls, hooks, messages, logs, pass, manual, autos, bounds>>

\* Mutant: the fan-out goes on with its next webhook.
Recovered(f) == Goroutine("run", f.left, f.at, f.ok)
Stopped(f) == Done

\* FireAndForget recovers the panic: the fan-out ends
Panic(m) ==
    /\ Vanish(m)
    /\ fanout' = [fanout EXCEPT ![m] = Stopped(@)]
    /\ Trouble
    /\ UNCHANGED <<hooks, messages, sent, logs, pass, manual, autos, asked>>

-----------------------------------------------------------------------------
(* RetryFailedWebhooks                                                       *)

\* The filter of the cron
Due == {i \in DOMAIN logs : Pending(logs[i]) /\ logs[i].next = "due" /\ logs[i].count < MaxRetries}

\* The newest ones, up to Batch, each with the retry_count it has now
Loaded == {[log |-> i, count |-> logs[i].count] :
              i \in {i \in Due : Cardinality({j \in Due : j > i}) < Batch}}

RetryFailedWebhooks(p) ==
    /\ pass[p] = {} /\ Due # {}
    /\ pass' = [pass EXCEPT ![p] = Loaded]
    /\ UNCHANGED <<breakers, calls, hooks, messages, sent, logs, fanout, manual, autos, bounds>>

\* The loop goes through them newest first
IsNext(p, r) == r \in pass[p] /\ \A q \in pass[p] : q.log <= r.log
Leaves(p, r) == pass' = [pass EXCEPT ![p] = @ \ {r}]

\* Skipped, dropped, or sent.  The breaker is asked before the payload is rebuilt from the
\* message: if that has gone, the call it allowed is never made.
NextRetry(p, r) ==
    /\ calls[p] = Idle /\ IsNext(p, r)
    /\ LET l == logs[r.log]
       IN  \/ /\ l = Gone
              /\ Leaves(p, r) /\ UNCHANGED <<breakers, calls, logs, autos>>
           \/ /\ l # Gone /\ hooks[l.hook] # "active"
              /\ ClearRetry(r.log) /\ Leaves(p, r) /\ UNCHANGED <<breakers, calls, autos>>
           \/ /\ l # Gone /\ hooks[l.hook] = "active"
              /\ \/ Refused(HostOf[l.hook]) /\ Leaves(p, r) /\ UNCHANGED <<logs, autos>>
                 \/ /\ l.msg \notin messages /\ Unused(HostOf[l.hook])
                    /\ ClearRetry(r.log) /\ Leaves(p, r) /\ UNCHANGED autos
                 \/ /\ l.msg \in messages /\ Allow(p, HostOf[l.hook])
                    /\ autos' = [autos EXCEPT ![<<l.msg, l.hook>>] = @ + 1]
                    /\ UNCHANGED <<logs, pass>>
    /\ UNCHANGED <<hooks, messages, sent, fanout, manual, bounds>>

\* Mutant: the pass saves next_retry_at but not retry_count.
Uncounted(l, count, outcome) ==
    Log(l.hook, l.msg, IF outcome = "success" THEN "success" ELSE l.status,
        IF outcome = "failed" /\ count + 1 < MaxRetries THEN "later" ELSE "none", count)

\* Mutant: the last retry plans another one.
PlansAnother(l, count, outcome) ==
    Log(l.hook, l.msg, IF outcome = "success" THEN "success" ELSE l.status,
        IF outcome = "failed" /\ count < MaxRetries THEN "later" ELSE "none", count + 1)

\* What the pass changed on its copy, over what the log says now
Edited(l, count, outcome) ==
    Log(l.hook, l.msg, IF outcome = "success" THEN "success" ELSE l.status,
        IF outcome = "failed" /\ count + 1 < MaxRetries THEN "later" ELSE "none", count + 1)

Retried(r, outcome) == [logs EXCEPT ![r.log] = Edited(@, r.count, outcome)]

RetryAnswered(p, r, outcome) ==
    /\ calls[p] # Idle /\ IsNext(p, r)
    /\ \/ logs' = (IF logs[r.log] = Gone THEN logs ELSE Retried(r, outcome)) /\ UNCHANGED bounds
       \/ Trouble /\ UNCHANGED <<logs, asked>>
    /\ Record(p, outcome) /\ Leaves(p, r)
    /\ UNCHANGED <<hooks, messages, sent, fanout, manual, autos>>

-----------------------------------------------------------------------------
(* What the user asks for                                                    *)

\* The copy it loads decides what it will do: a save writes next_retry_at only if it was set
RetryWebhookDelivery(i) ==
    /\ Ask
    /\ manual = NoRetry
    /\ logs[i].status = "failed" /\ hooks[logs[i].hook] # "deleted" /\ logs[i].msg \in messages
    /\ manual' = ManualRetry(i, logs[i].next # "none", "call")
    /\ UNCHANGED <<breakers, calls, hooks, messages, sent, logs, fanout, pass, autos, trouble>>

ManualAnswered(outcome) ==
    /\ manual.stage = "call"
    /\ IF logs[manual.log] = Gone THEN UNCHANGED logs
       ELSE logDelivery(logs[manual.log].hook, logs[manual.log].msg, outcome)
    /\ manual' = ManualRetry(manual.log, manual.had, "clear")
    /\ UNCHANGED <<breakers, calls, hooks, messages, sent, fanout, pass, autos, bounds>>

\* "Clear auto-retry on the original"
ManualClear ==
    /\ manual.stage = "clear"
    /\ IF manual.had THEN ClearRetry(manual.log) ELSE UNCHANGED logs
    /\ manual' = NoRetry
    /\ UNCHANGED <<breakers, calls, hooks, messages, sent, fanout, pass, autos, bounds>>

\* The log of a test names no message: it is never retried, not even by hand
SendTestWebhook(w) ==
    /\ Ask
    /\ hooks[w] # "deleted"
    /\ \E outcome \in Outcomes : logDelivery(w, "test", outcome)
    /\ UNCHANGED <<breakers, calls, hooks, messages, sent, fanout, pass, manual, autos, trouble>>

-----------------------------------------------------------------------------
(* Changes of the records, crashes, time                                     *)

\* A webhook that has logs is deleted together with them
ChangeHook(w) ==
    /\ Trouble
    /\ hooks[w] # "deleted"
    /\ \E s \in {"active", "inactive", "deleted"} \ {hooks[w]} :
         /\ hooks' = [hooks EXCEPT ![w] = s]
         /\ logs' = IF s = "deleted" THEN [i \in DOMAIN logs |-> IF logs[i].hook = w THEN Gone ELSE logs[i]]
                                     ELSE logs
    /\ UNCHANGED <<breakers, calls, messages, sent, fanout, pass, manual, autos, asked>>

DeleteMessage(m) ==
    /\ Trouble
    /\ m \in messages
    /\ messages' = messages \ {m} /\ sent' = sent \ {m}
    /\ UNCHANGED <<breakers, calls, hooks, logs, fanout, pass, manual, autos, asked>>

Crash ==
    /\ Trouble
    /\ Restart
    /\ fanout' = [m \in Messages |-> IF fanout[m] = Fresh THEN Fresh ELSE Done]
    /\ pass' = [p \in Passes |-> {}]
    /\ manual' = NoRetry
    /\ UNCHANGED <<hooks, messages, sent, logs, autos, asked>>

TimePasses ==
    /\ Tick
    /\ UNCHANGED <<hooks, messages, sent, logs, fanout, pass, manual, autos, bounds>>

-----------------------------------------------------------------------------
Init ==
    /\ BreakersInit
    /\ hooks \in [Webhooks -> {"active"}] /\ messages = Messages /\ sent = {}
    /\ logs = <<>>
    /\ fanout = [m \in Messages |-> Fresh]
    /\ pass = [p \in Passes |-> {}]
    /\ manual = NoRetry
    /\ autos = [x \in Messages \X Webhooks |-> 0]
    /\ asked = 0 /\ trouble = 0

FanOut(m) ==
    \/ Refetch(m) \/ NextWebhook(m) \/ FanOutDone(m)
    \/ \E o \in Outcomes : SendWebhookForMessage(m, o)

Pass(p) ==
    \/ RetryFailedWebhooks(p)
    \/ \E r \in pass[p] : NextRetry(p, r) \/ \E o \in Outcomes : RetryAnswered(p, r, o)

Next ==
    \/ \E m \in Messages : TriggerWebhooks(m) \/ FanOut(m) \/ Panic(m) \/ DeleteMessage(m)
    \/ \E p \in Passes : Pass(p)
    \/ \E i \in DOMAIN logs : Elapse(i) \/ RetryWebhookDelivery(i)
    \/ \E o \in Outcomes : ManualAnswered(o)
    \/ ManualClear
    \/ \E w \in Webhooks : SendTestWebhook(w) \/ ChangeHook(w)
    \/ Crash \/ TimePasses

Spec == Init /\ [][Next]_vars

\* Goroutines run, HTTP calls end, and the cron comes round
Fairness ==
    /\ \A m \in Messages : WF_vars(FanOut(m))
    /\ \A p \in Passes : WF_vars(Pass(p))
    /\ \A i \in 1..MaxLogs : WF_vars(i \in DOMAIN logs /\ Elapse(i))
    /\ WF_vars(TimePasses)

FairSpec == Spec /\ Fairness

-----------------------------------------------------------------------------
(* Properties                                                                *)

Logs == [hook : Webhooks, msg : Messages \cup {"test"}, status : Outcomes,
         next : {"none", "later", "due"}, count : 0..MaxRetries] \cup {Gone}
Goroutines == [stage : {"fresh", "found", "run", "done"}, left : SUBSET Webhooks,
               at : Webhooks \cup {None}, ok : BOOLEAN]

\* The variables have their types; a goroutine makes a call exactly while it is at a webhook,
\* and only to the host of that webhook.
TypeOK ==
    /\ BreakersTypeOK
    /\ hooks \in [Webhooks -> {"active", "inactive", "deleted"}]
    /\ messages \subseteq Messages /\ sent \subseteq messages
    /\ logs \in Seq(Logs)
    /\ fanout \in [Messages -> Goroutines]
    /\ \A m \in Messages : /\ calls[m] # Idle <=> fanout[m].at # None
                           /\ calls[m] # Idle => calls[m].host = HostOf[fanout[m].at]
    /\ pass \in [Passes -> SUBSET [log : DOMAIN logs, count : 0..(MaxRetries - 1)]]
    /\ \A p \in Passes : calls[p] # Idle => pass[p] # {}
    /\ manual \in [log : 0..Len(logs), had : BOOLEAN, stage : {"none", "call", "clear"}]
    /\ manual.stage # "none" => manual.log # 0
    /\ autos \in [Messages \X Webhooks -> Nat]
    /\ asked \in Nat /\ trouble \in Nat /\ asked + trouble <= MaxEvents

\* What passes may still do to one log: n[v] of them will save a count of at most v + 1,
\* because the copy they hold, or the log they will load, has a count of at most v.
Profiles == {n \in [0..(MaxRetries - 1) -> 0..Cardinality(Passes)] :
               \A u, v \in DOMAIN n : u <= v => n[u] <= n[v]}

\* With one pass at a time a log is retried MaxRetries times.  A pass that loaded the log
\* before another one saved it sets the count back, and counts are spent again; but no
\* profile comes twice.  Of these there are MaxRetries + 1 for one pass, MaxRetries + P
\* over P for P passes.
MostRetries == Cardinality(Profiles) - 1

\* "Each retry updates the existing delivery log in place": however passes, manual retries
\* and crashes interleave, an event is retried a bounded number of times for each delivery
\* that was not a retry, and once more by each pass when a result is not saved.
RetriesAreBounded ==
    \A x \in Messages \X Webhooks :
        autos[x] <= MostRetries * (1 + asked) + Cardinality(Passes) * trouble

\* A failed delivery that is to be retried is in the end delivered, given up after
\* MaxRetries, or dropped with its webhook or message, although open breakers refuse it,
\* newer logs are before it in the batch, and another pass or a manual retry saves an
\* older copy over it.
EveryRetryEnds ==
    \A i \in 1..MaxLogs : [](i \in DOMAIN logs /\ Pending(logs[i])
                             => <>(i \in DOMAIN logs /\ ~ Pending(logs[i])))

=============================================================================
