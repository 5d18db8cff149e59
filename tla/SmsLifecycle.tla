---------------------------- MODULE SmsLifecycle ----------------------------
(***************************************************************************)
(* The life of an outgoing SMS in the backend: the quota reservation that   *)
(* pays for it, its row in sms_messages, and every actor that rewrites that *)
(* row: the send request, the FCM and AWS dispatch goroutines, the device   *)
(* that claims and reports, the AWS delivery event, the retry cron and a    *)
(* server crash.                                                            *)
(*                                                                         *)
(* None of these actors holds a lock on the row.  Each finds it, decides on *)
(* the copy it loaded and saves later, so find and save are two steps here  *)
(* and anything may happen between them.                                    *)
(***************************************************************************)
EXTENDS Integers, FiniteSets

CONSTANTS
    Messages,           \* the message ids a behaviour may create
    Androids,           \* physical devices reached through an FCM tickle
    Modems,             \* physical devices reached through the realtime (SSE) push
    Aeum,               \* the instance-wide AWS device: {} or a singleton
    NoDevice,           \* the empty relation
    Unresolved,         \* the cron's device cache before its first use
    Handlers,           \* device, AWS and tickle goroutines that may run at once
    NoTask,             \* a handler with nothing to do
    SmsLimit,           \* max_sms_per_month of the user's plan
    SMSMaxRetries,      \* 3 in services/constants.go
    MaxReports,         \* bound: reports and delivery events in a behaviour
    MaxFaults,          \* bound: crashes, failed saves and releases in a behaviour
    AllowAgeing,        \* may a message outlive SMSRetryCutoff
    AllowDeviceChanges, \* may the user register and delete devices
    Overlap,            \* FALSE: no two find-to-save windows overlap in time
    LateTickles         \* FALSE: a tickle that fails finds the row as dispatched

Devices == Androids \cup Modems \cup Aeum

ASSUME ConstantsAssumption ==
    /\ SmsLimit \in Nat
    /\ SMSMaxRetries \in Nat
    /\ MaxReports \in Nat
    /\ MaxFaults \in Nat
    /\ {AllowAgeing, AllowDeviceChanges, Overlap, LateTickles} \subseteq BOOLEAN
    /\ Androids \cap Aeum = {} /\ Modems \cap Aeum = {} /\ Androids \cap Modems = {}
    /\ NoDevice \notin Devices /\ Unresolved \notin Devices \cup {NoDevice}

ASSUME MessagesAreFinite == IsFiniteSet(Messages)

-----------------------------------------------------------------------------
(* Rows, and what a Save of a loaded copy does to them                       *)

Status == {"none", "pending", "assigned", "sending", "sent", "delivered", "failed"}

\* error_message, up to what isPermanentFailure tells apart
Errors == {"", "temporary", "permanent"}

Row == [status     : Status,                    \* "none": not created
        device     : Devices \cup {NoDevice},
        retry      : 0..SMSMaxRetries,           \* retry_count
        err        : Errors,
        sentAt     : BOOLEAN,                    \* sent_at is set
        providerId : BOOLEAN]                    \* provider_message_id is set

NoRow == [status |-> "none", device |-> NoDevice, retry |-> 0, err |-> "",
          sentAt |-> FALSE, providerId |-> FALSE]

NewRow(d) == [NoRow EXCEPT !.status = IF d = NoDevice THEN "pending" ELSE "assigned",
                           !.device = d]

\* A row or a message a goroutine holds in memory
Job == [msg : Messages, copy : Row]

\* PocketBase writes only the columns that differ from the loaded record.
SaveChanged(row, loaded, edited) ==
    LET Column(now, was, new) == IF new # was THEN new ELSE now
    IN  [status     |-> Column(row.status, loaded.status, edited.status),
         device     |-> Column(row.device, loaded.device, edited.device),
         retry      |-> Column(row.retry, loaded.retry, edited.retry),
         err        |-> Column(row.err, loaded.err, edited.err),
         sentAt     |-> Column(row.sentAt, loaded.sentAt, edited.sentAt),
         providerId |-> Column(row.providerId, loaded.providerId, edited.providerId)]

IsPermanent(err) == err = "permanent"

\* Mutant: the comparison is off by one.
ExhaustedLate(copy) == copy.retry > SMSMaxRetries

Exhausted(copy) == copy.retry >= SMSMaxRetries

\* Mutant: the last retry already counts as none left.
IsTerminalFailureEarly(copy, err, aged) ==
    IsPermanent(err) \/ copy.retry + 1 >= SMSMaxRetries \/ aged

IsTerminalFailure(copy, err, aged) == IsPermanent(err) \/ Exhausted(copy) \/ aged

\* The edit MarkMessageTerminal makes; an empty error text is not written.
MarkTerminal(copy, status, err) ==
    [copy EXCEPT !.status = status,
                 !.err    = IF err = "" THEN @ ELSE err,
                 !.sentAt = @ \/ status = "sent"]

\* Mutant: a sent message that fails delivery is refunded too.
RefundsEvenSent(loaded, status, err, aged) ==
    status = "failed" /\ IsTerminalFailure(loaded, err, aged)

\* ... and whether it then releases the reservation
Refunds(loaded, status, err, aged) ==
    status = "failed" /\ ~loaded.sentAt /\ IsTerminalFailure(loaded, err, aged)

\* Mutant: the requeue forgets to count itself.
RequeuedUncounted(copy) == [copy EXCEPT !.status = "assigned"]

\* The edit of the cron's two requeues
Requeued(copy) == [copy EXCEPT !.status = "assigned", !.retry = @ + 1]

-----------------------------------------------------------------------------
VARIABLES
    rows,        \* sms_messages
    used,        \* user_quotas.sms_sent_this_month
    devstate,    \* sms_devices
    requests,    \* batches reserved by SendSMS and not yet created
    dispatches,  \* jobs in the hands of a tickle or provider goroutine
    task,        \* what each handler found and is about to save
    owed,        \* releaseQuota calls that follow a completed save
    cron,        \* the RetryFailedMessages pass
    handed,      \* messages a device has received, by claim or by push
    old,         \* messages created before now - SMSRetryCutoff
    stale,       \* "sending" rows not updated for SMSSendingStaleAfter
    waiting,     \* rows whose retry backoff has not elapsed
    reports,     \* reports and events so far (bound)
    faults,      \* crashes, failed saves and failed releases so far (bound)
    refunds,     \* history: reservations released for a message
    claims,      \* history: successful claims of a message
    billed,      \* history: retry counts at which the provider was called
    lost         \* history: credits whose request died in a crash, or failed and
                 \* could not release them

requestVars == <<requests, used>>
clockVars   == <<old, stale, waiting>>
historyVars == <<refunds, claims, billed, lost>>
vars == <<rows, used, devstate, requests, dispatches, task, owed, cron, handed,
          old, stale, waiting, reports, faults, refunds, claims, billed, lost>>

Task == [op     : {"claim", "tickleFailed", "terminal"},
         msg    : Messages,
         device : Devices \cup {NoDevice},
         loaded : Row,
         edited : Row,
         err    : Errors]

CronPhase == {"idle", "failed", "pending", "sending"}

CronPass == [phase    : CronPhase,
             batch    : SUBSET Job,             \* found and not yet processed
             requeued : SUBSET Job,             \* to dispatch when the pass ends
             cutoff   : SUBSET Messages,        \* old messages when it started
             cache    : Devices \cup {NoDevice, Unresolved}]

IdleCron == [phase |-> "idle", batch |-> {}, requeued |-> {}, cutoff |-> {},
             cache |-> Unresolved]

TypeOK ==
    /\ rows \in [Messages -> Row]
    /\ used \in Nat
    /\ devstate \in [Devices -> {"unregistered", "registered", "deleted"}]
    /\ requests \subseteq SUBSET Messages
    /\ dispatches \subseteq Job
    /\ task \in [Handlers -> Task \cup {NoTask}]
    /\ owed \in [Messages -> Nat]
    /\ cron \in CronPass
    /\ handed \subseteq Messages \X Devices
    /\ old \subseteq Messages /\ stale \subseteq Messages /\ waiting \subseteq Messages
    /\ reports \in Nat /\ faults \in Nat
    /\ refunds \in [Messages -> Nat]
    /\ claims \in [Messages -> Nat]
    /\ billed \in [Messages -> SUBSET (0..SMSMaxRetries)]
    /\ lost \in Nat

Init ==
    /\ rows = [m \in Messages |-> NoRow]
    /\ used = 0
    /\ devstate \in [Devices -> {"unregistered", "registered"}]
    /\ \A d \in Aeum : devstate[d] = "registered"
    /\ AllowDeviceChanges \/ \A d \in Devices : devstate[d] = "registered"
    /\ requests = {}
    /\ dispatches = {}
    /\ task = [h \in Handlers |-> NoTask]
    /\ owed = [m \in Messages |-> 0]
    /\ cron = IdleCron
    /\ handed = {}
    /\ old = {} /\ stale = {} /\ waiting = {}
    /\ reports = 0 /\ faults = 0
    /\ refunds = [m \in Messages |-> 0]
    /\ claims = [m \in Messages |-> 0]
    /\ billed = [m \in Messages |-> {}]
    /\ lost = 0

-----------------------------------------------------------------------------
(* Devices, transports and timing                                           *)

Registered == {d \in Devices : devstate[d] = "registered"}
Physical   == Registered \ Aeum

\* resolveDevices without an explicit device: the user's own hardware first
AutoTargets == IF Physical # {} THEN Physical ELSE Registered \cap Aeum

\* resolveDevices with the caller's optional device id
SendTargets == {AutoTargets} \cup {{d} : d \in Registered}

\* partitionByProvider and DispatchMessages: modems and vanished devices get
\* no goroutine.
Dispatchable(jobs) ==
    {j \in jobs : j.copy.device \in Registered \cap (Androids \cup Aeum)}

\* The realtime hook pushes an assigned row to the modem it is assigned to.
Pushed(jobs, connected) ==
    IF connected
    THEN {<<j.msg, j.copy.device>> : j \in {i \in jobs : i.copy.device \in Modems}}
    ELSE {}

Minus(n, k) == IF n > k THEN n - k ELSE 0

\* With Overlap = FALSE a find waits until no other find still has a save or
\* a refund to do.
Quiet ==
    \/ Overlap
    \/ /\ \A h \in Handlers : task[h] = NoTask
       /\ cron.phase = "idle"
       /\ \A m \in Messages : owed[m] = 0

-----------------------------------------------------------------------------
(* SendSMS                                                                  *)

\* Mutant: the check asks for one credit, whatever the batch.
FitsOne(count) == used < SmsLimit

Fits(count) == used + count <= SmsLimit

\* ReserveSMSQuota: one conditional UPDATE for the whole batch
Reserve(batch) ==
    /\ batch # {}
    /\ \A m \in batch : rows[m].status = "none"
    /\ \A b \in requests : b \cap batch = {}
    /\ Fits(Cardinality(batch))
    /\ used' = used + Cardinality(batch)
    /\ requests' = requests \cup {batch}
    /\ UNCHANGED <<rows, devstate, dispatches, task, owed, cron, handed, clockVars,
                   reports, faults, historyVars>>

\* createMessageRecords in one transaction, then dispatchOutgoing
CreateMessages(batch) ==
    /\ batch \in requests
    /\ requests' = requests \ {batch}
    /\ \E targets \in SendTargets, connected \in BOOLEAN :
       \E pick \in [batch -> IF targets = {} THEN {NoDevice} ELSE targets] :
          LET jobs == {[msg |-> m, copy |-> NewRow(pick[m])] : m \in batch}
          IN  /\ rows' = [m \in Messages |->
                             IF m \in batch THEN NewRow(pick[m]) ELSE rows[m]]
              /\ dispatches' = dispatches \cup Dispatchable(jobs)
              /\ handed' = handed \cup Pushed(jobs, connected)
    /\ UNCHANGED <<used, devstate, task, owed, cron, clockVars, reports, faults,
                   historyVars>>

\* Mutant: one credit is released per request instead of per message.
CreateFailsReleasingOne(batch) ==
    /\ batch \in requests
    /\ requests' = requests \ {batch}
    /\ used' = Minus(used, 1)
    /\ UNCHANGED <<rows, devstate, dispatches, task, owed, cron, handed, clockVars,
                   reports, faults, historyVars>>

\* A device that does not resolve, an over-long body or a failed transaction:
\* nothing is created and the whole batch is released.
CreateFails(batch) ==
    /\ batch \in requests
    /\ requests' = requests \ {batch}
    /\ used' = Minus(used, Cardinality(batch))
    /\ UNCHANGED <<rows, devstate, dispatches, task, owed, cron, handed, clockVars,
                   reports, faults, historyVars>>

\* releaseQuota only logs a release that failed: the batch stays charged.
CreateFailsUnreleased(batch) ==
    /\ batch \in requests
    /\ faults < MaxFaults
    /\ faults' = faults + 1
    /\ requests' = requests \ {batch}
    /\ lost' = lost + Cardinality(batch)
    /\ UNCHANGED <<rows, used, devstate, dispatches, task, owed, cron, handed, clockVars,
                   reports, refunds, claims, billed>>

-----------------------------------------------------------------------------
(* Dispatch goroutines                                                      *)

\* dispatchOne: the AWS call returns and the outcome is saved over the copy
\* the goroutine was started with.  A rejected message is saved as failed
\* directly; only a transport error goes through MarkMessageTerminal.
ProviderReturns(job) ==
    /\ job \in dispatches
    /\ job.copy.device \in Aeum
    /\ Quiet
    /\ \E outcome \in {"sent", "rejected", "error"}, err \in {"temporary", "permanent"} :
         LET m      == job.msg
             edited == CASE outcome = "sent" ->
                              [job.copy EXCEPT !.status = "sent", !.sentAt = TRUE,
                                               !.providerId = TRUE]
                         [] outcome = "rejected" ->
                              [job.copy EXCEPT !.status = "failed", !.err = err,
                                               !.providerId = FALSE]
                         [] OTHER -> MarkTerminal(job.copy, "failed", err)
         IN  /\ rows' = [rows EXCEPT ![m] = SaveChanged(@, job.copy, edited)]
             /\ owed' = IF outcome = "error" /\ Refunds(job.copy, "failed", err, m \in old)
                        THEN [owed EXCEPT ![m] = @ + 1] ELSE owed
    /\ dispatches' = dispatches \ {job}
    /\ billed' = [billed EXCEPT ![job.msg] = @ \cup {job.copy.retry}]
    /\ stale' = stale \ {job.msg}
    /\ UNCHANGED <<requestVars, devstate, task, cron, handed, old, waiting, reports,
                   faults, refunds, claims, lost>>

\* The provider was called but its answer could not be saved.
ProviderSaveFails(job) ==
    /\ job \in dispatches
    /\ job.copy.device \in Aeum
    /\ faults < MaxFaults
    /\ faults' = faults + 1
    /\ dispatches' = dispatches \ {job}
    /\ billed' = [billed EXCEPT ![job.msg] = @ \cup {job.copy.retry}]
    /\ UNCHANGED <<rows, requestVars, devstate, task, owed, cron, handed, clockVars,
                   reports, refunds, claims, lost>>

\* The tickle reached FCM, or the device has no token: nothing is written.
TickleSent(job) ==
    /\ job \in dispatches
    /\ job.copy.device \in Androids
    /\ dispatches' = dispatches \ {job}
    /\ UNCHANGED <<rows, requestVars, devstate, task, owed, cron, handed, clockVars,
                   reports, faults, historyVars>>

\* The row is still as the job left it.
InTime(job) == rows[job.msg].status = "assigned" /\ rows[job.msg].retry = job.copy.retry

\* The breaker is open or FCM returned an error: markMessageFailed finds the
\* row again, whatever happened to it meanwhile, and has no guard.
TickleFails(h, job) ==
    /\ job \in dispatches
    /\ job.copy.device \in Androids
    /\ LateTickles \/ InTime(job)
    /\ task[h] = NoTask
    /\ Quiet
    /\ dispatches' = dispatches \ {job}
    /\ LET row == rows[job.msg]
       IN  task' = [task EXCEPT ![h] =
                      [op |-> "tickleFailed", msg |-> job.msg, device |-> NoDevice,
                       loaded |-> row,
                       edited |-> [row EXCEPT !.status = "failed", !.err = "temporary"],
                       err |-> "temporary"]]
    /\ UNCHANGED <<rows, requestVars, devstate, owed, cron, handed, clockVars, reports,
                   faults, historyVars>>

-----------------------------------------------------------------------------
(* Device and provider requests: find and decide                            *)

\* ClaimPendingMessages finds an assigned row of the device; a batch is as
\* many of these as it has rows.
Claim(h, d, m) ==
    /\ task[h] = NoTask
    /\ Quiet
    /\ d \in Physical
    /\ rows[m].status = "assigned" /\ rows[m].device = d
    /\ task' = [task EXCEPT ![h] =
                  [op |-> "claim", msg |-> m, device |-> d, loaded |-> rows[m],
                   edited |-> [rows[m] EXCEPT !.status = "sending"], err |-> ""]]
    /\ UNCHANGED <<rows, requestVars, devstate, dispatches, owed, cron, handed,
                   clockVars, reports, faults, historyVars>>

\* Both report handlers end in MarkMessageTerminal on the row they loaded.
BeginTerminal(h, m, status, err) ==
    /\ task[h] = NoTask
    /\ Quiet
    /\ reports < MaxReports
    /\ reports' = reports + 1
    /\ task' = [task EXCEPT ![h] =
                  [op |-> "terminal", msg |-> m, device |-> NoDevice,
                   loaded |-> rows[m],
                   edited |-> MarkTerminal(rows[m], status, err), err |-> err]]
    /\ UNCHANGED <<rows, requestVars, devstate, dispatches, owed, cron, handed,
                   clockVars, faults, historyVars>>

\* Mutant: only exact duplicates are ignored.
NewsUnlessDuplicate(current, status) == current # status

\* The transition guard of ProcessSMSAck
News(current, status) == current \notin {status, "delivered"}

\* ProcessSMSAck: a device reports on a message it was handed.
Ack(h, d, m, status, err) ==
    /\ d \in Physical
    /\ <<m, d>> \in handed
    /\ rows[m].device = d
    /\ News(rows[m].status, status)
    /\ err # "" => status = "failed"
    /\ BeginTerminal(h, m, status, err)

\* Mutant: the event's failure is not tagged as the provider's last word.
EventErrorUntagged(status) == IF status = "failed" THEN "temporary" ELSE ""

EventError(status) == IF status = "failed" THEN "permanent" ELSE ""

\* handleAEUMNotification: the row is found by provider_message_id, which
\* only a saved dispatch has.
AeumEvent(h, m, status) ==
    /\ rows[m].providerId
    /\ rows[m].status # status
    /\ BeginTerminal(h, m, status, EventError(status))

(* ... and save                                                             *)

Commit(h) ==
    /\ task[h] # NoTask
    /\ LET t == task[h]
           m == task[h].msg
       IN  /\ rows' = [rows EXCEPT ![m] = SaveChanged(@, t.loaded, t.edited)]
           /\ owed' = IF t.op = "terminal" /\ Refunds(t.loaded, t.edited.status, t.err, m \in old)
                      THEN [owed EXCEPT ![m] = @ + 1] ELSE owed
           /\ handed' = IF t.op = "claim" THEN handed \cup {<<m, t.device>>} ELSE handed
           /\ claims' = IF t.op = "claim" THEN [claims EXCEPT ![m] = @ + 1] ELSE claims
           /\ stale' = stale \ {m}
    /\ task' = [task EXCEPT ![h] = NoTask]
    /\ UNCHANGED <<requestVars, devstate, dispatches, cron, old, waiting, reports,
                   faults, refunds, billed, lost>>

\* The save is refused: the handler returns without touching anything.
SaveFails(h) ==
    /\ task[h] # NoTask
    /\ faults < MaxFaults
    /\ faults' = faults + 1
    /\ task' = [task EXCEPT ![h] = NoTask]
    /\ UNCHANGED <<rows, requestVars, devstate, dispatches, owed, cron, handed,
                   clockVars, reports, historyVars>>

\* releaseQuota after the save of a terminal failure
Release(m) ==
    /\ owed[m] > 0
    /\ owed' = [owed EXCEPT ![m] = @ - 1]
    /\ used' = Minus(used, 1)
    /\ refunds' = [refunds EXCEPT ![m] = @ + 1]
    /\ UNCHANGED <<rows, devstate, requests, dispatches, task, cron, handed, clockVars,
                   reports, faults, claims, billed, lost>>

\* ... and when that fails, it is logged and not tried again.
ReleaseFails(m) ==
    /\ owed[m] > 0
    /\ faults < MaxFaults
    /\ faults' = faults + 1
    /\ owed' = [owed EXCEPT ![m] = @ - 1]
    /\ UNCHANGED <<rows, requestVars, devstate, dispatches, task, cron, handed, clockVars,
                   reports, historyVars>>

-----------------------------------------------------------------------------
(* The retry cron: three drains over batches found beforehand                *)

Found(filter(_)) == {[msg |-> m, copy |-> rows[m]] : m \in {n \in Messages : filter(n)}}

CronStart ==
    /\ cron.phase = "idle"
    /\ Quiet
    /\ LET Eligible(m) == /\ rows[m].status = "failed"
                          /\ ~Exhausted(rows[m])
                          /\ m \notin old
       IN  cron' = [phase |-> "failed", batch |-> Found(Eligible), requeued |-> {},
                    cutoff |-> old, cache |-> Unresolved]
    /\ UNCHANGED <<rows, requestVars, devstate, dispatches, task, owed, handed, clockVars,
                   reports, faults, historyVars>>

\* assignAvailableDevice: one resolution per pass, kept in the cache
Resolved == IF cron.cache # Unresolved THEN {cron.cache}
            ELSE IF AutoTargets = {} THEN {NoDevice} ELSE AutoTargets

\* The record stays as it is and the drain goes on.
Skip(job, cache) ==
    /\ cron' = [cron EXCEPT !.batch = @ \ {job}, !.cache = cache]
    /\ UNCHANGED <<rows, requestVars, devstate, dispatches, task, owed, handed, clockVars,
                   reports, faults, historyVars>>

\* The cron saves an "assigned" copy, keeps it for dispatch, and the realtime
\* hook pushes it.
SaveAssigned(job, edited, cache) ==
    /\ rows' = [rows EXCEPT ![job.msg] = SaveChanged(@, job.copy, edited)]
    /\ LET again == [msg |-> job.msg, copy |-> edited]
       IN  /\ cron' = [cron EXCEPT !.batch = @ \ {job}, !.requeued = @ \cup {again},
                                   !.cache = cache]
           /\ \E connected \in BOOLEAN : handed' = handed \cup Pushed({again}, connected)
    /\ stale' = stale \ {job.msg}
    /\ waiting' = IF edited.retry > job.copy.retry THEN waiting \cup {job.msg} ELSE waiting
    /\ UNCHANGED <<requestVars, devstate, dispatches, task, owed, old, reports, faults,
                   historyVars>>

\* The cron gives up on a record: MarkMessageTerminal with its own error text.
SaveExpired(job) ==
    /\ rows' = [rows EXCEPT ![job.msg] =
                  SaveChanged(@, job.copy, MarkTerminal(job.copy, "failed", "temporary"))]
    /\ owed' = IF Refunds(job.copy, "failed", "temporary", job.msg \in old)
               THEN [owed EXCEPT ![job.msg] = @ + 1] ELSE owed
    /\ cron' = [cron EXCEPT !.batch = @ \ {job}]
    /\ stale' = stale \ {job.msg}
    /\ UNCHANGED <<requestVars, devstate, dispatches, task, handed, old, waiting, reports,
                   faults, historyVars>>

RetryFailed(job) ==
    /\ cron.phase = "failed" /\ job \in cron.batch
    /\ \/ /\ IsPermanent(job.copy.err) \/ (job.copy.retry > 0 /\ job.msg \in waiting)
          /\ Skip(job, cron.cache)
       \/ /\ ~IsPermanent(job.copy.err)
          /\ job.copy.retry = 0 \/ job.msg \notin waiting
          /\ \/ /\ job.copy.device # NoDevice
                /\ SaveAssigned(job, [Requeued(job.copy) EXCEPT !.err = ""], cron.cache)
             \/ /\ job.copy.device = NoDevice
                /\ \E d \in Resolved :
                     IF d \in Registered
                     THEN SaveAssigned(job, [Requeued(job.copy) EXCEPT !.err = "", !.device = d], d)
                     ELSE Skip(job, d)

RescuePending(job) ==
    /\ cron.phase = "pending" /\ job \in cron.batch
    /\ \E d \in Resolved :
         IF d \in Registered
         THEN SaveAssigned(job, [job.copy EXCEPT !.status = "assigned", !.device = d], d)
         ELSE IF d = NoDevice /\ job.msg \in cron.cutoff
              THEN SaveExpired(job)
              ELSE Skip(job, d)

RescueSending(job) ==
    /\ cron.phase = "sending" /\ job \in cron.batch
    /\ IF Exhausted(job.copy)
       THEN SaveExpired(job)
       ELSE SaveAssigned(job, Requeued(job.copy), cron.cache)

\* A refused save leaves the record for the next pass.
CronSaveFails(job) ==
    /\ job \in cron.batch
    /\ faults < MaxFaults
    /\ faults' = faults + 1
    /\ cron' = [cron EXCEPT !.batch = @ \ {job}]
    /\ UNCHANGED <<rows, requestVars, devstate, dispatches, task, owed, handed, clockVars,
                   reports, historyVars>>

\* Mutant: only messages with retries left are looked for.
StuckWithRetries(m) == rows[m].status = "sending" /\ m \in stale /\ ~Exhausted(rows[m])

\* The filter of rescueStaleSendingMessages
Stuck(m) == rows[m].status = "sending" /\ m \in stale

\* A drain is done: find the next one's batch, or dispatch what was requeued.
CronAdvance ==
    /\ cron.phase # "idle" /\ cron.batch = {}
    /\ LET Pending(m) == rows[m].status = "pending"
       IN  CASE cron.phase = "failed" ->
                  /\ cron' = [cron EXCEPT !.phase = "pending", !.batch = Found(Pending)]
                  /\ UNCHANGED dispatches
             [] cron.phase = "pending" ->
                  /\ cron' = [cron EXCEPT !.phase = "sending", !.batch = Found(Stuck)]
                  /\ UNCHANGED dispatches
             [] OTHER ->
                  /\ cron' = IdleCron
                  /\ dispatches' = dispatches \cup Dispatchable(cron.requeued)
    /\ UNCHANGED <<rows, requestVars, devstate, task, owed, handed, clockVars, reports,
                   faults, historyVars>>

-----------------------------------------------------------------------------
(* Time, devices and crashes                                                *)

\* A claimed message sits in "sending" past SMSSendingStaleAfter.
GoesStale(m) ==
    /\ rows[m].status = "sending" /\ m \notin stale
    /\ stale' = stale \cup {m}
    /\ UNCHANGED <<rows, requestVars, devstate, dispatches, task, owed, cron, handed, old,
                   waiting, reports, faults, historyVars>>

BackoffElapses(m) ==
    /\ m \in waiting
    /\ waiting' = waiting \ {m}
    /\ UNCHANGED <<rows, requestVars, devstate, dispatches, task, owed, cron, handed, old,
                   stale, reports, faults, historyVars>>

\* The message crosses SMSRetryCutoff.
Age(m) ==
    /\ AllowAgeing /\ Quiet
    /\ rows[m].status # "none" /\ m \notin old
    /\ old' = old \cup {m}
    /\ UNCHANGED <<rows, requestVars, devstate, dispatches, task, owed, cron, handed,
                   stale, waiting, reports, faults, historyVars>>

RegisterDevice(d) ==
    /\ AllowDeviceChanges
    /\ devstate[d] = "unregistered"
    /\ devstate' = [devstate EXCEPT ![d] = "registered"]
    /\ UNCHANGED <<rows, requestVars, dispatches, task, owed, cron, handed, clockVars,
                   reports, faults, historyVars>>

\* Deleting a device empties the relation of the rows that point to it.
DeleteDevice(d) ==
    /\ AllowDeviceChanges
    /\ d \in Physical
    /\ devstate' = [devstate EXCEPT ![d] = "deleted"]
    /\ rows' = [m \in Messages |->
                  IF rows[m].device = d THEN [rows[m] EXCEPT !.device = NoDevice] ELSE rows[m]]
    /\ stale' = {m \in stale : rows[m].device # d}
    /\ handed' = {p \in handed : p[2] # d}
    /\ UNCHANGED <<requestVars, dispatches, task, owed, cron, old, waiting, reports, faults,
                   historyVars>>

\* The process dies: every goroutine is gone, the database stays.
Crash ==
    /\ faults < MaxFaults
    /\ faults' = faults + 1
    /\ lost' = lost + Cardinality(UNION requests)
    /\ requests' = {}
    /\ dispatches' = {}
    /\ task' = [h \in Handlers |-> NoTask]
    /\ owed' = [m \in Messages |-> 0]
    /\ cron' = IdleCron
    /\ UNCHANGED <<rows, used, devstate, handed, clockVars, reports, refunds, claims, billed>>

-----------------------------------------------------------------------------
SendStep     == \E batch \in SUBSET Messages :
                    \/ Reserve(batch)
                    \/ CreateMessages(batch)
                    \/ CreateFails(batch)
                    \/ CreateFailsUnreleased(batch)
DispatchStep == \E job \in dispatches :
                    \/ ProviderReturns(job)
                    \/ ProviderSaveFails(job)
                    \/ TickleSent(job)
                    \/ \E h \in Handlers : TickleFails(h, job)
AgentClaims  == \E h \in Handlers, d \in Devices, m \in Messages : Claim(h, d, m)
ReportStep   == \E h \in Handlers, m \in Messages :
                    \/ \E d \in Devices, status \in {"sent", "delivered", "failed"}, err \in Errors :
                          Ack(h, d, m, status, err)
                    \/ \E status \in {"delivered", "failed"} : AeumEvent(h, m, status)
CronWork     == \E job \in cron.batch :
                    RetryFailed(job) \/ RescuePending(job) \/ RescueSending(job)
CronStep     == \/ CronStart
                \/ CronWork
                \/ CronAdvance
                \/ \E job \in cron.batch : CronSaveFails(job)
TimeStep     == \E m \in Messages : GoesStale(m) \/ BackoffElapses(m) \/ Age(m)
DeviceStep   == \E d \in Devices : RegisterDevice(d) \/ DeleteDevice(d)

Next ==
    \/ SendStep
    \/ DispatchStep
    \/ AgentClaims
    \/ ReportStep
    \/ \E h \in Handlers : Commit(h) \/ SaveFails(h)
    \/ \E m \in Messages : Release(m) \/ ReleaseFails(m)
    \/ CronStep
    \/ TimeStep
    \/ DeviceStep
    \/ Crash

Spec == Init /\ [][Next]_vars

-----------------------------------------------------------------------------
(* Safety                                                                   *)

Created == {m \in Messages : rows[m].status # "none"}

\* Concurrent reservations never take the month's counter past the plan's
\* limit (ReserveSMSQuota: "two concurrent reservations can never jointly
\* exceed it"), whatever releases, crashes and refunds happen in between.
QuotaWithinLimit == used <= SmsLimit

\* The counter never charges for more than the reservations in flight, the
\* messages created and not refunded, and what was lost: every failed request
\* gives its whole batch back and every refund a credit, but for those that died
\* in a crash or whose release failed (releaseQuota logs that and goes on).
NoOvercharge ==
    used + Cardinality({m \in Messages : refunds[m] > 0})
        <= Cardinality(UNION requests) + Cardinality(Created) + lost

\* MarkMessageTerminal releases a message's reservation at most once
\* ("it happens exactly once per message", invariant (c)).
RefundAtMostOnce == \A m \in Messages : refunds[m] + owed[m] <= 1

\* The provider is called at most once per attempt: no two goroutines hold the
\* same message at the same retry_count, none holds one that was already
\* billed, and no attempt is billed that the row does not count.  So a message
\* costs at most 1 + SMSMaxRetries provider calls.
BilledOncePerAttempt ==
    \A j \in dispatches : j.copy.device \in Aeum =>
        /\ j.copy.retry \notin billed[j.msg]
        /\ j.copy.retry <= rows[j.msg].retry
        /\ \A k \in dispatches : k.msg = j.msg /\ k.copy.retry = j.copy.retry => k = j

\* While no two find-to-save windows overlap, a claim hands an attempt to one agent call
\* only, whatever the cron re-queues and late reports write ("ClaimPendingMessages
\* atomically marks assigned messages as sending").
ClaimedOncePerAttempt == \A m \in Messages : claims[m] <= 1 + rows[m].retry

\* A delivery the device confirmed is final: no late or duplicate report and no
\* retry touches the message afterwards (the guards of ProcessSMSAck).  False when
\* windows overlap, and where a tickle fails late: markMessageFailed has no guard.
DeliveredFinal ==
    [][\A m \in Messages : rows[m].status = "delivered" /\ ~rows[m].providerId
                            => rows'[m].status = "delivered"]_rows

\* Once the provider has accepted a message (provider_message_id is set) and
\* the message then failed, the row is never queued for a new billable attempt
\* ("the retry cron ... never re-sends a new billable SMS to an invalid/blocked
\* number").  When windows overlap a late save breaks it: the report of a first
\* attempt on a deleted device can fail the row the provider accepted meanwhile.
NoResendAfterDeliveryFailure ==
    [][\A m \in Messages :
          rows[m].status = "failed" /\ rows[m].providerId => rows'[m].status # "assigned"]_rows

\* isTerminalFailure is "the exact inverse of the retry-eligibility filter": a
\* message that got its credit back and was never reported sent is not re-queued,
\* so nothing is sent that is not paid for.  (Reports can break the inverse: one
\* that fails for good, one that says sent, one that fails for a while.)
NoFreeResend ==
    [][\A m \in Messages :
          refunds[m] > 0 /\ rows[m].status = "failed" /\ ~rows[m].sentAt
             => rows'[m].status # "assigned"]_rows

-----------------------------------------------------------------------------
(* Refinement                                                               *)

\* Where the credit of a message is, for SmsCredits
CreditOf(m) ==
    CASE refunds[m] > 0                                     -> "refunded"
      [] refunds[m] = 0 /\ rows[m].sentAt                   -> "spent"
      [] m \in Created /\ refunds[m] = 0 /\ ~rows[m].sentAt -> "held"
      [] m \in UNION requests                               -> "reserved"
      [] OTHER                                              -> "free"

Credits == INSTANCE SmsCredits WITH credit <- [m \in Messages |-> CreditOf(m)]

\* One message, one credit: it is refunded at most once, never after the message
\* was sent (invariants (b) and (c) of MarkMessageTerminal), a failed request
\* returns its whole batch or, when that fails, loses it, and no release takes
\* another message's credit.  A refund that fails leaves the credit held.
CreditsImplemented == Credits!Spec

-----------------------------------------------------------------------------
(* Liveness                                                                 *)

\* Goroutines run to completion, the cron is called again and again, clocks
\* advance and an agent that is up polls for its messages (FetchPending on
\* every connection).  A device need not report, a tickle need not arrive, and no
\* user is assumed to register or keep a device.
Fairness ==
    /\ WF_vars(\E batch \in SUBSET Messages : CreateMessages(batch) \/ CreateFails(batch))
    /\ WF_vars(\E job \in dispatches : ProviderReturns(job) \/ TickleSent(job))
    /\ \A h \in Handlers : WF_vars(Commit(h))
    /\ \A m \in Messages : WF_vars(Release(m))
    /\ WF_vars(CronStart \/ CronWork \/ CronAdvance)
    /\ \A m \in Messages : WF_vars(GoesStale(m)) /\ WF_vars(BackoffElapses(m))
                            /\ WF_vars(Age(m))
    /\ WF_vars(AgentClaims)

FairSpec == Spec /\ Fairness

Settled(m) == rows[m].status \in {"sent", "delivered", "failed"}

\* The two gaps: nothing looks for "assigned" rows.  A call to AWS that dies, or whose
\* answer cannot be saved, strands its message; so does the deletion of the device of
\* an assigned message, or of one that the stale rescue then re-queues to nobody.
Stranded(m) ==
    /\ rows[m].status = "assigned"
    /\ rows[m].device = NoDevice \/ (faults > 0 /\ rows[m].device \in Aeum)

\* A created message never stays in limbo: but for those gaps it comes to rest as sent,
\* delivered or failed, even when it has no device for hours, its agent takes it and
\* dies, the save of its result is refused or the server crashes between any two steps.
NeverInLimbo ==
    \A m \in Messages : [](rows[m].status # "none" => <>[](Settled(m) \/ Stranded(m)))
=============================================================================
