------------------------- MODULE SmsLifecycleProofs -------------------------
(***************************************************************************)
(* The lifecycle for any number of messages, devices and handlers, any limit *)
(* and any number of retries.  Whatever overlaps: types, the quota bound,    *)
(* "billed once per attempt", and no more charged than was reserved.  When   *)
(* no two find-to-save windows on a row overlap: one claim per attempt.  When *)
(* moreover a failed tickle is noticed before its row moves on: one refund,   *)
(* no resend of what was refunded or failed to be delivered, delivered is     *)
(* final, and SmsCredits is implemented.                                     *)
(***************************************************************************)
EXTENDS SmsLifecycle, FiniteSetTheorems, TLAPS

-----------------------------------------------------------------------------
(* Rows and the edits made to them                                           *)

Settlements == {"sending", "sent", "delivered", "failed"}

\* The fields of a row are typed.
LEMMA RowFields ==
    ASSUME NEW r \in Row
    PROVE  /\ r.status \in Status /\ r.device \in Devices \cup {NoDevice}
           /\ r.retry \in 0..SMSMaxRetries /\ r.retry \in Nat
           /\ r.err \in Errors /\ r.sentAt \in BOOLEAN /\ r.providerId \in BOOLEAN
BY DEF Row

\* A save of changed columns gives a row whose columns are the edited ones where
\* they were edited and the current ones elsewhere.
LEMMA SaveChangedIsRow ==
    ASSUME NEW r \in Row, NEW l \in Row, NEW e \in Row
    PROVE  /\ SaveChanged(r, l, e) \in Row
           /\ SaveChanged(r, l, e).status = IF e.status # l.status THEN e.status ELSE r.status
           /\ SaveChanged(r, l, e).retry = IF e.retry # l.retry THEN e.retry ELSE r.retry
           /\ SaveChanged(r, l, e).device = IF e.device # l.device THEN e.device ELSE r.device
           /\ SaveChanged(r, l, e).providerId =
                 IF e.providerId # l.providerId THEN e.providerId ELSE r.providerId
BY DEF SaveChanged, Row

\* dispatchOne's edit for an accepted message keeps retry_count.
LEMMA AcceptedIsRow ==
    ASSUME NEW r \in Row
    PROVE  LET e == [r EXCEPT !.status = "sent", !.sentAt = TRUE, !.providerId = TRUE]
           IN  /\ e \in Row /\ e.retry = r.retry /\ e.status = "sent"
               /\ e.device = r.device /\ e.err = r.err /\ e.sentAt
<1>1. [r EXCEPT !.status = "sent"] \in Row
    BY DEF Row, Status
<1>2. [r EXCEPT !.status = "sent", !.sentAt = TRUE] \in Row
    BY <1>1 DEF Row
<1>3. [r EXCEPT !.status = "sent", !.sentAt = TRUE, !.providerId = TRUE] \in Row
    BY <1>2 DEF Row
<1> QED
    BY <1>3 DEF Row

\* ... and so does its edit for a rejected one.
LEMMA RejectedIsRow ==
    ASSUME NEW r \in Row, NEW err \in Errors
    PROVE  LET e == [r EXCEPT !.status = "failed", !.err = err, !.providerId = FALSE]
           IN  /\ e \in Row /\ e.retry = r.retry /\ e.status = "failed"
               /\ e.device = r.device /\ (e.sentAt <=> r.sentAt) /\ ~e.providerId
<1>1. [r EXCEPT !.status = "failed"] \in Row
    BY DEF Row, Status
<1>2. [r EXCEPT !.status = "failed", !.err = err] \in Row
    BY <1>1 DEF Row
<1>3. [r EXCEPT !.status = "failed", !.err = err, !.providerId = FALSE] \in Row
    BY <1>2 DEF Row
<1> QED
    BY <1>3 DEF Row

\* MarkMessageTerminal edits neither retry_count, device nor provider_message_id.
LEMMA MarkTerminalIsRow ==
    ASSUME NEW r \in Row, NEW status \in Status, NEW err \in Errors
    PROVE  /\ MarkTerminal(r, status, err) \in Row
           /\ MarkTerminal(r, status, err).status = status
           /\ MarkTerminal(r, status, err).retry = r.retry
           /\ MarkTerminal(r, status, err).device = r.device
           /\ MarkTerminal(r, status, err).providerId <=> r.providerId
           /\ err \in {"temporary", "permanent"} => MarkTerminal(r, status, err).err = err
           /\ MarkTerminal(r, status, err).err \in {r.err, err}
           /\ MarkTerminal(r, status, err).sentAt <=> (r.sentAt \/ status = "sent")
BY DEF MarkTerminal, Row

\* The edit of a failed tickle and of the cron's last words is typed.
LEMMA FailedTemporarily == "failed" \in Status /\ "temporary" \in Errors
BY DEF Status, Errors

\* createMessageRecords makes rows at attempt 0, unknown to the provider.
LEMMA NewRowIsRow ==
    ASSUME NEW d \in Devices \cup {NoDevice}
    PROVE  /\ NoRow \in Row /\ NewRow(d) \in Row
           /\ NewRow(d).device = d /\ NewRow(d).retry = 0 /\ ~NewRow(d).providerId
           /\ NewRow(d).status = IF d = NoDevice THEN "pending" ELSE "assigned"
<1>1. NoRow \in Row
    BY ConstantsAssumption DEF ConstantsAssumption, NoRow, Row, Status, Errors
<1>2. /\ NoRow.retry = 0 /\ NoRow.providerId = FALSE
    BY DEF NoRow
<1> QED
    BY <1>1, <1>2 DEF NewRow, Row, Status

\* A requeue adds one to retry_count and stays within SMSMaxRetries.
LEMMA RequeuedIsRow ==
    ASSUME NEW r \in Row, ~Exhausted(r)
    PROVE  /\ Requeued(r) \in Row
           /\ Requeued(r).retry = r.retry + 1 /\ Requeued(r).status = "assigned"
           /\ Requeued(r).device = r.device
           /\ (Requeued(r).sentAt <=> r.sentAt) /\ (Requeued(r).providerId <=> r.providerId)
<1>1. r.retry + 1 \in 0..SMSMaxRetries
    BY ConstantsAssumption DEF Exhausted, Row
<1>2. [r EXCEPT !.status = "assigned"] \in Row
    BY DEF Row, Status
<1> QED
    BY <1>1, <1>2 DEF Requeued, Row, Status

\* The cron's other edits keep retry_count.
LEMMA RetriedIsRow ==
    ASSUME NEW r \in Row, NEW d \in Devices \cup {NoDevice}
    PROVE  /\ LET e == [r EXCEPT !.err = ""]
              IN  /\ e \in Row /\ e.retry = r.retry /\ e.status = r.status
                  /\ e.device = r.device
                  /\ (e.sentAt <=> r.sentAt) /\ (e.providerId <=> r.providerId)
           /\ LET e == [r EXCEPT !.err = "", !.device = d]
              IN  /\ e \in Row /\ e.retry = r.retry /\ e.status = r.status /\ e.device = d
                  /\ (e.sentAt <=> r.sentAt) /\ (e.providerId <=> r.providerId)
<1>1. PICK none : none = ""
    OBVIOUS
<1>2. none \in Errors
    BY <1>1, Zenon DEF Errors
<1>3. \A e : e = [r EXCEPT !.err = none] =>
         /\ e \in Row /\ e.retry = r.retry /\ e.status = r.status /\ e.device = r.device
         /\ (e.sentAt <=> r.sentAt) /\ (e.providerId <=> r.providerId)
    BY <1>2 DEF Row
<1>4. \A e : e = [r EXCEPT !.err = none, !.device = d] =>
         /\ e \in Row /\ e.retry = r.retry /\ e.status = r.status /\ e.device = d
         /\ (e.sentAt <=> r.sentAt) /\ (e.providerId <=> r.providerId)
    BY <1>2 DEF Row
<1> QED
    BY <1>1, <1>3, <1>4, Zenon

\* ... and so does the pending rescue's.
LEMMA AssignedIsRow ==
    ASSUME NEW r \in Row, NEW d \in Devices \cup {NoDevice}
    PROVE  LET e == [r EXCEPT !.status = "assigned", !.device = d]
           IN  /\ e \in Row /\ e.retry = r.retry /\ e.status = "assigned" /\ e.device = d
               /\ (e.sentAt <=> r.sentAt) /\ (e.providerId <=> r.providerId)
BY DEF Row, Status
-----------------------------------------------------------------------------
(* The inductive invariant                                                   *)

\* Every job a goroutine has or will get
Jobs == dispatches \cup cron.requeued

\* The message has no transport yet.
Fresh(m) == rows[m].status \in {"none", "pending"}

\* A handler never edits retry_count and always leaves "none" and "pending".
TaskOK ==
    \A h \in Handlers : task[h] # NoTask =>
        /\ task[h].loaded.retry = task[h].edited.retry
        /\ task[h].edited.status \in Settlements
        /\ task[h].op = "claim" => task[h].device \in Devices

\* Nobody but SendSMS and the pending rescue touches a fresh message.
FreshOK ==
    \A m \in Messages : Fresh(m) =>
        /\ rows[m].device = NoDevice /\ ~rows[m].providerId
        /\ billed[m] = {}
        /\ \A j \in Jobs : j.msg # m
        /\ \A h \in Handlers : task[h] # NoTask => task[h].msg # m

\* Batches in flight are disjoint and not created yet.
RequestsOK ==
    \A b \in requests :
        /\ \A m \in b : rows[m].status = "none"
        /\ \A c \in requests : b # c => b \cap c = {}

\* What the cron's drain loaded: the row may have changed, its retry_count not.
BatchOK ==
    \A j \in cron.batch :
        /\ j.copy.retry = rows[j.msg].retry
        /\ \A k \in cron.batch : k.msg = j.msg => k = j
        /\ cron.phase = "failed" => ~Exhausted(j.copy)
        /\ IF cron.phase = "pending"
           THEN rows[j.msg].status = "pending" /\ j.copy.status = "pending"
           ELSE ~Fresh(j.msg)

\* retry_count numbers the attempts: one job each, none billed before.
AttemptsOK ==
    /\ dispatches \cap cron.requeued = {}
    /\ \A j \in Jobs : /\ j.copy.retry <= rows[j.msg].retry
                        /\ j.copy.retry \notin billed[j.msg]
    /\ \A j, k \in Jobs : j.msg = k.msg /\ j.copy.retry = k.copy.retry => j = k
    /\ \A m \in Messages : \A r \in billed[m] : r <= rows[m].retry

IInv == /\ TypeOK /\ QuotaWithinLimit
        /\ TaskOK /\ FreshOK /\ RequestsOK /\ BatchOK /\ AttemptsOK

\* A job's parts are typed.
LEMMA JobFields ==
    ASSUME NEW j \in Job
    PROVE  j.msg \in Messages /\ j.copy \in Row /\ j.copy.retry \in Nat
           /\ j.copy.retry \in 0..SMSMaxRetries
BY RowFields DEF Job

\* The facts about the current state that most steps need
LEMMA InvTypes ==
    ASSUME IInv
    PROVE  /\ \A m \in Messages : rows[m] \in Row
           /\ \A j \in Jobs : j \in Job
           /\ \A j \in cron.batch : j \in Job
           /\ \A h \in Handlers : task[h] # NoTask => task[h] \in Task
           /\ cron \in CronPass /\ used \in Nat
BY DEF IInv, TypeOK, Jobs, CronPass

\* Most steps keep every retry_count, hand out no new job and leave fresh
\* messages alone; the invariant then survives.
LEMMA Harmless ==
    ASSUME IInv, TypeOK', QuotaWithinLimit', TaskOK',
           \A m \in Messages : rows'[m].retry = rows[m].retry,
           \A m \in Messages : Fresh(m)' => Fresh(m) /\ rows'[m] = rows[m],
           \A m \in Messages : rows[m].status = "none" => rows'[m] = rows[m],
           \A m \in Messages : \A r \in billed'[m] :
              \/ r \in billed[m]
              \/ \E j \in Jobs : j \notin Jobs' /\ j.msg = m /\ j.copy.retry = r,
           Jobs' \subseteq Jobs,
           dispatches' \cap cron'.requeued = {},
           \A h \in Handlers : task'[h] # NoTask => task'[h] = task[h] \/ ~Fresh(task'[h].msg),
           requests' \subseteq requests,
           cron'.batch \subseteq cron.batch,
           cron'.phase = cron.phase,
           \A j \in cron'.batch : cron.phase = "pending" => rows'[j.msg] = rows[j.msg]
    PROVE  IInv'
<1>1. FreshOK'
    <2> SUFFICES ASSUME NEW m \in Messages, Fresh(m)'
                 PROVE  /\ rows'[m].device = NoDevice /\ ~rows'[m].providerId
                        /\ billed'[m] = {}
                        /\ \A j \in Jobs' : j.msg # m
                        /\ \A h \in Handlers : task'[h] # NoTask => task'[h].msg # m
        BY DEF FreshOK
    <2>1. /\ Fresh(m) /\ rows'[m] = rows[m] /\ billed[m] = {}
          /\ \A j \in Jobs : j.msg # m
        BY DEF IInv, FreshOK
    <2> QED
        BY <2>1 DEF IInv, FreshOK
<1>2. RequestsOK'
    BY DEF IInv, RequestsOK, TypeOK
<1>3. BatchOK'
    <2> SUFFICES ASSUME NEW j \in cron'.batch
                 PROVE  /\ j.copy.retry = rows'[j.msg].retry
                        /\ \A k \in cron'.batch : k.msg = j.msg => k = j
                        /\ cron'.phase = "failed" => ~Exhausted(j.copy)
                        /\ IF cron'.phase = "pending"
                           THEN rows'[j.msg].status = "pending" /\ j.copy.status = "pending"
                           ELSE ~Fresh(j.msg)'
        BY DEF BatchOK, Exhausted
    <2>1. j \in cron.batch /\ j.msg \in Messages
        BY InvTypes, JobFields
    <2> QED
        BY <2>1 DEF IInv, BatchOK
<1>4. AttemptsOK'
    <2>1. \A j \in Jobs' : j \in Jobs /\ j.msg \in Messages
        BY InvTypes, JobFields
    <2>2. \A j, k \in Jobs : j.msg = k.msg /\ j.copy.retry = k.copy.retry => j = k
        BY DEF IInv, AttemptsOK
    <2>3. \A j \in Jobs' : j.copy.retry <= rows'[j.msg].retry
        BY <2>1 DEF IInv, AttemptsOK
    <2>4. \A j \in Jobs' : j.copy.retry \notin billed'[j.msg]
        BY <2>1, <2>2 DEF IInv, AttemptsOK
    <2>5. ASSUME NEW m \in Messages, NEW r \in billed'[m]
          PROVE  r <= rows'[m].retry
        BY DEF IInv, AttemptsOK
    <2> QED
        BY <2>1, <2>2, <2>3, <2>4, <2>5 DEF AttemptsOK
<1> QED
    BY <1>1, <1>2, <1>3, <1>4 DEF IInv

-----------------------------------------------------------------------------
(* SendSMS                                                                   *)

\* A batch of recipients has a size.
LEMMA BatchIsFinite ==
    ASSUME NEW batch \in SUBSET Messages
    PROVE  IsFiniteSet(batch) /\ Cardinality(batch) \in Nat
BY MessagesAreFinite, FS_Subset, FS_CardinalityType

\* The clamped release leaves a natural number that is no larger.
LEMMA MinusIsNat ==
    ASSUME NEW n \in Nat, NEW k \in Nat
    PROVE  Minus(n, k) \in Nat /\ Minus(n, k) <= n
BY DEF Minus

\* The invariant holds initially.
LEMMA InitInv == Init => IInv
<1> SUFFICES ASSUME Init PROVE IInv
    OBVIOUS
<1>1. TypeOK
    <2>1. rows \in [Messages -> Row]
        <3>1. NoRow \in Row
            BY NewRowIsRow
        <3> QED
            BY <3>1 DEF Init
    <2>2. cron \in CronPass
        BY DEF Init, IdleCron, CronPass, CronPhase
    <2>3. devstate \in [Devices -> {"unregistered", "registered", "deleted"}]
        BY DEF Init
    <2>4. billed \in [Messages -> SUBSET (0..SMSMaxRetries)]
        BY DEF Init
    <2> QED
        BY <2>1, <2>2, <2>3, <2>4 DEF Init, TypeOK
<1>2. QuotaWithinLimit
    BY ConstantsAssumption DEF ConstantsAssumption, Init, QuotaWithinLimit
<1>3. Jobs = {} /\ cron.batch = {}
    BY DEF Init, IdleCron, Jobs
<1>4. TaskOK
    BY DEF Init, TaskOK
<1>5. FreshOK
    BY <1>3 DEF Init, FreshOK, NoRow
<1> QED
    BY <1>1, <1>2, <1>3, <1>4, <1>5 DEF Init, IInv, RequestsOK, BatchOK, AttemptsOK

\* ReserveSMSQuota: the only step that raises the counter, guarded by Fits.
LEMMA ReserveInv ==
    ASSUME IInv, NEW batch \in SUBSET Messages, Reserve(batch)
    PROVE  IInv'
<1>1. Cardinality(batch) \in Nat
    BY BatchIsFinite
<1>2. TypeOK' /\ QuotaWithinLimit'
    BY <1>1 DEF Reserve, Fits, clockVars, historyVars, IInv, TypeOK, QuotaWithinLimit
<1>3. TaskOK' /\ FreshOK' /\ BatchOK' /\ AttemptsOK'
    BY DEF Reserve, clockVars, historyVars, IInv, TaskOK, FreshOK, BatchOK, AttemptsOK,
           Fresh, Jobs
<1>4. RequestsOK'
    BY DEF Reserve, IInv, RequestsOK
<1> QED
    BY <1>2, <1>3, <1>4 DEF IInv

\* A failed SendSMS only lowers the counter.
LEMMA CreateFailsInv ==
    ASSUME IInv, NEW batch \in SUBSET Messages, CreateFails(batch)
    PROVE  IInv'
<1>1. Minus(used, Cardinality(batch)) \in Nat /\ Minus(used, Cardinality(batch)) <= used
    BY BatchIsFinite, MinusIsNat, InvTypes
<1>2. TypeOK'
    BY <1>1 DEF CreateFails, clockVars, historyVars, IInv, TypeOK
<1>3. QuotaWithinLimit'
    BY <1>1, InvTypes, ConstantsAssumption
       DEF CreateFails, IInv, QuotaWithinLimit, ConstantsAssumption
<1>4. TaskOK'
    BY DEF CreateFails, IInv, TaskOK
<1> QED
    BY <1>2, <1>3, <1>4, Harmless
       DEF CreateFails, clockVars, historyVars, Fresh, Jobs, IInv, AttemptsOK

\* One that could not release its batch leaves the counter as it is.
LEMMA CreateFailsUnreleasedInv ==
    ASSUME IInv, NEW batch \in SUBSET Messages, CreateFailsUnreleased(batch)
    PROVE  IInv'
<1>1. Cardinality(batch) \in Nat
    BY BatchIsFinite
<1>2. TypeOK' /\ QuotaWithinLimit' /\ TaskOK'
    BY <1>1 DEF CreateFailsUnreleased, clockVars, IInv, TypeOK, QuotaWithinLimit, TaskOK
<1> QED
    BY <1>2, Harmless
       DEF CreateFailsUnreleased, clockVars, Fresh, Jobs, IInv, AttemptsOK

\* createMessageRecords hands out the first attempt of messages nobody knows.
LEMMA CreateMessagesInv ==
    ASSUME IInv, NEW batch \in SUBSET Messages, CreateMessages(batch)
    PROVE  IInv'
<1>1. PICK targets \in SendTargets, connected \in BOOLEAN :
      \E pick \in [batch -> IF targets = {} THEN {NoDevice} ELSE targets] :
         LET jobs == {[msg |-> m, copy |-> NewRow(pick[m])] : m \in batch}
         IN  /\ rows' = [m \in Messages |->
                            IF m \in batch THEN NewRow(pick[m]) ELSE rows[m]]
             /\ dispatches' = dispatches \cup Dispatchable(jobs)
             /\ handed' = handed \cup Pushed(jobs, connected)
    BY DEF CreateMessages
<1>2. PICK pick \in [batch -> IF targets = {} THEN {NoDevice} ELSE targets] :
         LET jobs == {[msg |-> m, copy |-> NewRow(pick[m])] : m \in batch}
         IN  /\ rows' = [m \in Messages |->
                            IF m \in batch THEN NewRow(pick[m]) ELSE rows[m]]
             /\ dispatches' = dispatches \cup Dispatchable(jobs)
             /\ handed' = handed \cup Pushed(jobs, connected)
    BY <1>1
<1> DEFINE jobs == {[msg |-> m, copy |-> NewRow(pick[m])] : m \in batch}
<1>3. \A m \in batch : pick[m] \in Devices \cup {NoDevice}
    <2>1. targets \subseteq Devices
        BY <1>1 DEF SendTargets, AutoTargets, Physical, Registered
    <2> QED
        BY <2>1
<1>4. \A m \in batch : /\ NewRow(pick[m]) \in Row
                       /\ NewRow(pick[m]).device = pick[m]
                       /\ NewRow(pick[m]).retry = 0 /\ ~NewRow(pick[m]).providerId
                       /\ NewRow(pick[m]).status =
                             IF pick[m] = NoDevice THEN "pending" ELSE "assigned"
    BY <1>3, NewRowIsRow
<1>5. /\ rows' = [m \in Messages |-> IF m \in batch THEN NewRow(pick[m]) ELSE rows[m]]
      /\ dispatches' = dispatches \cup Dispatchable(jobs)
      /\ handed' = handed \cup Pushed(jobs, connected)
      /\ batch \in requests /\ requests' = requests \ {batch}
      /\ cron' = cron /\ task' = task /\ billed' = billed
    BY <1>2 DEF CreateMessages, historyVars
<1>6. /\ jobs \subseteq Job
      /\ \A j \in Dispatchable(jobs) : j.msg \in batch /\ j.copy = NewRow(pick[j.msg])
                                       /\ pick[j.msg] \in Devices
    <2>1. \A j \in jobs : j \in Job /\ j.msg \in batch /\ j.copy = NewRow(pick[j.msg])
        BY <1>4 DEF Job
    <2>2. \A j \in Dispatchable(jobs) : j \in jobs /\ j.copy.device \in Devices
        BY DEF Dispatchable, Registered
    <2> QED
        BY <1>4, <2>1, <2>2
<1>7. Jobs' = Jobs \cup Dispatchable(jobs)
    BY <1>5 DEF Jobs
<1>8. \A m \in batch : /\ rows[m].status = "none" /\ Fresh(m) /\ billed[m] = {}
                       /\ \A j \in Jobs : j.msg # m
                       /\ \A h \in Handlers : task[h] # NoTask => task[h].msg # m
                       /\ rows[m].retry \in Nat
    BY <1>5, InvTypes, RowFields DEF IInv, RequestsOK, FreshOK, Fresh
<1>9. TypeOK'
    <2>1. rows' \in [Messages -> Row]
        BY <1>4, <1>5, InvTypes
    <2>2. dispatches' \subseteq Job
        BY <1>5, <1>6 DEF Dispatchable, IInv, TypeOK
    <2>3. Pushed(jobs, connected) \subseteq Messages \X Devices
        BY <1>6 DEF Pushed, Job, Devices
    <2> QED
        BY <1>5, <2>1, <2>2, <2>3 DEF CreateMessages, clockVars, historyVars, IInv, TypeOK
<1>10. QuotaWithinLimit' /\ TaskOK'
    BY DEF CreateMessages, IInv, QuotaWithinLimit, TaskOK
<1>11. FreshOK'
    <2> SUFFICES ASSUME NEW m \in Messages, Fresh(m)'
                 PROVE  /\ rows'[m].device = NoDevice /\ ~rows'[m].providerId
                        /\ billed'[m] = {}
                        /\ \A j \in Jobs' : j.msg # m
                        /\ \A h \in Handlers : task'[h] # NoTask => task'[h].msg # m
        BY DEF FreshOK
    <2>1. CASE m \in batch
        <3>1. rows'[m] = NewRow(pick[m]) /\ pick[m] = NoDevice
            BY <1>4, <1>5, <2>1 DEF Fresh
        <3>2. \A j \in Dispatchable(jobs) : j.msg # m
            BY <3>1, <1>6, ConstantsAssumption DEF ConstantsAssumption
        <3> QED
            BY <2>1, <3>1, <3>2, <1>4, <1>5, <1>7, <1>8
    <2>2. CASE m \notin batch
        BY <2>2, <1>5, <1>6, <1>7 DEF Fresh, IInv, FreshOK
    <2> QED
        BY <2>1, <2>2
<1>12. RequestsOK'
    BY <1>5 DEF IInv, RequestsOK, TypeOK
<1>13. BatchOK'
    <2>1. \A j \in cron.batch : j.msg \in Messages /\ j.msg \notin batch
        BY <1>8, InvTypes, JobFields DEF IInv, BatchOK
    <2> QED
        BY <2>1, <1>5 DEF IInv, BatchOK, Fresh, Exhausted
<1>14. AttemptsOK'
    <2>1. \A j \in Jobs : j.msg \in Messages /\ j.msg \notin batch
        BY <1>8, InvTypes, JobFields
    <2>2. \A j \in Dispatchable(jobs) : j.copy.retry = 0 /\ rows'[j.msg].retry = 0
                                        /\ billed'[j.msg] = {}
        BY <1>4, <1>5, <1>6, <1>8
    <2> HIDE DEF jobs
    <2>3. \A j \in Jobs' : j.copy.retry <= rows'[j.msg].retry
                           /\ j.copy.retry \notin billed'[j.msg]
        <3>1. \A j \in Jobs : rows'[j.msg] = rows[j.msg] /\ billed'[j.msg] = billed[j.msg]
            BY <2>1, <1>5
        <3>2. \A j \in Jobs : j.copy.retry <= rows[j.msg].retry
                              /\ j.copy.retry \notin billed[j.msg]
            BY DEF IInv, AttemptsOK
        <3>3. \A j \in Dispatchable(jobs) : j.copy.retry <= rows'[j.msg].retry
                                            /\ j.copy.retry \notin billed'[j.msg]
            BY <2>2
        <3> QED
            BY <3>1, <3>2, <3>3, <1>7
    <2>4. \A j, k \in Jobs' : j.msg = k.msg /\ j.copy.retry = k.copy.retry => j = k
        <3>1. \A j, k \in Dispatchable(jobs) : j.msg = k.msg => j = k
            BY DEF Dispatchable, jobs
        <3> QED
            BY <2>1, <3>1, <1>6, <1>7 DEF IInv, AttemptsOK
    <2>5. \A m \in Messages : \A r \in billed'[m] : r <= rows'[m].retry
        BY <1>5, <1>8 DEF IInv, AttemptsOK
    <2>6. dispatches' \cap cron'.requeued = {}
        BY <2>1, <1>5, <1>6 DEF IInv, AttemptsOK, Jobs
    <2> QED
        BY <2>3, <2>4, <2>5, <2>6 DEF AttemptsOK
<1> QED
    BY <1>9, <1>10, <1>11, <1>12, <1>13, <1>14 DEF IInv

-----------------------------------------------------------------------------
(* Dispatch goroutines                                                       *)

\* What every step that consumes a dispatch leaves behind
LEMMA JobTaken ==
    ASSUME IInv, NEW job \in dispatches, dispatches' = dispatches \ {job}, cron' = cron
    PROVE  /\ job \in Job /\ job \in Jobs /\ ~Fresh(job.msg)
           /\ Jobs' \subseteq Jobs /\ job \notin Jobs'
           /\ dispatches' \cap cron'.requeued = {}
<1>1. job \in Job /\ job \in Jobs
    BY InvTypes DEF Jobs
<1>2. ~Fresh(job.msg)
    BY <1>1, JobFields DEF IInv, FreshOK
<1> QED
    BY <1>1, <1>2 DEF Jobs, IInv, AttemptsOK

\* What dispatchOne saves over the copy it was started with, and when it owes the
\* credit back
LEMMA ProviderWrites ==
    ASSUME NEW job \in Job, NEW m, m = job.msg, ProviderReturns(job)
    PROVE  \E edited \in Row :
              /\ rows' = [rows EXCEPT ![m] = SaveChanged(@, job.copy, edited)]
              /\ edited.retry = job.copy.retry /\ edited.device = job.copy.device
              /\ \/ /\ edited.status = "sent" /\ edited.sentAt /\ owed' = owed
                    /\ edited.err = job.copy.err
                 \/ /\ edited.status = "failed" /\ (edited.sentAt <=> job.copy.sentAt)
                    /\ edited.providerId => job.copy.providerId
                    /\ \/ owed' = owed
                       \/ /\ Refunds(job.copy, "failed", edited.err, m \in old)
                          /\ owed' = [owed EXCEPT ![m] = @ + 1]
<1>1. PICK outcome \in {"sent", "rejected", "error"}, err \in {"temporary", "permanent"} :
         LET edited == CASE outcome = "sent" ->
                              [job.copy EXCEPT !.status = "sent", !.sentAt = TRUE,
                                               !.providerId = TRUE]
                         [] outcome = "rejected" ->
                              [job.copy EXCEPT !.status = "failed", !.err = err,
                                               !.providerId = FALSE]
                         [] OTHER -> MarkTerminal(job.copy, "failed", err)
         IN  /\ rows' = [rows EXCEPT ![m] = SaveChanged(@, job.copy, edited)]
             /\ owed' = IF outcome = "error" /\ Refunds(job.copy, "failed", err, m \in old)
                        THEN [owed EXCEPT ![m] = @ + 1] ELSE owed
    BY DEF ProviderReturns
<1>2. job.copy \in Row /\ err \in Errors /\ "failed" \in Status
    BY JobFields, <1>1 DEF Errors, Status
<1>3. CASE outcome = "sent"
    <2> DEFINE edited == [job.copy EXCEPT !.status = "sent", !.sentAt = TRUE,
                                          !.providerId = TRUE]
    <2>1. /\ rows' = [rows EXCEPT ![m] = SaveChanged(@, job.copy, edited)]
          /\ owed' = owed
        BY <1>1, <1>3
    <2>2. /\ edited \in Row /\ edited.retry = job.copy.retry /\ edited.status = "sent"
          /\ edited.device = job.copy.device /\ edited.sentAt /\ edited.err = job.copy.err
        BY <1>2, AcceptedIsRow
    <2> QED
        BY <2>1, <2>2
<1>4. CASE outcome = "rejected"
    <2> DEFINE edited == [job.copy EXCEPT !.status = "failed", !.err = err,
                                          !.providerId = FALSE]
    <2>1. /\ rows' = [rows EXCEPT ![m] = SaveChanged(@, job.copy, edited)]
          /\ owed' = owed
        BY <1>1, <1>4
    <2>2. /\ edited \in Row /\ edited.retry = job.copy.retry /\ edited.status = "failed"
          /\ edited.device = job.copy.device /\ (edited.sentAt <=> job.copy.sentAt)
          /\ ~edited.providerId
        BY <1>2, RejectedIsRow
    <2> QED
        BY <2>1, <2>2
<1>5. CASE outcome = "error"
    <2> DEFINE edited == MarkTerminal(job.copy, "failed", err)
    <2>1. /\ rows' = [rows EXCEPT ![m] = SaveChanged(@, job.copy, edited)]
          /\ owed' = owed \/ /\ Refunds(job.copy, "failed", err, m \in old)
                             /\ owed' = [owed EXCEPT ![m] = @ + 1]
        BY <1>1, <1>5
    <2>2. /\ edited \in Row /\ edited.retry = job.copy.retry /\ edited.status = "failed"
          /\ edited.device = job.copy.device /\ (edited.sentAt <=> job.copy.sentAt)
          /\ (edited.providerId <=> job.copy.providerId) /\ edited.err = err
        BY <1>2, MarkTerminalIsRow
    <2> HIDE DEF edited
    <2> QED
        BY <2>1, <2>2
<1> QED
    BY <1>3, <1>4, <1>5

\* dispatchOne bills the attempt it gives up.
LEMMA ProviderReturnsInv ==
    ASSUME IInv, NEW job \in dispatches, ProviderReturns(job)
    PROVE  IInv'
<1>1. PICK m : m = job.msg
    OBVIOUS
<1>2. /\ job \in Job /\ job \in Jobs /\ ~Fresh(m) /\ m \in Messages /\ job.copy \in Row
      /\ Jobs' \subseteq Jobs /\ job \notin Jobs' /\ dispatches' \cap cron'.requeued = {}
      /\ rows[m] \in Row /\ job.copy.retry \in 0..SMSMaxRetries
    BY <1>1, JobTaken, JobFields, InvTypes DEF ProviderReturns
<1>3. PICK edited \in Row :
         /\ rows' = [rows EXCEPT ![m] = SaveChanged(@, job.copy, edited)]
         /\ edited.retry = job.copy.retry /\ edited.status \in {"sent", "failed"}
         /\ owed' = owed \/ owed' = [owed EXCEPT ![m] = @ + 1]
    BY <1>1, <1>2, ProviderWrites
<1>4. /\ SaveChanged(rows[m], job.copy, edited) \in Row
      /\ SaveChanged(rows[m], job.copy, edited).retry = rows[m].retry
      /\ SaveChanged(rows[m], job.copy, edited).status \in {"sent", "failed", rows[m].status}
    BY <1>2, <1>3, SaveChangedIsRow
<1>5. /\ rows' \in [Messages -> Row]
      /\ \A n \in Messages : rows'[n].retry = rows[n].retry
      /\ \A n \in Messages : Fresh(n)' => Fresh(n) /\ rows'[n] = rows[n]
      /\ \A n \in Messages : n # m => rows'[n] = rows[n]
    BY <1>2, <1>3, <1>4 DEF IInv, TypeOK, Fresh
<1>6. /\ billed' \in [Messages -> SUBSET (0..SMSMaxRetries)]
      /\ \A n \in Messages : \A r \in billed'[n] :
            r \in billed[n] \/ (n = m /\ r = job.copy.retry)
    BY <1>1, <1>2 DEF ProviderReturns, IInv, TypeOK
<1>7. TypeOK'
    <2>1. owed' \in [Messages -> Nat]
        BY <1>2, <1>3 DEF IInv, TypeOK
    <2> QED
        BY <1>5, <1>6, <2>1 DEF ProviderReturns, requestVars, IInv, TypeOK
<1>8. QuotaWithinLimit' /\ TaskOK'
    BY DEF ProviderReturns, requestVars, IInv, QuotaWithinLimit, TaskOK
<1>9. /\ \A n \in Messages : rows[n].status = "none" => rows'[n] = rows[n]
      /\ \A j \in cron.batch : cron.phase = "pending" => rows'[j.msg] = rows[j.msg]
    <2>1. \A j \in cron.batch : cron.phase = "pending" => j.msg \in Messages /\ Fresh(j.msg)
        BY InvTypes, JobFields DEF IInv, BatchOK, Fresh
    <2> QED
        BY <1>2, <1>5, <2>1 DEF Fresh
<1> QED
    BY <1>1, <1>2, <1>5, <1>6, <1>7, <1>8, <1>9, Harmless DEF ProviderReturns, requestVars

\* The same when its save is refused.
LEMMA ProviderSaveFailsInv ==
    ASSUME IInv, NEW job \in dispatches, ProviderSaveFails(job)
    PROVE  IInv'
<1>1. /\ job \in Job /\ job \in Jobs /\ job.msg \in Messages
      /\ Jobs' \subseteq Jobs /\ job \notin Jobs' /\ dispatches' \cap cron'.requeued = {}
      /\ job.copy.retry \in 0..SMSMaxRetries
    BY JobTaken, JobFields DEF ProviderSaveFails
<1>2. /\ billed' \in [Messages -> SUBSET (0..SMSMaxRetries)]
      /\ \A n \in Messages : \A r \in billed'[n] :
            r \in billed[n] \/ (n = job.msg /\ r = job.copy.retry)
    BY <1>1 DEF ProviderSaveFails, IInv, TypeOK
<1>3. TypeOK' /\ QuotaWithinLimit' /\ TaskOK'
    BY <1>2 DEF ProviderSaveFails, requestVars, clockVars, IInv, TypeOK, QuotaWithinLimit,
                TaskOK
<1> QED
    BY <1>1, <1>2, <1>3, Harmless DEF ProviderSaveFails, requestVars, Fresh

\* A tickle that arrives only ends its job.
LEMMA TickleSentInv ==
    ASSUME IInv, NEW job \in dispatches, TickleSent(job)
    PROVE  IInv'
<1>1. Jobs' \subseteq Jobs /\ dispatches' \cap cron'.requeued = {}
    BY JobTaken DEF TickleSent
<1>2. TypeOK' /\ QuotaWithinLimit' /\ TaskOK'
    BY DEF TickleSent, requestVars, clockVars, historyVars, IInv, TypeOK, QuotaWithinLimit,
           TaskOK
<1> QED
    BY <1>1, <1>2, Harmless DEF TickleSent, requestVars, historyVars, Fresh

\* A tickle that fails becomes a task of markMessageFailed.
LEMMA TickleFailsInv ==
    ASSUME IInv, NEW h \in Handlers, NEW job \in dispatches, TickleFails(h, job)
    PROVE  IInv'
<1> DEFINE row == rows[job.msg]
           found == [op |-> "tickleFailed", msg |-> job.msg, device |-> NoDevice,
                     loaded |-> row,
                     edited |-> [row EXCEPT !.status = "failed", !.err = "temporary"],
                     err |-> "temporary"]
<1>1. /\ ~Fresh(job.msg) /\ job.msg \in Messages /\ row \in Row
      /\ Jobs' \subseteq Jobs /\ dispatches' \cap cron'.requeued = {}
    BY JobTaken, JobFields, InvTypes DEF TickleFails
<1>2. found \in Task /\ found.edited.retry = found.loaded.retry
      /\ found.edited.status \in Settlements
    BY <1>1, ZenonT(40) DEF Row, Status, Errors, Task, Settlements
<1>3. task' = [task EXCEPT ![h] = found]
    BY DEF TickleFails
<1>4. TypeOK' /\ QuotaWithinLimit'
    BY <1>1, <1>2, <1>3 DEF TickleFails, requestVars, clockVars, historyVars, IInv, TypeOK,
                            QuotaWithinLimit
<1>5. \A g \in Handlers : task'[g] = IF g = h THEN found ELSE task[g]
    BY <1>3 DEF IInv, TypeOK
<1>6. TaskOK'
    <2>1. found.op # "claim"
        OBVIOUS
    <2> HIDE DEF found
    <2> QED
        BY <1>2, <1>5, <2>1 DEF IInv, TaskOK
<1>7. found.msg = job.msg
    OBVIOUS
<1> QED
    BY <1>1, <1>4, <1>5, <1>6, <1>7, Harmless
       DEF TickleFails, requestVars, historyVars, Fresh

-----------------------------------------------------------------------------
(* Device and provider requests                                              *)

\* A handler that finds a row that is not fresh starts a task on it.
LEMMA TaskStarted ==
    ASSUME IInv, NEW h \in Handlers, NEW t \in Task, ~Fresh(t.msg),
           t.loaded.retry = t.edited.retry, t.edited.status \in Settlements,
           t.op = "claim" => t.device \in Devices,
           task' = [task EXCEPT ![h] = t], reports' \in Nat,
           UNCHANGED <<rows, requestVars, devstate, dispatches, owed, cron, handed,
                       clockVars, faults, historyVars>>
    PROVE  IInv'
<1>1. TypeOK' /\ QuotaWithinLimit'
    BY DEF requestVars, clockVars, historyVars, IInv, TypeOK, QuotaWithinLimit
<1>2. \A g \in Handlers : task'[g] = IF g = h THEN t ELSE task[g]
    BY DEF IInv, TypeOK
<1>3. TaskOK'
    BY <1>2 DEF IInv, TaskOK
<1>4. Jobs' = Jobs /\ dispatches' \cap cron'.requeued = {}
    BY DEF Jobs, IInv, AttemptsOK
<1> QED
    BY <1>1, <1>2, <1>3, <1>4, Harmless DEF requestVars, historyVars, Fresh

\* ClaimPendingMessages finds a row.
LEMMA ClaimInv ==
    ASSUME IInv, NEW h \in Handlers, NEW d \in Devices, NEW m \in Messages, Claim(h, d, m)
    PROVE  IInv'
<1> DEFINE t == [op |-> "claim", msg |-> m, device |-> d, loaded |-> rows[m],
                 edited |-> [rows[m] EXCEPT !.status = "sending"], err |-> ""]
<1>1. rows[m] \in Row /\ ~Fresh(m)
    BY InvTypes DEF Claim, Fresh
<1>2. /\ t \in Task /\ t.loaded.retry = t.edited.retry /\ t.edited.status \in Settlements
      /\ t.device \in Devices /\ t.msg = m
    BY <1>1, ZenonT(40) DEF Row, Status, Errors, Task, Settlements
<1>3. task' = [task EXCEPT ![h] = t]
    BY DEF Claim
<1>4. reports' \in Nat
    BY DEF Claim, IInv, TypeOK
<1> HIDE DEF t
<1> QED
    BY <1>1, <1>2, <1>3, <1>4, TaskStarted DEF Claim

\* A report or an event finds a row that has left "none" and "pending".
LEMMA BeginTerminalInv ==
    ASSUME IInv, NEW h \in Handlers, NEW m \in Messages, ~Fresh(m),
           NEW status \in {"sent", "delivered", "failed"}, NEW err \in Errors,
           BeginTerminal(h, m, status, err)
    PROVE  IInv'
<1> DEFINE t == [op |-> "terminal", msg |-> m, device |-> NoDevice, loaded |-> rows[m],
                 edited |-> MarkTerminal(rows[m], status, err), err |-> err]
<1>1. rows[m] \in Row
    BY InvTypes
<1>2. /\ t \in Task /\ t.loaded.retry = t.edited.retry /\ t.edited.status \in Settlements
      /\ t.op # "claim" /\ t.msg = m
    <2>1. /\ MarkTerminal(rows[m], status, err) \in Row
          /\ MarkTerminal(rows[m], status, err).status = status
          /\ MarkTerminal(rows[m], status, err).retry = rows[m].retry
        <3>1. status \in Status
            BY DEF Status
        <3> QED
            BY <1>1, <3>1, MarkTerminalIsRow
    <2> QED
        BY <1>1, <2>1 DEF Task, Settlements
<1>3. task' = [task EXCEPT ![h] = t]
    BY DEF BeginTerminal
<1>4. reports' \in Nat
    BY DEF BeginTerminal, IInv, TypeOK
<1> HIDE DEF t
<1> QED
    BY <1>1, <1>2, <1>3, <1>4, TaskStarted DEF BeginTerminal

\* ProcessSMSAck: a device was handed the message, so it is not fresh.
LEMMA AckInv ==
    ASSUME IInv, NEW h \in Handlers, NEW d \in Devices, NEW m \in Messages,
           NEW status \in {"sent", "delivered", "failed"}, NEW err \in Errors,
           Ack(h, d, m, status, err)
    PROVE  IInv'
<1>1. ~Fresh(m)
    BY ConstantsAssumption DEF ConstantsAssumption, Ack, IInv, FreshOK
<1> QED
    BY <1>1, BeginTerminalInv DEF Ack

\* handleAEUMNotification: a provider id exists, so it is not fresh.
LEMMA AeumEventInv ==
    ASSUME IInv, NEW h \in Handlers, NEW m \in Messages,
           NEW status \in {"delivered", "failed"}, AeumEvent(h, m, status)
    PROVE  IInv'
<1>1. ~Fresh(m)
    BY DEF AeumEvent, IInv, FreshOK
<1>2. EventError(status) \in Errors
    BY DEF EventError, Errors
<1> QED
    BY <1>1, <1>2, BeginTerminalInv DEF AeumEvent

\* The save of whatever a handler decided
LEMMA CommitInv ==
    ASSUME IInv, NEW h \in Handlers, Commit(h)
    PROVE  IInv'
<1> DEFINE t == task[h]
           m == task[h].msg
           saved == SaveChanged(rows[m], t.loaded, t.edited)
<1>1. t \in Task /\ m \in Messages /\ ~Fresh(m) /\ rows[m] \in Row
    BY InvTypes DEF Commit, Task, IInv, FreshOK
<1>2. /\ saved \in Row /\ saved.retry = rows[m].retry
      /\ saved.status \in Settlements \cup {rows[m].status}
    BY <1>1, SaveChangedIsRow DEF Commit, Task, IInv, TaskOK
<1>3. rows' = [rows EXCEPT ![m] = saved]
    BY DEF Commit
<1>4. /\ rows' \in [Messages -> Row]
      /\ \A n \in Messages : rows'[n].retry = rows[n].retry
      /\ \A n \in Messages : Fresh(n)' => Fresh(n) /\ rows'[n] = rows[n]
      /\ \A n \in Messages : n # m => rows'[n] = rows[n]
    <2> HIDE DEF saved
    <2> QED
        BY <1>1, <1>2, <1>3 DEF IInv, TypeOK, Fresh, Settlements
<1>5. handed' \subseteq Messages \X Devices
    BY <1>1 DEF Commit, IInv, TypeOK, TaskOK
<1>6. /\ owed' \in [Messages -> Nat] /\ claims' \in [Messages -> Nat]
      /\ stale' \subseteq Messages
    BY <1>1 DEF Commit, IInv, TypeOK
<1>7. task' \in [Handlers -> Task \cup {NoTask}]
      /\ \A g \in Handlers : task'[g] = task[g] \/ task'[g] = NoTask
    BY DEF Commit, IInv, TypeOK
<1>8. TypeOK' /\ QuotaWithinLimit'
    BY <1>4, <1>5, <1>6, <1>7 DEF Commit, requestVars, IInv, TypeOK, QuotaWithinLimit
<1>9. TaskOK'
    BY <1>7 DEF IInv, TaskOK
<1>10. /\ \A n \in Messages : rows[n].status = "none" => rows'[n] = rows[n]
       /\ \A j \in cron.batch : cron.phase = "pending" => rows'[j.msg] = rows[j.msg]
    <2>1. \A j \in cron.batch : cron.phase = "pending" => j.msg \in Messages /\ Fresh(j.msg)
        BY InvTypes, JobFields DEF IInv, BatchOK, Fresh
    <2> QED
        BY <1>1, <1>4, <2>1 DEF Fresh
<1>11. Jobs' = Jobs /\ dispatches' \cap cron'.requeued = {}
    BY DEF Commit, Jobs, IInv, AttemptsOK
<1> QED
    BY <1>4, <1>7, <1>8, <1>9, <1>10, <1>11, Harmless DEF Commit, requestVars

\* The save is refused.
LEMMA SaveFailsInv ==
    ASSUME IInv, NEW h \in Handlers, SaveFails(h)
    PROVE  IInv'
<1>1. task' \in [Handlers -> Task \cup {NoTask}]
      /\ \A g \in Handlers : task'[g] = task[g] \/ task'[g] = NoTask
    BY DEF SaveFails, IInv, TypeOK
<1>2. TypeOK' /\ QuotaWithinLimit' /\ TaskOK'
    BY <1>1 DEF SaveFails, requestVars, clockVars, historyVars, IInv, TypeOK,
                QuotaWithinLimit, TaskOK
<1>3. Jobs' = Jobs /\ dispatches' \cap cron'.requeued = {}
    BY DEF SaveFails, Jobs, IInv, AttemptsOK
<1> QED
    BY <1>1, <1>2, <1>3, Harmless DEF SaveFails, requestVars, historyVars, Fresh

\* A refund only lowers the counter.
LEMMA ReleaseInv ==
    ASSUME IInv, NEW m \in Messages, Release(m)
    PROVE  IInv'
<1>1. Minus(used, 1) \in Nat /\ Minus(used, 1) <= used
    BY MinusIsNat, InvTypes
<1>2. owed' \in [Messages -> Nat] /\ refunds' \in [Messages -> Nat]
    BY DEF Release, IInv, TypeOK
<1>3. TypeOK' /\ TaskOK'
    BY <1>1, <1>2 DEF Release, clockVars, IInv, TypeOK, TaskOK
<1>4. QuotaWithinLimit'
    BY <1>1, InvTypes, ConstantsAssumption
       DEF ConstantsAssumption, Release, IInv, QuotaWithinLimit
<1>5. Jobs' = Jobs /\ dispatches' \cap cron'.requeued = {}
    BY DEF Release, Jobs, IInv, AttemptsOK
<1> QED
    BY <1>3, <1>4, <1>5, Harmless DEF Release, clockVars, Fresh

\* A failed refund touches no row, job or counter.
LEMMA ReleaseFailsInv ==
    ASSUME IInv, NEW m \in Messages, ReleaseFails(m)
    PROVE  IInv'
<1>1. owed' \in [Messages -> Nat]
    BY DEF ReleaseFails, IInv, TypeOK
<1>2. TypeOK' /\ TaskOK' /\ QuotaWithinLimit'
    BY <1>1 DEF ReleaseFails, requestVars, clockVars, historyVars, IInv, TypeOK, TaskOK,
                QuotaWithinLimit
<1>3. Jobs' = Jobs /\ dispatches' \cap cron'.requeued = {}
    BY DEF ReleaseFails, Jobs, IInv, AttemptsOK
<1> QED
    BY <1>2, <1>3, Harmless DEF ReleaseFails, requestVars, clockVars, historyVars, Fresh

-----------------------------------------------------------------------------
(* The retry cron                                                            *)

\* What a drain finds is typed, current and has one entry per message.
LEMMA FoundEntries ==
    ASSUME IInv, NEW S \in SUBSET Messages,
           NEW batch, batch = {[msg |-> m, copy |-> rows[m]] : m \in S}
    PROVE  /\ batch \subseteq Job
           /\ \A j \in batch : j.msg \in S /\ j.copy = rows[j.msg]
           /\ \A j, k \in batch : j.msg = k.msg => j = k
BY InvTypes DEF Job

\* The pass finds its failed rows.
LEMMA CronStartInv ==
    ASSUME IInv, CronStart
    PROVE  IInv'
<1> DEFINE S == {n \in Messages : /\ rows[n].status = "failed"
                                  /\ ~Exhausted(rows[n])
                                  /\ n \notin old}
           batch == {[msg |-> m, copy |-> rows[m]] : m \in S}
<1>1. cron' = [phase |-> "failed", batch |-> batch, requeued |-> {},
               cutoff |-> old, cache |-> Unresolved]
    BY DEF CronStart, Found
<1>2. /\ batch \subseteq Job
      /\ \A j \in batch : j.msg \in S /\ j.copy = rows[j.msg]
      /\ \A j, k \in batch : j.msg = k.msg => j = k
    <2>1. S \in SUBSET Messages
        OBVIOUS
    <2> HIDE DEF S
    <2> QED
        BY <2>1, FoundEntries
<1>3. \A j \in batch : ~Exhausted(j.copy) /\ ~Fresh(j.msg)
    BY <1>2 DEF Fresh
<1> HIDE DEF batch, S
<1>4. cron' \in CronPass
    BY <1>1, <1>2 DEF CronPass, CronPhase, IInv, TypeOK
<1>5. TypeOK' /\ QuotaWithinLimit' /\ TaskOK'
    BY <1>4 DEF CronStart, requestVars, clockVars, historyVars, IInv, TypeOK,
                QuotaWithinLimit, TaskOK
<1>6. Jobs' \subseteq Jobs /\ dispatches' \cap cron'.requeued = {}
    BY <1>1 DEF CronStart, Jobs
<1>7. FreshOK' /\ RequestsOK' /\ AttemptsOK'
    BY <1>6 DEF CronStart, requestVars, historyVars, IInv, FreshOK, RequestsOK, AttemptsOK,
                Fresh
<1>8. BatchOK'
    <2>1. cron'.batch = batch /\ cron'.phase = "failed" /\ rows' = rows
        BY <1>1 DEF CronStart
    <2> QED
        BY <2>1, <1>2, <1>3 DEF BatchOK, Fresh, Exhausted
<1> QED
    BY <1>5, <1>7, <1>8 DEF IInv

\* The next drain finds its rows; the last one hands its requeues out.
LEMMA CronAdvanceInv ==
    ASSUME IInv, CronAdvance
    PROVE  IInv'
<1>1. /\ UNCHANGED <<rows, requestVars, devstate, task, owed, handed, clockVars, reports,
                     faults, historyVars>>
      /\ cron.batch = {}
    BY DEF CronAdvance
<1>2. ASSUME NEW S \in SUBSET Messages,
             NEW batch, batch = {[msg |-> m, copy |-> rows[m]] : m \in S},
             NEW phase \in CronPhase \ {"failed"},
             cron' = [cron EXCEPT !.phase = phase, !.batch = batch],
             dispatches' = dispatches,
             \A m \in S : IF phase = "pending" THEN rows[m].status = "pending" ELSE ~Fresh(m)
      PROVE  IInv'
    <2>1. /\ batch \subseteq Job
          /\ \A j \in batch : j.msg \in S /\ j.copy = rows[j.msg]
          /\ \A j, k \in batch : j.msg = k.msg => j = k
        BY <1>2, FoundEntries
    <2>2. cron \in CronPass
        BY InvTypes
    <2>3. /\ cron' \in CronPass /\ cron'.batch = batch /\ cron'.phase = phase
          /\ cron'.requeued = cron.requeued
        BY <1>2, <2>1, <2>2 DEF CronPass
    <2>4. TypeOK' /\ QuotaWithinLimit' /\ TaskOK'
        BY <1>1, <1>2, <2>3 DEF requestVars, clockVars, historyVars, IInv, TypeOK,
                                QuotaWithinLimit, TaskOK
    <2>5. FreshOK' /\ RequestsOK' /\ AttemptsOK'
        BY <1>1, <1>2, <2>3 DEF requestVars, historyVars, IInv, FreshOK, RequestsOK,
                                AttemptsOK, Fresh, Jobs
    <2>6. BatchOK'
        BY <1>1, <1>2, <2>1, <2>3 DEF BatchOK, Fresh, Exhausted
    <2> QED
        BY <2>4, <2>5, <2>6 DEF IInv
<1>3. CASE cron.phase = "failed"
    <2> DEFINE S == {n \in Messages : rows[n].status = "pending"}
               batch == {[msg |-> m, copy |-> rows[m]] : m \in S}
    <2>1. cron' = [cron EXCEPT !.phase = "pending", !.batch = batch] /\ dispatches' = dispatches
        BY <1>3 DEF CronAdvance, Found
    <2>2. S \in SUBSET Messages /\ "pending" \in CronPhase \ {"failed"}
        BY DEF CronPhase
    <2>3. \A m \in S : rows[m].status = "pending"
        OBVIOUS
    <2>4. PICK b : b = batch
        OBVIOUS
    <2> QED
        BY <1>2, <2>1, <2>2, <2>3, <2>4
<1>4. CASE cron.phase = "pending"
    <2> DEFINE S == {n \in Messages : Stuck(n)}
               batch == {[msg |-> m, copy |-> rows[m]] : m \in S}
    <2>1. cron' = [cron EXCEPT !.phase = "sending", !.batch = batch] /\ dispatches' = dispatches
        BY <1>4 DEF CronAdvance, Found
    <2>2. S \in SUBSET Messages /\ "sending" \in CronPhase \ {"failed"}
        BY DEF CronPhase
    <2>3. \A m \in S : ~Fresh(m)
        BY DEF Stuck, Fresh
    <2>4. PICK b : b = batch
        OBVIOUS
    <2> QED
        BY <1>2, <2>1, <2>2, <2>3, <2>4
<1>5. CASE cron.phase \notin {"failed", "pending"}
    <2>1. cron' = IdleCron /\ dispatches' = dispatches \cup Dispatchable(cron.requeued)
        BY <1>5 DEF CronAdvance
    <2>2. /\ cron' \in CronPass /\ cron'.batch = {} /\ cron'.requeued = {}
        BY <2>1 DEF IdleCron, CronPass, CronPhase
    <2>3. dispatches' \subseteq Jobs /\ Jobs' \subseteq Jobs
        BY <2>1, <2>2 DEF Jobs, Dispatchable
    <2>4. dispatches' \subseteq Job
        BY <2>3, InvTypes
    <2>5. TypeOK' /\ QuotaWithinLimit' /\ TaskOK'
        BY <1>1, <2>2, <2>4 DEF requestVars, clockVars, historyVars, IInv, TypeOK,
                                QuotaWithinLimit, TaskOK
    <2>6. FreshOK' /\ RequestsOK' /\ AttemptsOK'
        BY <1>1, <2>2, <2>3 DEF requestVars, historyVars, IInv, FreshOK, RequestsOK,
                                AttemptsOK, Fresh
    <2>7. BatchOK'
        BY <2>2 DEF BatchOK
    <2> QED
        BY <2>5, <2>6, <2>7 DEF IInv
<1> QED
    BY <1>3, <1>4, <1>5

\* What the entry of a drain tells about its row
LEMMA Entry ==
    ASSUME IInv, NEW job \in cron.batch
    PROVE  /\ job \in Job /\ job.msg \in Messages /\ job.copy \in Row
           /\ rows[job.msg] \in Row /\ rows[job.msg].status # "none"
           /\ rows[job.msg].retry = job.copy.retry
           /\ \A k \in cron.batch \ {job} : k \in Job /\ k.msg # job.msg
           /\ cron \in CronPass
BY InvTypes, JobFields DEF IInv, BatchOK, Fresh

\* The device cache holds a device or nothing.
LEMMA CronCacheTyped ==
    ASSUME IInv, NEW d \in Resolved
    PROVE  d \in Devices \cup {NoDevice} \/ d = cron.cache
BY DEF Resolved, AutoTargets, Physical, Registered

\* The record is left alone, or its save is refused.
LEMMA EntryDropped ==
    ASSUME IInv, NEW job \in cron.batch, NEW cache \in Devices \cup {NoDevice, Unresolved},
           cron' = [cron EXCEPT !.batch = @ \ {job}, !.cache = cache], faults' \in Nat,
           UNCHANGED <<rows, requestVars, devstate, dispatches, task, owed, handed,
                       clockVars, reports, historyVars>>
    PROVE  IInv'
<1>1. /\ cron' \in CronPass /\ cron'.batch \subseteq cron.batch
      /\ cron'.phase = cron.phase /\ cron'.requeued = cron.requeued
    BY InvTypes DEF CronPass
<1>2. TypeOK' /\ QuotaWithinLimit' /\ TaskOK'
    BY <1>1 DEF requestVars, clockVars, historyVars, IInv, TypeOK, QuotaWithinLimit, TaskOK
<1>3. Jobs' \subseteq Jobs /\ dispatches' \cap cron'.requeued = {}
    BY <1>1 DEF Jobs, IInv, AttemptsOK
<1> QED
    BY <1>1, <1>2, <1>3, Harmless DEF requestVars, historyVars, Fresh

\* A refused save leaves the record for the next pass.
LEMMA CronSaveFailsInv ==
    ASSUME IInv, NEW job \in cron.batch, CronSaveFails(job)
    PROVE  IInv'
<1>1. cron.cache \in Devices \cup {NoDevice, Unresolved}
    BY InvTypes DEF CronPass
<1>2. cron' = [cron EXCEPT !.batch = @ \ {job}, !.cache = cron.cache]
    BY InvTypes DEF CronSaveFails, CronPass
<1>3. faults' \in Nat
    BY DEF CronSaveFails, IInv, TypeOK
<1> QED
    BY <1>1, <1>2, <1>3, EntryDropped DEF CronSaveFails

\* A skipped record leaves the batch only.
LEMMA SkipInv ==
    ASSUME IInv, NEW job \in cron.batch, NEW cache \in Devices \cup {NoDevice, Unresolved},
           Skip(job, cache)
    PROVE  IInv'
<1>1. faults' \in Nat
    BY DEF Skip, IInv, TypeOK
<1> QED
    BY <1>1, EntryDropped DEF Skip

\* The attempt gets a new number, or it is the first one of a fresh message.
LEMMA SaveAssignedInv ==
    ASSUME IInv, NEW job \in cron.batch, NEW edited \in Row,
           NEW cache \in Devices \cup {NoDevice, Unresolved},
           SaveAssigned(job, edited, cache),
           edited.status = "assigned",
           \/ edited.retry = job.copy.retry + 1 /\ cron.phase # "pending"
           \/ edited.retry = job.copy.retry /\ cron.phase = "pending"
    PROVE  IInv'
<1> DEFINE m == job.msg
           saved == SaveChanged(rows[m], job.copy, edited)
           again == [msg |-> m, copy |-> edited]
<1>1. /\ job \in Job /\ m \in Messages /\ job.copy \in Row /\ rows[m] \in Row
      /\ rows[m].status # "none" /\ rows[m].retry = job.copy.retry
      /\ \A k \in cron.batch \ {job} : k \in Job /\ k.msg # m
      /\ cron \in CronPass /\ job.copy.retry \in Nat /\ edited.retry \in Nat
    BY Entry, RowFields
<1>2. saved \in Row /\ saved.retry = edited.retry /\ saved.status \notin {"none", "pending"}
    <2>1. /\ cron.phase = "pending" => job.copy.status = "pending"
          /\ cron.phase # "pending" => rows[m].status \notin {"none", "pending"}
        BY DEF IInv, BatchOK, Fresh
    <2> QED
        BY <1>1, <2>1, SaveChangedIsRow
<1>3. again \in Job /\ again.msg = m /\ again.copy = edited
    BY <1>1 DEF Job
<1>4. /\ rows' = [rows EXCEPT ![m] = saved]
      /\ cron' = [cron EXCEPT !.batch = @ \ {job}, !.requeued = @ \cup {again}, !.cache = cache]
      /\ dispatches' = dispatches /\ billed' = billed /\ task' = task /\ requests' = requests
    BY DEF SaveAssigned, requestVars, historyVars
<1>5. handed' \subseteq Messages \X Devices /\ waiting' \subseteq Messages
      /\ stale' \subseteq Messages
    BY <1>1 DEF SaveAssigned, Pushed, Devices, IInv, TypeOK
<1> HIDE DEF saved, again
<1>6. /\ rows' \in [Messages -> Row] /\ rows'[m] = saved
      /\ \A n \in Messages \ {m} : rows'[n] = rows[n]
    BY <1>1, <1>2, <1>4 DEF IInv, TypeOK
<1>7. /\ cron' \in CronPass /\ cron'.batch = cron.batch \ {job}
      /\ cron'.phase = cron.phase /\ cron'.requeued = cron.requeued \cup {again}
    BY <1>1, <1>3, <1>4 DEF CronPass
<1>8. Jobs' = Jobs \cup {again}
    BY <1>4, <1>7 DEF Jobs
<1>9. TypeOK' /\ QuotaWithinLimit' /\ TaskOK'
    BY <1>4, <1>5, <1>6, <1>7 DEF SaveAssigned, requestVars, historyVars, IInv, TypeOK,
                                  QuotaWithinLimit, TaskOK
<1>10. \A j \in Jobs : /\ j.msg \in Messages /\ j.copy.retry \in Nat
                       /\ j.msg = m => j.copy.retry < edited.retry
    <2>1. \A j \in Jobs : j.msg \in Messages /\ j.copy.retry \in Nat
        BY InvTypes, JobFields
    <2>2. CASE cron.phase = "pending"
        <3>1. Fresh(m)
            BY <2>2 DEF IInv, BatchOK, Fresh
        <3> QED
            BY <1>1, <2>1, <3>1 DEF IInv, FreshOK
    <2>3. CASE cron.phase # "pending"
        BY <1>1, <2>1, <2>3 DEF IInv, AttemptsOK
    <2> QED
        BY <2>2, <2>3
<1>11. \A r \in billed[m] : r < edited.retry
    <2>1. CASE cron.phase = "pending"
        <3>1. Fresh(m)
            BY <2>1 DEF IInv, BatchOK, Fresh
        <3> QED
            BY <1>1, <3>1 DEF IInv, FreshOK
    <2>2. CASE cron.phase # "pending"
        <3>1. \A r \in billed[m] : r <= rows[m].retry /\ r \in Nat
            BY <1>1 DEF IInv, AttemptsOK, TypeOK
        <3> QED
            BY <1>1, <2>2, <3>1
    <2> QED
        BY <2>1, <2>2
<1>12. FreshOK'
    <2>1. ~Fresh(m)'
        BY <1>2, <1>6 DEF Fresh
    <2> QED
        BY <2>1, <1>3, <1>4, <1>6, <1>8 DEF Fresh, IInv, FreshOK
<1>13. RequestsOK'
    BY <1>1, <1>4, <1>6 DEF IInv, RequestsOK, TypeOK
<1>14. BatchOK'
    <2>1. \A k \in cron'.batch : k \in cron.batch /\ rows'[k.msg] = rows[k.msg]
                                 /\ k.msg \in Messages
        BY <1>1, <1>6, <1>7, JobFields
    <2> QED
        BY <2>1, <1>7 DEF IInv, BatchOK, Fresh, Exhausted
<1>15. AttemptsOK'
    <2>1. dispatches' \cap cron'.requeued = {}
        <3>1. again \notin Jobs
            BY <1>1, <1>3, <1>10
        <3> QED
            BY <3>1, <1>4, <1>7 DEF Jobs, IInv, AttemptsOK
    <2>2. \A j \in Jobs' : j.copy.retry <= rows'[j.msg].retry
                           /\ j.copy.retry \notin billed'[j.msg]
        <3>1. again.copy.retry <= rows'[m].retry /\ again.copy.retry \notin billed'[m]
            BY <1>1, <1>2, <1>3, <1>4, <1>6, <1>11
        <3>2. \A j \in Jobs : j.msg = m => j.copy.retry <= rows'[m].retry
            BY <1>1, <1>2, <1>6, <1>10
        <3>3. \A j \in Jobs : j.copy.retry <= rows[j.msg].retry
                              /\ j.copy.retry \notin billed[j.msg]
            BY DEF IInv, AttemptsOK
        <3> QED
            BY <3>1, <3>2, <3>3, <1>3, <1>4, <1>6, <1>8, <1>10
    <2>3. \A j, k \in Jobs' : j.msg = k.msg /\ j.copy.retry = k.copy.retry => j = k
        BY <1>1, <1>3, <1>8, <1>10 DEF IInv, AttemptsOK
    <2>4. \A n \in Messages : \A r \in billed'[n] : r <= rows'[n].retry
        <3>1. \A r \in billed[m] : r \in Nat
            BY <1>1 DEF IInv, TypeOK
        <3> QED
            BY <3>1, <1>1, <1>2, <1>4, <1>6, <1>11 DEF IInv, AttemptsOK
    <2> QED
        BY <2>1, <2>2, <2>3, <2>4 DEF AttemptsOK
<1> QED
    BY <1>9, <1>12, <1>13, <1>14, <1>15 DEF IInv

\* The cron fails a record for good.
LEMMA SaveExpiredInv ==
    ASSUME IInv, NEW job \in cron.batch, SaveExpired(job)
    PROVE  IInv'
<1> DEFINE m == job.msg
           edited == MarkTerminal(job.copy, "failed", "temporary")
           saved == SaveChanged(rows[m], job.copy, edited)
<1>1. /\ job \in Job /\ m \in Messages /\ job.copy \in Row /\ rows[m] \in Row
      /\ rows[m].status # "none" /\ \A k \in cron.batch \ {job} : k \in Job /\ k.msg # m
      /\ cron \in CronPass
    BY Entry
<1>2. /\ saved \in Row /\ saved.retry = rows[m].retry
      /\ saved.status \notin {"none", "pending"}
    <2>1. "failed" \in Status /\ "temporary" \in Errors
        BY FailedTemporarily
    <2>2. edited \in Row /\ edited.status = "failed" /\ edited.retry = job.copy.retry
        BY <1>1, <2>1, MarkTerminalIsRow
    <2>3. /\ cron.phase = "pending" => job.copy.status = "pending"
          /\ cron.phase # "pending" => rows[m].status \notin {"none", "pending"}
        BY DEF IInv, BatchOK, Fresh
    <2> QED
        BY <1>1, <2>2, <2>3, SaveChangedIsRow
<1>3. /\ rows' = [rows EXCEPT ![m] = saved]
      /\ cron' = [cron EXCEPT !.batch = @ \ {job}]
      /\ owed' \in [Messages -> Nat] /\ stale' \subseteq Messages
    BY <1>1 DEF SaveExpired, IInv, TypeOK
<1> HIDE DEF saved
<1>4. /\ rows' \in [Messages -> Row] /\ rows'[m] = saved
      /\ \A n \in Messages \ {m} : rows'[n] = rows[n]
    BY <1>1, <1>2, <1>3 DEF IInv, TypeOK
<1>5. /\ cron' \in CronPass /\ cron'.batch = cron.batch \ {job}
      /\ cron'.phase = cron.phase /\ cron'.requeued = cron.requeued
    BY <1>1, <1>3 DEF CronPass
<1>6. TypeOK' /\ QuotaWithinLimit' /\ TaskOK'
    BY <1>3, <1>4, <1>5 DEF SaveExpired, requestVars, historyVars, IInv, TypeOK,
                            QuotaWithinLimit, TaskOK
<1>7. Jobs' = Jobs /\ dispatches' \cap cron'.requeued = {}
    BY <1>5 DEF SaveExpired, Jobs, IInv, AttemptsOK
<1>8. /\ \A n \in Messages : rows'[n].retry = rows[n].retry
      /\ \A n \in Messages : Fresh(n)' => Fresh(n) /\ rows'[n] = rows[n]
      /\ \A n \in Messages : rows[n].status = "none" => rows'[n] = rows[n]
    BY <1>1, <1>2, <1>4 DEF Fresh
<1>9. \A j \in cron'.batch : rows'[j.msg] = rows[j.msg]
    BY <1>1, <1>4, <1>5, JobFields
<1> QED
    BY <1>5, <1>6, <1>7, <1>8, <1>9, Harmless DEF SaveExpired, requestVars, historyVars

\* What a drain may save over the copy it found: the next attempt, on the copy's
\* device or, if it has none, on a registered one; the last words; or nothing.
LEMMA CronWrites ==
    ASSUME IInv, NEW job \in cron.batch,
           RetryFailed(job) \/ RescuePending(job) \/ RescueSending(job)
    PROVE  \/ \E cache \in Devices \cup {NoDevice, Unresolved} : Skip(job, cache)
           \/ /\ SaveExpired(job)
              /\ cron.phase = "pending" \/ (cron.phase = "sending" /\ Exhausted(job.copy))
           \/ \E edited \in Row, cache \in Devices \cup {NoDevice, Unresolved} :
                 /\ SaveAssigned(job, edited, cache)
                 /\ edited.status = "assigned"
                 /\ (edited.sentAt <=> job.copy.sentAt)
                 /\ (edited.providerId <=> job.copy.providerId)
                 /\ edited.device = job.copy.device \/ edited.device \in Devices
                 /\ \/ /\ cron.phase = "pending" /\ edited.retry = job.copy.retry
                       /\ edited.device \in Devices
                    \/ /\ edited.retry = job.copy.retry + 1
                       /\ \/ cron.phase = "failed" /\ ~IsPermanent(job.copy.err)
                          \/ cron.phase = "sending"
<1>1. /\ job.copy \in Row /\ cron.cache \in Devices \cup {NoDevice, Unresolved}
      /\ cron.phase = "failed" => ~Exhausted(job.copy)
    BY Entry DEF IInv, BatchOK, CronPass
<1>2. \A d \in Resolved : d \in Devices \cup {NoDevice, Unresolved}
    BY <1>1, CronCacheTyped
<1>3. ASSUME ~Exhausted(job.copy)
      PROVE  LET next == Requeued(job.copy)
             IN  /\ next \in Row /\ next.retry = job.copy.retry + 1
                 /\ next.status = "assigned" /\ next.device = job.copy.device
                 /\ (next.sentAt <=> job.copy.sentAt)
                 /\ (next.providerId <=> job.copy.providerId)
    BY <1>1, <1>3, RequeuedIsRow
<1>4. CASE RetryFailed(job)
    <2>1. PICK next \in Row : next = Requeued(job.copy)
        BY <1>1, <1>3, <1>4 DEF RetryFailed
    <2>2. /\ next.retry = job.copy.retry + 1
          /\ next.status = "assigned" /\ next.device = job.copy.device
          /\ (next.sentAt <=> job.copy.sentAt)
          /\ (next.providerId <=> job.copy.providerId)
        BY <1>1, <1>3, <1>4, <2>1 DEF RetryFailed
    <2>3. CASE SaveAssigned(job, [next EXCEPT !.err = ""], cron.cache)
                 /\ ~IsPermanent(job.copy.err)
        <3>1. PICK edited \in Row : edited = [next EXCEPT !.err = ""]
            BY RetriedIsRow
        <3>2. /\ edited.retry = next.retry /\ edited.status = next.status
              /\ edited.device = next.device
              /\ (edited.sentAt <=> next.sentAt) /\ (edited.providerId <=> next.providerId)
            BY <3>1, RetriedIsRow
        <3> QED
            BY <1>1, <1>4, <2>2, <2>3, <3>1, <3>2 DEF RetryFailed
    <2>4. ASSUME NEW d \in Resolved, d \in Registered, ~IsPermanent(job.copy.err),
                 SaveAssigned(job, [next EXCEPT !.err = "", !.device = d], d)
          PROVE  \E edited \in Row, cache \in Devices \cup {NoDevice, Unresolved} :
                     /\ SaveAssigned(job, edited, cache)
                     /\ edited.status = "assigned"
                     /\ (edited.sentAt <=> job.copy.sentAt)
                     /\ (edited.providerId <=> job.copy.providerId)
                     /\ edited.device \in Devices
                     /\ edited.retry = job.copy.retry + 1
        <3>1. d \in Devices
            BY <2>4 DEF Registered
        <3>2. PICK edited \in Row : edited = [next EXCEPT !.err = "", !.device = d]
            BY <3>1, RetriedIsRow
        <3>3. /\ edited.retry = next.retry /\ edited.status = next.status
              /\ edited.device = d
              /\ (edited.sentAt <=> next.sentAt) /\ (edited.providerId <=> next.providerId)
            BY <3>1, <3>2, RetriedIsRow
        <3> QED
            BY <1>2, <2>2, <2>4, <3>1, <3>2, <3>3
    <2>5. \/ Skip(job, cron.cache)
          \/ \E d \in Resolved : Skip(job, d)
          \/ SaveAssigned(job, [next EXCEPT !.err = ""], cron.cache)
                /\ ~IsPermanent(job.copy.err)
          \/ \E d \in Resolved :
                d \in Registered /\ ~IsPermanent(job.copy.err)
                /\ SaveAssigned(job, [next EXCEPT !.err = "", !.device = d], d)
        BY <1>4, <2>1, Zenon DEF RetryFailed
    <2>6. cron.phase = "failed"
        BY <1>4 DEF RetryFailed
    <2> QED
        BY <1>1, <1>2, <2>3, <2>4, <2>5, <2>6
<1>5. CASE RescuePending(job)
    <2>1. cron.phase = "pending"
        BY <1>5 DEF RescuePending
    <2>2. ASSUME NEW d \in Resolved, d \in Registered,
                 SaveAssigned(job, [job.copy EXCEPT !.status = "assigned", !.device = d], d)
          PROVE  \E edited \in Row, cache \in Devices \cup {NoDevice, Unresolved} :
                     /\ SaveAssigned(job, edited, cache)
                     /\ edited.status = "assigned"
                     /\ (edited.sentAt <=> job.copy.sentAt)
                     /\ (edited.providerId <=> job.copy.providerId)
                     /\ edited.device \in Devices
                     /\ edited.retry = job.copy.retry
        <3>1. d \in Devices
            BY <2>2 DEF Registered
        <3>2. PICK copy \in Row : copy = job.copy
            BY <1>1
        <3>3. PICK edited \in Row : edited = [copy EXCEPT !.status = "assigned", !.device = d]
            BY <3>1, AssignedIsRow
        <3>4. /\ edited.retry = copy.retry /\ edited.status = "assigned"
              /\ edited.device = d
              /\ (edited.sentAt <=> copy.sentAt) /\ (edited.providerId <=> copy.providerId)
            BY <3>1, <3>3, AssignedIsRow
        <3> QED
            BY <1>2, <2>2, <3>1, <3>2, <3>3, <3>4
    <2> QED
        BY <1>2, <1>5, <2>1, <2>2 DEF RescuePending
<1>6. CASE RescueSending(job)
    <2>1. CASE Exhausted(job.copy)
        BY <1>6, <2>1 DEF RescueSending
    <2>2. CASE ~Exhausted(job.copy)
        BY <1>1, <1>3, <1>6, <2>2 DEF RescueSending
    <2> QED
        BY <2>1, <2>2
<1> QED
    BY <1>4, <1>5, <1>6

\* The drains keep the invariant.
LEMMA CronWorkInv ==
    ASSUME IInv, NEW job \in cron.batch,
           RetryFailed(job) \/ RescuePending(job) \/ RescueSending(job)
    PROVE  IInv'
BY CronWrites, SkipInv, SaveExpiredInv, SaveAssignedInv

-----------------------------------------------------------------------------
(* Time, devices and crashes                                                *)

\* Clocks touch nothing the invariant reads.
LEMMA TimeInv ==
    ASSUME IInv, NEW m \in Messages, GoesStale(m) \/ BackoffElapses(m) \/ Age(m)
    PROVE  IInv'
<1>1. /\ UNCHANGED <<rows, requestVars, devstate, dispatches, task, owed, cron, handed,
                     reports, faults, historyVars>>
      /\ old' \subseteq Messages /\ stale' \subseteq Messages /\ waiting' \subseteq Messages
    BY DEF GoesStale, BackoffElapses, Age, IInv, TypeOK
<1>2. TypeOK' /\ QuotaWithinLimit' /\ TaskOK'
    BY <1>1 DEF requestVars, historyVars, IInv, TypeOK, QuotaWithinLimit, TaskOK
<1>3. Jobs' = Jobs /\ dispatches' \cap cron'.requeued = {}
    BY <1>1 DEF Jobs, IInv, AttemptsOK
<1> QED
    BY <1>1, <1>2, <1>3, Harmless DEF requestVars, historyVars, Fresh

\* Neither does a new device,
LEMMA RegisterDeviceInv ==
    ASSUME IInv, NEW d \in Devices, RegisterDevice(d)
    PROVE  IInv'
<1>1. TypeOK' /\ QuotaWithinLimit' /\ TaskOK'
    BY DEF RegisterDevice, requestVars, clockVars, historyVars, IInv, TypeOK,
           QuotaWithinLimit, TaskOK
<1>2. Jobs' = Jobs /\ dispatches' \cap cron'.requeued = {}
    BY DEF RegisterDevice, Jobs, IInv, AttemptsOK
<1> QED
    BY <1>1, <1>2, Harmless DEF RegisterDevice, requestVars, historyVars, Fresh

\* and a deleted one only empties relations.
LEMMA DeleteDeviceInv ==
    ASSUME IInv, NEW d \in Devices, DeleteDevice(d)
    PROVE  IInv'
<1>1. \A m \in Messages : [rows[m] EXCEPT !.device = NoDevice] \in Row
    BY InvTypes DEF Row
<1>2. /\ rows' \in [Messages -> Row]
      /\ \A m \in Messages : /\ rows'[m].status = rows[m].status
                             /\ rows'[m].retry = rows[m].retry
                             /\ rows[m].device = NoDevice => rows'[m] = rows[m]
    <2>1. \A m \in Messages : /\ [rows[m] EXCEPT !.device = NoDevice].status = rows[m].status
                              /\ [rows[m] EXCEPT !.device = NoDevice].retry = rows[m].retry
        BY InvTypes DEF Row
    <2> QED
        BY <1>1, <2>1, InvTypes, ConstantsAssumption DEF ConstantsAssumption, DeleteDevice
<1>3. devstate' \in [Devices -> {"unregistered", "registered", "deleted"}]
    BY DEF DeleteDevice, IInv, TypeOK
<1>4. TypeOK' /\ QuotaWithinLimit' /\ TaskOK'
    BY <1>2, <1>3 DEF DeleteDevice, requestVars, clockVars, historyVars, IInv, TypeOK,
                      QuotaWithinLimit, TaskOK
<1>5. \A m \in Messages : Fresh(m) => rows'[m] = rows[m]
    BY <1>2 DEF IInv, FreshOK
<1>6. /\ \A m \in Messages : Fresh(m)' => Fresh(m) /\ rows'[m] = rows[m]
      /\ \A m \in Messages : rows[m].status = "none" => rows'[m] = rows[m]
    BY <1>2, <1>5 DEF Fresh
<1>7. \A j \in cron.batch : cron.phase = "pending" => rows'[j.msg] = rows[j.msg]
    BY <1>5, Entry DEF IInv, BatchOK, Fresh
<1>8. Jobs' = Jobs /\ dispatches' \cap cron'.requeued = {}
    BY DEF DeleteDevice, Jobs, IInv, AttemptsOK
<1> QED
    BY <1>2, <1>4, <1>6, <1>7, <1>8, Harmless DEF DeleteDevice, requestVars, historyVars

\* A crash forgets jobs, tasks and requests.
LEMMA CrashInv ==
    ASSUME IInv, Crash
    PROVE  IInv'
<1>1. /\ cron' \in CronPass /\ cron'.batch = {} /\ cron'.requeued = {} /\ Jobs' = {}
    BY DEF Crash, IdleCron, CronPass, CronPhase, Jobs
<1>2. lost' \in Nat
    <2>1. UNION requests \in SUBSET Messages
        BY DEF IInv, TypeOK
    <2>2. Cardinality(UNION requests) \in Nat
        BY <2>1, BatchIsFinite
    <2> QED
        BY <2>2 DEF Crash, IInv, TypeOK
<1>3. TypeOK' /\ QuotaWithinLimit' /\ TaskOK'
    BY <1>1, <1>2 DEF Crash, clockVars, IInv, TypeOK, QuotaWithinLimit, TaskOK
<1>4. FreshOK' /\ RequestsOK' /\ BatchOK' /\ AttemptsOK'
    BY <1>1 DEF Crash, clockVars, IInv, FreshOK, RequestsOK, BatchOK, AttemptsOK, Fresh
<1> QED
    BY <1>3, <1>4 DEF IInv

-----------------------------------------------------------------------------
(* The theorems                                                              *)

\* Every step preserves the invariant.
LEMMA NextInv ==
    ASSUME IInv, [Next]_vars
    PROVE  IInv'
<1>1. CASE SendStep
    BY <1>1, ReserveInv, CreateMessagesInv, CreateFailsInv, CreateFailsUnreleasedInv
       DEF SendStep
<1>2. CASE DispatchStep
    BY <1>2, ProviderReturnsInv, ProviderSaveFailsInv, TickleSentInv, TickleFailsInv
       DEF DispatchStep
<1>3. CASE AgentClaims
    BY <1>3, ClaimInv DEF AgentClaims
<1>4. CASE ReportStep
    BY <1>4, AckInv, AeumEventInv DEF ReportStep
<1>5. CASE \E h \in Handlers : Commit(h) \/ SaveFails(h)
    BY <1>5, CommitInv, SaveFailsInv
<1>6. CASE \E m \in Messages : Release(m) \/ ReleaseFails(m)
    BY <1>6, ReleaseInv, ReleaseFailsInv
<1>7. CASE CronStep
    BY <1>7, CronStartInv, CronAdvanceInv, CronSaveFailsInv, CronWorkInv
       DEF CronStep, CronWork
<1>8. CASE TimeStep
    BY <1>8, TimeInv DEF TimeStep
<1>9. CASE DeviceStep
    BY <1>9, RegisterDeviceInv, DeleteDeviceInv DEF DeviceStep
<1>10. CASE Crash
    BY <1>10, CrashInv
<1>11. CASE UNCHANGED vars
    BY <1>11 DEF vars, IInv, TypeOK, QuotaWithinLimit, TaskOK, FreshOK, RequestsOK, BatchOK,
                 AttemptsOK, Fresh, Jobs, Exhausted
<1> QED
    BY <1>1, <1>2, <1>3, <1>4, <1>5, <1>6, <1>7, <1>8, <1>9, <1>10, <1>11 DEF Next

\* The invariant holds in every reachable state.
LEMMA Invariance == Spec => []IInv
BY InitInv, NextInv, PTL DEF Spec

\* Every row, job and counter keeps its type: in particular no path of the cron
\* takes retry_count past SMSMaxRetries.
THEOREM TypeCorrect == Spec => []TypeOK
<1>1. IInv => TypeOK
    BY DEF IInv
<1> QED
    BY <1>1, Invariance, PTL

\* Whatever requests, refunds, crashes and crons interleave, the month's counter
\* stays within the plan's limit.
THEOREM QuotaRespected == Spec => []QuotaWithinLimit
<1>1. IInv => QuotaWithinLimit
    BY DEF IInv
<1> QED
    BY <1>1, Invariance, PTL

\* The provider is never called twice for the same attempt, for any number of
\* messages, goroutines and retries, although the cron, the goroutines and the
\* handlers overlap without a lock.
THEOREM BilledOnce == Spec => []BilledOncePerAttempt
<1>1. IInv => BilledOncePerAttempt
    BY DEF IInv, AttemptsOK, Jobs, BilledOncePerAttempt
<1> QED
    BY <1>1, Invariance, PTL

-----------------------------------------------------------------------------
(* The books: what the month's counter may charge for                        *)

Reserved == UNION requests
Refunded == {m \in Messages : refunds[m] > 0}

\* Only a created message is ever refunded.
RefundsOK == \A m \in Messages : refunds[m] > 0 \/ owed[m] > 0 => m \in Created

Books == NoOvercharge /\ RefundsOK

\* Disjoint finite sets add up.
LEMMA SizeOfUnion ==
    ASSUME NEW S, NEW T, IsFiniteSet(S), IsFiniteSet(T), S \cap T = {}
    PROVE  Cardinality(S \cup T) = Cardinality(S) + Cardinality(T)
<1>1. Cardinality(S) \in Nat /\ Cardinality(T) \in Nat
    BY FS_CardinalityType
<1>2. Cardinality(S \cup T) = Cardinality(S) + Cardinality(T) - Cardinality({})
    BY FS_Union
<1> QED
    BY <1>1, <1>2, FS_EmptySet

\* The sets the books count are finite.
LEMMA BooksAreFinite ==
    ASSUME IInv
    PROVE  /\ Reserved \in SUBSET Messages /\ Created \in SUBSET Messages
           /\ Refunded \in SUBSET Messages
           /\ IsFiniteSet(Reserved) /\ IsFiniteSet(Created) /\ IsFiniteSet(Refunded)
           /\ Cardinality(Reserved) \in Nat /\ Cardinality(Created) \in Nat
           /\ Cardinality(Refunded) \in Nat
           /\ used \in Nat /\ lost \in Nat
<1>1. /\ Reserved \in SUBSET Messages /\ Created \in SUBSET Messages
      /\ Refunded \in SUBSET Messages
    BY DEF Reserved, Created, Refunded, IInv, TypeOK
<1> QED
    BY <1>1, BatchIsFinite DEF IInv, TypeOK

\* A save of a row that exists creates and deletes none.
LEMMA SaveKeepsCreated ==
    ASSUME IInv, NEW m \in Messages, rows[m].status # "none",
           NEW l \in Row, NEW e \in Row, e.status # "none",
           rows' = [rows EXCEPT ![m] = SaveChanged(@, l, e)]
    PROVE  Created' = Created
<1>1. SaveChanged(rows[m], l, e).status # "none"
    BY InvTypes, SaveChangedIsRow
<1>2. \A n \in Messages : rows'[n] = IF n = m THEN SaveChanged(rows[m], l, e) ELSE rows[n]
    BY DEF IInv, TypeOK
<1> QED
    BY <1>1, <1>2 DEF Created

\* What every step but SendSMS's, a release and a crash leaves alone
Bystander ==
    /\ UNCHANGED <<used, requests, refunds, lost>>
    /\ Created' = Created
    /\ \A m \in Messages : owed'[m] > 0 => owed[m] > 0 \/ m \in Created

\* The other actors keep the books: they create no row, and owe a credit only
\* for one that exists.
LEMMA Bystanders ==
    ASSUME IInv, [Next]_vars
    PROVE  \/ \E batch \in SUBSET Messages :
                 \/ Reserve(batch) \/ CreateMessages(batch)
                 \/ CreateFails(batch) \/ CreateFailsUnreleased(batch)
           \/ \E m \in Messages : Release(m)
           \/ Crash
           \/ Bystander
<1>1. CASE DispatchStep
    <2>1. PICK job \in dispatches :
              \/ ProviderReturns(job) \/ ProviderSaveFails(job) \/ TickleSent(job)
              \/ \E h \in Handlers : TickleFails(h, job)
        BY <1>1 DEF DispatchStep
    <2>2. job \in Job /\ job.msg \in Messages /\ job.copy \in Row
          /\ rows[job.msg].status # "none"
        BY InvTypes, JobFields DEF Jobs, IInv, FreshOK, Fresh
    <2>3. CASE ProviderReturns(job)
        <3>1. PICK m : m = job.msg
            OBVIOUS
        <3>2. PICK edited \in Row :
                 /\ rows' = [rows EXCEPT ![m] = SaveChanged(@, job.copy, edited)]
                 /\ edited.status \in {"sent", "failed"}
                 /\ owed' = owed \/ owed' = [owed EXCEPT ![m] = @ + 1]
            BY <2>2, <2>3, <3>1, ProviderWrites
        <3>3. Created' = Created
            BY <2>2, <3>1, <3>2, SaveKeepsCreated
        <3>4. \A n \in Messages : owed'[n] = owed[n] \/ n \in Created
            BY <2>2, <3>1, <3>2 DEF Created, IInv, TypeOK
        <3> QED
            BY <2>3, <3>3, <3>4 DEF ProviderReturns, requestVars, Bystander
    <2>4. CASE ProviderSaveFails(job) \/ TickleSent(job) \/ \E h \in Handlers : TickleFails(h, job)
        BY <2>4 DEF ProviderSaveFails, TickleSent, TickleFails, requestVars, historyVars,
                    Bystander, Created
    <2> QED
        BY <2>1, <2>3, <2>4
<1>2. CASE AgentClaims \/ ReportStep
    <2>1. UNCHANGED <<rows, requestVars, owed, historyVars>>
        BY <1>2, ZenonT(40) DEF AgentClaims, ReportStep, Claim, Ack, AeumEvent, BeginTerminal
    <2> QED
        BY <2>1 DEF requestVars, historyVars, Bystander, Created
<1>3. ASSUME NEW h \in Handlers, Commit(h)
      PROVE  Bystander
    <2>1. PICK m : m = task[h].msg
        OBVIOUS
    <2>2. /\ m \in Messages /\ rows[m].status # "none"
          /\ task[h].loaded \in Row /\ task[h].edited \in Row
          /\ task[h].edited.status # "none"
        BY <1>3, <2>1, InvTypes DEF Commit, Task, IInv, FreshOK, Fresh, TaskOK, Settlements
    <2>3. rows' = [rows EXCEPT ![m] = SaveChanged(@, task[h].loaded, task[h].edited)]
        BY <1>3, <2>1 DEF Commit
    <2>4. Created' = Created
        BY <2>2, <2>3, SaveKeepsCreated
    <2>5. owed' = owed \/ owed' = [owed EXCEPT ![m] = @ + 1]
        BY <1>3, <2>1 DEF Commit
    <2>6. \A n \in Messages : owed'[n] = owed[n] \/ n \in Created
        BY <2>2, <2>5 DEF Created, IInv, TypeOK
    <2> QED
        BY <1>3, <2>4, <2>6 DEF Commit, requestVars, Bystander
<1>4. ASSUME NEW h \in Handlers, SaveFails(h)
      PROVE  Bystander
    BY <1>4 DEF SaveFails, requestVars, historyVars, Bystander, Created
<1>5. CASE CronStep
    <2>1. CASE CronStart \/ CronAdvance \/ \E job \in cron.batch : CronSaveFails(job)
        <3>1. UNCHANGED <<rows, used, requests, refunds, lost, owed>>
            BY <2>1 DEF CronStart, CronAdvance, CronSaveFails, requestVars, historyVars
        <3> QED
            BY <3>1 DEF Bystander, Created
    <2>2. ASSUME NEW job \in cron.batch,
                 RetryFailed(job) \/ RescuePending(job) \/ RescueSending(job)
          PROVE  Bystander
        <3>1. PICK m : m = job.msg
            OBVIOUS
        <3>2. /\ m \in Messages /\ rows[m].status # "none" /\ job.copy \in Row
            BY <3>1, Entry
        <3>3. ASSUME NEW cache, Skip(job, cache)
              PROVE  Bystander
            BY <3>3 DEF Skip, requestVars, historyVars, Bystander, Created
        <3>4. ASSUME NEW edited \in Row, NEW cache, SaveAssigned(job, edited, cache),
                     edited.status = "assigned"
              PROVE  Bystander
            <4>1. rows' = [rows EXCEPT ![m] = SaveChanged(@, job.copy, edited)]
                BY <3>1, <3>4 DEF SaveAssigned
            <4>2. Created' = Created
                BY <3>2, <3>4, <4>1, SaveKeepsCreated
            <4> QED
                BY <3>4, <4>2 DEF SaveAssigned, requestVars, historyVars, Bystander
        <3>5. CASE SaveExpired(job)
            <4>1. PICK edited \in Row : /\ edited = MarkTerminal(job.copy, "failed", "temporary")
                                        /\ edited.status = "failed"
                BY <3>2, FailedTemporarily, MarkTerminalIsRow
            <4>2. rows' = [rows EXCEPT ![m] = SaveChanged(@, job.copy, edited)]
                BY <3>1, <3>5, <4>1 DEF SaveExpired
            <4>3. Created' = Created
                BY <3>2, <4>1, <4>2, SaveKeepsCreated
            <4>4. owed' = owed \/ owed' = [owed EXCEPT ![m] = @ + 1]
                BY <3>1, <3>5 DEF SaveExpired
            <4>5. \A n \in Messages : owed'[n] = owed[n] \/ n \in Created
                BY <3>2, <4>4 DEF Created, IInv, TypeOK
            <4> QED
                BY <3>5, <4>3, <4>5 DEF SaveExpired, requestVars, historyVars, Bystander
        <3> QED
            BY <2>2, <3>3, <3>4, <3>5, CronWrites
    <2> QED
        BY <1>5, <2>1, <2>2 DEF CronStep, CronWork
<1>6. CASE TimeStep
    BY <1>6 DEF TimeStep, GoesStale, BackoffElapses, Age, requestVars, historyVars,
                Bystander, Created
<1>7. CASE DeviceStep
    <2>1. /\ UNCHANGED <<used, requests, refunds, lost, owed>>
          /\ \A m \in Messages : rows'[m].status = rows[m].status
        <3>1. \A m \in Messages : [rows[m] EXCEPT !.device = NoDevice].status = rows[m].status
            BY InvTypes DEF Row
        <3> QED
            BY <1>7, <3>1 DEF DeviceStep, RegisterDevice, DeleteDevice, requestVars,
                              historyVars
    <2> QED
        BY <2>1 DEF Bystander, Created
<1>8. CASE UNCHANGED vars
    BY <1>8 DEF vars, Bystander, Created
<1>9. ASSUME NEW m \in Messages, ReleaseFails(m)
      PROVE  Bystander
    <2>1. \A n \in Messages : owed'[n] > 0 => owed[n] > 0
        BY <1>9 DEF ReleaseFails, IInv, TypeOK
    <2> QED
        BY <1>9, <2>1 DEF ReleaseFails, requestVars, historyVars, Bystander, Created
<1> QED
    BY <1>1, <1>2, <1>3, <1>4, <1>5, <1>6, <1>7, <1>8, <1>9 DEF Next, SendStep

\* The books open empty.
LEMMA InitBooks == Init => Books
<1> SUFFICES ASSUME Init PROVE Books
    OBVIOUS
<1>1. /\ Created = {} /\ Refunded = {} /\ Reserved = {}
      /\ \A m \in Messages : refunds[m] = 0 /\ owed[m] = 0
    <2>1. NoRow.status = "none"
        BY DEF NoRow
    <2> QED
        BY <2>1 DEF Init, Created, Refunded, Reserved
<1>2. NoOvercharge
    BY <1>1, FS_EmptySet, SMTT(30) DEF Init, NoOvercharge, Refunded, Reserved
<1> QED
    BY <1>1, <1>2 DEF Books, RefundsOK

\* Every step keeps the books.
LEMMA NextBooks ==
    ASSUME IInv, Books, [Next]_vars
    PROVE  Books'
<1>1. /\ Reserved \in SUBSET Messages /\ Created \in SUBSET Messages
      /\ Refunded \in SUBSET Messages /\ Refunded \subseteq Created
      /\ IsFiniteSet(Reserved) /\ IsFiniteSet(Created) /\ IsFiniteSet(Refunded)
      /\ Cardinality(Reserved) \in Nat /\ Cardinality(Created) \in Nat
      /\ Cardinality(Refunded) \in Nat
      /\ used \in Nat /\ lost \in Nat
      /\ used + Cardinality(Refunded) <= Cardinality(Reserved) + Cardinality(Created) + lost
      /\ Cardinality(Refunded) <= Cardinality(Created)
    <2>1. Refunded \subseteq Created
        BY DEF Books, RefundsOK, Refunded
    <2>2. Cardinality(Refunded) <= Cardinality(Created)
        BY <2>1, BooksAreFinite, FS_Subset
    <2> QED
        BY <2>1, <2>2, BooksAreFinite DEF Books, NoOvercharge, Refunded, Reserved
<1>2. ASSUME RefundsOK',
             used' + Cardinality(Refunded')
                <= Cardinality(Reserved') + Cardinality(Created') + lost'
      PROVE  Books'
    BY <1>2 DEF Books, NoOvercharge, Refunded, Reserved
<1>3. ASSUME NEW batch \in SUBSET Messages, Reserve(batch)
      PROVE  Books'
    <2>1. /\ Created' = Created /\ Refunded' = Refunded /\ lost' = lost
          /\ Reserved' = Reserved \cup batch /\ Reserved \cap batch = {}
          /\ used' = used + Cardinality(batch) /\ RefundsOK'
        BY <1>3 DEF Reserve, historyVars, Created, Refunded, Reserved, Books, RefundsOK
    <2>2. Cardinality(Reserved') = Cardinality(Reserved) + Cardinality(batch)
          /\ Cardinality(batch) \in Nat
        BY <1>1, <2>1, BatchIsFinite, SizeOfUnion
    <2> QED
        BY <1>1, <1>2, <2>1, <2>2
<1>4. ASSUME NEW batch \in SUBSET Messages, batch \in requests,
             requests' = requests \ {batch}
      PROVE  /\ Cardinality(batch) \in Nat /\ Cardinality(Reserved') \in Nat
             /\ Cardinality(Reserved) = Cardinality(Reserved') + Cardinality(batch)
    <2>1. Reserved = Reserved' \cup batch /\ Reserved' \cap batch = {}
        BY <1>4 DEF Reserved, IInv, RequestsOK
    <2>2. IsFiniteSet(Reserved') /\ IsFiniteSet(batch)
        BY <1>1, <2>1, FS_Subset
    <2> QED
        BY <2>1, <2>2, FS_CardinalityType, SizeOfUnion
<1>5. ASSUME NEW batch \in SUBSET Messages, CreateMessages(batch)
      PROVE  Books'
    <2>1. PICK pick : rows' = [m \in Messages |->
                                  IF m \in batch THEN NewRow(pick[m]) ELSE rows[m]]
        BY <1>5 DEF CreateMessages
    <2>2. batch \in requests /\ requests' = requests \ {batch} /\ used' = used
          /\ UNCHANGED <<refunds, lost, owed>>
        BY <1>5 DEF CreateMessages, historyVars
    <2>3. \A d : NewRow(d).status \in {"pending", "assigned"}
        BY DEF NewRow, NoRow
    <2>4. Created' = Created \cup batch /\ Created \cap batch = {}
        BY <2>1, <2>2, <2>3 DEF Created, IInv, RequestsOK
    <2>5. Cardinality(Created') = Cardinality(Created) + Cardinality(batch)
        BY <1>1, <2>4, BatchIsFinite, SizeOfUnion
    <2>6. RefundsOK' /\ Refunded' = Refunded
        BY <2>2, <2>4 DEF Books, RefundsOK, Refunded
    <2> QED
        BY <1>1, <1>2, <1>4, <2>2, <2>5, <2>6
<1>6. ASSUME NEW batch \in SUBSET Messages, CreateFails(batch)
      PROVE  Books'
    <2>1. /\ batch \in requests /\ requests' = requests \ {batch}
          /\ used' = Minus(used, Cardinality(batch))
          /\ Created' = Created /\ Refunded' = Refunded /\ lost' = lost /\ RefundsOK'
        BY <1>6 DEF CreateFails, historyVars, Created, Refunded, Books, RefundsOK
    <2>2. used' + Cardinality(Refunded)
             <= Cardinality(Reserved') + Cardinality(Created) + lost
        BY <1>1, <1>4, <2>1 DEF Minus
    <2> QED
        BY <1>2, <2>1, <2>2
<1>7. ASSUME NEW m \in Messages, Release(m)
      PROVE  Books'
    <2>1. /\ m \in Created /\ Created' = Created /\ Reserved' = Reserved /\ lost' = lost
          /\ used' = Minus(used, 1)
        BY <1>7 DEF Release, Created, Reserved, Books, RefundsOK
    <2>2. /\ refunds' = [refunds EXCEPT ![m] = @ + 1] /\ owed' = [owed EXCEPT ![m] = @ - 1]
          /\ \A n \in Messages : refunds[n] \in Nat /\ owed[n] \in Nat
        BY <1>7 DEF Release, IInv, TypeOK
    <2>3. Refunded' = Refunded \cup {m} /\ RefundsOK'
        BY <2>1, <2>2 DEF Refunded, Books, RefundsOK, IInv, TypeOK
    <2>4. /\ Cardinality(Refunded') \in Nat
          /\ Cardinality(Refunded') <= Cardinality(Refunded) + 1
        <3>1. Cardinality(Refunded \cup {m}) =
                 IF m \in Refunded THEN Cardinality(Refunded) ELSE Cardinality(Refunded) + 1
            BY <1>1, FS_AddElement
        <3> QED
            BY <1>1, <2>3, <3>1
    <2>5. Cardinality(Refunded') <= Cardinality(Created)
        BY <1>1, <2>1, <2>3, FS_Subset
    <2> QED
        BY <1>1, <1>2, <2>1, <2>3, <2>4, <2>5 DEF Minus
<1>8. CASE Crash
    <2>1. /\ Created' = Created /\ Refunded' = Refunded /\ Reserved' = {} /\ used' = used
          /\ lost' = lost + Cardinality(Reserved)
        BY <1>8 DEF Crash, Created, Refunded, Reserved
    <2>2. RefundsOK'
        BY <1>8, <2>1 DEF Crash, Books, RefundsOK
    <2> QED
        BY <1>1, <1>2, <2>1, <2>2, FS_EmptySet
<1>9. CASE Bystander
    <2>1. Refunded' = Refunded /\ Reserved' = Reserved /\ RefundsOK'
        BY <1>9 DEF Bystander, Refunded, Reserved, Books, RefundsOK
    <2> QED
        BY <1>1, <1>2, <1>9, <2>1 DEF Bystander
<1>10. ASSUME NEW batch \in SUBSET Messages, CreateFailsUnreleased(batch)
       PROVE  Books'
    <2>1. /\ batch \in requests /\ requests' = requests \ {batch} /\ used' = used
          /\ lost' = lost + Cardinality(batch)
          /\ Created' = Created /\ Refunded' = Refunded /\ RefundsOK'
        BY <1>10 DEF CreateFailsUnreleased, Created, Refunded, Books, RefundsOK
    <2>2. used' + Cardinality(Refunded)
             <= Cardinality(Reserved') + Cardinality(Created) + lost'
        BY <1>1, <1>4, <2>1
    <2> QED
        BY <1>2, <2>1, <2>2
<1> QED
    BY <1>3, <1>5, <1>6, <1>7, <1>8, <1>9, <1>10, Bystanders

\* The month's counter never charges for more than the batches in flight, the
\* messages created and not refunded, and what crashes and failed releases lost, for
\* any number of concurrent requests, refunds and crashes and although a release that
\* finds too little on the counter is clamped at zero.
THEOREM NothingOvercharged == Spec => []NoOvercharge
<1>1. Books => NoOvercharge
    BY DEF Books
<1>2. IInv /\ Books /\ [Next]_vars => Books'
    BY NextBooks
<1> QED
    BY <1>1, <1>2, InitBooks, Invariance, PTL DEF Spec

-----------------------------------------------------------------------------
(* When no two find-to-save windows overlap                                  *)

\* A row is still what was loaded, but for the device the user deleted.
Current(copy, row) ==
    /\ row.status = copy.status /\ row.retry = copy.retry /\ row.err = copy.err
    /\ (row.sentAt <=> copy.sentAt) /\ (row.providerId <=> copy.providerId)
    /\ row.device = copy.device \/ (row.device = NoDevice /\ copy.device \notin Aeum)

\* At most one handler or the cron is between a find and its save, and no
\* handler is while a refund is still due.
OneWindow ==
    /\ \A g, h \in Handlers : task[g] # NoTask /\ task[h] # NoTask => g = h
    /\ \A h \in Handlers : task[h] # NoTask =>
          cron.phase = "idle" /\ \A m \in Messages : owed[m] = 0
    /\ cron.phase = "idle" => cron.batch = {}

\* What a handler is about to do to the row it loaded
TaskEdit(t) ==
    \/ /\ t.op = "claim" /\ t.loaded.status = "assigned" /\ t.loaded.device \notin Aeum
       /\ t.edited = [t.loaded EXCEPT !.status = "sending"]
    \/ t.op = "tickleFailed"
    \/ /\ t.op = "terminal" /\ t.edited = MarkTerminal(t.loaded, t.edited.status, t.err)
       /\ t.edited.status \in {"sent", "delivered", "failed"}
       /\ t.loaded.status # t.edited.status
       /\ \/ t.loaded.providerId /\ (t.edited.status = "failed" => IsPermanent(t.err))
          \/ t.loaded.device \notin Aeum /\ t.loaded.status # "delivered"

TasksCurrent ==
    \A h \in Handlers : task[h] # NoTask =>
        TaskEdit(task[h]) /\ Current(task[h].loaded, rows[task[h].msg])

BatchCurrent ==
    \A j \in cron.batch : /\ Current(j.copy, rows[j.msg])
                          /\ j.copy.status = cron.phase
                          /\ cron.phase = "failed" => j.msg \notin old

\* A row that waits for its agent was not claimed in this attempt.
ClaimsOK ==
    \A m \in Messages : /\ claims[m] <= 1 + rows[m].retry
                        /\ rows[m].status = "assigned" => claims[m] <= rows[m].retry
                        /\ Fresh(m) => claims[m] = 0

Windows == OneWindow /\ TasksCurrent /\ BatchCurrent /\ ClaimsOK

\* A find waits until no other window is open.
LEMMA QuietMeans ==
    ASSUME ~Overlap, Quiet, Windows
    PROVE  /\ \A h \in Handlers : task[h] = NoTask
           /\ cron.phase = "idle" /\ cron.batch = {}
           /\ \A m \in Messages : owed[m] = 0
BY DEF Quiet, Windows, OneWindow

\* A save over a current copy writes the edited columns, all of them.
LEMMA SaveCurrent ==
    ASSUME NEW row \in Row, NEW copy \in Row, NEW edited \in Row, Current(copy, row)
    PROVE  LET s == SaveChanged(row, copy, edited)
           IN  /\ s \in Row
               /\ s.status = edited.status /\ s.retry = edited.retry /\ s.err = edited.err
               /\ (s.sentAt <=> edited.sentAt) /\ (s.providerId <=> edited.providerId)
               /\ s.device = IF edited.device = copy.device THEN row.device ELSE edited.device
BY DEF SaveChanged, Row, Current

\* No window is open initially.
LEMMA InitWindows == Init => Windows
<1> SUFFICES ASSUME Init PROVE Windows
    OBVIOUS
<1>1. cron.batch = {} /\ \A h \in Handlers : task[h] = NoTask
    BY DEF Init, IdleCron
<1>2. \A m \in Messages : claims[m] = 0 /\ rows[m].retry = 0
    <2>1. NoRow.retry = 0
        BY DEF NoRow
    <2> QED
        BY <2>1 DEF Init
<1> QED
    BY <1>1, <1>2 DEF Windows, OneWindow, TasksCurrent, BatchCurrent, ClaimsOK

\* Windows that close, or stay open on rows nobody wrote
LEMMA WindowsKept ==
    ASSUME IInv, Windows,
           \A h \in Handlers : task'[h] \in {task[h], NoTask},
           cron'.phase = cron.phase, cron'.batch \subseteq cron.batch,
           \A m \in Messages : owed[m] = 0 => owed'[m] = 0,
           old' = old, ClaimsOK',
           \A h \in Handlers : task[h] # NoTask /\ Current(task[h].loaded, rows[task[h].msg])
              => Current(task[h].loaded, rows'[task[h].msg]),
           \A j \in cron'.batch : Current(j.copy, rows[j.msg]) => Current(j.copy, rows'[j.msg])
    PROVE  Windows'
<1>1. OneWindow'
    BY DEF Windows, OneWindow
<1>2. TasksCurrent'
    BY DEF Windows, TasksCurrent, TaskEdit
<1>3. BatchCurrent'
    BY DEF Windows, BatchCurrent
<1> QED
    BY <1>1, <1>2, <1>3 DEF Windows

\* A handler opens a window on a row.
LEMMA WindowOpens ==
    ASSUME ~Overlap, IInv, Windows, Quiet, NEW h \in Handlers, NEW t,
           t.loaded = rows[t.msg], TaskEdit(t), task' = [task EXCEPT ![h] = t],
           UNCHANGED <<rows, cron, owed, old, claims>>
    PROVE  Windows'
<1>1. \A g \in Handlers : task'[g] = IF g = h THEN t ELSE NoTask
    BY QuietMeans DEF IInv, TypeOK
<1>2. OneWindow'
    BY <1>1, QuietMeans DEF OneWindow
<1>3. TasksCurrent'
    BY <1>1 DEF TasksCurrent, Current, TaskEdit
<1>4. BatchCurrent' /\ ClaimsOK'
    BY DEF Windows, BatchCurrent, ClaimsOK, Fresh
<1> QED
    BY <1>2, <1>3, <1>4 DEF Windows

\* SendSMS writes rows no window is on.
LEMMA SendWindows ==
    ASSUME IInv, Windows, SendStep
    PROVE  Windows'
<1>1. PICK batch \in SUBSET Messages :
          \/ Reserve(batch) \/ CreateMessages(batch)
          \/ CreateFails(batch) \/ CreateFailsUnreleased(batch)
    BY DEF SendStep
<1>2. CASE Reserve(batch) \/ CreateFails(batch) \/ CreateFailsUnreleased(batch)
    <2>1. UNCHANGED <<rows, task, cron, owed, old, claims>>
        BY <1>2 DEF Reserve, CreateFails, CreateFailsUnreleased, clockVars, historyVars
    <2>2. ClaimsOK'
        BY <2>1 DEF Windows, ClaimsOK, Fresh
    <2> QED
        BY <2>1, <2>2, WindowsKept
<1>3. CASE CreateMessages(batch)
    <2>1. PICK pick : rows' = [m \in Messages |->
                                  IF m \in batch THEN NewRow(pick[m]) ELSE rows[m]]
        BY <1>3 DEF CreateMessages
    <2>2. /\ UNCHANGED <<task, cron, owed, old, claims>>
          /\ \A m \in batch : rows[m].status = "none"
        BY <1>3 DEF CreateMessages, clockVars, historyVars, IInv, RequestsOK
    <2>3. \A m \in Messages : rows[m].status # "none" => rows'[m] = rows[m]
        BY <2>1, <2>2
    <2>4. ClaimsOK'
        <3>1. \A d : NewRow(d).retry = 0
            BY DEF NewRow, NoRow
        <3>2. \A m \in batch : claims[m] = 0 /\ rows'[m].retry = 0
            BY <2>1, <2>2, <3>1 DEF Windows, ClaimsOK, Fresh
        <3> QED
            BY <2>1, <2>2, <3>2 DEF Windows, ClaimsOK, Fresh
    <2>5. \A h \in Handlers : task[h] # NoTask =>
              task[h].msg \in Messages /\ rows[task[h].msg].status # "none"
        BY InvTypes DEF Task, IInv, FreshOK, Fresh
    <2>6. \A j \in cron.batch : j.msg \in Messages /\ rows[j.msg].status # "none"
        BY Entry
    <2> QED
        BY <2>2, <2>3, <2>4, <2>5, <2>6, WindowsKept
<1> QED
    BY <1>1, <1>2, <1>3

\* A save that leaves no window open
LEMMA LastSave ==
    ASSUME IInv, Windows, \A h \in Handlers : task'[h] = NoTask,
           cron'.phase = "idle", cron'.batch = {}, ClaimsOK'
    PROVE  Windows'
BY DEF Windows, OneWindow, TasksCurrent, BatchCurrent

\* The provider's answer is saved while no window is open; a failed tickle opens
\* one.
LEMMA DispatchWindows ==
    ASSUME ~Overlap, IInv, Windows, DispatchStep
    PROVE  Windows'
<1>1. PICK job \in dispatches :
          \/ ProviderReturns(job) \/ ProviderSaveFails(job) \/ TickleSent(job)
          \/ \E h \in Handlers : TickleFails(h, job)
    BY DEF DispatchStep
<1>2. job \in Job /\ job.msg \in Messages /\ job.copy \in Row /\ ~Fresh(job.msg)
    BY InvTypes, JobFields DEF Jobs, IInv, FreshOK
<1>3. CASE ProviderReturns(job)
    <2>1. PICK m : m = job.msg
        OBVIOUS
    <2>2. PICK edited \in Row :
             /\ rows' = [rows EXCEPT ![m] = SaveChanged(@, job.copy, edited)]
             /\ edited.retry = job.copy.retry /\ edited.status \in {"sent", "failed"}
        BY <1>2, <1>3, <2>1, ProviderWrites
    <2>3. /\ SaveChanged(rows[m], job.copy, edited).retry = rows[m].retry
          /\ SaveChanged(rows[m], job.copy, edited).status \in {"sent", "failed", rows[m].status}
        BY <1>2, <2>1, <2>2, SaveChangedIsRow, InvTypes
    <2>4. \A n \in Messages :
              rows'[n] = IF n = m THEN SaveChanged(rows[m], job.copy, edited) ELSE rows[n]
        BY <2>2 DEF IInv, TypeOK
    <2>5. claims' = claims /\ task' = task /\ cron' = cron /\ Quiet
        BY <1>3 DEF ProviderReturns
    <2>6. ClaimsOK'
        BY <1>2, <2>1, <2>3, <2>4, <2>5 DEF Windows, ClaimsOK, Fresh
    <2> QED
        BY <2>5, <2>6, QuietMeans, LastSave
<1>4. CASE ProviderSaveFails(job) \/ TickleSent(job)
    <2>1. UNCHANGED <<rows, task, cron, owed, old, claims>>
        BY <1>4 DEF ProviderSaveFails, TickleSent, clockVars, historyVars
    <2>2. ClaimsOK'
        BY <2>1 DEF Windows, ClaimsOK, Fresh
    <2> QED
        BY <2>1, <2>2, WindowsKept
<1>5. ASSUME NEW h \in Handlers, TickleFails(h, job)
      PROVE  Windows'
    <2>1. PICK t : /\ t.op = "tickleFailed" /\ t.msg = job.msg /\ t.loaded = rows[job.msg]
                   /\ task' = [task EXCEPT ![h] = t]
        BY <1>5 DEF TickleFails
    <2>2. Quiet /\ UNCHANGED <<rows, cron, owed, old, claims>>
        BY <1>5 DEF TickleFails, clockVars, historyVars
    <2>3. TaskEdit(t)
        BY <2>1 DEF TaskEdit
    <2> QED
        BY <2>1, <2>2, <2>3, WindowOpens
<1> QED
    BY <1>1, <1>3, <1>4, <1>5

\* A claim opens a window on a row that waits for its agent.
LEMMA ClaimWindows ==
    ASSUME ~Overlap, IInv, Windows, AgentClaims
    PROVE  Windows'
<1>1. PICK h \in Handlers, d \in Devices, m \in Messages : Claim(h, d, m)
    BY DEF AgentClaims
<1>2. PICK t : /\ t.op = "claim" /\ t.msg = m /\ t.loaded = rows[m]
               /\ t.edited = [rows[m] EXCEPT !.status = "sending"]
               /\ task' = [task EXCEPT ![h] = t]
    BY <1>1 DEF Claim
<1>3. Quiet /\ UNCHANGED <<rows, cron, owed, old, claims>>
    BY <1>1 DEF Claim, clockVars, historyVars
<1>4. TaskEdit(t)
    BY <1>1, <1>2 DEF Claim, TaskEdit, Physical
<1> QED
    BY <1>2, <1>3, <1>4, WindowOpens

\* A report opens one on a row its device or its event may change.
LEMMA ReportWindows ==
    ASSUME ~Overlap, IInv, Windows, ReportStep
    PROVE  Windows'
<1>1. PICK h \in Handlers, m \in Messages :
          \/ \E d \in Devices, status \in {"sent", "delivered", "failed"}, err \in Errors :
                Ack(h, d, m, status, err)
          \/ \E status \in {"delivered", "failed"} : AeumEvent(h, m, status)
    BY DEF ReportStep
<1>2. \E status \in {"sent", "delivered", "failed"}, err \in Errors :
         /\ BeginTerminal(h, m, status, err)
         /\ rows[m].status # status
         /\ \/ rows[m].providerId /\ (status = "failed" => IsPermanent(err))
            \/ rows[m].device \notin Aeum /\ rows[m].status # "delivered"
    <2>1. ASSUME NEW d \in Devices, NEW status \in {"sent", "delivered", "failed"},
                 NEW err \in Errors, Ack(h, d, m, status, err)
          PROVE  /\ BeginTerminal(h, m, status, err) /\ rows[m].status # status
                 /\ rows[m].device \notin Aeum /\ rows[m].status # "delivered"
        <3>1. /\ BeginTerminal(h, m, status, err)
              /\ d \in Physical /\ rows[m].device = d /\ News(rows[m].status, status)
            BY <2>1, Zenon DEF Ack
        <3> QED
            BY <3>1 DEF News, Physical
    <2>2. ASSUME NEW status \in {"delivered", "failed"}, AeumEvent(h, m, status)
          PROVE  /\ BeginTerminal(h, m, status, EventError(status))
                 /\ rows[m].status # status /\ rows[m].providerId
        BY <2>2 DEF AeumEvent
    <2>3. ASSUME NEW status \in {"delivered", "failed"}
          PROVE  /\ EventError(status) \in Errors
                 /\ status = "failed" => IsPermanent(EventError(status))
        BY <2>3, Zenon DEF EventError, Errors, IsPermanent
    <2>4. "delivered" \in {"sent", "delivered", "failed"}
          /\ "failed" \in {"sent", "delivered", "failed"}
        OBVIOUS
    <2> QED
        BY <1>1, <2>1, <2>2, <2>3, <2>4
<1>3. PICK status \in {"sent", "delivered", "failed"}, err \in Errors :
         /\ BeginTerminal(h, m, status, err)
         /\ rows[m].status # status
         /\ \/ rows[m].providerId /\ (status = "failed" => IsPermanent(err))
            \/ rows[m].device \notin Aeum /\ rows[m].status # "delivered"
    BY <1>2
<1>4. PICK t : /\ t.op = "terminal" /\ t.msg = m /\ t.loaded = rows[m] /\ t.err = err
               /\ t.edited = MarkTerminal(rows[m], status, err)
               /\ task' = [task EXCEPT ![h] = t]
    BY <1>3 DEF BeginTerminal
<1>5. Quiet /\ UNCHANGED <<rows, cron, owed, old, claims>>
    BY <1>3 DEF BeginTerminal, clockVars, historyVars
<1>6. t.edited.status = status
    <2>1. status \in Status /\ rows[m] \in Row
        BY InvTypes DEF Status
    <2> QED
        BY <1>4, <2>1, MarkTerminalIsRow
<1>7. TaskEdit(t)
    BY <1>3, <1>4, <1>6 DEF TaskEdit
<1> QED
    BY <1>4, <1>5, <1>7, WindowOpens

\* A handler's save closes the only window.
LEMMA CommitWindows ==
    ASSUME IInv, Windows, NEW h \in Handlers, Commit(h)
    PROVE  Windows'
<1>1. PICK t : t = task[h]
    OBVIOUS
<1>2. PICK m : m = t.msg
    OBVIOUS
<1>3. /\ t \in Task /\ m \in Messages /\ rows[m] \in Row /\ ~Fresh(m)
      /\ t.loaded \in Row /\ t.edited \in Row
      /\ t.edited.retry = t.loaded.retry /\ t.edited.status \in Settlements
      /\ Current(t.loaded, rows[m]) /\ TaskEdit(t)
      /\ cron.phase = "idle" /\ cron.batch = {}
      /\ \A g \in Handlers : g # h => task[g] = NoTask
    BY <1>1, <1>2, InvTypes DEF Commit, Task, IInv, FreshOK, TaskOK, Windows, OneWindow,
                                TasksCurrent
<1>4. PICK saved : /\ saved = SaveChanged(rows[m], t.loaded, t.edited)
                   /\ saved.status = t.edited.status /\ saved.retry = rows[m].retry
    BY <1>3, SaveCurrent DEF Current
<1>5. /\ \A n \in Messages : rows'[n] = IF n = m THEN saved ELSE rows[n]
      /\ claims' = IF t.op = "claim" THEN [claims EXCEPT ![m] = @ + 1] ELSE claims
      /\ task' = [task EXCEPT ![h] = NoTask] /\ cron' = cron
    BY <1>1, <1>2, <1>3, <1>4 DEF Commit, IInv, TypeOK
<1>6. \A g \in Handlers : task'[g] = NoTask
    BY <1>3, <1>5 DEF IInv, TypeOK
<1>7. ClaimsOK'
    <2>1. /\ saved.status \notin {"none", "pending", "assigned"}
          /\ \A n \in Messages : claims[n] \in Nat /\ rows[n].retry \in Nat
        BY <1>3, <1>4, InvTypes, RowFields DEF Settlements, IInv, TypeOK
    <2>2. CASE t.op = "claim"
        <3>1. rows[m].status = "assigned"
            BY <1>3, <2>2 DEF TaskEdit, Current
        <3>2. \A n \in Messages : claims'[n] = IF n = m THEN claims[m] + 1 ELSE claims[n]
            BY <1>3, <1>5, <2>2 DEF IInv, TypeOK
        <3> QED
            BY <1>3, <1>4, <1>5, <2>1, <3>1, <3>2 DEF Windows, ClaimsOK, Fresh
    <2>3. CASE t.op # "claim"
        BY <1>3, <1>4, <1>5, <2>1, <2>3 DEF Windows, ClaimsOK, Fresh
    <2> QED
        BY <2>2, <2>3
<1> QED
    BY <1>3, <1>5, <1>6, <1>7, LastSave

\* A refused save and a release, failed or not, close windows only.
LEMMA ClosingWindows ==
    ASSUME IInv, Windows,
           \/ \E h \in Handlers : SaveFails(h)
           \/ \E m \in Messages : Release(m) \/ ReleaseFails(m)
    PROVE  Windows'
<1>1. /\ \A h \in Handlers : task'[h] \in {task[h], NoTask}
      /\ UNCHANGED <<rows, cron, old, claims>>
    BY DEF SaveFails, Release, ReleaseFails, clockVars, historyVars, IInv, TypeOK
<1>2. \A m \in Messages : owed[m] = 0 => owed'[m] = 0
    BY DEF SaveFails, Release, ReleaseFails, IInv, TypeOK
<1>3. ClaimsOK'
    BY <1>1 DEF Windows, ClaimsOK, Fresh
<1> QED
    BY <1>1, <1>2, <1>3, WindowsKept

\* While the cron is busy no handler is.
LEMMA CronAlone ==
    ASSUME Windows, cron.phase # "idle"
    PROVE  \A h \in Handlers : task[h] = NoTask
BY DEF Windows, OneWindow

\* What a drain finds is current.
LEMMA FoundWindows ==
    ASSUME IInv, Windows, \A h \in Handlers : task[h] = NoTask,
           NEW S \in SUBSET Messages,
           cron'.batch = {[msg |-> m, copy |-> rows[m]] : m \in S},
           cron'.phase # "idle",
           \A m \in S : rows[m].status = cron'.phase,
           cron'.phase = "failed" => \A m \in S : m \notin old,
           UNCHANGED <<rows, task, owed, old, claims>>
    PROVE  Windows'
<1>1. \A j \in cron'.batch : j.msg \in S /\ j.copy = rows[j.msg]
    <2>1. PICK batch : batch = cron'.batch
        OBVIOUS
    <2> QED
        BY <2>1, FoundEntries
<1>2. OneWindow' /\ TasksCurrent'
    BY DEF OneWindow, TasksCurrent
<1>3. BatchCurrent'
    BY <1>1 DEF BatchCurrent, Current
<1>4. ClaimsOK'
    BY DEF Windows, ClaimsOK, Fresh
<1> QED
    BY <1>2, <1>3, <1>4 DEF Windows

\* The pass starts alone and each of its drains finds current rows.
LEMMA CronFindsWindows ==
    ASSUME ~Overlap, IInv, Windows, CronStart \/ CronAdvance
    PROVE  Windows'
<1>1. UNCHANGED <<rows, task, owed, old, claims>>
    BY DEF CronStart, CronAdvance, clockVars, historyVars
<1>2. \A h \in Handlers : task[h] = NoTask
    BY QuietMeans, CronAlone DEF CronStart, CronAdvance
<1>3. cron \in CronPass
    BY InvTypes
<1>4. CASE CronStart
    <2> DEFINE S == {n \in Messages : /\ rows[n].status = "failed"
                                      /\ ~Exhausted(rows[n])
                                      /\ n \notin old}
    <2>1. /\ cron'.phase = "failed"
          /\ cron'.batch = {[msg |-> m, copy |-> rows[m]] : m \in S}
        BY <1>4 DEF CronStart, Found
    <2>2. S \in SUBSET Messages /\ \A m \in S : rows[m].status = "failed" /\ m \notin old
        OBVIOUS
    <2> HIDE DEF S
    <2> QED
        BY <1>1, <1>2, <2>1, <2>2, FoundWindows
<1>5. CASE CronAdvance
    <2>1. cron.phase \in {"failed", "pending", "sending"}
        BY <1>3, <1>5 DEF CronAdvance, CronPass, CronPhase
    <2>2. CASE cron.phase = "failed"
        <3> DEFINE S == {n \in Messages : rows[n].status = "pending"}
        <3>1. /\ cron'.phase = "pending"
              /\ cron'.batch = {[msg |-> m, copy |-> rows[m]] : m \in S}
            BY <1>3, <1>5, <2>2 DEF CronAdvance, Found, CronPass
        <3>2. S \in SUBSET Messages /\ \A m \in S : rows[m].status = "pending"
            OBVIOUS
        <3> HIDE DEF S
        <3> QED
            BY <1>1, <1>2, <3>1, <3>2, FoundWindows
    <2>3. CASE cron.phase = "pending"
        <3> DEFINE S == {n \in Messages : Stuck(n)}
        <3>1. /\ cron'.phase = "sending"
              /\ cron'.batch = {[msg |-> m, copy |-> rows[m]] : m \in S}
            BY <1>3, <1>5, <2>3 DEF CronAdvance, Found, CronPass
        <3>2. S \in SUBSET Messages /\ \A m \in S : rows[m].status = "sending"
            BY DEF Stuck
        <3> HIDE DEF S
        <3> QED
            BY <1>1, <1>2, <3>1, <3>2, FoundWindows
    <2>4. CASE cron.phase = "sending"
        <3>1. cron'.phase = "idle" /\ cron'.batch = {}
            BY <1>5, <2>4 DEF CronAdvance, IdleCron
        <3>2. ClaimsOK'
            BY <1>1 DEF Windows, ClaimsOK, Fresh
        <3> QED
            BY <1>1, <1>2, <3>1, <3>2, LastSave
    <2> QED
        BY <2>1, <2>2, <2>3, <2>4
<1> QED
    BY <1>4, <1>5

\* A drain's save writes one row, and a row it queues again is at a new attempt.
LEMMA CronWorkWindows ==
    ASSUME IInv, Windows, NEW job \in cron.batch,
           RetryFailed(job) \/ RescuePending(job) \/ RescueSending(job)
    PROVE  Windows'
<1>1. PICK m : m = job.msg
    OBVIOUS
<1>2. /\ m \in Messages /\ job.copy \in Row /\ rows[m] \in Row
      /\ rows[m].retry = job.copy.retry /\ rows[m].status = job.copy.status
      /\ Current(job.copy, rows[m]) /\ job.copy.status = cron.phase
      /\ \A k \in cron.batch \ {job} : k.msg # m
      /\ cron \in CronPass
    BY <1>1, Entry DEF Windows, BatchCurrent, Current
<1>3. cron.phase # "idle"
    BY DEF RetryFailed, RescuePending, RescueSending
<1>4. \A h \in Handlers : task[h] = NoTask
    BY <1>3, CronAlone
<1>5. \A n \in Messages : claims[n] \in Nat /\ rows[n].retry \in Nat
    BY InvTypes, RowFields DEF IInv, TypeOK
<1>6. ASSUME NEW saved \in Row,
             \A n \in Messages : rows'[n] = IF n = m THEN saved ELSE rows[n],
             cron'.phase = cron.phase, cron'.batch = cron.batch \ {job},
             UNCHANGED <<task, old, claims>>,
             ClaimsOK'
      PROVE  Windows'
    <2>1. OneWindow' /\ TasksCurrent'
        BY <1>3, <1>4, <1>6 DEF OneWindow, TasksCurrent
    <2>2. \A k \in cron'.batch : k \in cron.batch /\ rows'[k.msg] = rows[k.msg]
        BY <1>2, <1>6, Entry
    <2>3. BatchCurrent'
        BY <1>6, <2>2 DEF Windows, BatchCurrent
    <2> QED
        BY <1>6, <2>1, <2>3 DEF Windows
<1>7. ASSUME NEW cache, Skip(job, cache)
      PROVE  Windows'
    <2>1. UNCHANGED <<rows, task, owed, old, claims>>
        BY <1>7 DEF Skip, clockVars, historyVars
    <2>2. cron'.phase = cron.phase /\ cron'.batch \subseteq cron.batch
        BY <1>2, <1>7 DEF Skip, CronPass
    <2>3. ClaimsOK'
        BY <2>1 DEF Windows, ClaimsOK, Fresh
    <2> QED
        BY <2>1, <2>2, <2>3, WindowsKept
<1>8. ASSUME NEW edited \in Row, NEW cache, SaveAssigned(job, edited, cache),
             edited.status = "assigned",
             \/ cron.phase = "pending" /\ edited.retry = job.copy.retry
             \/ cron.phase # "pending" /\ edited.retry = job.copy.retry + 1
      PROVE  Windows'
    <2>1. PICK saved \in Row :
             /\ saved = SaveChanged(rows[m], job.copy, edited)
             /\ saved.status = "assigned" /\ saved.retry = edited.retry
        BY <1>2, <1>8, SaveCurrent
    <2>2. /\ \A n \in Messages : rows'[n] = IF n = m THEN saved ELSE rows[n]
          /\ UNCHANGED <<task, old, claims>>
        BY <1>1, <1>8, <2>1 DEF SaveAssigned, historyVars, IInv, TypeOK
    <2>3. cron'.phase = cron.phase /\ cron'.batch = cron.batch \ {job}
        BY <1>2, <1>8 DEF SaveAssigned, CronPass
    <2>4. ClaimsOK'
        BY <1>2, <1>5, <1>8, <2>1, <2>2 DEF Windows, ClaimsOK, Fresh
    <2> QED
        BY <1>6, <2>2, <2>3, <2>4
<1>9. CASE SaveExpired(job)
    <2>1. PICK edited \in Row :
             /\ edited = MarkTerminal(job.copy, "failed", "temporary")
             /\ edited.status = "failed" /\ edited.retry = job.copy.retry
        BY <1>2, FailedTemporarily, MarkTerminalIsRow
    <2>2. PICK saved \in Row :
             /\ saved = SaveChanged(rows[m], job.copy, edited)
             /\ saved.status = "failed" /\ saved.retry = edited.retry
        BY <1>2, <2>1, SaveCurrent
    <2>3. /\ \A n \in Messages : rows'[n] = IF n = m THEN saved ELSE rows[n]
          /\ UNCHANGED <<task, old, claims>>
        BY <1>1, <1>9, <2>1, <2>2 DEF SaveExpired, historyVars, IInv, TypeOK
    <2>4. cron'.phase = cron.phase /\ cron'.batch = cron.batch \ {job}
        BY <1>2, <1>9 DEF SaveExpired, CronPass
    <2>5. ClaimsOK'
        BY <1>2, <1>5, <2>1, <2>2, <2>3 DEF Windows, ClaimsOK, Fresh
    <2> QED
        BY <1>6, <2>3, <2>4, <2>5
<1> QED
    BY <1>7, <1>8, <1>9, CronWrites

\* A refused save shortens the drain.
LEMMA CronSaveFailsWindows ==
    ASSUME IInv, Windows, NEW job \in cron.batch, CronSaveFails(job)
    PROVE  Windows'
<1>1. UNCHANGED <<rows, task, owed, old, claims>>
    BY DEF CronSaveFails, clockVars, historyVars
<1>2. cron'.phase = cron.phase /\ cron'.batch \subseteq cron.batch
    BY InvTypes DEF CronSaveFails, CronPass
<1>3. ClaimsOK'
    BY <1>1 DEF Windows, ClaimsOK, Fresh
<1> QED
    BY <1>1, <1>2, <1>3, WindowsKept

\* A message ages only while no window is open.
LEMMA TimeWindows ==
    ASSUME ~Overlap, IInv, Windows, TimeStep
    PROVE  Windows'
<1>1. PICK m \in Messages : GoesStale(m) \/ BackoffElapses(m) \/ Age(m)
    BY DEF TimeStep
<1>2. UNCHANGED <<rows, task, cron, owed, claims>>
    BY <1>1 DEF GoesStale, BackoffElapses, Age, historyVars
<1>3. ClaimsOK'
    BY <1>2 DEF Windows, ClaimsOK, Fresh
<1>4. CASE Age(m)
    BY <1>2, <1>3, <1>4, QuietMeans, LastSave DEF Age
<1>5. CASE GoesStale(m) \/ BackoffElapses(m)
    <2>1. old' = old
        BY <1>5 DEF GoesStale, BackoffElapses
    <2> QED
        BY <1>2, <1>3, <2>1, WindowsKept
<1> QED
    BY <1>1, <1>4, <1>5

\* A deleted device leaves the copies current, as Current says.
LEMMA DeviceWindows ==
    ASSUME IInv, Windows, DeviceStep
    PROVE  Windows'
<1>1. PICK d \in Devices : RegisterDevice(d) \/ DeleteDevice(d)
    BY DEF DeviceStep
<1>2. UNCHANGED <<task, cron, owed, old, claims>>
    BY <1>1 DEF RegisterDevice, DeleteDevice, clockVars, historyVars
<1>3. \A m \in Messages :
          \/ rows'[m] = rows[m]
          \/ rows[m].device \notin Aeum /\ rows'[m] = [rows[m] EXCEPT !.device = NoDevice]
    BY <1>1 DEF RegisterDevice, DeleteDevice, Physical
<1>4. \A m \in Messages :
          /\ rows'[m].status = rows[m].status /\ rows'[m].retry = rows[m].retry
          /\ rows'[m].err = rows[m].err
          /\ (rows'[m].sentAt <=> rows[m].sentAt)
          /\ (rows'[m].providerId <=> rows[m].providerId)
          /\ rows'[m].device = rows[m].device
                \/ (rows'[m].device = NoDevice /\ rows[m].device \notin Aeum)
    <2>1. SUFFICES ASSUME NEW m \in Messages
                   PROVE  /\ rows'[m].status = rows[m].status /\ rows'[m].retry = rows[m].retry
                          /\ rows'[m].err = rows[m].err
                          /\ (rows'[m].sentAt <=> rows[m].sentAt)
                          /\ (rows'[m].providerId <=> rows[m].providerId)
                          /\ rows'[m].device = rows[m].device
                                \/ (rows'[m].device = NoDevice /\ rows[m].device \notin Aeum)
        OBVIOUS
    <2>2. CASE rows'[m] = rows[m]
        BY <2>2
    <2>3. CASE rows[m].device \notin Aeum /\ rows'[m] = [rows[m] EXCEPT !.device = NoDevice]
        <3>1. PICK row \in Row : row = rows[m]
            BY InvTypes
        <3>2. rows'[m] = [row EXCEPT !.device = NoDevice] /\ row.device \notin Aeum
            BY <2>3, <3>1
        <3> QED
            BY <3>1, <3>2 DEF Row
    <2> QED
        BY <1>3, <2>2, <2>3
<1>5. ClaimsOK'
    BY <1>2, <1>4 DEF Windows, ClaimsOK, Fresh
<1>6. ASSUME NEW copy, NEW m \in Messages, Current(copy, rows[m])
      PROVE  Current(copy, rows'[m])
    BY <1>4, <1>6 DEF Current
<1>7. /\ \A h \in Handlers : task[h] # NoTask => task[h].msg \in Messages
      /\ \A j \in cron.batch : j.msg \in Messages
    BY InvTypes, Entry DEF Task
<1> QED
    BY <1>2, <1>5, <1>6, <1>7, WindowsKept

\* Every step of a system whose finds wait keeps the windows apart.
LEMMA NextWindows ==
    ASSUME ~Overlap, IInv, Windows, [Next]_vars
    PROVE  Windows'
<1>1. CASE Crash
    <2>1. /\ \A h \in Handlers : task'[h] = NoTask
          /\ cron'.phase = "idle" /\ cron'.batch = {} /\ UNCHANGED <<rows, claims>>
        BY <1>1 DEF Crash, IdleCron
    <2>2. ClaimsOK'
        BY <2>1 DEF Windows, ClaimsOK, Fresh
    <2> QED
        BY <2>1, <2>2, LastSave
<1>2. CASE UNCHANGED vars
    <2>1. UNCHANGED <<rows, task, cron, owed, old, claims>>
        BY <1>2 DEF vars
    <2>2. ClaimsOK'
        BY <2>1 DEF Windows, ClaimsOK, Fresh
    <2> QED
        BY <2>1, <2>2, WindowsKept
<1> QED
    BY <1>1, <1>2, SendWindows, DispatchWindows, ClaimWindows, ReportWindows,
       CommitWindows, ClosingWindows, CronFindsWindows, CronWorkWindows,
       CronSaveFailsWindows, TimeWindows, DeviceWindows
       DEF Next, CronStep, CronWork

\* The windows stay apart in every reachable state.
LEMMA WindowsInvariance == ASSUME ~Overlap PROVE Spec => [](IInv /\ Windows)
<1>1. IInv /\ Windows /\ [Next]_vars => IInv' /\ Windows'
    BY NextInv, NextWindows
<1>2. Init => IInv /\ Windows
    BY InitInv, InitWindows
<1> QED
    BY <1>1, <1>2, PTL DEF Spec

\* While no two find-to-save windows overlap, an attempt is claimed at most once,
\* for any number of messages, devices, handlers and retries: claims, reports,
\* failed tickles, crashes and the three drains of the cron included.
THEOREM ClaimedOnce == ASSUME ~Overlap PROVE Spec => []ClaimedOncePerAttempt
<1>1. IInv /\ Windows => ClaimedOncePerAttempt
    BY DEF Windows, ClaimsOK, ClaimedOncePerAttempt
<1> QED
    BY <1>1, WindowsInvariance, PTL

-----------------------------------------------------------------------------
(* ... and a tickle fails, if it does, before the agent takes the message      *)

\* markMessageFailed overwrites whatever the row holds when an FCM tickle fails.
\* What follows is about systems in which it finds the row as the dispatch left it:
\* still waiting for the agent, at the same attempt (LateTickles = FALSE).

\* What markMessageFailed found and is about to write
TicklesOK ==
    \A h \in Handlers : task[h] # NoTask /\ task[h].op = "tickleFailed" =>
        /\ task[h].loaded.status = "assigned" /\ task[h].loaded.device \notin Aeum
        /\ task[h].edited = [task[h].loaded EXCEPT !.status = "failed", !.err = "temporary"]

\* Only the AWS device gives a row its provider id, and only with sent_at; a row
\* that failed with one failed for good.
ProviderOK(m) ==
    /\ rows[m].providerId => /\ rows[m].device \in Aeum /\ rows[m].sentAt
                             /\ rows[m].status \in {"sent", "delivered", "failed"}
                             /\ rows[m].status # "failed" \/ IsPermanent(rows[m].err)
    /\ rows[m].status = "none" => ~rows[m].sentAt

\* A provider call in progress is on a row nobody else may touch.
CallsOK(m) ==
    \A j \in Jobs : j.msg = m /\ j.copy.device \in Aeum =>
        Current(j.copy, rows[m]) /\ j.copy.status = "assigned" /\ ~j.copy.providerId

\* A job of the row's attempt is for the AWS device if the row is.
DevicesOK(m) ==
    \A j \in Jobs : j.msg = m /\ j.copy.retry = rows[m].retry /\ rows[m].device \in Aeum =>
        j.copy.device \in Aeum

\* Neither a report nor the cron changes the message's mind any more.
Final(m) ==
    \/ rows[m].status = "delivered"
    \/ rows[m].status = "failed" /\ IsTerminalFailure(rows[m], rows[m].err, m \in old)

\* The reservation is given back once, and only for a message that is final and
\* was not sent.
RefundOK(m) ==
    /\ owed[m] + refunds[m] <= 1
    /\ owed[m] > 0 => ~rows[m].sentAt
    /\ owed[m] + refunds[m] > 0 /\ ~rows[m].sentAt => Final(m)

CalmRow(m) == ProviderOK(m) /\ CallsOK(m) /\ DevicesOK(m) /\ RefundOK(m)

Calm == TicklesOK /\ \A m \in Messages : CalmRow(m)

\* How a calm step may change a row: not at all but for its device, ...
Stays(m) == rows'[m].status = rows[m].status /\ (rows'[m].sentAt <=> rows[m].sentAt)

\* ... SendSMS creates it, ...
Starts(m) == /\ rows[m].status = "none" /\ rows'[m].status \in {"pending", "assigned"}
             /\ ~rows'[m].sentAt

\* ... the cron queues a message that is not final and that the provider never
\* accepted, ...
Requeues(m) == /\ rows'[m].status = "assigned" /\ (rows'[m].sentAt <=> rows[m].sentAt)
               /\ ~Final(m) /\ ~rows[m].providerId

\* ... or an agent or a provider takes it on, but for a confirmed delivery.
Settles(m) == /\ rows'[m].status \in Settlements
              /\ rows[m].sentAt => rows'[m].sentAt
              /\ rows[m].status # "delivered" \/ rows[m].providerId

Moves == /\ \A m \in Messages : Stays(m) \/ Starts(m) \/ Requeues(m) \/ Settles(m)
         /\ \A m, n \in Messages : \/ rows'[m].sentAt => rows[m].sentAt
                                   \/ rows'[n].sentAt => rows[n].sentAt
                                   \/ m = n

\* A step that saves one row
LEMMA OneSave ==
    ASSUME NEW m \in Messages, NEW saved,
           \A n \in Messages : rows'[n] = IF n = m THEN saved ELSE rows[n],
           Requeues(m) \/ Settles(m)
    PROVE  Moves
BY DEF Moves, Stays

\* What every calm step starts from
CInv == IInv /\ Books /\ Windows /\ Calm

\* The counters of a message are natural numbers.
LEMMA MessageTypes ==
    ASSUME IInv, NEW m \in Messages
    PROVE  /\ rows[m] \in Row /\ owed[m] \in Nat /\ refunds[m] \in Nat
           /\ rows[m].retry \in Nat /\ rows[m].device \in Devices \cup {NoDevice}
BY InvTypes, RowFields DEF IInv, TypeOK

\* An attempt keeps its device or loses it.
LEMMA SameDevice ==
    ASSUME Calm, NEW m \in Messages, rows'[m].retry = rows[m].retry,
           rows'[m].device \in {rows[m].device, NoDevice},
           \A j \in Jobs' : j \in Jobs \/ j.msg # m
    PROVE  DevicesOK(m)'
<1>1. NoDevice \notin Aeum
    BY ConstantsAssumption DEF ConstantsAssumption, Devices
<1> QED
    BY <1>1 DEF Calm, CalmRow, DevicesOK

\* A message whose row, credits and jobs stay the same, or that only ages or loses
\* jobs, stays calm.
LEMMA SameRow ==
    ASSUME IInv, Calm, NEW m \in Messages,
           rows'[m] = rows[m], owed'[m] = owed[m], refunds'[m] = refunds[m],
           m \in old => m \in old',
           \A j \in Jobs' : j \in Jobs \/ j.msg # m
    PROVE  CalmRow(m)'
<1>1. ProviderOK(m)'
    BY DEF Calm, CalmRow, ProviderOK
<1>2. CallsOK(m)'
    BY DEF Calm, CalmRow, CallsOK
<1>3. RefundOK(m)'
    BY DEF Calm, CalmRow, RefundOK, Final, IsTerminalFailure, Exhausted
<1> QED
    BY <1>1, <1>2, <1>3, SameDevice DEF CalmRow

\* A step that writes no row, gives nothing back and hands out no new job
LEMMA CalmKept ==
    ASSUME IInv, Calm, UNCHANGED <<rows, owed, refunds>>, old \subseteq old',
           Jobs' \subseteq Jobs, TicklesOK'
    PROVE  Calm'
BY SameRow DEF Calm

\* A step that writes one message
LEMMA CalmExcept ==
    ASSUME IInv, Calm, NEW m \in Messages, CalmRow(m)', TicklesOK',
           \A n \in Messages \ {m} :
              rows'[n] = rows[n] /\ owed'[n] = owed[n] /\ refunds'[n] = refunds[n],
           old' = old, \A j \in Jobs' : j \in Jobs \/ j.msg = m
    PROVE  Calm'
<1>1. ASSUME NEW n \in Messages, n # m
      PROVE  CalmRow(n)'
    BY <1>1, SameRow
<1> QED
    BY <1>1 DEF Calm

\* No message has a row, a job or a credit initially.
LEMMA InitCalm == Init => Calm
<1> SUFFICES ASSUME Init PROVE Calm
    OBVIOUS
<1>1. /\ NoRow.status = "none" /\ ~NoRow.sentAt /\ ~NoRow.providerId
    BY DEF NoRow
<1>2. Jobs = {} /\ TicklesOK
    BY DEF Init, IdleCron, Jobs, TicklesOK
<1>3. \A m \in Messages : rows[m] = NoRow /\ owed[m] = 0 /\ refunds[m] = 0
    BY DEF Init
<1>4. ASSUME NEW m \in Messages
      PROVE  CalmRow(m)
    BY <1>1, <1>2, <1>3 DEF CalmRow, ProviderOK, CallsOK, DevicesOK, RefundOK
<1> QED
    BY <1>2, <1>4 DEF Calm

\* A provider call in progress is the row's only one, and the row waits for it.
LEMMA OneCall ==
    ASSUME IInv, Calm, NEW job \in Jobs, job.copy.device \in Aeum, NEW m, m = job.msg
    PROVE  /\ m \in Messages /\ Current(job.copy, rows[m])
           /\ rows[m].status = "assigned" /\ rows[m].device = job.copy.device
           /\ ~job.copy.providerId
           /\ \A j \in Jobs \ {job} : ~(j.msg = m /\ j.copy.device \in Aeum)
<1>1. m \in Messages
    BY InvTypes, JobFields
<1>2. \A j \in Jobs : j.msg = m /\ j.copy.device \in Aeum =>
          Current(j.copy, rows[m]) /\ j.copy.status = "assigned" /\ ~j.copy.providerId
    BY <1>1 DEF Calm, CalmRow, CallsOK
<1>3. \A j \in Jobs : j.msg = m /\ j.copy.device \in Aeum => j.copy.retry = job.copy.retry
    BY <1>2 DEF Current
<1>4. \A j \in Jobs : j.msg = m /\ j.copy.device \in Aeum => j = job
    BY <1>3 DEF IInv, AttemptsOK
<1> QED
    BY <1>1, <1>2, <1>4 DEF Current

\* No provider call is in progress on a row that does not wait for one.
LEMMA NoCall ==
    ASSUME IInv, Calm, NEW m \in Messages,
           rows[m].status # "assigned" \/ rows[m].device \notin Aeum \/ rows[m].providerId
    PROVE  \A j \in Jobs : ~(j.msg = m /\ j.copy.device \in Aeum)
BY DEF Calm, CalmRow, CallsOK, Current

\* A row whose message is not final was given nothing back unless it was sent.
LEMMA NotFinal ==
    ASSUME IInv, Calm, NEW m \in Messages, ~Final(m)
    PROVE  /\ owed[m] = 0
           /\ rows[m].sentAt \/ refunds[m] = 0
           /\ refunds[m] <= 1
BY MessageTypes DEF Calm, CalmRow, RefundOK

\* A save is refused, a tickle arrives or time passes: no row changes.
LEMMA QuietSteps ==
    ASSUME IInv, Calm,
           \/ \E batch \in SUBSET Messages :
                 Reserve(batch) \/ CreateFails(batch) \/ CreateFailsUnreleased(batch)
           \/ \E job \in dispatches : ProviderSaveFails(job) \/ TickleSent(job)
           \/ \E h \in Handlers : SaveFails(h)
           \/ CronStart \/ CronAdvance
           \/ \E job \in cron.batch : CronSaveFails(job) \/ \E cache : Skip(job, cache)
           \/ TimeStep
           \/ \E d \in Devices : RegisterDevice(d)
    PROVE  Calm'
<1>1. UNCHANGED <<rows, owed, refunds>>
    BY DEF Reserve, CreateFails, CreateFailsUnreleased, ProviderSaveFails, TickleSent,
           SaveFails, CronStart,
           CronAdvance, CronSaveFails, Skip, TimeStep, GoesStale, BackoffElapses, Age,
           RegisterDevice, historyVars
<1>2. old \subseteq old'
    BY DEF Reserve, CreateFails, CreateFailsUnreleased, ProviderSaveFails, TickleSent,
           SaveFails, CronStart,
           CronAdvance, CronSaveFails, Skip, TimeStep, GoesStale, BackoffElapses, Age,
           RegisterDevice, clockVars
<1>3. \A h \in Handlers : task'[h] \in {task[h], NoTask}
    BY DEF Reserve, CreateFails, CreateFailsUnreleased, ProviderSaveFails, TickleSent,
           SaveFails, CronStart,
           CronAdvance, CronSaveFails, Skip, TimeStep, GoesStale, BackoffElapses, Age,
           RegisterDevice, IInv, TypeOK
<1>4. TicklesOK'
    BY <1>3 DEF Calm, TicklesOK
<1>5. Jobs' \subseteq Jobs
    <2>1. cron \in CronPass
        BY InvTypes
    <2>2. CASE CronStart
        BY <2>2 DEF CronStart, Jobs
    <2>3. CASE CronAdvance
        <3>1. cron.phase \in {"failed", "pending", "sending"}
            BY <2>1, <2>3 DEF CronAdvance, CronPass, CronPhase
        <3>2. CASE cron.phase = "failed"
            BY <2>1, <2>3, <3>2 DEF CronAdvance, CronPass, Jobs
        <3>3. CASE cron.phase = "pending"
            BY <2>1, <2>3, <3>3 DEF CronAdvance, CronPass, Jobs
        <3>4. CASE cron.phase = "sending"
            <4>1. /\ cron' = IdleCron
                  /\ dispatches' = dispatches \cup Dispatchable(cron.requeued)
                BY <2>3, <3>4 DEF CronAdvance
            <4>2. Dispatchable(cron.requeued) \subseteq cron.requeued
                BY DEF Dispatchable
            <4> QED
                BY <4>1, <4>2 DEF IdleCron, Jobs
        <3> QED
            BY <3>1, <3>2, <3>3, <3>4
    <2>4. ASSUME NEW job \in cron.batch, CronSaveFails(job) \/ \E cache : Skip(job, cache)
          PROVE  Jobs' = Jobs
        BY <2>1, <2>4 DEF CronSaveFails, Skip, CronPass, Jobs
    <2> QED
        BY <2>2, <2>3, <2>4 DEF Reserve, CreateFails, CreateFailsUnreleased, ProviderSaveFails,
           TickleSent, SaveFails, TimeStep, GoesStale, BackoffElapses, Age, RegisterDevice, Jobs
<1> QED
    BY <1>1, <1>2, <1>4, <1>5, CalmKept

\* A handler finds a row, and no tickle has failed.
LEMMA FindsCalm ==
    ASSUME IInv, Calm, AgentClaims \/ ReportStep
    PROVE  Calm'
<1>1. UNCHANGED <<rows, owed, refunds, old, dispatches, cron>>
    BY ZenonT(40) DEF AgentClaims, Claim, ReportStep, Ack, AeumEvent, BeginTerminal, clockVars,
                 historyVars
<1>2. PICK h, t : h \in Handlers /\ t.op # "tickleFailed" /\ task' = [task EXCEPT ![h] = t]
    <2>1. ASSUME NEW h \in Handlers, NEW d \in Devices, NEW m \in Messages, Claim(h, d, m)
          PROVE  \E t : t.op # "tickleFailed" /\ task' = [task EXCEPT ![h] = t]
        <3>1. \E t : t.op = "claim" /\ task' = [task EXCEPT ![h] = t]
            BY <2>1 DEF Claim
        <3> QED
            BY <3>1
    <2>2. ASSUME NEW h \in Handlers, NEW m \in Messages, NEW status, NEW err,
                 BeginTerminal(h, m, status, err)
          PROVE  \E t : t.op # "tickleFailed" /\ task' = [task EXCEPT ![h] = t]
        <3>1. \E t : t.op = "terminal" /\ task' = [task EXCEPT ![h] = t]
            BY <2>2 DEF BeginTerminal
        <3> QED
            BY <3>1
    <2>3. ASSUME ReportStep
          PROVE  \E h \in Handlers, m \in Messages : \E status, err : BeginTerminal(h, m, status, err)
        BY <2>3, Zenon DEF ReportStep, Ack, AeumEvent
    <2> QED
        BY <2>1, <2>2, <2>3 DEF AgentClaims
<1>3. TicklesOK'
    BY <1>2 DEF Calm, TicklesOK, IInv, TypeOK
<1> QED
    BY <1>1, <1>3, CalmKept DEF Jobs

\* A crash forgets what was owed.
LEMMA CrashCalm ==
    ASSUME IInv, Calm, Crash
    PROVE  Calm'
<1>1. /\ UNCHANGED <<rows, refunds, old>> /\ Jobs' = {}
      /\ \A h \in Handlers : task'[h] = NoTask
      /\ \A m \in Messages : owed'[m] = 0
    BY DEF Crash, clockVars, IdleCron, Jobs
<1>2. ASSUME NEW m \in Messages
      PROVE  CalmRow(m)'
    <2>1. ProviderOK(m)' /\ CallsOK(m)' /\ DevicesOK(m)'
        BY <1>1 DEF Calm, CalmRow, ProviderOK, CallsOK, DevicesOK
    <2>2. RefundOK(m)'
        BY <1>1, MessageTypes
           DEF Calm, CalmRow, RefundOK, Final, IsTerminalFailure, Exhausted
    <2> QED
        BY <2>1, <2>2 DEF CalmRow
<1> QED
    BY <1>1, <1>2 DEF Calm, TicklesOK

\* releaseQuota turns what is owed into a refund.
LEMMA ReleaseCalm ==
    ASSUME IInv, Calm, NEW m \in Messages, Release(m)
    PROVE  Calm'
<1>1. UNCHANGED <<rows, old, task, dispatches, cron>>
    BY DEF Release, clockVars
<1>2. /\ \A n \in Messages : owed'[n] = IF n = m THEN owed[n] - 1 ELSE owed[n]
      /\ \A n \in Messages : refunds'[n] = IF n = m THEN refunds[n] + 1 ELSE refunds[n]
      /\ owed[m] > 0
    BY DEF Release, IInv, TypeOK
<1>3. ProviderOK(m)' /\ CallsOK(m)' /\ DevicesOK(m)'
    BY <1>1 DEF Calm, CalmRow, ProviderOK, CallsOK, DevicesOK, Jobs
<1>4. RefundOK(m)'
    <2>1. owed[m] \in Nat /\ refunds[m] \in Nat /\ RefundOK(m)
        BY MessageTypes DEF Calm, CalmRow
    <2>2. Final(m) => Final(m)'
        BY <1>1 DEF Final
    <2>3. owed'[m] = owed[m] - 1 /\ refunds'[m] = refunds[m] + 1
        BY <1>2
    <2>4. (rows'[m].sentAt <=> rows[m].sentAt)
        BY <1>1
    <2>5. owed'[m] + refunds'[m] = owed[m] + refunds[m] /\ owed'[m] = 0
        BY <1>2, <2>1, <2>3 DEF RefundOK
    <2> QED
        BY <1>2, <2>1, <2>2, <2>4, <2>5 DEF RefundOK
<1>5. TicklesOK'
    BY <1>1 DEF Calm, TicklesOK
<1> QED
    BY <1>1, <1>2, <1>3, <1>4, <1>5, CalmExcept DEF CalmRow, Jobs

\* A release that fails forgets it.
LEMMA ReleaseFailsCalm ==
    ASSUME IInv, Calm, NEW m \in Messages, ReleaseFails(m)
    PROVE  Calm'
<1>1. UNCHANGED <<rows, refunds, old, task, dispatches, cron>>
    BY DEF ReleaseFails, clockVars, historyVars
<1>2. /\ \A n \in Messages : owed'[n] = IF n = m THEN owed[n] - 1 ELSE owed[n]
      /\ owed[m] > 0
    BY DEF ReleaseFails, IInv, TypeOK
<1>3. ProviderOK(m)' /\ CallsOK(m)' /\ DevicesOK(m)'
    BY <1>1 DEF Calm, CalmRow, ProviderOK, CallsOK, DevicesOK, Jobs
<1>4. RefundOK(m)'
    <2>1. owed[m] \in Nat /\ refunds[m] \in Nat /\ RefundOK(m)
        BY MessageTypes DEF Calm, CalmRow
    <2>2. /\ Final(m) => Final(m)'
          /\ owed'[m] = owed[m] - 1 /\ refunds'[m] = refunds[m]
          /\ (rows'[m].sentAt <=> rows[m].sentAt)
        BY <1>1, <1>2 DEF Final
    <2> QED
        BY <1>2, <2>1, <2>2 DEF RefundOK
<1>5. TicklesOK'
    BY <1>1 DEF Calm, TicklesOK
<1> QED
    BY <1>1, <1>2, <1>3, <1>4, <1>5, CalmExcept DEF CalmRow, Jobs

\* SendSMS creates messages that nothing was given back for.
LEMMA CreateMessagesCalm ==
    ASSUME IInv, Books, Calm, NEW batch \in SUBSET Messages, CreateMessages(batch)
    PROVE  Calm'
<1>1. PICK targets \in SendTargets :
      \E pick \in [batch -> IF targets = {} THEN {NoDevice} ELSE targets] :
          LET jobs == {[msg |-> m, copy |-> NewRow(pick[m])] : m \in batch}
          IN  /\ rows' = [m \in Messages |->
                             IF m \in batch THEN NewRow(pick[m]) ELSE rows[m]]
              /\ dispatches' = dispatches \cup Dispatchable(jobs)
    BY DEF CreateMessages
<1>2. PICK pick \in [batch -> IF targets = {} THEN {NoDevice} ELSE targets] :
          LET jobs == {[msg |-> m, copy |-> NewRow(pick[m])] : m \in batch}
          IN  /\ rows' = [m \in Messages |->
                             IF m \in batch THEN NewRow(pick[m]) ELSE rows[m]]
              /\ dispatches' = dispatches \cup Dispatchable(jobs)
    BY <1>1
<1>3. /\ UNCHANGED <<task, owed, refunds, cron, old>>
      /\ \A m \in batch : rows[m].status = "none"
    BY DEF CreateMessages, clockVars, historyVars, IInv, RequestsOK
<1>4. \A j \in Jobs' : \/ j \in Jobs
                       \/ j.msg \in batch /\ j.copy = NewRow(pick[j.msg])
                                /\ j.copy.device \in Devices
    BY <1>2, <1>3 DEF Dispatchable, Registered, Jobs
<1>5. \A m \in batch : pick[m] \in Devices \cup {NoDevice}
    BY <1>1, <1>2 DEF SendTargets, AutoTargets, Physical, Registered
<1>6. TicklesOK'
    BY <1>3 DEF Calm, TicklesOK
<1>7. ASSUME NEW m \in batch
      PROVE  CalmRow(m)'
    <2>1. PICK row \in Row : row = NewRow(pick[m])
        BY <1>5, NewRowIsRow
    <2>2. /\ row.device = pick[m] /\ ~row.providerId
          /\ row.status = IF pick[m] = NoDevice THEN "pending" ELSE "assigned"
        BY <1>5, <2>1, NewRowIsRow
    <2>3. rows'[m] = row /\ \A j \in Jobs : j.msg # m
        BY <1>2, <1>3, <2>1 DEF IInv, FreshOK, Fresh
    <2>4. owed'[m] = 0 /\ refunds'[m] = 0
        BY <1>3, MessageTypes DEF Books, RefundsOK, Created
    <2>5. ProviderOK(m)' /\ RefundOK(m)'
        BY <2>2, <2>3, <2>4 DEF ProviderOK, RefundOK
    <2>6. CallsOK(m)'
        <3> SUFFICES ASSUME NEW j \in Jobs', j.msg = m
                     PROVE  Current(j.copy, rows'[m]) /\ j.copy.status = "assigned"
                            /\ ~j.copy.providerId
            BY DEF CallsOK
        <3>1. j.copy = row /\ j.copy.device \in Devices
            BY <1>4, <2>1, <2>3
        <3>2. pick[m] # NoDevice
            BY <2>2, <3>1, ConstantsAssumption DEF ConstantsAssumption
        <3> QED
            BY <2>2, <2>3, <3>1, <3>2 DEF Current
    <2>7. DevicesOK(m)'
        BY <1>4, <2>1, <2>3 DEF DevicesOK
    <2> QED
        BY <2>5, <2>6, <2>7 DEF CalmRow
<1>8. ASSUME NEW m \in Messages \ batch
      PROVE  CalmRow(m)'
    BY <1>2, <1>3, <1>4, SameRow
<1> QED
    BY <1>6, <1>7, <1>8 DEF Calm

\* Deleting a device leaves every provider call its row.
LEMMA DeleteDeviceCalm ==
    ASSUME IInv, Calm, NEW d \in Devices, DeleteDevice(d)
    PROVE  Calm'
<1>1. /\ UNCHANGED <<task, owed, refunds, old, dispatches, cron>> /\ d \notin Aeum
      /\ rows' = [m \in Messages |-> IF rows[m].device = d
                                     THEN [rows[m] EXCEPT !.device = NoDevice] ELSE rows[m]]
    BY DEF DeleteDevice, historyVars, Physical
<1>2. ASSUME NEW m \in Messages
      PROVE  CalmRow(m)'
    <2>1. CASE rows[m].device # d
        BY <1>1, <2>1, SameRow DEF Jobs
    <2>2. CASE rows[m].device = d
        <3>1. rows'[m] = [rows[m] EXCEPT !.device = NoDevice] /\ rows[m].device \notin Aeum
            BY <1>1, <2>2
        <3>2. /\ rows'[m].status = rows[m].status /\ rows'[m].retry = rows[m].retry
              /\ rows'[m].err = rows[m].err /\ (rows'[m].sentAt <=> rows[m].sentAt)
              /\ (rows'[m].providerId <=> rows[m].providerId)
            BY <3>1, MessageTypes DEF Row
        <3>3. /\ ~rows[m].providerId
              /\ rows[m].status = "none" => ~rows[m].sentAt
            BY <3>1 DEF Calm, CalmRow, ProviderOK
        <3>4. ProviderOK(m)'
            BY <3>2, <3>3 DEF ProviderOK
        <3>5. CallsOK(m)'
            BY <1>1, <3>1, NoCall DEF CallsOK, Jobs
        <3>6. RefundOK(m) /\ (Final(m)' <=> Final(m))
            BY <1>1, <3>2 DEF Calm, CalmRow, Final, IsTerminalFailure, Exhausted
        <3>7. RefundOK(m)'
            BY <1>1, <3>2, <3>6 DEF RefundOK
        <3>8. DevicesOK(m)'
            <4>1. rows'[m].device = NoDevice
                BY <3>1, MessageTypes DEF Row
            <4> QED
                BY <1>1, <3>2, <4>1, SameDevice DEF Jobs
        <3> QED
            BY <3>4, <3>5, <3>7, <3>8 DEF CalmRow
    <2> QED
        BY <2>1, <2>2
<1> QED
    BY <1>1, <1>2 DEF Calm, TicklesOK

\* The provider's answer is saved on the row that waited for it.
LEMMA ProviderReturnsCalm ==
    ASSUME IInv, Calm, NEW job \in dispatches, ProviderReturns(job)
    PROVE  Calm' /\ Moves
<1>1. PICK m : m = job.msg
    OBVIOUS
<1>2. /\ job \in Job /\ job \in Jobs /\ job.copy \in Row /\ job.copy.device \in Aeum
      /\ Jobs' \subseteq Jobs /\ job \notin Jobs'
    BY JobTaken, JobFields DEF ProviderReturns
<1>3. /\ m \in Messages /\ Current(job.copy, rows[m]) /\ ~job.copy.providerId
      /\ rows[m].status = "assigned" /\ rows[m].device = job.copy.device
      /\ \A j \in Jobs \ {job} : ~(j.msg = m /\ j.copy.device \in Aeum)
    BY <1>1, <1>2, OneCall
<1>4. PICK edited \in Row :
         /\ rows' = [rows EXCEPT ![m] = SaveChanged(@, job.copy, edited)]
         /\ edited.retry = job.copy.retry /\ edited.device = job.copy.device
         /\ \/ /\ edited.status = "sent" /\ edited.sentAt /\ owed' = owed
            \/ /\ edited.status = "failed" /\ (edited.sentAt <=> job.copy.sentAt)
               /\ edited.providerId => job.copy.providerId
               /\ \/ owed' = owed
                  \/ /\ Refunds(job.copy, "failed", edited.err, m \in old)
                     /\ owed' = [owed EXCEPT ![m] = @ + 1]
    BY <1>1, <1>2, ProviderWrites
<1>5. PICK saved \in Row :
         /\ saved = SaveChanged(rows[m], job.copy, edited)
         /\ saved.status = edited.status /\ saved.retry = edited.retry /\ saved.err = edited.err
         /\ (saved.sentAt <=> edited.sentAt) /\ (saved.providerId <=> edited.providerId)
         /\ saved.device = rows[m].device
    BY <1>2, <1>3, <1>4, MessageTypes, SaveCurrent
<1>6. /\ \A n \in Messages : rows'[n] = IF n = m THEN saved ELSE rows[n]
      /\ \A n \in Messages \ {m} : owed'[n] = owed[n]
      /\ UNCHANGED <<refunds, old, task>>
    BY <1>4, <1>5 DEF ProviderReturns, IInv, TypeOK
<1>7. /\ owed[m] = 0 /\ (rows[m].sentAt \/ refunds[m] = 0)
      /\ refunds[m] <= 1 /\ refunds[m] \in Nat
    <2>1. ~Final(m)
        BY <1>3 DEF Final
    <2> QED
        BY <1>3, <2>1, NotFinal, MessageTypes
<1>8. ProviderOK(m)'
    BY <1>2, <1>3, <1>4, <1>5, <1>6 DEF ProviderOK
<1>9. CallsOK(m)'
    BY <1>2, <1>3 DEF CallsOK
<1>10. RefundOK(m)'
    <2>1. (rows[m].sentAt <=> job.copy.sentAt)
        BY <1>3 DEF Current
    <2>2. CASE owed' = owed
        <3>1. saved.sentAt \/ refunds[m] = 0
            BY <1>4, <1>5, <1>7, <2>1
        <3>2. owed'[m] = 0 /\ refunds'[m] = refunds[m] /\ rows'[m] = saved
            BY <1>3, <1>6, <1>7, <2>2
        <3> QED
            BY <1>7, <3>1, <3>2 DEF RefundOK
    <2>3. CASE /\ edited.status = "failed" /\ (edited.sentAt <=> job.copy.sentAt)
               /\ Refunds(job.copy, "failed", edited.err, m \in old)
               /\ owed' = [owed EXCEPT ![m] = @ + 1]
        <3>1. owed'[m] = 1
            BY <1>3, <1>7, <2>3 DEF IInv, TypeOK
        <3>2. refunds'[m] = 0
            BY <1>6, <1>7, <2>1, <2>3 DEF Refunds
        <3>3. ~rows'[m].sentAt
            BY <1>3, <1>5, <1>6, <2>3 DEF Refunds
        <3>4. Final(m)'
            BY <1>3, <1>4, <1>5, <1>6, <2>3
               DEF Final, Refunds, IsTerminalFailure, Exhausted
        <3> QED
            BY <3>1, <3>2, <3>3, <3>4 DEF RefundOK
    <2> QED
        BY <1>4, <2>2, <2>3
<1>11. TicklesOK'
    BY <1>6 DEF Calm, TicklesOK
<1>12. DevicesOK(m)'
    BY <1>2, <1>3, <1>4, <1>5, <1>6, SameDevice DEF Current
<1>13. Calm'
    BY <1>2, <1>3, <1>6, <1>8, <1>9, <1>10, <1>11, <1>12, CalmExcept DEF CalmRow
<1>14. Settles(m)
    BY <1>3, <1>4, <1>5, <1>6 DEF Settles, Settlements, Current
<1> QED
    BY <1>3, <1>6, <1>13, <1>14, OneSave

\* A claim, or a tickle that failed in time, takes a row no provider call is for.
LEMMA TakenCalm ==
    ASSUME IInv, Calm, NEW m \in Messages, NEW saved \in Row,
           rows[m].status = "assigned", rows[m].device \notin Aeum,
           saved.status = "sending" \/ (saved.status = "failed" /\ owed[m] = 0),
           saved.device = rows[m].device, saved.retry = rows[m].retry,
           saved.sentAt <=> rows[m].sentAt, saved.providerId <=> rows[m].providerId,
           rows'[m] = saved, owed'[m] = owed[m], refunds'[m] = refunds[m], Jobs' = Jobs
    PROVE  CalmRow(m)'
<1>1. ~rows[m].providerId /\ ~Final(m)
    BY DEF Calm, CalmRow, ProviderOK, Final
<1>2. ProviderOK(m)' /\ CallsOK(m)'
    BY <1>1, NoCall DEF ProviderOK, CallsOK
<1>3. saved.sentAt \/ refunds[m] = 0
    BY <1>1, NotFinal
<1>4. RefundOK(m)'
    BY <1>1, <1>3, NotFinal, MessageTypes DEF RefundOK
<1> QED
    BY <1>2, <1>4, SameDevice DEF CalmRow

\* A report or an event that gives nothing back
LEMMA ReportCalm ==
    ASSUME IInv, Calm, NEW m \in Messages, NEW saved \in Row,
           owed[m] = 0, rows[m].status # saved.status,
           saved.status \in {"sent", "delivered", "failed"},
           saved.device = rows[m].device, saved.retry = rows[m].retry,
           saved.providerId <=> rows[m].providerId,
           saved.sentAt <=> (rows[m].sentAt \/ saved.status = "sent"),
           \/ rows[m].providerId /\ (saved.status = "failed" => IsPermanent(saved.err))
           \/ rows[m].device \notin Aeum /\ rows[m].status # "delivered",
           rows'[m] = saved, owed'[m] = owed[m], refunds'[m] = refunds[m], Jobs' = Jobs
    PROVE  CalmRow(m)'
<1>1. ProviderOK(m)
    BY DEF Calm, CalmRow
<1>2. ProviderOK(m)'
    BY <1>1 DEF ProviderOK
<1>3. CallsOK(m)'
    BY NoCall DEF CallsOK
<1>4. /\ refunds[m] <= 1 /\ refunds[m] \in Nat
      /\ ~(owed'[m] > 0) /\ owed'[m] + refunds'[m] <= 1
      /\ owed'[m] + refunds'[m] > 0 => refunds[m] > 0
    BY MessageTypes DEF Calm, CalmRow, RefundOK
<1>5. ASSUME ~saved.sentAt, refunds[m] > 0
      PROVE  Final(m)'
    <2>1. ~rows[m].sentAt /\ ~rows[m].providerId /\ rows[m].status # "delivered"
        BY <1>1, <1>5 DEF ProviderOK
    <2>2. Final(m)
        BY <2>1, <1>4, <1>5 DEF Calm, CalmRow, RefundOK
    <2> QED
        BY <1>5, <2>1, <2>2 DEF Final
<1>6. RefundOK(m)'
    BY <1>4, <1>5 DEF RefundOK
<1> QED
    BY <1>2, <1>3, <1>6, SameDevice DEF CalmRow

\* A save that fails a message for good before it was sent owes its credit back.
LEMMA GivenUpCalm ==
    ASSUME IInv, Calm, NEW m \in Messages, NEW saved \in Row, ~Final(m), ~rows[m].providerId,
           saved.status = "failed", ~saved.sentAt, ~rows[m].sentAt,
           saved.providerId <=> rows[m].providerId,
           saved.device = rows[m].device, saved.retry = rows[m].retry,
           IsTerminalFailure(saved, saved.err, m \in old), old' = old,
           rows[m].status # "assigned" \/ rows[m].device \notin Aeum,
           rows'[m] = saved, owed'[m] = owed[m] + 1, refunds'[m] = refunds[m], Jobs' = Jobs
    PROVE  CalmRow(m)'
<1>1. owed'[m] = 1 /\ refunds'[m] = 0
    BY NotFinal
<1>2. ProviderOK(m)' /\ CallsOK(m)'
    BY NoCall DEF ProviderOK, CallsOK
<1>3. Final(m)'
    BY DEF Final, IsTerminalFailure, Exhausted
<1> QED
    BY <1>1, <1>2, <1>3, SameDevice DEF RefundOK, CalmRow

\* A handler's save
LEMMA CommitCalm ==
    ASSUME IInv, Windows, Calm, NEW h \in Handlers, Commit(h)
    PROVE  Calm' /\ Moves
<1>1. PICK t : t = task[h]
    OBVIOUS
<1>2. PICK m : m = t.msg
    OBVIOUS
<1>3. /\ t \in Task /\ m \in Messages /\ rows[m] \in Row
      /\ t.loaded \in Row /\ t.edited \in Row
      /\ Current(t.loaded, rows[m]) /\ TaskEdit(t)
      /\ t.op = "tickleFailed" =>
            /\ t.loaded.status = "assigned" /\ t.loaded.device \notin Aeum
            /\ t.edited = [t.loaded EXCEPT !.status = "failed", !.err = "temporary"]
      /\ \A n \in Messages : owed[n] = 0
    BY <1>1, <1>2, InvTypes DEF Commit, Task, Windows, OneWindow, TasksCurrent, Calm,
                                TicklesOK
<1>4. PICK saved \in Row :
         /\ saved = SaveChanged(rows[m], t.loaded, t.edited)
         /\ saved.status = t.edited.status /\ saved.retry = t.edited.retry
         /\ saved.err = t.edited.err
         /\ (saved.sentAt <=> t.edited.sentAt) /\ (saved.providerId <=> t.edited.providerId)
         /\ saved.device = IF t.edited.device = t.loaded.device
                           THEN rows[m].device ELSE t.edited.device
    BY <1>3, SaveCurrent
<1>5. /\ \A n \in Messages : rows'[n] = IF n = m THEN saved ELSE rows[n]
      /\ owed' = IF t.op = "terminal" /\ Refunds(t.loaded, t.edited.status, t.err, m \in old)
                 THEN [owed EXCEPT ![m] = @ + 1] ELSE owed
      /\ task' = [task EXCEPT ![h] = NoTask]
      /\ UNCHANGED <<refunds, old, dispatches, cron>>
    BY <1>1, <1>2, <1>3, <1>4 DEF Commit, IInv, TypeOK
<1>6. /\ \A n \in Messages \ {m} : owed'[n] = owed[n]
      /\ TicklesOK' /\ Jobs' = Jobs
    BY <1>5 DEF Calm, TicklesOK, Jobs, IInv, TypeOK
<1>7. /\ rows[m].status = t.loaded.status /\ rows[m].retry = t.loaded.retry
      /\ (rows[m].sentAt <=> t.loaded.sentAt) /\ (rows[m].providerId <=> t.loaded.providerId)
      /\ t.loaded.device \notin Aeum => rows[m].device \notin Aeum
    BY <1>3, ConstantsAssumption DEF Current, ConstantsAssumption, Devices
<1>8. CASE t.op = "claim" \/ t.op = "tickleFailed"
    <2>1. /\ t.loaded.status = "assigned" /\ t.loaded.device \notin Aeum
          /\ \/ t.edited = [t.loaded EXCEPT !.status = "sending"]
             \/ t.edited = [t.loaded EXCEPT !.status = "failed", !.err = "temporary"]
        BY <1>3, <1>8 DEF TaskEdit
    <2>2. /\ t.edited.status \in {"sending", "failed"} /\ t.edited.device = t.loaded.device
          /\ t.edited.retry = t.loaded.retry
          /\ (t.edited.sentAt <=> t.loaded.sentAt)
          /\ (t.edited.providerId <=> t.loaded.providerId)
        <3>1. PICK copy \in Row : copy = t.loaded
            BY <1>3
        <3>2. \A e : e \in {[copy EXCEPT !.status = "sending"],
                          [copy EXCEPT !.status = "failed", !.err = "temporary"]} =>
                 /\ e.status \in {"sending", "failed"} /\ e.device = copy.device
                 /\ e.retry = copy.retry
                 /\ (e.sentAt <=> copy.sentAt) /\ (e.providerId <=> copy.providerId)
            BY DEF Row
        <3> QED
            BY <2>1, <3>1, <3>2
    <2>3. rows'[m] = saved /\ owed'[m] = owed[m] /\ refunds'[m] = refunds[m] /\ owed[m] = 0
        BY <1>3, <1>5, <1>8
    <2>4. CalmRow(m)'
        BY <1>3, <1>4, <1>6, <1>7, <2>1, <2>2, <2>3, TakenCalm
    <2>5. Settles(m)
        BY <1>4, <1>7, <2>1, <2>2, <2>3 DEF Settles, Settlements
    <2> QED
        BY <1>3, <1>5, <1>6, <2>4, <2>5, CalmExcept, OneSave
<1>9. CASE t.op = "terminal"
    <2>1. /\ t.edited = MarkTerminal(t.loaded, t.edited.status, t.err)
          /\ t.edited.status \in {"sent", "delivered", "failed"}
          /\ t.loaded.status # t.edited.status
          /\ \/ t.loaded.providerId /\ (t.edited.status = "failed" => IsPermanent(t.err))
             \/ t.loaded.device \notin Aeum /\ t.loaded.status # "delivered"
        BY <1>3, <1>9 DEF TaskEdit
    <2>2. PICK status \in Status, err \in Errors : status = t.edited.status /\ err = t.err
        BY <1>3 DEF Task, Row
    <2>3. /\ t.edited.device = t.loaded.device /\ t.edited.retry = t.loaded.retry
          /\ (t.edited.providerId <=> t.loaded.providerId)
          /\ (t.edited.sentAt <=> (t.loaded.sentAt \/ t.edited.status = "sent"))
          /\ t.err \in {"temporary", "permanent"} => t.edited.err = t.err
        BY <1>3, <2>1, <2>2, MarkTerminalIsRow
    <2>4. IsPermanent(t.err) => IsPermanent(t.edited.err)
        BY <2>3 DEF IsPermanent
    <2>5. Moves
        <3>1. Settles(m)
            BY <1>3, <1>4, <1>5, <1>7, <2>1, <2>3 DEF Settles, Settlements
        <3> QED
            BY <1>3, <1>5, <3>1, OneSave
    <2>6. CASE Refunds(t.loaded, t.edited.status, t.err, m \in old)
        <3>1. /\ t.edited.status = "failed" /\ ~t.loaded.sentAt
              /\ IsTerminalFailure(t.loaded, t.err, m \in old)
            BY <2>6 DEF Refunds
        <3>2. IsTerminalFailure(saved, saved.err, m \in old)
            BY <1>4, <2>3, <2>4, <3>1 DEF IsTerminalFailure, Exhausted
        <3>3. ~rows[m].providerId /\ rows[m].device \notin Aeum /\ rows[m].status # "delivered"
            BY <1>3, <1>7, <2>1, <3>1 DEF Calm, CalmRow, ProviderOK
        <3>4. ~Final(m)
            BY <1>7, <2>1, <3>1, <3>3 DEF Final
        <3>5. rows'[m] = saved /\ owed'[m] = owed[m] + 1 /\ refunds'[m] = refunds[m]
            BY <1>3, <1>5, <1>9, <2>6 DEF IInv, TypeOK
        <3>6. ~saved.sentAt /\ ~rows[m].sentAt /\ (saved.providerId <=> rows[m].providerId)
            BY <1>4, <1>7, <2>3, <3>1
        <3>7. CalmRow(m)'
            BY <1>3, <1>4, <1>5, <1>6, <1>7, <2>3, <3>1, <3>2, <3>3, <3>4, <3>5, <3>6, GivenUpCalm
        <3> QED
            BY <1>3, <1>5, <1>6, <2>5, <3>7, CalmExcept
    <2>7. CASE ~Refunds(t.loaded, t.edited.status, t.err, m \in old)
        <3>1. rows'[m] = saved /\ owed'[m] = owed[m] /\ refunds'[m] = refunds[m]
            BY <1>3, <1>5, <1>9, <2>7
        <3>2. /\ rows[m].status # saved.status /\ saved.device = rows[m].device
              /\ saved.retry = rows[m].retry
              /\ (saved.providerId <=> rows[m].providerId)
              /\ (saved.sentAt <=> (rows[m].sentAt \/ saved.status = "sent"))
              /\ \/ rows[m].providerId /\ (saved.status = "failed" => IsPermanent(saved.err))
                 \/ rows[m].device \notin Aeum /\ rows[m].status # "delivered"
            BY <1>4, <1>7, <2>1, <2>3, <2>4
        <3>3. owed[m] = 0 /\ saved.status \in {"sent", "delivered", "failed"}
            BY <1>3, <1>4, <2>1
        <3>4. CalmRow(m)'
            BY <1>3, <1>6, <3>1, <3>2, <3>3, ReportCalm
        <3> QED
            BY <1>3, <1>5, <1>6, <2>5, <3>4, CalmExcept
    <2> QED
        BY <2>6, <2>7
<1> QED
    BY <1>3, <1>8, <1>9 DEF TaskEdit

\* What a drain found is not final, and the provider never accepted it.
LEMMA DrainedCalm ==
    ASSUME IInv, Windows, Calm, NEW job \in cron.batch, NEW m, m = job.msg,
           \/ cron.phase = "failed" /\ ~IsPermanent(job.copy.err)
           \/ cron.phase = "pending" \/ cron.phase = "sending"
    PROVE  /\ ~Final(m) /\ ~rows[m].providerId /\ rows[m].status # "assigned"
           /\ Current(job.copy, rows[m])
<1>1. /\ m \in Messages /\ Current(job.copy, rows[m]) /\ rows[m].status = cron.phase
      /\ rows[m].err = job.copy.err /\ rows[m].retry = job.copy.retry
      /\ cron.phase = "failed" => m \notin old
    BY Entry DEF Windows, BatchCurrent, Current
<1>2. cron.phase = "failed" => ~Exhausted(rows[m])
    BY <1>1 DEF IInv, BatchOK, Exhausted
<1>3. ~Final(m)
    BY <1>1, <1>2 DEF Final, IsTerminalFailure
<1>4. ~rows[m].providerId
    BY <1>1 DEF Calm, CalmRow, ProviderOK
<1> QED
    BY <1>1, <1>3, <1>4

\* The drains' saves
LEMMA CronWorkCalm ==
    ASSUME IInv, Windows, Calm, NEW job \in cron.batch,
           RetryFailed(job) \/ RescuePending(job) \/ RescueSending(job)
    PROVE  Calm' /\ Moves
<1>1. PICK m : m = job.msg
    OBVIOUS
<1>2. /\ m \in Messages /\ job.copy \in Row /\ rows[m] \in Row /\ cron \in CronPass
    BY <1>1, Entry
<1>3. ASSUME NEW edited \in Row, NEW cache, SaveAssigned(job, edited, cache),
             edited.status = "assigned",
             edited.sentAt <=> job.copy.sentAt, edited.providerId <=> job.copy.providerId,
             \/ cron.phase = "pending"
             \/ /\ edited.retry = job.copy.retry + 1
                /\ \/ cron.phase = "failed" /\ ~IsPermanent(job.copy.err)
                   \/ cron.phase = "sending"
      PROVE  Calm' /\ Moves
    <2>1. /\ ~Final(m) /\ ~rows[m].providerId /\ rows[m].status # "assigned"
          /\ Current(job.copy, rows[m])
        BY <1>1, <1>3, DrainedCalm
    <2>2. PICK saved \in Row :
             /\ saved = SaveChanged(rows[m], job.copy, edited)
             /\ saved.status = edited.status /\ saved.retry = edited.retry
             /\ saved.err = edited.err
             /\ (saved.sentAt <=> edited.sentAt) /\ (saved.providerId <=> edited.providerId)
             /\ saved.device = IF edited.device = job.copy.device
                               THEN rows[m].device ELSE edited.device
        BY <1>2, <2>1, SaveCurrent
    <2>3. PICK again : again = [msg |-> m, copy |-> edited]
        OBVIOUS
    <2>4. again.msg = m /\ again.copy = edited
        BY <2>3
    <2>5. /\ \A n \in Messages : rows'[n] = IF n = m THEN saved ELSE rows[n]
          /\ UNCHANGED <<owed, refunds, old, task, dispatches>>
        BY <1>1, <1>2, <1>3, <2>2 DEF SaveAssigned, historyVars, IInv, TypeOK
    <2>6. Jobs' = Jobs \cup {again} /\ TicklesOK'
        BY <1>1, <1>2, <1>3, <2>3, <2>5, ZenonT(40) DEF SaveAssigned, CronPass, Jobs, Calm, TicklesOK
    <2>7. ProviderOK(m)'
        BY <1>2, <1>3, <2>1, <2>2, <2>5 DEF ProviderOK, Current
    <2>8. CallsOK(m)'
        <3>1. \A j \in Jobs : ~(j.msg = m /\ j.copy.device \in Aeum)
            BY <1>2, <2>1, NoCall
        <3>2. again.copy.device \in Aeum => Current(edited, rows'[m])
            BY <1>2, <2>1, <2>2, <2>4, <2>5 DEF Current
        <3>3. ~again.copy.providerId /\ again.copy.status = "assigned"
            BY <1>3, <2>1, <2>4 DEF Current
        <3> QED
            BY <2>4, <2>6, <3>1, <3>2, <3>3 DEF CallsOK
    <2>9. RefundOK(m)'
        <3>1. (rows'[m].sentAt <=> rows[m].sentAt)
            BY <1>2, <1>3, <2>1, <2>2, <2>5 DEF Current
        <3>2. owed'[m] = owed[m] /\ refunds'[m] = refunds[m]
            BY <2>5
        <3> QED
            BY <1>2, <2>1, <3>1, <3>2, NotFinal, MessageTypes DEF RefundOK
    <2>10. DevicesOK(m)'
        <3>1. \A j \in Jobs : j.msg = m => j.copy.retry \in Nat /\ j.copy.retry <= rows[m].retry
            BY InvTypes, JobFields DEF IInv, AttemptsOK
        <3>2. cron.phase = "pending" => \A j \in Jobs : j.msg # m
            BY <1>1, <1>2 DEF IInv, BatchOK, FreshOK, Fresh
        <3>3. \A j \in Jobs : ~(j.msg = m /\ j.copy.retry = rows'[m].retry)
            BY <1>2, <1>3, <2>1, <2>2, <2>5, <3>1, <3>2, MessageTypes DEF Current
        <3>4. rows'[m].device \in Aeum => again.copy.device \in Aeum
            BY <1>2, <2>1, <2>2, <2>4, <2>5, ConstantsAssumption
               DEF Current, ConstantsAssumption, Devices
        <3> QED
            BY <2>6, <3>3, <3>4 DEF DevicesOK
    <2>11. Requeues(m)
        BY <1>2, <1>3, <2>1, <2>2, <2>5 DEF Requeues, Current
    <2> QED
        BY <1>2, <2>4, <2>5, <2>6, <2>7, <2>8, <2>9, <2>10, <2>11, CalmExcept, OneSave
           DEF CalmRow
<1>4. ASSUME SaveExpired(job), cron.phase = "pending" \/ cron.phase = "sending"
      PROVE  Calm' /\ Moves
    <2>1. /\ ~Final(m) /\ ~rows[m].providerId /\ rows[m].status # "assigned"
          /\ Current(job.copy, rows[m])
        BY <1>1, <1>4, DrainedCalm
    <2>2. PICK edited \in Row :
             /\ edited = MarkTerminal(job.copy, "failed", "temporary")
             /\ edited.status = "failed" /\ edited.retry = job.copy.retry
             /\ edited.device = job.copy.device /\ edited.err = "temporary"
             /\ (edited.providerId <=> job.copy.providerId)
             /\ (edited.sentAt <=> job.copy.sentAt)
        <3>1. PICK e : e = MarkTerminal(job.copy, "failed", "temporary")
            OBVIOUS
        <3>2. /\ e \in Row
              /\ e.status = "failed" /\ e.retry = job.copy.retry
              /\ e.device = job.copy.device /\ e.err = "temporary"
              /\ (e.providerId <=> job.copy.providerId)
              /\ (e.sentAt <=> (job.copy.sentAt \/ "failed" = "sent"))
            BY <1>2, <3>1, FailedTemporarily, MarkTerminalIsRow
        <3> QED
            BY <3>1, <3>2
    <2>3. PICK saved \in Row :
             /\ saved = SaveChanged(rows[m], job.copy, edited)
             /\ saved.status = edited.status /\ saved.retry = edited.retry
             /\ saved.err = edited.err
             /\ (saved.sentAt <=> edited.sentAt) /\ (saved.providerId <=> edited.providerId)
             /\ saved.device = rows[m].device /\ saved.retry = rows[m].retry
        BY <1>2, <2>1, <2>2, SaveCurrent DEF Current
    <2>4. /\ \A n \in Messages : rows'[n] = IF n = m THEN saved ELSE rows[n]
          /\ UNCHANGED <<refunds, old, task, dispatches>>
          /\ owed' = IF Refunds(job.copy, "failed", "temporary", m \in old)
                     THEN [owed EXCEPT ![m] = @ + 1] ELSE owed
        BY <1>1, <1>2, <1>4, <2>2, <2>3 DEF SaveExpired, historyVars, IInv, TypeOK
    <2>5. /\ Jobs' = Jobs /\ TicklesOK'
          /\ \A n \in Messages \ {m} : owed'[n] = owed[n]
        BY <1>2, <1>4, <2>4, ZenonT(40) DEF SaveExpired, CronPass, Jobs, Calm, TicklesOK, IInv, TypeOK
    <2>6. (rows[m].sentAt <=> job.copy.sentAt) /\ (rows[m].providerId <=> job.copy.providerId)
        BY <2>1 DEF Current
    <2>7. Moves
        <3>1. Settles(m)
            BY <1>2, <2>1, <2>2, <2>3, <2>4, <2>6 DEF Settles, Settlements, Final
        <3> QED
            BY <1>2, <2>4, <3>1, OneSave
    <2>8. CASE Refunds(job.copy, "failed", "temporary", m \in old)
        <3>1. ~job.copy.sentAt /\ IsTerminalFailure(job.copy, "temporary", m \in old)
            BY <2>8 DEF Refunds
        <3>2. IsTerminalFailure(saved, saved.err, m \in old)
            BY <2>2, <2>3, <3>1 DEF IsTerminalFailure, Exhausted
        <3>3. rows'[m] = saved /\ owed'[m] = owed[m] + 1 /\ refunds'[m] = refunds[m]
            BY <1>2, <2>4, <2>8 DEF IInv, TypeOK
        <3>4. /\ saved.status = "failed" /\ ~saved.sentAt /\ ~rows[m].sentAt
              /\ (saved.providerId <=> rows[m].providerId)
            BY <2>2, <2>3, <2>6, <3>1
        <3>5. CalmRow(m)'
            BY <1>2, <2>1, <2>3, <2>4, <2>5, <3>2, <3>3, <3>4, GivenUpCalm
        <3> QED
            BY <1>2, <2>4, <2>5, <2>7, <3>5, CalmExcept
    <2>9. CASE ~Refunds(job.copy, "failed", "temporary", m \in old)
        <3>1. rows'[m] = saved /\ owed'[m] = owed[m] /\ refunds'[m] = refunds[m]
            BY <1>2, <2>4, <2>9
        <3>2. ~saved.providerId /\ saved.status = "failed" /\ (saved.sentAt <=> rows[m].sentAt)
            BY <2>1, <2>2, <2>3, <2>6
        <3>3. ProviderOK(m)' /\ CallsOK(m)' /\ DevicesOK(m)'
            BY <1>2, <2>1, <2>3, <2>5, <3>1, <3>2, NoCall, SameDevice DEF ProviderOK, CallsOK
        <3>4. (rows'[m].sentAt <=> rows[m].sentAt)
            BY <3>1, <3>2
        <3>5. RefundOK(m)'
            BY <1>2, <2>1, <3>1, <3>4, NotFinal, MessageTypes DEF RefundOK
        <3> QED
            BY <1>2, <2>4, <2>5, <2>7, <3>3, <3>5, CalmExcept DEF CalmRow
    <2> QED
        BY <2>8, <2>9
<1>5. ASSUME NEW cache, Skip(job, cache)
      PROVE  Calm' /\ Moves
    BY <1>5, QuietSteps DEF Skip, Moves, Stays
<1> QED
    BY <1>3, <1>4, <1>5, CronWrites

\* A tickle that fails in time leaves its task a row that waits for the agent.
LEMMA TickleCalm ==
    ASSUME ~LateTickles, IInv, Calm, NEW h \in Handlers, NEW job \in dispatches,
           TickleFails(h, job)
    PROVE  Calm'
<1>1. PICK m : m = job.msg
    OBVIOUS
<1>2. /\ m \in Messages /\ job \in Jobs /\ rows[m].status = "assigned"
      /\ rows[m].retry = job.copy.retry /\ job.copy.device \notin Aeum
    BY <1>1, JobTaken, JobFields, ConstantsAssumption
       DEF TickleFails, InTime, ConstantsAssumption
<1>3. rows[m].device \notin Aeum
    BY <1>1, <1>2 DEF Calm, CalmRow, DevicesOK
<1>4. PICK t : /\ t.op = "tickleFailed" /\ t.loaded = rows[m]
               /\ t.edited = [rows[m] EXCEPT !.status = "failed", !.err = "temporary"]
               /\ task' = [task EXCEPT ![h] = t]
    BY <1>1 DEF TickleFails
<1>5. TicklesOK'
    BY <1>2, <1>3, <1>4 DEF Calm, TicklesOK, IInv, TypeOK
<1>6. UNCHANGED <<rows, owed, refunds, old>> /\ Jobs' \subseteq Jobs
    BY DEF TickleFails, clockVars, historyVars, Jobs
<1> QED
    BY <1>5, <1>6, CalmKept

\* Every step of a system whose failing tickles are in time keeps the calm.
LEMMA NextCalm ==
    ASSUME ~Overlap, ~LateTickles, CInv, [Next]_vars
    PROVE  Calm' /\ Moves
<1> IInv /\ Books /\ Windows /\ Calm
    BY DEF CInv
<1>1. ASSUME UNCHANGED rows
      PROVE  Moves
    BY <1>1 DEF Moves, Stays
<1>2. CASE SendStep
    <2>1. ASSUME NEW batch \in SUBSET Messages, CreateMessages(batch)
          PROVE  Moves
        <3>1. PICK pick : rows' = [m \in Messages |->
                                      IF m \in batch THEN NewRow(pick[m]) ELSE rows[m]]
            BY <2>1 DEF CreateMessages
        <3>2. \A m \in batch : rows[m].status = "none"
            BY <2>1 DEF CreateMessages, IInv, RequestsOK
        <3>3. \A d : NewRow(d).status \in {"pending", "assigned"} /\ ~NewRow(d).sentAt
            BY DEF NewRow, NoRow
        <3> QED
            BY <3>1, <3>2, <3>3 DEF Moves, Stays, Starts
    <2> QED
        BY <1>1, <1>2, <2>1, QuietSteps, CreateMessagesCalm
           DEF SendStep, Reserve, CreateFails, CreateFailsUnreleased
<1>3. CASE DispatchStep
    BY <1>1, <1>3, QuietSteps, ProviderReturnsCalm, TickleCalm
       DEF DispatchStep, ProviderSaveFails, TickleSent, TickleFails
<1>4. CASE AgentClaims \/ ReportStep
    BY <1>1, <1>4, FindsCalm, ZenonT(40)
       DEF AgentClaims, Claim, ReportStep, Ack, AeumEvent, BeginTerminal
<1>5. CASE \E h \in Handlers : Commit(h) \/ SaveFails(h)
    BY <1>1, <1>5, CommitCalm, QuietSteps DEF SaveFails
<1>6. CASE \E m \in Messages : Release(m) \/ ReleaseFails(m)
    BY <1>1, <1>6, ReleaseCalm, ReleaseFailsCalm DEF Release, ReleaseFails
<1>7. CASE CronStep
    BY <1>1, <1>7, QuietSteps, CronWorkCalm
       DEF CronStep, CronWork, CronStart, CronAdvance, CronSaveFails
<1>8. CASE TimeStep
    BY <1>1, <1>8, QuietSteps DEF TimeStep, GoesStale, BackoffElapses, Age
<1>9. CASE DeviceStep
    <2>1. ASSUME NEW d \in Devices, DeleteDevice(d)
          PROVE  Moves
        <3>1. \A m \in Messages :
                  rows'[m] \in {rows[m], [rows[m] EXCEPT !.device = NoDevice]}
            BY <2>1 DEF DeleteDevice
        <3>2. \A m \in Messages : Stays(m)
            BY <3>1, InvTypes DEF Stays, Row
        <3> QED
            BY <3>2 DEF Moves, Stays
    <2> QED
        BY <1>1, <1>9, <2>1, QuietSteps, DeleteDeviceCalm DEF DeviceStep, RegisterDevice
<1>10. CASE Crash
    BY <1>1, <1>10, CrashCalm DEF Crash
<1>11. CASE UNCHANGED vars
    BY <1>1, <1>11, CalmKept DEF vars, Jobs, Calm, TicklesOK
<1> QED
    BY <1>2, <1>3, <1>4, <1>5, <1>6, <1>7, <1>8, <1>9, <1>10, <1>11 DEF Next

\* ... in every reachable state.
LEMMA CalmInvariance == ASSUME ~Overlap, ~LateTickles PROVE Spec => []CInv
<1>1. Init => CInv
    BY InitInv, InitBooks, InitWindows, InitCalm DEF CInv
<1>2. CInv /\ [Next]_vars => CInv'
    BY NextInv, NextBooks, NextWindows, NextCalm DEF CInv
<1> QED
    BY <1>1, <1>2, PTL DEF Spec

\* While no two find-to-save windows overlap and tickles fail in time, a message's
\* reservation is released at most once, whatever reports, events, provider answers,
\* crashes and cron passes come.
THEOREM RefundedOnce ==
    ASSUME ~Overlap, ~LateTickles PROVE Spec => []RefundAtMostOnce
<1>1. CInv => RefundAtMostOnce
    <2> SUFFICES ASSUME CInv, NEW m \in Messages PROVE refunds[m] + owed[m] <= 1
        BY DEF RefundAtMostOnce
    <2>1. owed[m] \in Nat /\ refunds[m] \in Nat /\ owed[m] + refunds[m] <= 1
        BY MessageTypes DEF CInv, Calm, CalmRow, RefundOK
    <2> QED
        BY <2>1
<1> QED
    BY <1>1, CalmInvariance, PTL

\* While no two find-to-save windows overlap and tickles fail in time, a delivery
\* the device confirmed is final: no report, retry or event touches the message.
THEOREM DeliveryIsFinal ==
    ASSUME ~Overlap, ~LateTickles PROVE Spec => DeliveredFinal
<1> DEFINE Kept == \A m \in Messages : rows[m].status = "delivered" /\ ~rows[m].providerId
                                       => rows'[m].status = "delivered"
<1>1. CInv /\ [Next]_vars => [Kept]_rows
    <2> SUFFICES ASSUME CInv, [Next]_vars PROVE Kept
        OBVIOUS
    <2>1. \A m \in Messages : Stays(m) \/ Starts(m) \/ Requeues(m) \/ Settles(m)
        BY NextCalm DEF Moves
    <2> QED
        BY <2>1 DEF Stays, Starts, Requeues, Settles, Final
<1> HIDE DEF Kept
<1>2. Spec => [][Kept]_rows
    BY <1>1, CalmInvariance, PTL DEF Spec
<1> QED
    BY <1>2 DEF DeliveredFinal, Kept

\* ... a message the provider accepted and that failed afterwards is never queued
\* for a new billable attempt.
THEOREM NeverResent ==
    ASSUME ~Overlap, ~LateTickles PROVE Spec => NoResendAfterDeliveryFailure
<1> DEFINE Rests == \A m \in Messages : rows[m].status = "failed" /\ rows[m].providerId
                                        => rows'[m].status # "assigned"
<1>1. CInv /\ [Next]_vars => [Rests]_rows
    <2> SUFFICES ASSUME CInv, [Next]_vars PROVE Rests
        OBVIOUS
    <2>1. \A m \in Messages : Stays(m) \/ Starts(m) \/ Requeues(m) \/ Settles(m)
        BY NextCalm DEF Moves
    <2> QED
        BY <2>1 DEF Stays, Starts, Requeues, Settles, Settlements
<1> HIDE DEF Rests
<1>2. Spec => [][Rests]_rows
    BY <1>1, CalmInvariance, PTL DEF Spec
<1> QED
    BY <1>2 DEF NoResendAfterDeliveryFailure, Rests

\* ... and a message that got its credit back without being sent is never queued
\* again, so nothing is sent that is not paid for.
THEOREM NothingResentFree ==
    ASSUME ~Overlap, ~LateTickles PROVE Spec => NoFreeResend
<1> DEFINE Rests == \A m \in Messages :
                       refunds[m] > 0 /\ rows[m].status = "failed" /\ ~rows[m].sentAt
                          => rows'[m].status # "assigned"
<1>1. CInv /\ [Next]_vars => [Rests]_rows
    <2> SUFFICES ASSUME CInv, [Next]_vars, NEW m \in Messages,
                        refunds[m] > 0, rows[m].status = "failed", ~rows[m].sentAt
                 PROVE  rows'[m].status # "assigned"
        OBVIOUS
    <2>1. Stays(m) \/ Starts(m) \/ Requeues(m) \/ Settles(m)
        BY NextCalm DEF Moves
    <2>2. Final(m)
        <3>1. RefundOK(m)
            BY DEF CInv, Calm, CalmRow
        <3>2. owed[m] + refunds[m] > 0
            BY MessageTypes DEF CInv
        <3> QED
            BY <3>1, <3>2 DEF RefundOK
    <2> QED
        BY <2>1, <2>2 DEF Stays, Starts, Requeues, Settles, Settlements
<1> HIDE DEF Rests
<1>2. Spec => [][Rests]_rows
    BY <1>1, CalmInvariance, PTL DEF Spec
<1> QED
    BY <1>2 DEF NoFreeResend, Rests

-----------------------------------------------------------------------------
(* The lifecycle implements SmsCredits                                       *)

\* The messages a credit is charged for
Charged == Reserved \cup (Created \ Refunded)

Balance == used = Cardinality(Charged) + lost

\* A batch that asks for credits has none, and one in flight holds its own.
LEMMA ChargedSets ==
    ASSUME IInv
    PROVE  /\ Charged \in SUBSET Messages /\ IsFiniteSet(Charged)
           /\ Cardinality(Charged) \in Nat
           /\ Reserved \cap Created = {}
<1>1. Charged \in SUBSET Messages
    BY BooksAreFinite DEF Charged
<1>2. Reserved \cap Created = {}
    BY DEF Reserved, Created, IInv, RequestsOK
<1> QED
    BY <1>1, <1>2, BatchIsFinite

\* The books open balanced.
LEMMA InitBalance == Init => Balance
<1> SUFFICES ASSUME Init PROVE Balance
    OBVIOUS
<1>1. NoRow.status = "none"
    BY DEF NoRow
<1>2. Charged = {}
    BY <1>1 DEF Init, Charged, Reserved, Created
<1> QED
    BY <1>2, FS_EmptySet DEF Init, Balance

\* Every calm step keeps them balanced, so no release is ever clamped.
LEMMA NextBalance ==
    ASSUME CInv, Balance, IInv', [Next]_vars
    PROVE  Balance'
<1>1. /\ IInv /\ Books /\ Calm /\ used \in Nat /\ lost \in Nat
      /\ Cardinality(Charged) \in Nat /\ IsFiniteSet(Charged)
      /\ Reserved \cap Created = {} /\ IsFiniteSet(Charged')
      /\ Cardinality(Charged') \in Nat
      /\ used = Cardinality(Charged) + lost
    <2>1. IsFiniteSet(Charged')
        <3>1. Charged' \in SUBSET Messages
            BY DEF Charged, Reserved, Created, IInv, TypeOK
        <3> QED
            BY <3>1, BatchIsFinite
    <2> QED
        BY <2>1, FS_CardinalityType, ChargedSets, BooksAreFinite DEF CInv, Balance
<1>2. ASSUME NEW batch \in SUBSET Messages, Reserve(batch)
      PROVE  Balance'
    <2>1. /\ Charged' = Charged \cup batch /\ Charged \cap batch = {}
          /\ used' = used + Cardinality(batch) /\ lost' = lost
        BY <1>2 DEF Reserve, historyVars, Charged, Reserved, Created, Refunded
    <2>2. Cardinality(Charged') = Cardinality(Charged) + Cardinality(batch)
          /\ Cardinality(batch) \in Nat
        BY <1>1, <2>1, BatchIsFinite, SizeOfUnion
    <2> QED
        BY <1>1, <2>1, <2>2 DEF Balance
<1>3. ASSUME NEW batch \in SUBSET Messages, CreateMessages(batch)
      PROVE  Balance'
    <2>1. PICK pick : rows' = [m \in Messages |->
                                  IF m \in batch THEN NewRow(pick[m]) ELSE rows[m]]
        BY <1>3 DEF CreateMessages
    <2>2. /\ batch \in requests /\ Reserved = Reserved' \cup batch
          /\ UNCHANGED <<used, refunds, lost>>
        BY <1>3 DEF CreateMessages, historyVars, Reserved
    <2>3. \A d : NewRow(d).status \in {"pending", "assigned"}
        BY DEF NewRow, NoRow
    <2>4. Created' = Created \cup batch /\ Refunded' = Refunded
        BY <2>1, <2>2, <2>3 DEF Created, Refunded, IInv, RequestsOK
    <2>5. batch \cap Refunded = {}
        BY <1>1, <2>2 DEF Books, RefundsOK, Refunded, Reserved
    <2>6. Charged' = Charged
        BY <2>2, <2>4, <2>5 DEF Charged
    <2> QED
        BY <1>1, <2>2, <2>6 DEF Balance
<1>4. ASSUME NEW batch \in SUBSET Messages, CreateFails(batch)
      PROVE  Balance'
    <2>1. /\ batch \in requests /\ requests' = requests \ {batch} /\ lost' = lost
          /\ used' = Minus(used, Cardinality(batch))
          /\ Created' = Created /\ Refunded' = Refunded
        BY <1>4 DEF CreateFails, historyVars, Created, Refunded
    <2>2. Reserved = Reserved' \cup batch /\ Reserved' \cap batch = {}
        BY <1>1, <2>1 DEF Reserved, IInv, RequestsOK
    <2>3. Charged = Charged' \cup batch /\ Charged' \cap batch = {}
        BY <1>1, <2>1, <2>2 DEF Charged
    <2>4. Cardinality(Charged) = Cardinality(Charged') + Cardinality(batch)
          /\ Cardinality(batch) \in Nat
        BY <1>1, <2>3, BatchIsFinite, SizeOfUnion
    <2> QED
        BY <1>1, <2>1, <2>4 DEF Balance, Minus
<1>5. ASSUME NEW m \in Messages, Release(m)
      PROVE  Balance'
    <2>1. /\ refunds[m] = 0 /\ refunds' = [refunds EXCEPT ![m] = @ + 1]
          /\ refunds \in [Messages -> Nat] /\ m \in Created
          /\ Created' = Created /\ Reserved' = Reserved /\ lost' = lost
          /\ used' = Minus(used, 1)
        <3>1. refunds[m] = 0
            BY <1>1, <1>5, MessageTypes DEF Release, Calm, CalmRow, RefundOK
        <3>2. m \in Created
            BY <1>1, <1>5 DEF Release, Books, RefundsOK
        <3> QED
            BY <1>1, <1>5, <3>1, <3>2 DEF Release, Created, Reserved, IInv, TypeOK
    <2>2. Refunded' = Refunded \cup {m} /\ m \notin Refunded
        BY <2>1 DEF Refunded
    <2>3. Charged = Charged' \cup {m} /\ Charged' \cap {m} = {}
        BY <1>1, <2>1, <2>2 DEF Charged
    <2>4. Cardinality({m}) = 1 /\ IsFiniteSet({m})
        BY FS_Singleton
    <2>5. Cardinality(Charged) = Cardinality(Charged') + 1
        BY <1>1, <2>3, <2>4, SizeOfUnion
    <2> QED
        BY <1>1, <2>1, <2>5 DEF Balance, Minus
<1>6. CASE Crash
    <2>1. /\ Reserved' = {} /\ Created' = Created /\ Refunded' = Refunded /\ used' = used
          /\ lost' = lost + Cardinality(Reserved)
        BY <1>6 DEF Crash, Created, Refunded, Reserved
    <2>2. Charged = Charged' \cup Reserved /\ Charged' \cap Reserved = {}
        BY <1>1, <2>1 DEF Charged
    <2>3. Cardinality(Charged) = Cardinality(Charged') + Cardinality(Reserved)
          /\ Cardinality(Reserved) \in Nat
        BY <1>1, <2>2, BooksAreFinite, SizeOfUnion
    <2> QED
        BY <1>1, <2>1, <2>3 DEF Balance
<1>7. CASE Bystander
    <2>1. Charged' = Charged
        BY <1>7 DEF Bystander, Charged, Reserved, Refunded
    <2> QED
        BY <1>7, <2>1 DEF Bystander, Balance
<1>8. ASSUME NEW batch \in SUBSET Messages, CreateFailsUnreleased(batch)
      PROVE  Balance'
    <2>1. /\ batch \in requests /\ requests' = requests \ {batch} /\ used' = used
          /\ lost' = lost + Cardinality(batch)
          /\ Created' = Created /\ Refunded' = Refunded
        BY <1>8 DEF CreateFailsUnreleased, Created, Refunded
    <2>2. Reserved = Reserved' \cup batch /\ Reserved' \cap batch = {}
        BY <1>1, <2>1 DEF Reserved, IInv, RequestsOK
    <2>3. Charged = Charged' \cup batch /\ Charged' \cap batch = {}
        BY <1>1, <2>1, <2>2 DEF Charged
    <2>4. Cardinality(Charged) = Cardinality(Charged') + Cardinality(batch)
          /\ Cardinality(batch) \in Nat
        BY <1>1, <2>3, BatchIsFinite, SizeOfUnion
    <2> QED
        BY <1>1, <2>1, <2>4 DEF Balance
<1> QED
    BY <1>1, <1>2, <1>3, <1>4, <1>5, <1>6, <1>7, <1>8, Bystanders

\* The states of a credit, one by one
CreditIs(m) ==
    /\ refunds[m] > 0 => CreditOf(m) = "refunded"
    /\ refunds[m] = 0 /\ rows[m].sentAt => CreditOf(m) = "spent"
    /\ refunds[m] = 0 /\ ~rows[m].sentAt /\ m \in Created => CreditOf(m) = "held"
    /\ refunds[m] = 0 /\ ~rows[m].sentAt /\ m \in Reserved => CreditOf(m) = "reserved"
    /\ refunds[m] = 0 /\ ~rows[m].sentAt /\ m \notin Created /\ m \notin Reserved =>
          CreditOf(m) = "free"
    /\ m \in Reserved => m \notin Created
    /\ m \notin Created => refunds[m] = 0 /\ ~rows[m].sentAt
    /\ refunds[m] \in Nat

\* They exclude each other.
LEMMA CreditCases == CInv => \A m \in Messages : CreditIs(m)
<1> SUFFICES ASSUME CInv, NEW m \in Messages PROVE CreditIs(m)
    OBVIOUS
<1>1. refunds[m] \in Nat
    BY MessageTypes DEF CInv
<1>2. m \in Reserved => m \notin Created
    BY ChargedSets DEF CInv
<1>3. m \notin Created => refunds[m] = 0 /\ ~rows[m].sentAt
    BY <1>1 DEF CInv, Books, RefundsOK, Calm, CalmRow, ProviderOK, Created
<1>4. refunds[m] > 0 => CreditOf(m) = "refunded"
    BY <1>1, <1>2, <1>3 DEF CreditOf, Reserved
<1>5. refunds[m] = 0 /\ rows[m].sentAt => CreditOf(m) = "spent"
    BY <1>2, <1>3 DEF CreditOf, Reserved
<1>6. refunds[m] = 0 /\ ~rows[m].sentAt /\ m \in Created => CreditOf(m) = "held"
    BY <1>2 DEF CreditOf, Reserved
<1>7. refunds[m] = 0 /\ ~rows[m].sentAt /\ m \in Reserved => CreditOf(m) = "reserved"
    BY <1>2 DEF CreditOf, Reserved
<1>8. refunds[m] = 0 /\ ~rows[m].sentAt /\ m \notin Created /\ m \notin Reserved =>
          CreditOf(m) = "free"
    BY DEF CreditOf, Reserved
<1> QED
    BY <1>1, <1>2, <1>3, <1>4, <1>5, <1>6, <1>7, <1>8 DEF CreditIs

\* A message whose row was not sent now, and that is not created, reserved or
\* refunded now, keeps its credit.
LEMMA SameCredit ==
    ASSUME NEW m, CreditIs(m), CreditIs(m)', rows'[m].sentAt <=> rows[m].sentAt,
           refunds'[m] = refunds[m], m \in Created' <=> m \in Created,
           m \in Reserved' <=> m \in Reserved
    PROVE  CreditOf(m)' = CreditOf(m)
<1>1. CASE refunds[m] > 0
    BY <1>1 DEF CreditIs
<1>2. CASE refunds[m] = 0 /\ rows[m].sentAt
    BY <1>2 DEF CreditIs
<1>3. CASE refunds[m] = 0 /\ ~rows[m].sentAt
    BY <1>3 DEF CreditIs
<1>4. refunds[m] > 0 \/ refunds[m] = 0
    BY DEF CreditIs
<1> QED
    BY <1>1, <1>2, <1>3, <1>4

\* No credit is charged initially.
LEMMA InitCredits == Init => Credits!Init
<1> SUFFICES ASSUME Init PROVE Credits!Init
    OBVIOUS
<1>1. CInv
    BY InitInv, InitBooks, InitWindows, InitCalm DEF CInv
<1>2. \A m \in Messages : CreditOf(m) = "free"
    <2>1. NoRow.status = "none"
        BY DEF NoRow
    <2>2. \A m \in Messages : m \notin Created /\ m \notin Reserved
        BY <2>1 DEF Init, Created, Reserved
    <2> QED
        BY <1>1, <2>2, CreditCases DEF CreditIs
<1> QED
    BY <1>2 DEF Init, Credits!Init

\* The instance counts with a Cardinality of its own, which is the same operator.
LEMMA SameSize == ASSUME NEW S PROVE Credits!Cardinality(S) = Cardinality(S)
BY Zenon DEF Cardinality, Credits!Cardinality

\* Every calm step of the lifecycle is a step of SmsCredits, or none.
LEMMA NextCredits ==
    ASSUME CInv, CInv', Balance, [Next]_vars, Moves,
           \A m \in Messages : CreditIs(m), \A m \in Messages : CreditIs(m)'
    PROVE  [Credits!Next]_(Credits!vars)
<1>1. /\ IInv /\ Books /\ Calm
    BY DEF CInv
<1>2. ASSUME NEW batch \in SUBSET Messages, Reserve(batch)
      PROVE  Credits!Reserve(batch)
    <2>1. /\ rows' = rows /\ refunds' = refunds /\ lost' = lost /\ batch # {}
          /\ used' = used + Cardinality(batch) /\ used + Cardinality(batch) <= SmsLimit
          /\ Reserved' = Reserved \cup batch /\ Created' = Created
          /\ \A m \in batch : m \notin Created /\ m \notin Reserved
        BY <1>2 DEF Reserve, Fits, historyVars, Reserved, Created
    <2>2. \A m \in batch : CreditOf(m) = "free" /\ CreditOf(m)' = "reserved"
        BY <2>1 DEF CreditIs
    <2>3. \A m \in Messages \ batch : CreditOf(m)' = CreditOf(m)
        BY <2>1, SameCredit
    <2>4. [m \in Messages |-> CreditOf(m)]' = Credits!Move(batch, "reserved")
        BY <2>2, <2>3 DEF Credits!Move
    <2>5. batch \subseteq Credits!In("free")
        BY <2>2 DEF Credits!In
    <2> QED
        BY <2>1, <2>4, <2>5, SameSize DEF Credits!Reserve
<1>3. ASSUME NEW batch \in SUBSET Messages, CreateMessages(batch)
      PROVE  Credits!Hold(batch)
    <2>1. PICK pick : rows' = [m \in Messages |->
                                  IF m \in batch THEN NewRow(pick[m]) ELSE rows[m]]
        BY <1>3 DEF CreateMessages
    <2>2. /\ batch \subseteq Reserved /\ Reserved' = Reserved \ batch
          /\ UNCHANGED <<used, refunds, lost>>
        BY <1>1, <1>3 DEF CreateMessages, historyVars, Reserved, IInv, RequestsOK
    <2>3. \A d : NewRow(d).status # "none" /\ ~NewRow(d).sentAt
        BY DEF NewRow, NoRow
    <2>4. Created' = Created \cup batch
        BY <2>1, <2>3 DEF Created
    <2>5. \A m \in batch : CreditOf(m) = "reserved" /\ CreditOf(m)' = "held"
        BY <2>1, <2>2, <2>3, <2>4 DEF CreditIs
    <2>6. \A m \in Messages \ batch : CreditOf(m)' = CreditOf(m)
        BY <2>1, <2>2, <2>4, SameCredit
    <2> QED
        BY <2>2, <2>5, <2>6 DEF Credits!Hold, Credits!In, Credits!Move
<1>4. ASSUME NEW batch \in SUBSET Messages, CreateFails(batch)
      PROVE  Credits!GiveBack(batch)
    <2>1. /\ rows' = rows /\ refunds' = refunds /\ lost' = lost
          /\ used' = Minus(used, Cardinality(batch))
          /\ batch \subseteq Reserved /\ Reserved' = Reserved \ batch /\ Created' = Created
        BY <1>1, <1>4 DEF CreateFails, historyVars, Created, Reserved, IInv, RequestsOK
    <2>2. \A m \in batch : CreditOf(m) = "reserved" /\ CreditOf(m)' = "free"
        BY <2>1 DEF CreditIs
    <2>3. \A m \in Messages \ batch : CreditOf(m)' = CreditOf(m)
        BY <2>1, SameCredit
    <2>4. used' = used - Cardinality(batch)
        <3>1. /\ batch \subseteq Charged /\ IsFiniteSet(Charged)
              /\ Cardinality(Charged) \in Nat /\ lost \in Nat
            BY <1>1, <2>1, ChargedSets, BooksAreFinite DEF Charged
        <3>2. Cardinality(batch) <= Cardinality(Charged)
            BY <3>1, FS_Subset
        <3>3. Cardinality(batch) \in Nat
            BY BatchIsFinite
        <3> QED
            BY <2>1, <3>1, <3>2, <3>3 DEF Balance, Minus
    <2>5. [m \in Messages |-> CreditOf(m)]' = Credits!Move(batch, "free")
        BY <2>2, <2>3 DEF Credits!Move
    <2>6. batch \subseteq Credits!In("reserved")
        BY <2>2 DEF Credits!In
    <2> QED
        BY <2>1, <2>4, <2>5, <2>6, SameSize DEF Credits!GiveBack
<1>5. ASSUME NEW m \in Messages, Release(m)
      PROVE  Credits!Refund(m)
    <2>1. /\ rows' = rows /\ Reserved' = Reserved /\ Created' = Created /\ lost' = lost
          /\ refunds' = [refunds EXCEPT ![m] = @ + 1] /\ used' = Minus(used, 1)
          /\ refunds \in [Messages -> Nat]
        BY <1>1, <1>5 DEF Release, Reserved, Created, IInv, TypeOK
    <2>2. refunds[m] = 0 /\ ~rows[m].sentAt /\ m \in Created
        <3>1. refunds[m] = 0
            BY <1>1, <1>5, MessageTypes DEF Release, Calm, CalmRow, RefundOK
        <3> QED
            BY <1>1, <1>5, <3>1 DEF Release, Calm, CalmRow, RefundOK, Books, RefundsOK
    <2>3. CreditOf(m) = "held" /\ CreditOf(m)' = "refunded"
        <3>1. refunds'[m] > 0
            BY <2>1, <2>2
        <3> QED
            BY <2>2, <3>1 DEF CreditIs
    <2>4. \A n \in Messages \ {m} : CreditOf(n)' = CreditOf(n)
        BY <2>1, SameCredit
    <2>5. used' = used - 1
        <3>1. m \in Charged /\ IsFiniteSet(Charged) /\ Cardinality(Charged) \in Nat
              /\ lost \in Nat
            BY <1>1, <2>2, ChargedSets, BooksAreFinite DEF Charged, Refunded
        <3>2. Cardinality(Charged) # 0
            BY <3>1, FS_EmptySet
        <3> QED
            BY <2>1, <3>1, <3>2 DEF Balance, Minus
    <2> QED
        BY <2>1, <2>3, <2>4, <2>5 DEF Credits!Refund
<1>6. ASSUME NEW batch \in SUBSET Messages, batch \subseteq Reserved,
             Reserved' = Reserved \ batch, Created' = Created,
             UNCHANGED <<rows, refunds, used>>, lost' = lost + Cardinality(batch)
      PROVE  Credits!Lose(batch)
    <2>1. \A m \in batch : CreditOf(m) = "reserved" /\ CreditOf(m)' = "free"
        BY <1>6 DEF CreditIs
    <2>2. \A m \in Messages \ batch : CreditOf(m)' = CreditOf(m)
        BY <1>6, SameCredit
    <2>3. [m \in Messages |-> CreditOf(m)]' = Credits!Move(batch, "free")
        BY <2>1, <2>2 DEF Credits!Move
    <2>4. batch \subseteq Credits!In("reserved")
        BY <2>1 DEF Credits!In
    <2> QED
        BY <1>6, <2>3, <2>4, SameSize DEF Credits!Lose
<1>8. ASSUME NEW batch \in SUBSET Messages, CreateFailsUnreleased(batch)
      PROVE  Credits!Lose(batch)
    <2>1. /\ UNCHANGED <<rows, refunds, used>> /\ lost' = lost + Cardinality(batch)
          /\ batch \subseteq Reserved /\ Reserved' = Reserved \ batch /\ Created' = Created
        BY <1>1, <1>8 DEF CreateFailsUnreleased, Created, Reserved, IInv, RequestsOK
    <2> QED
        BY <1>6, <2>1
<1>9. ASSUME Crash
      PROVE  Credits!Lose(Reserved) /\ Reserved \in SUBSET Messages
    <2>1. /\ UNCHANGED <<rows, refunds, used>> /\ Created' = Created
          /\ Reserved' = Reserved \ Reserved /\ lost' = lost + Cardinality(Reserved)
          /\ Reserved \in SUBSET Messages
        BY <1>1, <1>9, BooksAreFinite DEF Crash, Created, Reserved
    <2> QED
        BY <1>6, <2>1
<1>7. CASE Bystander
    <2>1. /\ UNCHANGED <<used, lost, refunds>> /\ Reserved' = Reserved /\ Created' = Created
        BY <1>7 DEF Bystander, Reserved
    <2>2. ASSUME NEW m \in Messages, rows'[m].sentAt <=> rows[m].sentAt
          PROVE  CreditOf(m)' = CreditOf(m)
        BY <2>1, <2>2, SameCredit
    <2>3. \A m \in Messages : rows[m].sentAt => rows'[m].sentAt
        <3>1. \A m \in Messages : rows[m].status = "none" => ~rows[m].sentAt
            BY <1>1 DEF Calm, CalmRow, ProviderOK
        <3> QED
            BY <3>1 DEF Moves, Stays, Starts, Requeues, Settles
    <2>4. CASE \A m \in Messages : rows'[m].sentAt => rows[m].sentAt
        <3>1. \A m \in Messages : CreditOf(m)' = CreditOf(m)
            BY <2>2, <2>3, <2>4
        <3> QED
            BY <2>1, <3>1 DEF Credits!vars
    <2>5. ASSUME NEW m \in Messages, rows'[m].sentAt, ~rows[m].sentAt
          PROVE  Credits!Spend(m) \/ UNCHANGED Credits!vars
        <3>1. \A n \in Messages \ {m} : CreditOf(n)' = CreditOf(n)
            <4>1. \A n \in Messages \ {m} : rows'[n].sentAt => rows[n].sentAt
                BY <2>5 DEF Moves
            <4> QED
                BY <2>2, <2>3, <4>1
        <3>2. m \in Created
            BY <2>1, <2>5 DEF CreditIs
        <3>3. CASE refunds[m] > 0
            <4>1. CreditOf(m)' = CreditOf(m)
                BY <2>1, <3>3 DEF CreditIs
            <4> QED
                BY <2>1, <3>1, <4>1 DEF Credits!vars
        <3>4. CASE refunds[m] = 0
            <4>1. CreditOf(m) = "held" /\ CreditOf(m)' = "spent"
                BY <2>1, <2>5, <3>2, <3>4 DEF CreditIs
            <4> QED
                BY <2>1, <3>1, <4>1 DEF Credits!Spend
        <3>5. refunds[m] > 0 \/ refunds[m] = 0
            BY DEF CreditIs
        <3> QED
            BY <3>3, <3>4, <3>5
    <2> QED
        BY <2>4, <2>5 DEF Credits!Next
<1> QED
    BY <1>1, <1>2, <1>3, <1>4, <1>5, <1>7, <1>8, <1>9, Bystanders DEF Credits!Next

\* While no two find-to-save windows overlap and tickles fail in time, the quota, the
\* rows, the dispatches, the reports, the cron and the crashes together implement
\* SmsCredits: a message has one credit, which it takes before it exists and then
\* spends or gets back, once.
THEOREM CreditsAreImplemented ==
    ASSUME ~Overlap, ~LateTickles PROVE Spec => CreditsImplemented
<1>1. CInv' => (\A m \in Messages : CreditIs(m))'
    BY CreditCases, PTL
<1>2. CInv /\ CInv' /\ Balance /\ [Next]_vars =>
          [Credits!Next]_(Credits!vars) /\ Balance'
    <2> SUFFICES ASSUME CInv, CInv', Balance, [Next]_vars
                 PROVE  [Credits!Next]_(Credits!vars) /\ Balance'
        OBVIOUS
    <2>1. Balance' /\ Moves
        BY NextBalance, NextCalm DEF CInv
    <2>2. \A m \in Messages : CreditIs(m) /\ CreditIs(m)'
        BY <1>1, CreditCases
    <2> QED
        BY <2>1, <2>2, NextCredits
<1>3. Spec => Credits!Spec
    BY <1>2, CalmInvariance, InitBalance, InitCredits, PTL
       DEF Spec, Credits!Spec
<1> QED
    BY <1>3 DEF CreditsImplemented
=============================================================================
