# Vendel: a TLA+ model of the SMS gateway

Vendel sends SMS messages for its users through Android phones (reached with an
FCM tickle), USB modems (reached over a realtime connection) and one
instance-wide AWS End User Messaging device. The backend is a Go program on
PocketBase (SQLite); the web client is a React program over its API, with a query cache and
realtime subscriptions. This directory models the core logic of both in TLA+, checks it with
TLC and proves the central facts with TLAPS.

## 1. Inventory

| component | state it keeps | operations | status |
|---|---|---|---|
| Outgoing SMS lifecycle (`services/sms.go`, `handlers/sms.go`) | `sms_messages` rows | `SendSMS`, `ProcessSMSAck`, `MarkMessageTerminal` | `SmsLifecycle` |
| SMS quota reservation (`services/quota.go`) | `user_quotas.sms_sent_this_month` | `ReserveSMSQuota`, `ReleaseSMSQuota` | `SmsLifecycle`, `SmsCredits` |
| SMS retry cron (`services/sms_retry.go`, `batch.go`) | the pass's device cache | `RetryFailedMessages`, two rescues | `SmsLifecycle` |
| FCM dispatch (`services/notification.go`) | goroutines | `DispatchMessages`, `markMessageFailed` | `SmsLifecycle` |
| AWS dispatch and events (`sms_provider_dispatch.go`, `handlers/aws_aeum_events.go`) | worker pool | `dispatchOne`, `handleAEUMNotification` | `SmsLifecycle` |
| Device claim and modem push (`services/modem.go`, `hooks/realtime.go`) | subscriptions | `ClaimPendingMessages`, `NotifyModemAgent` | `SmsLifecycle` |
| Balance and deposits (`services/balance.go`, `handlers/webhooks.go`) | `user_balances`, `payment_idempotency`, `payments` | `creditAndActivate`, `activateBalanceSubscription`, `ProcessBalanceRenewal` | `Billing` |
| Subscriptions (`services/subscription.go`, `handlers/plans.go`) | `subscriptions`, the quota's plan | `StartSubscription`, `CancelSubscription`, `CheckRenewals` | `Billing` |
| Webhook delivery (`services/webhook.go`) | `webhook_delivery_logs` | `TriggerWebhooks`, `RetryFailedWebhooks`, `RetryWebhookDelivery`, `SendTestWebhook` | `WebhookDelivery` |
| Circuit breakers (`services/circuitbreaker.go`) | in memory, per host | `Allow`, `RecordSuccess`, `RecordFailure`, eviction | `HostBreakers` |
| Web client: session (`hooks/useAuth.ts`, `main.tsx`, route guards) | the stored token, cached user and lists per tab | login, logout, authRefresh, `handleApiError` | `WebSession` |
| Web client: query cache and realtime (`hooks/use*.ts`, `routes/_layout/*.tsx`) | one cache entry per key, subscriptions | fetch, invalidate, subscribe, 35 mutations | `WebCache` |
| Web client: dialogs and forms (`components/*`) | form values, open dialogs, row menus | open, type, submit, close, refetch | `WebForms` |
| Maintenance mode (`middleware/maintenance.go`) | a boolean | toggle | in `WebSession` |
| Promo codes (`handlers/promos.go`) | `promo_redemptions` | redeem | its credit in `Billing` |
| Scheduled SMS; monthly reset, device and resource limits; modem agent; incoming SMS | `scheduled_sms`, `user_quotas`, the agent's queue and dedup map | - | not modelled, section 6 |
| API keys, retention, templates, contacts, export, encryption, payment adapters, migrations, updater, generated code and widgets | - | - | not modelled: CRUD, text, cryptography, I/O or layout |

**How they interact.** Every component reads and writes PocketBase collections;
there are no locks above SQLite. A write transaction is atomic and serialized,
but almost every handler *finds* a record, decides on the in-memory copy and
*saves* it later. A save writes only the columns that differ from what was
loaded, so two handlers that overlap merge into a row neither of them decided on.
Work continues in goroutines (`routine.FireAndForget`) that a crash forgets, and
crons run every minute (webhooks, schedules), every 15 minutes (SMS retries) and
daily (quota reset, renewals). PocketBase starts each cron job in a goroutine of its own,
so a pass that takes longer than its period overlaps the next (the webhook cron of a minute is modelled so; the
15 minute and daily ones are taken to be over before the next). The web client reads lists through a cache of
its own, which answers of fetches, realtime events and finished mutations update in any order; its
forms keep copies of what the cache held when they were mounted.

**What is hard.** Overlapping find-to-save windows on one row; reports, delivery
events and tickle failures that arrive late, twice or out of order; crashes between a
provider call and the save of its answer; retries racing answers; refunds that
must happen once; messages nobody looks for any more; answers that arrive for a user, page or
dialog that has gone. `PROJECT.json` lists each
hazard at its line with the properties that cover it, or why none does yet.

**What makes each component correct.**
- lifecycle: a created message comes to rest; a delivery the device confirmed is final, if no two windows
  overlap and no tickle fails late; an attempt is billed once;
- quota: the counter never passes the limit, charges for no more than what is in
  flight, created and not refunded, or was lost by a crash or a failed release, and each message is refunded at most once, when no
  retry can follow;
- balance and subscriptions: each payment is credited once, no debit without a
  period, no paid quota without a subscription that is renewed or expires;
- webhooks: a bounded number of retries per delivery, each of which ends; a down host is
  probed by one call at a time;
- session: no answer to a token the server honours ends it, a voided one does end, and no data cached for one
  user is shown to the next;
- query cache: what the user changed is shown or marked stale, unless an answer on its way that no
  mark can call back ran past it, and a subscription lives
  no longer than the visit that made it;
- forms: a request concerns the record that was opened, carries what was typed, and is
  alone.

## 2. Modules

| module | what it is |
|---|---|
| `SmsCredits` | abstract specification: one message, one credit, refunded at most once |
| `SmsLifecycle` | the rows and every actor that rewrites them; implements `SmsCredits` |
| `MCSmsLifecycle` | symmetry for TLC; all constants come from the `.cfg` files |
| `SmsCreditsProofs` | the books of `SmsCredits` balance, for any number of messages |
| `SmsLifecycleProofs` | types, the books of the quota, "billed, claimed and refunded once", final states and the refinement of `SmsCredits`, for any instance |
| `BillingLedger` | abstract specification: credits that count once, charges that are covered |
| `Billing` | one user's balance, subscription and plan; implements `BillingLedger` |
| `MCBilling` | amounts and prices for TLC |
| `BillingProofs` | types, refinement of `BillingLedger`, conservation of money, and what subscriptions promise without overlaps, for any instance |
| `HostBreakers` | the circuit breakers of the webhook hosts, and the calls they let through |
| `HostBreakersProofs` | one probe at a time, for any instance |
| `WebhookDelivery` | fan-out, retry cron, manual retry and test over delivery logs; extends `HostBreakers` |
| `MCWebhookDelivery` | hosts of the webhooks for TLC |
| `WebhookDeliveryProofs` | types, the refinement of `HostBreakers` and the bound of retries, for any instance |
| `WebSession` | the stored token, the tabs and the requests on their way |
| `WebSessionProofs` | nothing old is shown, no answer to an honoured token ends its session, for any instance |
| `WebCache` | tables of every list, page and change of the client, and the cache over them |
| `WebCacheProofs` | types, old data is marked, no subscription leaks, for any instance |
| `WebForms` | a table of every dialog and its place, and its life over a list that changes |
| `WebFormsProofs` | types, records, text and single requests of the dialogs, for any instance |

The lifecycle and the billing meet in one number, the monthly limit of the user's
plan (`SmsLimit` in the one, `quotaPlan` in the other), and nowhere else; they are not composed.
The lifecycle meets webhook delivery in one call (`TriggerWebhooks`, for a settled message),
which never answers. The three `Web` modules share no state but the query cache: `WebSession` needs
of it that clearing cancels, `WebCache` follows one key, `WebForms` sees each refetch.

### How `SmsLifecycle` corresponds to the code

| variable | code |
|---|---|
| `rows` | `sms_messages`: status, device, `retry_count`, error text (up to what `isPermanentFailure` tells apart), whether `sent_at` and `provider_message_id` are set |
| `used` | `user_quotas.sms_sent_this_month` of the one user |
| `devstate` | `sms_devices`; deleting one empties the relation in its rows |
| `requests` | `SendSMS` calls between `ReserveSMSQuota` and the creation of their rows |
| `dispatches` | record copies in tickle goroutines and in the provider worker pool |
| `task` | claim, report, event and `markMessageFailed` handlers between find and save |
| `owed` | `releaseQuota` calls still to come after the save in `MarkMessageTerminal` |
| `cron` | a pass of `RetryFailedMessages`: drain, copies found, requeued copies, `cutoff`, `deviceCache` |
| `handed` | message and device pairs: the device got the message, by claim or push |
| `old`, `stale`, `waiting` | older than `SMSRetryCutoff`, `sending` longer than `SMSSendingStaleAfter`, inside a backoff of `SMSRetryBackoffs` |
| `refunds`, `claims`, `billed`, `lost` | history, read by properties only; `lost` counts the reservations that a crash or a failed release takes |

One action per operation. Send: `Reserve`, `CreateMessages`, `CreateFails`,
`CreateFailsUnreleased`.
Goroutines: `ProviderReturns`, `ProviderSaveFails`, `TickleSent`, `TickleFails`.
Requests: `Claim`, `Ack`, `AeumEvent` find and decide; `Commit` or `SaveFails` saves;
`Release` is the refund after it, `ReleaseFails` one that `releaseQuota` logs and forgets. Cron: `CronStart`, `RetryFailed`, `RescuePending`,
`RescueSending`, `CronSaveFails`, `CronAdvance`. Environment: `GoesStale`,
`BackoffElapses`, `Age`, `RegisterDevice`, `DeleteDevice`, `Crash`.

What is abstracted: the columns that no decision reads (`webhook_sent`,
`delivered_at`, channel labels); the page sizes of `processInBatches` (50) and
`ClaimPendingMessages` (20), so a drain is one find and a claim of a batch is as
many `Claim`s; the circuit breaker of FCM, which is one more way for a tickle to
fail; the error text, which a device sends with `failed` only. A save refused by
validation (for instance of a relation to a deleted device) is `SaveFails` or
`CronSaveFails`. One pass of this cron runs at a time: it comes every 15 minutes, a drain handles at most 500 rows,
and nothing in the code keeps a longer one from the next, so `BilledOncePerAttempt` rests on that. The monthly reset and plan
changes are not modelled; within one month `SmsLimit` is fixed.

Two switches tell the regimes apart. With `Overlap = FALSE` a find waits
until no other handler or cron pass stands between its find and its save; goroutines, crashes,
late messages and refused saves still interleave freely. With `LateTickles = FALSE` a
tickle that fails finds its row as it was dispatched, still `assigned` and at the same attempt (`InTime`): this is an
assumption about FCM, since `markMessageFailed` overwrites whatever it finds. With both `TRUE`
nothing is assumed. The first regime is what the code's comments argue about; the
second is what actually may happen.

### How `Billing` corresponds to the code

| variable | code |
|---|---|
| `balance` | `user_balances.balance` |
| `markers`, `redeemed` | `payment_idempotency`, `promo_redemptions` |
| `sub` | the user's row in `subscriptions`: a new `id` per row, plan with its billing cycle, status, `cancel_at_period_end`, and `end`: `current_period_end` ahead of the clock, reached, or past the grace period too |
| `payments` | number of `payments` per subscription |
| `quotaPlan` | `user_quotas.plan` |
| `task` | requests between their read of the subscription (or quota) and their save |
| `cron` | a pass of `CheckRenewals`: which drain, the copy it works on |
| `elapsed`, `deposited`, `charged` | history, read by properties only |

A transaction is one action: `Credit`, `Activate`, `Redeem`, `RenewalCharges`. What the
code reads before and saves after it is a step of its own: `ReadSub`; `StartFinds`,
`StartReplaces`, `StartCreates`, `FreeQuotaFinds`, `FreeQuotaSaves`; `CancelFinds`, `CancelSaves`, `FlagSaves`;
`DowngradeFinds`, `DowngradeSaves`; and in the cron `RenewalReads`, `RenewalFails`,
`CronFinalizes`, `CronExpires`, `CronCancels`, `CronDowngradeFinds`, `CronDowngradeSaves`.
Environment: `PeriodEnds`, `GraceEnds`, `Crash`. `Overlap` is as in the other
module.

PocketBase is modelled from how the code uses it: a save is an UPDATE by id of the
changed columns (of a row that is gone: nothing); a payment needs a subscription that
exists and a positive amount; a subscription that payments refer to cannot be
deleted; a second row of one user is refused. Amounts are natural numbers, so the
rounding of the code's float64 sums is out of scope. Plans are fixed: an administrator
who edits or deletes one is not modelled, nor are saves that fail for other reasons.

### How `HostBreakers` and `WebhookDelivery` correspond to the code

| variable | code |
|---|---|
| `breakers` | `HostCircuitBreaker.breakers`; ages instead of `openedAt`, `halfOpenAt`, `lastFailureAt`, capped where the code compares them |
| `calls` | HTTP calls under way, allowed by a breaker and not yet recorded |
| `hooks`, `messages`, `sent` | `webhook_configs` (active, inactive, deleted), `sms_messages`, its `webhook_sent` |
| `logs` | `webhook_delivery_logs`: `delivery_status`, `next_retry_at` (none, later, due), `retry_count` |
| `fanout` | the goroutine of `TriggerWebhooks` for a message: webhooks left, the one it is calling |
| `pass` | for each pass of `RetryFailedWebhooks` the copies it loaded and has not handled |
| `manual` | `RetryWebhookDelivery` between load, call and clear |
| `autos`, `asked`, `trouble` | history and bounds |

`TriggerWebhooks`, `Refetch`, `NextWebhook`, `SendWebhookForMessage`, `FanOutDone`;
`RetryFailedWebhooks`, `NextRetry`, `RetryAnswered`; `RetryWebhookDelivery`,
`ManualAnswered`, `ManualClear`; `SendTestWebhook`; environment: `Elapse` (the backoff),
`ChangeHook`, `DeleteMessage`, `Panic`, `Crash`, `TimePasses`. Each step calls the operators
of `HostBreakers` (`Allow`, `Refused`, `Unused`, `RecordSuccess`, `RecordFailure`, `Vanish`)
where the code calls the breaker.
`breakerFor` and the method called on its result are one step here. `evictLocked` looks at the breakers one
lock at a time and deletes afterwards: `Victims` are those it may delete, given that any breaker may have closed
(`SurelyClosed` are those that have been since before) or failed (`JustFailed`) since it was looked at. A call ends within
`CallTime`, less than `Cooldown` (30 s and 60 s in `constants.go`); the resolution of the
host's name is taken to be inside that time. The FCM breaker is the same type, but
its calls have no such timeout, so `OneProbeAtATime` says nothing about it.

### How `WebSession` corresponds to the code

`store` is the token in `localStorage`, shared by the tabs; `page`, `config`, `cache` and `stale` are per
tab: the route, the fetched `AppConfig`, `currentUser` and a list, and whether the five minutes of
`staleTime` are over. `requests` are those on their way, with the token they were sent with;
`live` is lost when the cache is cleared, `old` marks what was asked before the last logout; no variable records
history otherwise.
`exists`, `key` (the `tokenKey`, renewed by a password change) and `maintenance` are the server.
One action per user operation (`Visit`, `LogOut`, `SubmitLogin`, `SignUp`, `NewPassword`, ...), `Serve` for
the server, and one action per kind of answer (`RefreshAnswered`, `ListAnswered`, `ListRefused`,
`LoginAnswered`, `DeleteAnswered`). Recover-password and verify-email are left out: they
change neither token nor cache.

### How `WebCache` corresponds to the code

Its tables name every list hook (`SMSList`, ...: what the server reads for it, what its
subscription refreshes), every page (what it mounts, what suspends it) and every mutation
hook (what the server writes, which keys it invalidates and in which callback). A behaviour follows one
list, one change that concerns it and one hook that refreshes it; the interplay of
two changes of one list is that of a change and a `ForeignChange`. `data`, `invalid` and `fetch`
are the entry of the query cache, `subs` the effects of `useRealtimeQuery`, `events`
what the server sent them, `mutation` the change on its way, `version` and `due` what the list
reads on the server and what the cache was told of it; `missed` (history) is the newest version it was told of while
an answer that no mark can call back (`Uncancellable`) was on its way without it. The query library is external, modelled
as the client uses it. The polling of `modem-status` is left out.

### How `WebForms` corresponds to the code

Its table (`Forms`) pairs every dialog with the place where its page mounts it:
in the header, in the empty state of the list, in a row keyed by its index (`DataTable`) or
by its record (`ManageGroups`), or as a page. `menu` and `opened` are the row's menu and the record it was
opened for; `form` and `base` what the form holds and what it started from; `list` the cached list,
`server` the records; `sent` the requests on their way, `here` while the component that sent them
listens, `left` when the page was left. `Refetch` replaces the list, and with it what is rendered (`Present`, `Gone`).
Left out: pagination, the own row in the users' menu, completed schedules, the result step of the
top-up, exports; `ChangePassword` and `DeleteAccount` are in `WebSession`.

## 3. Runs

The `sms_` runs use `MCSmsLifecycle`, the `billing_` runs `MCBilling`, the `webhook_` runs
`MCWebhookDelivery`, the `web_` runs the module itself. Deadlock is not
checked: the system may come to rest with every message settled and the bounds used up.

| run | regime | checks | result |
|---|---|---|---|
| `sms_credit_flow` | no overlap, no late tickles | `TypeOK`, `ClaimedOncePerAttempt`, `CreditsImplemented`, `NoFreeResend`, `NoResendAfterDeliveryFailure`, `DeliveredFinal` | holds (1.5 M states) |
| `sms_races` | overlap, late tickles | `QuotaWithinLimit`, `NoOvercharge`, `BilledOncePerAttempt` | holds (3.0 M states) |
| `sms_liveness` | overlap, late tickles, fair | `NeverInLimbo` | holds (596 k states) |
| `sms_double_refund` | no overlap, late tickles | `RefundAtMostOnce` | violated |
| `billing_sequential` | no overlap | `TypeOK`, `OneChargePerPeriod`, `QuotaFollowsSubscription`, `NoChargeAfterCancel` | holds (122 k states) |
| `billing_races` | overlap, fair | `LedgerImplemented`, `CancelTakesEffect`, `PastDueEnds` | holds (583 k states) |
| `billing_double_charge` | overlap | `ActivatesOnlyUnpaid` | violated |
| `webhook_delivery` | three passes overlap | `TypeOK`, `OneProbeAtATime`, `RetriesAreBounded` | holds (2.2 M states) |
| `webhook_liveness` | two passes overlap, fair | `EveryRetryEnds` | holds (317 k states) |
| `web_session` | fair | `TypeOK`, `AfterLogoutNothingOld`, `SessionOutlivesErrors`, `VoidedSessionEnds`, `ShownUserCatchesUp` | holds (488 k states) |
| `web_cache` | fair | `TypeOK`, `ReadYourWrites`, `NoLeakedSubscription`, `OwedChangeShows` | holds (920 k states) |
| `web_forms` | - | `TypeOK`, `KeyedRowKeepsItsRecord`, `SendsOnlyTyped`, `DeviceKeyIsNotLost`, `OneSendAtATime`, `TextSurvivesRefetch` | holds (3.0 M states) |

- `sms_credit_flow`: the detailed lifecycle implements `SmsCredits`: a
  message holds one credit, spends it when it is sent or gets it back once,
  never both, and no release takes another message's credit. The mapping (`CreditOf`) reads the row and the refund
  history. A release that fails is a credit lost (`Lose`), the message's own and no other's. With late tickles the refinement
  and `DeliveredFinal` are false even without overlap (`sms_double_refund`, section 4). With overlapping windows the
  refinement is false even without them: two terminal reports, or a
  report and the cron, that both load the row before either saves both refund it. False there is also
  `NoResendAfterDeliveryFailure`: the report of a first attempt, whose device was deleted, loads
  the row, the message is sent again by AWS, and the late save fails it with an error that is retried.
  Three reports are needed for the exception that `NoFreeResend` names (`sentAt`): one that fails for good,
  one that says sent, one that fails for a while put a refunded message back into the queue.
- `sms_races`: what survives every interleaving. The counter's bound rests on the
  conditional UPDATE alone; "billed once" rests on `retry_count`, which only the cron
  writes and always together with the requeue.
- `sms_liveness`: a created message ends as sent, delivered or failed, though its device may go before or after it
  was assigned, come back or never. Nothing looks for `assigned` rows, so two gaps are
  written into the property (`Stranded`): the process dies, or the save is
  refused, between the AWS call and the save of its answer; or the row belongs to no device, because
  that was deleted while the message was assigned, or before the stale rescue requeued it.
- `sms_double_refund`: a tickle that fails late overwrites the error of a finally failed, refunded row;
  the cron resurrects it and it is refunded again. The finding quotes the comment it contradicts.
- `billing_sequential`: what subscriptions promise when nobody gets in between. A crash
  may fall anywhere; only `QuotaFollowsSubscription` excludes it, since a crash between
  the save of `canceled` and the downgrade leaves the paid plan in the quota and
  no code looks for that.
- `billing_races`: with two requests and the cron in each other's windows the money is
  still right (`BillingLedger`), every cancellation at period end takes effect, and
  `past_due` ends. The three properties of the sequential run are all false here: a
  deposit that read `pending` or `past_due` activates, and charges, whatever the
  subscription has become.
- `billing_double_charge` shows that: `StartSubscription` has created its row, a deposit
  reads it as pending, both activate it, and the user has paid twice for one period.
- `webhook_delivery`: whatever the passes, the manual retry, a crash or a panic do to each
  other's logs, an event is retried a bounded number of times. One pass at a time retries a log
  `MaxRetries` times. Overlapping ones can set `retry_count` back and spend each count again:
  `MostRetries`, which is C(R+P, P) - 1 for R retries and P passes, 9 for the 2 retries and
  3 passes of the run (19 for the 3 retries of the code and 3 passes). TLC reaches that bound, and with two passes
  a smaller formula holds too that is wrong for three: the run has three, under symmetry.
- `webhook_liveness`: no delivery waits for ever behind an open breaker or newer logs, although a second pass may
  put back the copy it loaded and a manual retry clears what a pass then restores.
- `web_session`: while the server honours the stored token, no answer to it and no lost request ends the
  session, and `queryClient.clear` cancels what was on its way. What `SessionOutlivesErrors` excepts is what the code
  does: the user's own logout and deletion, a refused login, and the 401 to a request sent with *another* token, which
  empties the store all the same (section 4). `AfterLogoutNothingOld` is about cached data only: a late
  `authRefresh` may still store the old user's token (section 4).
- `web_cache`: no order of settling, events, fetches and visits leaves old data that the
  cache takes for fresh. The properties name what they leave out: a change that an answer already on its way ran past, when
  that answer belongs to a first fetch or to one whose page was left and no mark can call it back (`missed`; section 4); pairs
  of change and list that the client does not connect (`Untold`: renaming or deleting a device and the message lists that
  show its name, an upgrade and the payments, deleting a group and the contacts), and callbacks
  that a lost answer or a closed dialog drops (`OnlyOnSuccess`, `OnlyWhileOpen`; so the comment at
  `TopUpDialog.tsx:89` holds only while the dialog stays open).
- `web_forms`: which dialogs keep their record, text, key and single request; section 4 names those
  that do not.

**Bounds.** `sms_races` has two messages: they suffice for batches, for one message's release to eat the
other's credit and for the counter to reach the limit (2). It has a modem and the AWS device; the theorems `QuotaRespected`, `NothingOvercharged` and `BilledOnce` cover
phones too, and `sms_liveness` runs one with everything overlapping. `sms_credit_flow` has one
message and all three transports, since what happens to a row depends on its device and not on other rows; that two messages'
credits do not mix is the theorem `CreditsAreImplemented`. `sms_liveness` has one, a phone and the AWS device, for the
same reason; a modem takes its messages like a phone, without a tickle that fails. No run has two devices of a transport: the
properties tell transports apart, and the device changes
cover loss and replacement. One retry has a first, a
last and an exhausted attempt, two (in `sms_credit_flow`) one in the middle. `MaxReports = 2` allows a report followed by a duplicate,
late or contradicting one, 3 (in `sms_credit_flow`) one that is contradicted twice; `MaxFaults = 1` puts one crash, refused save or failed release between any two steps, 2 (in `sms_credit_flow`) any two of them.
One handler beside the cron and the goroutines is enough for two overlapping windows;
the double claim of section 4 would need two, and no run has them. In the billing, amounts and prices (2 a payment, 1 a promo code;
2 and 4 a period) make one plan cost one payment and one several; three payments
pay for a start, a renewal and a reactivation; three starts replace a free subscription
and then try to replace a paid one. The overlapping run has two payments, one start, two
requests and the cron; what more of them do to the money is covered by the proof.
For webhooks one message and one host suffice, since logs of two hosts share nothing but the map
of breakers, whose eviction is covered by the proof; the liveness run has one webhook, two passes and two logs (of the
message and of a test, or a retry), one before the other in a batch of one; `MaxEvents = 1` is one manual retry, test, changed
record, panic or crash. One tab of the session meets its own late answers; a second
tab acts on it only through the shared token, which logins, expiries and voided
keys change as well. Two logins make a next user. In the cache two writes make an answer between two changes; one trouble is a failed
fetch, a lost answer or event, or a collected entry; two visits leave a page and come back. In the forms three
records make a row with neighbours on both sides, two sends the second of a closed and reopened dialog.

**Fairness** (`FairSpec`). Weak fairness for what the program or the clock
completes by itself: a request that reserved goes on, goroutines finish, saves and releases
happen (or fail), the cron is called again, stale windows and backoffs
elapse, and a message grows older than `SMSRetryCutoff`. It also assumes that a device that is up polls (`AgentClaims`; the agents
poll on every connection). Nothing is assumed about a device reporting, a
tickle arriving, an event being delivered or faults happening. In `Billing`: a
request that began ends (or dies in a crash), the daily cron is called and its pass
goes on, and time passes (`PeriodEnds`, `GraceEnds`). Nobody is assumed to pay, start or
cancel. In `WebhookDelivery` goroutines run, calls end (they have a timeout), the cron comes round
and time passes; hosts need not answer. In `WebSession` the server answers and
answers arrive, the mounted tab fetches its configuration and user, and the stale time passes; in `WebCache`
fetches, events and mutations are answered and handled, but nothing brings the user
back to a page and no fetch is tried again once it gave up.

## 4. Where the code does otherwise than it says

Two disagreements are shown by runs (`sms_double_refund`, `billing_double_charge`; quoted under
`findings`). While modelling we met others; no run shows them, and the properties are stated so
that they do not claim what is false:

- `sms.go:330` says that a delivered message can never regress to failed. `markMessageFailed` (`notification.go:149`) has no such
  guard, and a tickle that fails after the phone polled, sent and reported by itself turns the delivered row into a failed
  one; no overlap is needed (`DeliveredFinal` is checked and proved for tickles that fail in time).
- `releaseQuota` (`sms.go:67`) logs a release that fails and goes on: the credits stay charged until the monthly reset
  (`CreateFailsUnreleased`, `ReleaseFails`).
- `modem.go:91` calls `ClaimPendingMessages` atomic. It finds, then saves without a condition: two
  polls that overlap both get the message (`ClaimedOncePerAttempt` is checked without overlap).
- `sms.go:329` says the guards mirror the AWS event handler's; that one has none for `delivered`
  (`aws_aeum_events.go:141`), so a late failure event turns a delivered message into a failed one (`DeliveredFinal` is about devices).
- `sms_retry.go:36` says that the reservation is released the moment a message stops being
  retryable. A message that fails with retries left and then passes `SMSRetryCutoff` is not retried and never refunded; nor
  is a rejected AWS attempt that exhausts its retries.
- `sms_retry.go:179` promises "never losing a message": the stale rescue requeues without
  resolving a device, so that a message whose device was deleted stays `assigned` to nobody; so does an assigned message
  whose device is deleted.
- `subscription.go:67` deletes the old subscription; once it was paid its payments require it, the
  deletion is refused, the error ignored, and the new row violates the unique index: a
  cancelled customer cannot subscribe again.
- The manual webhook retry clears the automatic one (`webhook.go:731`); a pass that had loaded the log puts it
  back. An open breaker drops an event without a log (`webhook.go:521`). A webhook with logs cannot be
  deleted alone, since the logs require it.
- `circuitbreaker.go:150` says that eviction prefers closed breakers. The scan lets go of each breaker's lock before the
  deletion: one that opened meanwhile may be the victim, and the outage of its host is forgotten.
- `useAuth.ts:36` clears the store on a 401 "(invalid token)" of `authRefresh`, and `main.tsx:22` on that of any list, without asking which
  token was refused: an answer to the previous user's request, or to the refetch after an account deletion, that arrives after
  the next login ends the next user's session. A late success does the like: the client library saves the token of an `authRefresh` over the one stored.
- A mark put on a fetch whose answer is on its way is lost when the library cannot call the answer back: on a first fetch, or when its
  page was left. The change settles, the answer clears the mark, and the list counts as fresh without it.
- `DataTable` keys rows by index and lists are newest first: a record that arrives moves the rows under
  an open menu, and its dialog then acts on another record than the one it was opened on.
- A rotated or added API key is shown once (`en.json:477`), but closing the dialog resets
  the mutation, and a refetch that deactivates the row unmounts it: the key is lost.
- The edit forms send every field as it was when the form was mounted: a change somebody made
  meanwhile is put back. The settings' draft is overwritten by a refetch that changed.
- The delete-account page shows the cached user and deletes the stored one: with another
  account logged in from a second tab, these differ.

## 5. Proofs

- `SmsLifecycleProofs`, for any set of messages (finite), devices and handlers, any limit
  and any number of retries and faults, from `ConstantsAssumption` (naturals, disjoint kinds of devices), `MessagesAreFinite`. Three layers of invariant, each preserved action by action:
  - *Always.* `TypeCorrect`, `QuotaRespected`, `BilledOnce`, `NothingOvercharged`.
    The inductive invariant `IInv` strengthens the first three:
    `BilledOncePerAttempt` alone says nothing of the copies the cron has found (`BatchOK`: a found
    copy carries the row's `retry_count`, one copy per message) or has requeued and not yet handed
    out (`AttemptsOK`: `retry_count` numbers the attempts, every job has its own number, and no
    billed number is above the row's), of messages that have
    no attempt yet (`FreshOK`) or of what handlers are about to save (`TaskOK`: never
    `retry_count`, never back to `pending`). Most actions follow from `Harmless`, which says that a step that changes no `retry_count`,
    hands out no job and leaves fresh messages alone keeps the invariant. `Books` adds the sum behind `NoOvercharge`, with what crashes and failed releases lost on its side; a release
    that finds too little on the counter is clamped, which only lowers it.
  - *Without overlapping windows* (`~Overlap`). `ClaimedOnce`, from `Windows`: one handler or the cron at most stands between a
    find and its save, so what it loaded is still the row (`Current`), but for a device the user deletes.
  - *... and tickles that fail in time* (`~LateTickles`). `RefundedOnce`, `DeliveryIsFinal`, `NeverResent`, `NothingResentFree`
    and `CreditsAreImplemented`, the refinement of `SmsCredits`. `markMessageFailed` runs in a goroutine and overwrites the row
    whatever it holds; `sms_double_refund` shows what follows, so the hypothesis says that it finds the row as its dispatch
    left it (`InTime`). It is one about the environment and says nothing of reports, events or the cron. `Calm` ties the provider id,
    the calls under way and the refund to the row (`RefundOK`: a refunded, unsent message is final for reports and cron alike);
    `Moves` is how a calm step may change a row, and each of the five theorems follows from it. For the
    refinement `Balance` says that the counter is the sum of the credits, so that no release ever clamps.
- `SmsCreditsProofs`: `CreditsBalance` (the counter equals the credits reserved, held and
  spent plus those lost in crashes and failed releases, so no release ever clamps at zero) and `CreditsWithinLimit`.
- `BillingProofs`, for any transactions, codes, plans, prices, requests, starts and
  crashes, from `BillingAssumption` (positive amounts and prices, transactions are not
  promo codes) and `NoTaskAssumption`: `TypeCorrect`, `ImplementsLedger`, `MoneyConserved`. `IInv` is `TypeOK` cut into the
  parts that actions leave alone, strengthened by what `TypeOK` does not say of copies
  (`TaskOK`, `PassOK`): what a request or the cron is about to save or charge is a row that
  existed, without which a charge could book a payment on no subscription. One lemma
  per action; `ChargeTyped` and `StatusSaved` are shared by requests and cron. `LedgerStep` maps every step to
  a credit, a charge or a stutter: a credit is new because the marker, or the
  redemption, is looked up in the transaction that writes it.
  Under `~Overlap` (no two requests or cron passes at once; crashes anywhere): `ChargedOncePerPeriod`, `QuotaIsThePlan` and
  `CanceledIsNotCharged`, from `Sequential`: who is at work is alone (`Alone`), so what it read is still so (`Fresh`); payments
  count the periods that ran (`Periods`); and the quota's plan follows but between the save of a
  cancellation and that of the quota (`Follows`). The hypothesis is needed: `billing_double_charge`.
- `HostBreakersProofs`, for any hosts, callers, cap, thresholds and times with `CallTime < Cooldown`
  (`BreakerAssumption`): `OneProbe`, from the invariant `BInv`. `OneProbeAtATime` is not inductive: a second probe is let through when the first is
  `Cooldown` old, and only because every call is at least as old as the state of its breaker
  (`CallsAreOlder`) and ends within `CallTime` is the first then over. Whichever breaker
  is evicted, the invariant holds of the rest, and one that is created anew is closed; that it prefers closed ones is not proved, because it is not so (section 4).
- `WebhookDeliveryProofs`, for any messages, webhooks, passes, batches and retries
  (`DeliveryAssumption`): `ImplementsBreakers`, `OneProbeInDelivery`, `TypeCorrect`. The deliveries are
  a refinement of `HostBreakers` by the identity: `IInv` adds to the breakers' `BInv` what ties a call to its goroutine or pass
  (`FanoutOK`, `PassOK`), since a step may only let go of a call that the breaker let through. One
  lemma per part and action; the breakers' theorem then carries over.
  `RetriesBounded`: the number of retries is no function of the log, since a pass that loaded it earlier sets
  `retry_count` back. What does decrease is the *profile* of a log: for each count v, how many passes will still save
  at most v + 1, because of the copy they hold or the count they would load. Loading, dropping and skipping never raise it, and a saved
  retry lowers it where it first differs, though it may raise it further on (`PassedGrows`); so no profile comes twice. Every call
  under way still has a profile of its own to come (`CallsHaveProfiles`, an injection), which bounds saved and running retries
  together by `MostRetries` a log. `FewLogs` bounds the logs: the goroutine's one, and one for each manual retry or test. A result
  that is lost is one of the `trouble`s. The first formula of this bound, R(R+3)/2, was right for two passes only: the proof
  did not go through, and TLC found the counterexample with three.
- `WebCacheProofs`, for any number of writes, visits and troubles (`CacheAssumption`), over all lists, changes and
  pages of the tables: `ReadYourWritesHolds`, `NoLeak`, `TypeCorrect` (which needs `NoneAssumption`: `None` names no list and no table). `ReadYourWrites` alone is not inductive: it says nothing of an answer that is
  on its way. `AnswersOK` adds that such an answer is no older than what the user may expect, because a mark
  starts the fetch under way anew; where the library cannot do that (`Uncancellable`: a first fetch, or one nobody
  observes), what the answer ran past is `missed`, which the statement excepts. The tables enter through `ChangesAreTold`: but for `Untold`, every change
  invalidates every list that shows what it writes.
- `WebSessionProofs`, for any accounts, tabs, logins and troubles (`SessionAssumption`):
  `NothingOldIsShown`, `ErrorsEndNoSession`, `TypeCorrect`. `FreshOK` is the strengthening: a request whose query is still in the
  cache was sent after the last logout, which holds because a logout clears the cache. `ErrorsEndNoSession` needs that the token of a 401
  on its way is honoured no more (`AnswerOK`), which rests on keys that are only renewed (`Known`), and that a deleted account stays so
  (`DeletionOK`; ids are not used again).
- `WebFormsProofs`, for any number of records, requests and changes by others (`FormsAssumption`):
  `RecordsKept`, `OnlyTypedIsSent`, `SendsOnce`, `DeviceKeysAreRead`, `TextSurvives`, `TypeCorrect` (`TInv`: what a dialog shows
  and waits for goes when what renders it goes). Each place has its part of the invariant.
  `HeaderOK`: the dialog is always mounted, and of its requests only one still calls back, so the button knows of it.
  `KeyedOK`: the open menu is that of the record it was opened on, and what the form holds is its own or typed.
  `SettingsOK`: the draft differs from the cached settings in nothing but what was typed, refetch or not.

Every safety invariant and every action property that a run checks is the statement of a theorem. Only model-checked is liveness
(`NeverInLimbo`, `CancelTakesEffect`, `PastDueEnds`, `EveryRetryEnds`, `VoidedSessionEnds`, `ShownUserCatchesUp`,
`OwedChangeShows`): fairness and ENABLED are out of TLAPS's reach. That `MostRetries` is C(R+P, P) - 1 is a
matter of induction over R and P and was only computed for small ones; the theorem speaks of the number of profiles.

## 6. Not modelled

Scheduled SMS, the monthly reset with the device and resource limits, the modem agent, incoming SMS
and the shared limits of promo codes have state and hazards (listed in `PROJECT.json`, without
properties) and are left for later modules: `Quota` (reset and plan changes against
reservations), `Schedules` (a pass against edits and crashes) and `ModemAgent` (queue, dedup
window, report retries). API keys, retention, templates, contacts, export and encryption of bodies are
single transactions or text. Payment adapters, SNS signatures, migrations, configuration and the updater are I/O and
cryptography. Of the client, generated routes, the component library and static pages have no state of their own.
