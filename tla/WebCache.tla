------------------------------ MODULE WebCache ------------------------------
(***************************************************************************)
(* The lists of the web client and what keeps them current: the query cache, *)
(* the realtime subscriptions of the mounted lists, and the changes the user *)
(* makes, each of which tells the cache which keys it has outdated.          *)
(*                                                                         *)
(* A behaviour follows one list, one change and one subscribing hook.  The   *)
(* tables below name every list, change and page of the client; Init chooses *)
(* among them.                                                             *)
(***************************************************************************)
EXTENDS Integers, FiniteSets

CONSTANTS
    None,          \* no data, no change
    MaxWrites,     \* bound: changes committed by the server
    MaxTrouble,    \* bound: failed fetches, lost answers, lost events, garbage collections
    MaxVisits      \* bound: pages visited

ASSUME CacheAssumption == {MaxWrites, MaxTrouble, MaxVisits} \subseteq Nat

-----------------------------------------------------------------------------
(* Lists: the query key, the collections that the server reads for it, the    *)
(* collection whose events the hook subscribes to, and the keys they refresh. *)
(* "counters" stands for rows written by raw SQL, of which no event tells;    *)
(* "device_names" for what expand brings of a device into the message lists.  *)

List(k, r, f, s) == [key |-> k, reads |-> r, feed |-> f, refreshes |-> s]

ContactList      == List("contacts", {"contacts"}, "contacts", {"contacts"})
ContactGroupList == List("contact-groups", {"contact_groups"}, "contact_groups", {"contact-groups"})
DeviceList       == List("devices", {"sms_devices"}, "sms_devices", {"devices", "quota"})
SMSList          == List("sms", {"sms_messages", "device_names"}, "sms_messages", {"sms", "quota"})
SMSDetails       == List("sms", {"sms_messages"}, None, {})
ScheduledSMSList == List("scheduled-sms", {"scheduled_sms", "device_names"}, "scheduled_sms", {"scheduled-sms"})
TemplateList     == List("templates", {"sms_templates"}, "sms_templates", {"templates"})
WebhookList      == List("webhooks", {"webhook_configs"}, "webhook_configs", {"webhooks"})
WebhookLogs      == List("webhook-logs", {"webhook_delivery_logs"}, None, {})
ApiKeyList       == List("api-keys", {"api_keys"}, "api_keys", {"api-keys"})
PaymentList      == List("payments", {"payments"}, "payments", {"payments"})
PlanList         == List("plans", {"user_plans"}, None, {})
Quota            == List("quota", {"user_quotas", "counters"}, "user_quotas", {"quota"})
Balance          == List("balance", {"user_balances"}, None, {})
UserList         == List("users", {"users"}, None, {})
SystemConfig     == List("system-config", {"system_config"}, None, {})
AppConfig        == List("app-settings", {"system_config"}, None, {})

Lists == {ContactList, ContactGroupList, DeviceList, SMSList, SMSDetails, ScheduledSMSList,
          TemplateList, WebhookList, WebhookLogs, ApiKeyList, PaymentList, PlanList, Quota,
          Balance, UserList, SystemConfig, AppConfig}
Keys == {l.key : l \in Lists}
Collections == UNION {l.reads : l \in Lists}

\* Nothing is neither a list nor a collection.
ASSUME NoneAssumption == None \notin Lists /\ None \notin Collections

-----------------------------------------------------------------------------
(* Pages: the lists they mount, and those among them that suspend the page    *)
(* until there is data, so that neither observer nor subscription is there    *)
(* before.  The header of every page mounts Balance and AppConfig.            *)

Page(m, s) == [mounts |-> m \cup s \cup {Balance, AppConfig}, suspends |-> s]

DashboardPage    == Page({SMSList, DeviceList, WebhookList, ApiKeyList, Quota, PlanList}, {})
SMSPage          == Page({DeviceList, ContactGroupList, ContactList, TemplateList}, {SMSList})
SMSDetailsDialog == Page(SMSPage.mounts \cup {SMSDetails}, {})
ContactsPage     == Page({ContactGroupList}, {ContactList})
DevicesPage      == Page({}, {DeviceList})
ScheduledPage    == Page({DeviceList, TemplateList}, {ScheduledSMSList})
TemplatesPage    == Page({}, {TemplateList})
WebhooksPage     == Page({}, {WebhookList})
WebhookLogsDialog == Page({WebhookList, WebhookLogs}, {})
IntegrationsPage == Page({}, {ApiKeyList})
BillingPage      == Page({}, {PaymentList})
SettingsPage     == Page({Quota, PlanList}, {})
AdminPage        == Page({SystemConfig}, {UserList})
PublicPage       == [mounts |-> {AppConfig}, suspends |-> {}]     \* login, terms, privacy

LayoutPages == {DashboardPage, SMSPage, SMSDetailsDialog, ContactsPage, DevicesPage, ScheduledPage,
                TemplatesPage, WebhooksPage, WebhookLogsDialog, IntegrationsPage, BillingPage,
                SettingsPage, AdminPage}
Pages == LayoutPages \cup {PublicPage}

-----------------------------------------------------------------------------
(* Changes: what the server writes, the keys invalidated, in which callback,  *)
(* and from which pages.  "settled": the hook's onSettled, whatever the       *)
(* answer; "success": its onSuccess; "call": the onSuccess passed to          *)
(* mutate(), which the library drops when the component has gone or reset the *)
(* mutation.                                                                  *)

Change(w, t, level, at) == [writes |-> w, tells |-> t, level |-> level, at |-> at]

CreateContact == Change({"contacts"}, {"contacts"}, "settled", {ContactsPage})
UpdateContact == CreateContact
DeleteContact == CreateContact
ImportContacts == CreateContact
CreateContactGroup == Change({"contact_groups"}, {"contact-groups"}, "settled", {ContactsPage})
UpdateContactGroup == CreateContactGroup
DeleteContactGroup == [CreateContactGroup EXCEPT !.writes = @ \cup {"contacts"}]

CreateDevice == Change({"sms_devices", "counters"}, {"devices", "quota"}, "settled", {DevicesPage})
UpdateDevice == Change({"sms_devices", "device_names"}, {"devices"}, "settled", {DevicesPage})
DeleteDevice == [CreateDevice EXCEPT !.writes = @ \cup {"sms_messages", "scheduled_sms"}]

SendSMS == Change({"sms_messages", "counters"}, {"sms", "quota"}, "settled", {SMSPage})
SendSMSTemplate == SendSMS

CreateScheduledSMS == Change({"scheduled_sms"}, {"scheduled-sms"}, "settled", {ScheduledPage})
UpdateScheduledSMS == CreateScheduledSMS
DeleteScheduledSMS == CreateScheduledSMS

CreateTemplate == Change({"sms_templates"}, {"templates"}, "settled", {TemplatesPage})
UpdateTemplate == CreateTemplate
DeleteTemplate == CreateTemplate

CreateWebhook == Change({"webhook_configs"}, {"webhooks"}, "settled", {WebhooksPage})
UpdateWebhook == CreateWebhook
DeleteWebhook == CreateWebhook
TestWebhook == Change({"webhook_delivery_logs"}, {"webhook-logs"}, "success", {WebhooksPage})
RetryWebhook == [TestWebhook EXCEPT !.at = {WebhookLogsDialog}]

CreateApiKey == Change({"api_keys"}, {"api-keys"}, "success", {IntegrationsPage})
DeleteApiKey == Change({"api_keys"}, {"api-keys"}, "settled", {IntegrationsPage})
RotateApiKey == DeleteApiKey
RevokeApiKey == DeleteApiKey

CreateUser == Change({"users"}, {"users"}, "settled", {AdminPage})
UpdateUser == CreateUser
DeleteUser == [CreateUser EXCEPT !.tells = Keys]
SaveSystemConfig == Change({"system_config"}, {"system-config", "app-settings"}, "success", {AdminPage})

UpdateProfile == Change({"users"}, Keys, "settled", {SettingsPage})
UpgradePlan == Change({"user_quotas", "user_balances", "payments"}, {"quota", "balance"},
                      "call", {DashboardPage, SettingsPage})
RedeemPromo == Change({"user_balances"}, {"balance"}, "call", LayoutPages)
TopUp == Change({}, {"balance"}, "call", LayoutPages)

Changes == {CreateContact, UpdateContact, DeleteContact, ImportContacts, CreateContactGroup,
            UpdateContactGroup, DeleteContactGroup, CreateDevice, UpdateDevice, DeleteDevice, SendSMS,
            SendSMSTemplate, CreateScheduledSMS, UpdateScheduledSMS, DeleteScheduledSMS, CreateTemplate,
            UpdateTemplate, DeleteTemplate, CreateWebhook, UpdateWebhook, DeleteWebhook, TestWebhook,
            RetryWebhook, CreateApiKey, DeleteApiKey, RotateApiKey, RevokeApiKey, CreateUser, UpdateUser,
            DeleteUser, SaveSystemConfig, UpdateProfile, UpgradePlan, RedeemPromo, TopUp}

NoChange == Change({}, {}, "settled", {})

\* What the code leaves untold: the device of a message, the payment of an upgrade, the
\* groups of a contact.  Only an event can bring these.
Untold == {<<UpdateDevice, "sms">>, <<UpdateDevice, "scheduled-sms">>, <<DeleteDevice, "sms">>,
           <<DeleteDevice, "scheduled-sms">>, <<UpgradePlan, "payments">>,
           <<DeleteContactGroup, "contacts">>}

\* Changes whose list is left alone when the answer is lost, and those of which also a
\* closed dialog keeps the list from hearing
OnlyOnSuccess == {CreateApiKey, TestWebhook, RetryWebhook, SaveSystemConfig, UpgradePlan, RedeemPromo, TopUp}
OnlyWhileOpen == {UpgradePlan, RedeemPromo, TopUp}

-----------------------------------------------------------------------------
VARIABLES
    watch, change, feeder,   \* the list, the change and the subscribing hook of this behaviour
    page,
    version,         \* server: how often what the list reads has changed
    data,            \* cache: the version it holds, or None
    invalid,         \* cache: marked by invalidateQueries
    fetch,           \* the query function: idle, asked, served, failed
    subs,            \* the calls of subscribe(), one for each mounted hook
    events,          \* events sent to a subscription and not yet handled
    mutation,        \* the user's change on its way
    due,             \* history: the newest version the list was told of
    missed,          \* history: the newest of them that an answer on its way ran past
    writes, trouble, visits    \* bounds

table == <<watch, change, feeder>>
cache == <<data, invalid, fetch>>
realtime == <<subs, events>>
bounds == <<writes, trouble, visits>>
vars == <<table, page, version, cache, realtime, mutation, due, missed, bounds>>

Idle == [stage |-> "idle", v |-> 0]
Asked == [stage |-> "asked", v |-> 0]
Failed == [stage |-> "failed", v |-> 0]        \* gave up; nothing on its way
Served(v) == [stage |-> "served", v |-> v]
InFlight == fetch.stage \in {"asked", "served"}

NoMutation == [stage |-> "idle", here |-> FALSE, v |-> 0]

Mounts(p) == watch \in p.mounts
Mounted == Mounts(page)
Suspended == watch \in page.suspends /\ data = None
Active == Mounted /\ ~ Suspended          \* the query has an observer

\* The hook of a page whose subscription refreshes the watched key: the quota has three,
\* of which a behaviour follows one
Feeders(p) == {feeder} \cap p.mounts

\* It runs at once and calls subscribe(), but with a suspended list, when the data is there
Running(p) == {l \in Feeders(p) : l = watch /\ l \in p.suspends => data # None}
Subs(hooks) == {[feed |-> l.feed, stage |-> "asked", disposed |-> FALSE] : l \in hooks}

\* One page of each kind, as the list and the change of this behaviour tell them apart
PageKind(p) == <<Mounts(p), watch \in p.suspends, p \in change.at, Feeders(p) # {}>>
Visited == {CHOOSE p \in Pages : PageKind(p) = k : k \in {PageKind(p) : p \in Pages}}

-----------------------------------------------------------------------------
(* The query cache                                                           *)

\* invalidateQueries: mark; an active query is fetched anew, unless its first fetch is
\* still under way, which is neither cancelled nor repeated
Invalidated ==
    /\ invalid' = TRUE
    /\ fetch' = IF Active /\ (data # None \/ ~ InFlight) THEN Asked ELSE fetch

\* The answer to a first fetch, or to one that nobody observes any more, is not called back:
\* if it left the server before the change, it clears the mark when it arrives
Uncancellable == fetch.stage = "served" /\ (~ Active \/ data = None)

Owe(v) ==
    /\ due' = IF v < due THEN due ELSE v
    /\ missed' = IF Uncancellable /\ fetch.v < v /\ missed < v THEN v ELSE missed

\* A mount or a focus fetches what is missing, marked, or aged beyond the staleTime, as it
\* may have by then
\* Mutant: the mark does not count.
RefreshedByAge(aged) == fetch' = IF ~ InFlight /\ (data = None \/ aged) THEN Asked ELSE fetch
Refreshed(aged) == fetch' = IF ~ InFlight /\ (data = None \/ invalid \/ aged) THEN Asked ELSE fetch

Serve ==
    /\ fetch.stage = "asked"
    /\ fetch' = Served(version)
    /\ UNCHANGED <<table, page, version, data, invalid, realtime, mutation, due, missed, bounds>>

\* setData: success clears the mark
Arrive ==
    /\ fetch.stage = "served"
    /\ data' = fetch.v /\ invalid' = FALSE /\ fetch' = Idle
    /\ subs' = IF Suspended THEN subs \cup Subs({watch} \cap Feeders(page)) ELSE subs
    /\ UNCHANGED <<table, page, version, events, mutation, due, missed, bounds>>

\* All attempts failed: the data and the mark stay as they were
GiveUp ==
    /\ InFlight /\ trouble < MaxTrouble
    /\ fetch' = Failed /\ trouble' = trouble + 1
    /\ UNCHANGED <<table, page, version, data, invalid, realtime, mutation, due, missed, writes, visits>>

Focus ==
    /\ Active /\ \E aged \in BOOLEAN : Refreshed(aged)
    /\ UNCHANGED <<table, page, version, data, invalid, realtime, mutation, due, missed, bounds>>

\* gcTime after the last observer has gone
Collect ==
    /\ ~ Mounted /\ data # None /\ ~ InFlight /\ trouble < MaxTrouble
    /\ data' = None /\ invalid' = FALSE /\ fetch' = Idle
    /\ trouble' = trouble + 1
    /\ UNCHANGED <<table, page, version, realtime, mutation, due, missed, writes, visits>>

-----------------------------------------------------------------------------
(* Pages and subscriptions                                                   *)

\* The clean-up of useRealtimeQuery: a live subscription ends, one that is still being
\* set up is marked
Disposed == {[s EXCEPT !.disposed = TRUE] : s \in {x \in subs : x.stage = "asked"}}

Visit(p) ==
    /\ p \in Visited /\ visits < MaxVisits
    /\ page' = p /\ visits' = visits + 1
    /\ IF Mounts(p) THEN \E aged \in BOOLEAN : Refreshed(aged) ELSE UNCHANGED fetch
    /\ subs' = Disposed \cup Subs(Running(p))
    /\ events' = {}
    /\ mutation' = [mutation EXCEPT !.here = @ /\ change.at = LayoutPages /\ p \in LayoutPages]
    /\ UNCHANGED <<table, version, data, invalid, due, missed, writes, trouble>>

\* subscribe() resolved
\* Mutant: it does not look at disposed.
KeptAnyway(s) == {[s EXCEPT !.stage = "live"]}
Kept(s) == IF s.disposed THEN {} ELSE {[s EXCEPT !.stage = "live"]}

Resolve(s) ==
    /\ s \in subs /\ s.stage = "asked"
    /\ subs' = (subs \ {s}) \cup Kept(s)
    /\ UNCHANGED <<table, page, version, cache, events, mutation, due, missed, bounds>>

\* subscribe() failed, which the hook ignores: no events until the next visit
SubscribeFails(s) ==
    /\ s \in subs /\ s.stage = "asked" /\ trouble < MaxTrouble
    /\ subs' = subs \ {s}
    /\ trouble' = trouble + 1
    /\ UNCHANGED <<table, page, version, cache, events, mutation, due, missed, writes, visits>>

\* The handler of an event
Receive(s) ==
    /\ s \in events
    /\ events' = events \ {s}
    /\ Invalidated /\ Owe(version)
    /\ UNCHANGED <<table, page, version, data, subs, mutation, bounds>>

\* The stream breaks and is set up again; what was sent meanwhile is gone
Reconnect ==
    /\ events # {} /\ trouble < MaxTrouble
    /\ events' = {} /\ trouble' = trouble + 1
    /\ UNCHANGED <<table, page, version, cache, subs, mutation, due, missed, writes, visits>>

-----------------------------------------------------------------------------
(* Changes                                                                   *)

\* The server commits a write of collections w and sends the events.  A second event on
\* its way to the same handler adds nothing to the first.
Commit(w) ==
    /\ version' = IF w \cap watch.reads = {} THEN version ELSE version + 1
    /\ events' = events \cup {s \in subs : s.stage = "live" /\ s.feed \in w}

Mutate ==
    /\ mutation.stage = "idle" /\ page \in change.at /\ writes < MaxWrites
    /\ mutation' = [stage |-> "asked", here |-> change.level = "call", v |-> 0]
    /\ writes' = writes + 1
    /\ UNCHANGED <<table, page, version, cache, realtime, due, missed, trouble, visits>>

\* These dialogs reset the mutation when they close, also while it is pending
CloseDialog ==
    /\ mutation.here /\ change \in {RedeemPromo, TopUp}
    /\ mutation' = [mutation EXCEPT !.here = FALSE]
    /\ UNCHANGED <<table, page, version, cache, realtime, due, missed, bounds>>

Accept ==
    /\ mutation.stage = "asked" /\ Commit(change.writes)
    /\ mutation' = [mutation EXCEPT !.stage = "done", !.v = version']
    /\ UNCHANGED <<table, page, cache, subs, due, missed, bounds>>

\* Mutant: the client counts on the version that the change would have made.
VersionHoped == version + 1
VersionRefused == 0

Refuse ==
    /\ mutation.stage = "asked"
    /\ mutation' = [mutation EXCEPT !.stage = "failed", !.v = VersionRefused]
    /\ UNCHANGED <<table, page, version, cache, realtime, due, missed, bounds>>

\* Committed, but the answer is lost
LoseAnswer ==
    /\ mutation.stage = "done" /\ trouble < MaxTrouble
    /\ mutation' = [mutation EXCEPT !.stage = "failed"]
    /\ trouble' = trouble + 1
    /\ UNCHANGED <<table, page, version, cache, realtime, due, missed, writes, visits>>

\* Whether the callback that invalidates runs
\* Mutant: every callback waits for success.
InvalidatesOnSuccess ==
    /\ watch.key \in change.tells /\ mutation.stage = "done"
    /\ change.level = "call" => mutation.here
Invalidates ==
    /\ watch.key \in change.tells
    /\ change.level \in {"success", "call"} => mutation.stage = "done"
    /\ change.level = "call" => mutation.here

\* History: what the user may expect the list to show from now on
Expected ==
    /\ <<change, watch.key>> \notin Untold
    /\ change \in OnlyOnSuccess => mutation.stage = "done"
    /\ change \in OnlyWhileOpen => mutation.here

Settle ==
    /\ mutation.stage \in {"done", "failed"}
    /\ IF Invalidates THEN Invalidated ELSE UNCHANGED <<invalid, fetch>>
    /\ IF Expected THEN Owe(mutation.v) ELSE UNCHANGED <<due, missed>>
    /\ mutation' = NoMutation
    /\ UNCHANGED <<table, page, version, data, realtime, bounds>>

\* Another tab, a device, a cron job or an administrator changes what the list shows
ForeignChange(w) ==
    /\ w \in watch.reads /\ writes < MaxWrites
    /\ Commit({w})
    /\ writes' = writes + 1
    /\ UNCHANGED <<table, page, cache, subs, mutation, due, missed, trouble, visits>>

-----------------------------------------------------------------------------
Concerns(c, l) == c.writes \cap l.reads # {} \/ c.tells = {l.key}

Init ==
    /\ watch \in Lists
    /\ change \in {c \in Changes : Concerns(c, watch)}
         \cup IF \E c \in Changes : Concerns(c, watch) THEN {} ELSE {NoChange}
    /\ feeder \in LET hooks == {l \in Lists : watch.key \in l.refreshes}
                  IN  IF hooks = {} THEN {None} ELSE hooks
    /\ page \in Visited
    /\ version = 0 /\ data = None /\ invalid = FALSE
    /\ fetch = IF Mounted THEN Asked ELSE Idle
    /\ subs = Subs(Running(page)) /\ events = {} /\ mutation = NoMutation /\ due = 0 /\ missed = 0
    /\ writes = 0 /\ trouble = 0 /\ visits = 0

CacheNext == Serve \/ Arrive \/ GiveUp \/ Focus \/ Collect
PageNext ==
    \/ \E p \in Visited : Visit(p)
    \/ \E s \in subs : Resolve(s) \/ SubscribeFails(s)
    \/ \E s \in events : Receive(s)
    \/ Reconnect
ChangeNext ==
    \/ Mutate \/ CloseDialog \/ Accept \/ Refuse \/ LoseAnswer \/ Settle
    \/ \E w \in watch.reads : ForeignChange(w)

Next == CacheNext \/ PageNext \/ ChangeNext

Spec == Init /\ [][Next]_vars

\* The network answers, the effects of mounted hooks run, the server serves.  Nothing
\* makes the user come back, and no fetch is tried again once it gave up.
Fairness ==
    /\ WF_vars(Serve) /\ WF_vars(Arrive)
    /\ WF_vars(\E s \in events : Receive(s))
    /\ WF_vars(Accept \/ Refuse) /\ WF_vars(Settle)

FairSpec == Spec /\ Fairness

-----------------------------------------------------------------------------
(* Properties                                                                *)

Versions == 0..MaxWrites
Subscription == [feed : {l.feed : l \in Lists} \ {None}, stage : {"asked", "live"}, disposed : BOOLEAN]

\* The variables have their types: a version never exceeds the changes there were, only a
\* served fetch carries one, and events are on their way to live subscriptions alone.
TypeOK ==
    /\ watch \in Lists /\ change \in Changes \cup {NoChange}
    /\ feeder \in Lists \cup {None} /\ page \in Pages
    /\ version \in 0..writes /\ data \in Versions \cup {None}
    /\ invalid \in BOOLEAN
    /\ fetch \in {Idle, Asked, Failed} \cup {Served(v) : v \in Versions}
    /\ subs \subseteq Subscription
    /\ events \subseteq {s \in subs : s.stage = "live"}
    /\ mutation \in [stage : {"idle", "asked", "done", "failed"}, here : BOOLEAN, v : Versions]
    /\ due \in 0..version /\ missed \in 0..due
    /\ writes \in 0..MaxWrites /\ trouble \in 0..MaxTrouble /\ visits \in 0..MaxVisits

\* A list that is behind a change it was told of, or that its user made and saw settled, is
\* marked, so that the next mount or focus fetches it: no order of settling, events,
\* fetches and visits leaves old data that the cache takes for fresh, with one exception.
\* The answer to a first fetch, or to a fetch whose page was left, may have left the server
\* before the change; the mark does not call it back and is cleared when it arrives.  Left
\* out are also the pairs in Untold and the callbacks that a lost answer or a closed dialog
\* drops.
ReadYourWrites == data # None /\ data < due => invalid \/ due <= missed

\* A subscription delivers only to the visit that made it: one that resolves after its
\* list was left is dropped.
NoLeakedSubscription ==
    \A s \in subs : s.stage = "live" => ~ s.disposed

\* A mounted list comes to show each change it owes, unless the user leaves it or its
\* fetch has failed for good; but for a change that an answer on its way ran past.
OwedChangeShows ==
    \A v \in 1..MaxWrites :
        (Active /\ due >= v /\ missed < v)
          ~> ((data # None /\ data >= v) \/ ~ Mounted \/ fetch = Failed)

=============================================================================
