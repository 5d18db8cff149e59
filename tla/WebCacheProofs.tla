---------------------------- MODULE WebCacheProofs ----------------------------
(***************************************************************************)
(* What the client keeps true of every list, change and page, for any number *)
(* of writes, visits and troubles: types, old data is marked, and a          *)
(* subscription lives no longer than the visit that made it.                *)
(***************************************************************************)
EXTENDS WebCache, TLAPS

-----------------------------------------------------------------------------
(* The tables                                                                *)

\* Which lists the server reads from a collection.
LEMMA Readers ==
  ASSUME NEW l \in Lists
  PROVE  /\ "contacts" \in l.reads => l.key = "contacts"
         /\ "contact_groups" \in l.reads => l.key = "contact-groups"
         /\ "sms_devices" \in l.reads => l.key = "devices"
         /\ "device_names" \in l.reads => l.key \in {"sms", "scheduled-sms"}
         /\ "sms_messages" \in l.reads => l.key = "sms"
         /\ "scheduled_sms" \in l.reads => l.key = "scheduled-sms"
         /\ "sms_templates" \in l.reads => l.key = "templates"
         /\ "webhook_configs" \in l.reads => l.key = "webhooks"
         /\ "webhook_delivery_logs" \in l.reads => l.key = "webhook-logs"
         /\ "api_keys" \in l.reads => l.key = "api-keys"
         /\ "payments" \in l.reads => l.key = "payments"
         /\ "user_quotas" \in l.reads => l.key = "quota"
         /\ "counters" \in l.reads => l.key = "quota"
         /\ "user_balances" \in l.reads => l.key = "balance"
         /\ "users" \in l.reads => l.key = "users"
         /\ "system_config" \in l.reads => l.key \in {"system-config", "app-settings"}
<1> USE DEF List
<1>1. l \in {ContactList, ContactGroupList, DeviceList, SMSList, SMSDetails, ScheduledSMSList}
        \/ l \in {TemplateList, WebhookList, WebhookLogs, ApiKeyList, PaymentList, PlanList}
        \/ l \in {Quota, Balance, UserList, SystemConfig, AppConfig}
  BY DEF Lists
<1>2. CASE l \in {ContactList, ContactGroupList, DeviceList, SMSList, SMSDetails, ScheduledSMSList}
  BY <1>2 DEF ContactList, ContactGroupList, DeviceList, SMSList, SMSDetails, ScheduledSMSList
<1>3. CASE l \in {TemplateList, WebhookList, WebhookLogs, ApiKeyList, PaymentList, PlanList}
  BY <1>3 DEF TemplateList, WebhookList, WebhookLogs, ApiKeyList, PaymentList, PlanList
<1>4. CASE l \in {Quota, Balance, UserList, SystemConfig, AppConfig}
  BY <1>4 DEF Quota, Balance, UserList, SystemConfig, AppConfig
<1> QED BY <1>1, <1>2, <1>3, <1>4

\* A change invalidates every list that shows what it wrote, but for the pairs in Untold.
Told(c, l) == c.writes \cap l.reads # {} \/ c.tells = {l.key} => <<c, l.key>> \in Untold \/ l.key \in c.tells

\* ... and the callback that does so needs a success, or an open dialog, only where said.
Dependable(c) == /\ c.level \in {"success", "call"} => c \in OnlyOnSuccess
                 /\ c.level = "call" => c \in OnlyWhileOpen

LEMMA ChangesAreTold ==
  ASSUME NEW c \in Changes, NEW l \in Lists
  PROVE  Told(c, l) /\ Dependable(c)
<1> USE Readers DEF Told, Dependable, Change
<1>1. CASE c \in {CreateContact, UpdateContact, DeleteContact, ImportContacts}
  BY <1>1 DEF CreateContact, UpdateContact, DeleteContact, ImportContacts
<1>2. CASE c \in {CreateContactGroup, UpdateContactGroup}
  BY <1>2 DEF CreateContactGroup, UpdateContactGroup
<1>13. CASE c = DeleteContactGroup
  <2>1. /\ c.writes = {"contact_groups", "contacts"}
        /\ c.tells = {"contact-groups"} /\ c.level = "settled"
    BY <1>13 DEF DeleteContactGroup, CreateContactGroup
  <2>2. l.key = "contacts" => <<c, l.key>> \in Untold
    BY <1>13 DEF Untold
  <2> QED BY <2>1, <2>2
<1>3. CASE c \in {CreateDevice, UpdateDevice, DeleteDevice}
  BY <1>3 DEF CreateDevice, UpdateDevice, DeleteDevice, Untold
<1>4. CASE c \in {SendSMS, SendSMSTemplate}
  BY <1>4 DEF SendSMS, SendSMSTemplate
<1>5. CASE c \in {CreateScheduledSMS, UpdateScheduledSMS, DeleteScheduledSMS}
  BY <1>5 DEF CreateScheduledSMS, UpdateScheduledSMS, DeleteScheduledSMS
<1>6. CASE c \in {CreateTemplate, UpdateTemplate, DeleteTemplate}
  BY <1>6 DEF CreateTemplate, UpdateTemplate, DeleteTemplate
<1>7. CASE c \in {CreateWebhook, UpdateWebhook, DeleteWebhook}
  BY <1>7 DEF CreateWebhook, UpdateWebhook, DeleteWebhook
<1>8. CASE c \in {TestWebhook, RetryWebhook}
  BY <1>8 DEF TestWebhook, RetryWebhook, OnlyOnSuccess
<1>9. CASE c \in {CreateApiKey, DeleteApiKey, RotateApiKey, RevokeApiKey}
  BY <1>9 DEF CreateApiKey, DeleteApiKey, RotateApiKey, RevokeApiKey, OnlyOnSuccess
<1>10. CASE c \in {CreateUser, UpdateUser, DeleteUser, UpdateProfile}
  BY <1>10 DEF CreateUser, UpdateUser, DeleteUser, UpdateProfile, Keys
<1>11. CASE c = SaveSystemConfig
  BY <1>11 DEF SaveSystemConfig, OnlyOnSuccess
<1>12. CASE c \in {UpgradePlan, RedeemPromo, TopUp}
  BY <1>12 DEF UpgradePlan, RedeemPromo, TopUp, Untold, OnlyOnSuccess, OnlyWhileOpen
<1> QED BY <1>1, <1>2, <1>3, <1>4, <1>5, <1>6, <1>7, <1>8, <1>9, <1>10, <1>11, <1>12, <1>13 DEF Changes

-----------------------------------------------------------------------------
(* Subscriptions                                                             *)

\* A live subscription is one that no clean-up has met: Visit keeps only what is still being
\* set up, and Resolve drops what was marked.  The shape of the records is needed to know
\* what EXCEPT leaves alone.
Shape(s) == s = [feed |-> s.feed, stage |-> s.stage, disposed |-> s.disposed] /\ s.disposed \in BOOLEAN
SubsOK == \A s \in subs : Shape(s) /\ (s.stage = "live" => ~ s.disposed)

LEMMA SubsAreAsked ==
  ASSUME NEW h, NEW s \in Subs(h)
  PROVE  Shape(s) /\ s.stage = "asked"
<1>1. PICK l \in h : s = [feed |-> l.feed, stage |-> "asked", disposed |-> FALSE]
  BY DEF Subs
<1> QED BY <1>1 DEF Shape

LEMMA SubsStep ==
  ASSUME SubsOK, [Next]_vars
  PROVE  SubsOK'
<1> USE DEF SubsOK
<1>1. CASE UNCHANGED subs
  BY <1>1
<1>2. CASE Arrive
  BY <1>2, SubsAreAsked DEF Arrive
<1>3. ASSUME NEW p \in Visited, Visit(p)
      PROVE  SubsOK'
  <2>1. ASSUME NEW s \in Disposed
        PROVE  Shape(s) /\ s.stage = "asked"
    <3>1. PICK x \in subs : x.stage = "asked" /\ s = [x EXCEPT !.disposed = TRUE]
      BY DEF Disposed
    <3>2. x = [feed |-> x.feed, stage |-> x.stage, disposed |-> x.disposed]
      BY DEF Shape
    <3>3. s = [feed |-> x.feed, stage |-> "asked", disposed |-> TRUE]
      BY <3>1, <3>2
    <3> QED BY <3>3 DEF Shape
  <2> QED BY <1>3, <2>1, SubsAreAsked DEF Visit
<1>4. ASSUME NEW s \in subs, Resolve(s)
      PROVE  SubsOK'
  <2>1. ASSUME NEW x \in Kept(s)
        PROVE  Shape(x) /\ ~ x.disposed
    <3>1. ~ s.disposed /\ x = [s EXCEPT !.stage = "live"]
      BY <2>1 DEF Kept
    <3>2. s = [feed |-> s.feed, stage |-> s.stage, disposed |-> s.disposed] /\ s.disposed \in BOOLEAN
      BY DEF Shape
    <3>3. x = [feed |-> s.feed, stage |-> "live", disposed |-> s.disposed]
      BY <3>1, <3>2
    <3> QED BY <3>1, <3>2, <3>3 DEF Shape
  <2> QED BY <1>4, <2>1 DEF Resolve
<1>5. ASSUME NEW s \in subs, SubscribeFails(s)
      PROVE  SubsOK'
  BY <1>5 DEF SubscribeFails
<1>6. ASSUME NEW s \in events, Receive(s)
      PROVE  UNCHANGED subs
  BY <1>6 DEF Receive
<1>7. CASE Serve \/ GiveUp \/ Focus \/ Collect \/ Reconnect
  BY <1>7, <1>1 DEF Serve, GiveUp, Focus, Collect, Reconnect, realtime
<1>8. CASE Mutate \/ CloseDialog \/ Accept \/ Refuse \/ LoseAnswer \/ Settle
  BY <1>8, <1>1 DEF Mutate, CloseDialog, Accept, Refuse, LoseAnswer, Settle, realtime
<1>9. ASSUME NEW w \in watch.reads, ForeignChange(w)
      PROVE  UNCHANGED subs
  BY <1>9 DEF ForeignChange
<1>10. CASE UNCHANGED vars
  BY <1>10, <1>1 DEF vars, realtime
<1> QED
  BY <1>1, <1>2, <1>3, <1>4, <1>5, <1>6, <1>7, <1>8, <1>9, <1>10
     DEF Next, CacheNext, PageNext, ChangeNext

\* A subscription that resolves after its list was left is dropped.
THEOREM NoLeak == Spec => []NoLeakedSubscription
<1>1. Init => SubsOK
  BY SubsAreAsked DEF Init, SubsOK
<1>2. SubsOK => NoLeakedSubscription
  BY DEF SubsOK, NoLeakedSubscription
<1> QED BY <1>1, <1>2, SubsStep, PTL DEF Spec

-----------------------------------------------------------------------------
(* What the user may expect of a list                                        *)

\* Numbers: a version is never behind what the cache, a fetch, the change or the user saw.
VersionsOK ==
    /\ version \in Nat /\ due \in Nat /\ due <= version /\ missed \in Nat /\ missed <= due
    /\ data \in Nat \cup {None}
    /\ mutation = [stage |-> mutation.stage, here |-> mutation.here, v |-> mutation.v]
    /\ mutation.v \in Nat /\ mutation.v <= version
    /\ fetch = [stage |-> fetch.stage, v |-> fetch.v] /\ fetch.v \in Nat /\ fetch.v <= version

\* A behaviour without a change leaves the mutation idle.
ChangeOK ==
    /\ watch \in Lists
    /\ \/ change \in Changes /\ Concerns(change, watch)
       \/ change = NoChange /\ mutation.stage = "idle"

\* An answer on its way is no older than what the user may expect: the change either came
\* before it left the server, or had the list fetched anew, or is known to be missed.
AnswersOK == fetch.stage = "served" => due <= fetch.v \/ due <= missed

IInv == VersionsOK /\ ChangeOK /\ AnswersOK /\ ReadYourWrites

\* Wherever the user may expect the change, the callback that marks the list runs.
LEMMA ExpectedIsInvalidated ==
  ASSUME ChangeOK, Expected, mutation.stage # "idle"
  PROVE  Invalidates
<1>1. change \in Changes /\ watch \in Lists
      /\ (change.writes \cap watch.reads # {} \/ change.tells = {watch.key})
  BY DEF ChangeOK, Concerns
<1>2. Told(change, watch) /\ Dependable(change)
  BY <1>1, ChangesAreTold
<1> QED BY <1>1, <1>2 DEF Told, Dependable, Expected, Invalidates

\* Marking a list and owing it a version at most the server's keeps the invariant.
LEMMA MarkAndOwe ==
  ASSUME IInv, NEW v \in Nat, v <= version, Invalidated, Owe(v) \/ UNCHANGED <<due, missed>>,
         data' = data, version' = version
  PROVE  /\ due' \in Nat /\ due' <= version' /\ missed' \in Nat /\ missed' <= due'
         /\ fetch' = [stage |-> fetch'.stage, v |-> fetch'.v] /\ fetch'.v \in Nat /\ fetch'.v <= version'
         /\ AnswersOK' /\ ReadYourWrites'
<1> USE DEF IInv, VersionsOK
<1>1. due' \in Nat /\ due' <= version' /\ missed' \in Nat /\ missed' <= due'
  BY DEF Owe
<1>2. invalid' = TRUE /\ fetch' \in {Asked, fetch}
  BY DEF Invalidated
<1>3. fetch' = [stage |-> fetch'.stage, v |-> fetch'.v] /\ fetch'.v \in Nat /\ fetch'.v <= version'
  BY <1>2 DEF Asked
<1>4. AnswersOK'
  <2> SUFFICES ASSUME fetch'.stage = "served"
               PROVE  due' <= fetch'.v \/ due' <= missed'
    BY DEF AnswersOK
  <2>1. fetch' = fetch /\ fetch.stage = "served"
    BY <1>2 DEF Asked
  <2>2. Uncancellable
    BY <2>1 DEF Invalidated, Uncancellable, Asked
  <2> QED BY <2>1, <2>2 DEF AnswersOK, Owe
<1>5. ReadYourWrites'
  BY <1>2 DEF ReadYourWrites
<1> QED BY <1>1, <1>3, <1>4, <1>5

-----------------------------------------------------------------------------
(* Every step keeps it                                                       *)

LEMMA CacheSteps ==
  ASSUME IInv, CacheNext
  PROVE  IInv'
<1> USE DEF IInv, VersionsOK, ChangeOK, AnswersOK, ReadYourWrites
<1>1. CASE Serve
  BY <1>1 DEF Serve, Served, table
<1>2. CASE Arrive
  BY <1>2 DEF Arrive, Idle, table
<1>3. CASE GiveUp
  BY <1>3 DEF GiveUp, Failed, table
<1>4. CASE Focus
  <2>1. fetch' \in {fetch, Asked}
    BY <1>4 DEF Focus, Refreshed
  <2> QED BY <1>4, <2>1 DEF Focus, Asked, table
<1>5. CASE Collect
  BY <1>5 DEF Collect, Idle, table
<1> QED BY <1>1, <1>2, <1>3, <1>4, <1>5 DEF CacheNext

LEMMA PageSteps ==
  ASSUME IInv, PageNext
  PROVE  IInv'
<1> USE DEF IInv, VersionsOK, ChangeOK, AnswersOK, ReadYourWrites
<1>1. ASSUME NEW p \in Visited, Visit(p)
      PROVE  IInv'
  <2>1. fetch' \in {fetch, Asked}
    BY <1>1 DEF Visit, Refreshed
  <2>2. PICK h : mutation' = [mutation EXCEPT !.here = h]
    BY <1>1 DEF Visit
  <2>3. mutation' = [stage |-> mutation.stage, here |-> h, v |-> mutation.v]
    BY <2>2
  <2> QED BY <1>1, <2>1, <2>3 DEF Visit, Asked, table
<1>2. ASSUME NEW s \in subs, Resolve(s) \/ SubscribeFails(s)
      PROVE  IInv'
  BY <1>2 DEF Resolve, SubscribeFails, table, cache
<1>3. ASSUME NEW s \in events, Receive(s)
      PROVE  IInv'
  <2>1. /\ Invalidated /\ Owe(version)
        /\ data' = data /\ version' = version /\ UNCHANGED <<table, mutation>>
    BY <1>3 DEF Receive
  <2>2. /\ due' \in Nat /\ due' <= version' /\ missed' \in Nat /\ missed' <= due'
        /\ fetch' = [stage |-> fetch'.stage, v |-> fetch'.v] /\ fetch'.v \in Nat /\ fetch'.v <= version'
        /\ AnswersOK' /\ ReadYourWrites'
    BY <2>1, MarkAndOwe
  <2> QED BY <2>1, <2>2 DEF table
<1>4. CASE Reconnect
  BY <1>4 DEF Reconnect, table, cache
<1> QED BY <1>1, <1>2, <1>3, <1>4 DEF PageNext

\* A list is never told of a version that its server has not reached.
LEMMA CommitStep ==
  ASSUME VersionsOK, NEW w, Commit(w)
  PROVE  version' \in Nat /\ version <= version'
BY DEF Commit, VersionsOK

LEMMA ChangeSteps ==
  ASSUME IInv, ChangeNext
  PROVE  IInv'
<1> USE DEF IInv, VersionsOK, ChangeOK, AnswersOK, ReadYourWrites
<1>1. CASE Mutate
  <2>1. change # NoChange
    BY <1>1 DEF Mutate, NoChange, Change
  <2> QED BY <1>1, <2>1 DEF Mutate, table, cache
<1>2. CASE CloseDialog
  <2>1. mutation' = [stage |-> mutation.stage, here |-> FALSE, v |-> mutation.v]
    BY <1>2 DEF CloseDialog
  <2> QED BY <1>2, <2>1 DEF CloseDialog, table, cache
<1>3. CASE Accept
  <2>1. version' \in Nat /\ version <= version'
    BY <1>3, CommitStep DEF Accept
  <2>2. mutation' = [stage |-> "done", here |-> mutation.here, v |-> version']
    BY <1>3 DEF Accept
  <2>3. mutation.stage # "idle" /\ UNCHANGED <<table, cache, due, missed>>
    BY <1>3 DEF Accept
  <2>4. VersionsOK'
    BY <2>1, <2>2, <2>3 DEF cache
  <2>5. ChangeOK'
    BY <2>3 DEF table
  <2> QED BY <2>3, <2>4, <2>5 DEF cache
<1>4. CASE Refuse
  <2>1. mutation' = [stage |-> "failed", here |-> mutation.here, v |-> 0]
    BY <1>4 DEF Refuse, VersionRefused
  <2>2. mutation.stage # "idle" /\ UNCHANGED <<table, version, cache, due, missed>>
    BY <1>4 DEF Refuse
  <2> QED BY <2>1, <2>2 DEF table, cache
<1>5. CASE LoseAnswer
  <2>1. mutation' = [stage |-> "failed", here |-> mutation.here, v |-> mutation.v]
    BY <1>5 DEF LoseAnswer
  <2>2. mutation.stage # "idle" /\ UNCHANGED <<table, version, cache, due, missed>>
    BY <1>5 DEF LoseAnswer
  <2> QED BY <2>1, <2>2 DEF table, cache
<1>6. CASE Settle
  <2>1. /\ data' = data /\ version' = version /\ UNCHANGED table
        /\ mutation.stage # "idle" /\ mutation' = NoMutation
    BY <1>6 DEF Settle
  <2>2. Expected => Invalidates
    BY <2>1, ExpectedIsInvalidated
  <2>3. /\ due' \in Nat /\ due' <= version' /\ missed' \in Nat /\ missed' <= due'
        /\ fetch' = [stage |-> fetch'.stage, v |-> fetch'.v] /\ fetch'.v \in Nat /\ fetch'.v <= version'
        /\ AnswersOK' /\ ReadYourWrites'
    <3>1. CASE Invalidates
      <4>1. Invalidated /\ (Owe(mutation.v) \/ UNCHANGED <<due, missed>>)
        BY <1>6, <3>1 DEF Settle
      <4> QED BY <2>1, <4>1, MarkAndOwe
    <3>2. CASE ~ Invalidates
      <4>1. UNCHANGED <<invalid, fetch, due, missed>>
        BY <1>6, <2>2, <3>2 DEF Settle
      <4> QED BY <2>1, <4>1
    <3> QED BY <3>1, <3>2
  <2> QED BY <2>1, <2>3 DEF NoMutation, table
<1>7. ASSUME NEW w \in watch.reads, ForeignChange(w)
      PROVE  IInv'
  <2>1. version' \in Nat /\ version <= version'
    BY <1>7, CommitStep DEF ForeignChange
  <2>2. UNCHANGED <<table, cache, mutation, due, missed>>
    BY <1>7 DEF ForeignChange
  <2>3. VersionsOK'
    BY <2>1, <2>2 DEF cache
  <2>4. ChangeOK'
    BY <2>2 DEF table
  <2> QED BY <2>2, <2>3, <2>4 DEF cache
<1> QED BY <1>1, <1>2, <1>3, <1>4, <1>5, <1>6, <1>7 DEF ChangeNext

\* The invariant holds of every reachable state.
THEOREM CacheInvariant == Spec => []IInv
<1>1. Init => IInv
  <2> SUFFICES ASSUME Init
               PROVE  IInv
    OBVIOUS
  <2>1. VersionsOK
    BY DEF Init, VersionsOK, NoMutation, Asked, Idle
  <2>2. ChangeOK
    BY DEF Init, ChangeOK, NoMutation
  <2> QED BY <2>1, <2>2 DEF Init, IInv, AnswersOK, ReadYourWrites, Asked, Idle
<1>2. IInv /\ [Next]_vars => IInv'
  <2> SUFFICES ASSUME IInv, [Next]_vars
               PROVE  IInv'
    OBVIOUS
  <2>1. CASE UNCHANGED vars
    BY <2>1 DEF vars, table, cache, IInv, VersionsOK, ChangeOK, AnswersOK, ReadYourWrites
  <2> QED BY <2>1, CacheSteps, PageSteps, ChangeSteps DEF Next
<1> QED BY <1>1, <1>2, PTL DEF Spec

\* A list behind a change that its user saw settled, or that it was told of, is marked, but
\* for a change that an answer on its way ran past and no mark could call back.
THEOREM ReadYourWritesHolds == Spec => []ReadYourWrites
<1>1. IInv => ReadYourWrites
  BY DEF IInv
<1> QED BY <1>1, CacheInvariant, PTL

-----------------------------------------------------------------------------
(* Types                                                                     *)

\* The bounds hold, and a version stands for a change that was counted: one that is asked
\* for was counted already.
Counted ==
    /\ version <= writes /\ (mutation.stage = "asked" => version < writes)
    /\ writes \in 0..MaxWrites /\ trouble \in 0..MaxTrouble /\ visits \in 0..MaxVisits

\* Only a served fetch carries a version, and the cache holds none that is not there.
FetchTyped ==
    /\ fetch.stage \in {"idle", "asked", "served", "failed"}
    /\ fetch.stage # "served" => fetch.v = 0
    /\ data # None => data <= version
    /\ invalid \in BOOLEAN

MutationTyped ==
    /\ mutation.stage \in {"idle", "asked", "done", "failed"}
    /\ mutation.here \in BOOLEAN

\* The hook that a behaviour follows refreshes its list.
PlacesTyped ==
    /\ page \in Pages
    /\ feeder \in Lists \cup {None} /\ (feeder # None => feeder.refreshes # {})

\* Events are on their way to live subscriptions alone.
SubsTyped ==
    /\ subs \subseteq Subscription
    /\ events \subseteq {s \in subs : s.stage = "live"}

Typed == Counted /\ FetchTyped /\ MutationTyped /\ PlacesTyped /\ SubsTyped

\* The user goes to a page there is.
LEMMA VisitedArePages == Visited \subseteq Pages
<1> SUFFICES ASSUME NEW q \in Pages
             PROVE  (CHOOSE p \in Pages : PageKind(p) = PageKind(q)) \in Pages
  BY DEF Visited
<1> QED OBVIOUS

\* A hook that subscribes has a feed.
LEMMA FeedersFeed ==
  ASSUME NEW l \in Lists, l.refreshes # {}
  PROVE  l.feed \in {x.feed : x \in Lists} \ {None}
<1> USE DEF List
<1>1. l \in {ContactList, ContactGroupList, DeviceList, SMSList, SMSDetails, ScheduledSMSList}
        \/ l \in {TemplateList, WebhookList, WebhookLogs, ApiKeyList, PaymentList, PlanList}
        \/ l \in {Quota, Balance, UserList, SystemConfig, AppConfig}
  BY DEF Lists
<1>2. l.feed \in l.reads \/ l.refreshes = {}
  <2>1. CASE l \in {ContactList, ContactGroupList, DeviceList, SMSList, SMSDetails, ScheduledSMSList}
    BY <2>1 DEF ContactList, ContactGroupList, DeviceList, SMSList, SMSDetails, ScheduledSMSList
  <2>2. CASE l \in {TemplateList, WebhookList, WebhookLogs, ApiKeyList, PaymentList, PlanList}
    BY <2>2 DEF TemplateList, WebhookList, WebhookLogs, ApiKeyList, PaymentList, PlanList
  <2>3. CASE l \in {Quota, Balance, UserList, SystemConfig, AppConfig}
    BY <2>3 DEF Quota, Balance, UserList, SystemConfig, AppConfig
  <2> QED BY <1>1, <2>1, <2>2, <2>3
<1>3. l.feed \in Collections
  BY <1>2 DEF Collections
<1> QED BY <1>3, NoneAssumption DEF NoneAssumption

\* Pages mount lists.
LEMMA PagesMountLists ==
  ASSUME NEW p \in Pages
  PROVE  p.mounts \subseteq Lists
<1>1. \A m, s : Page(m, s).mounts = m \cup s \cup {Balance, AppConfig}
  BY DEF Page
<1>2. {Balance, AppConfig, SMSList, SMSDetails, DeviceList, WebhookList, ApiKeyList, Quota, PlanList,
       ContactGroupList, ContactList, TemplateList, ScheduledSMSList, WebhookLogs, PaymentList,
       SystemConfig, UserList} \subseteq Lists
  BY DEF Lists
<1>3. CASE p \in {DashboardPage, SMSPage, SMSDetailsDialog, ContactsPage, DevicesPage, ScheduledPage}
  BY <1>1, <1>2, <1>3 DEF DashboardPage, SMSPage, SMSDetailsDialog, ContactsPage, DevicesPage, ScheduledPage
<1>4. CASE p \in {TemplatesPage, WebhooksPage, WebhookLogsDialog, IntegrationsPage, BillingPage,
                 SettingsPage, AdminPage}
  BY <1>1, <1>2, <1>4 DEF TemplatesPage, WebhooksPage, WebhookLogsDialog, IntegrationsPage, BillingPage,
     SettingsPage, AdminPage
<1>5. CASE p = PublicPage
  BY <1>2, <1>5 DEF PublicPage
<1> QED BY <1>3, <1>4, <1>5 DEF Pages, LayoutPages

\* What a mounted hook asks for is a subscription.
LEMMA SubsAreTyped ==
  ASSUME PlacesTyped, NEW p \in Pages, NEW h \in SUBSET Feeders(p)
  PROVE  Subs(h) \subseteq Subscription
<1> SUFFICES ASSUME NEW l \in h
             PROVE  [feed |-> l.feed, stage |-> "asked", disposed |-> FALSE] \in Subscription
  BY DEF Subs
<1>1. l = feeder /\ l \in p.mounts
  BY DEF Feeders
<1>2. l \in Lists /\ l.refreshes # {}
  BY <1>1, PagesMountLists, NoneAssumption DEF PlacesTyped, NoneAssumption
<1> QED BY <1>2, FeedersFeed DEF Subscription

\* Bounds and versions.
LEMMA CountedStep ==
  ASSUME IInv, Counted, [Next]_vars
  PROVE  Counted'
<1> USE CacheAssumption DEF CacheAssumption, Counted, IInv, VersionsOK
<1>1. CASE CacheNext
  BY <1>1 DEF CacheNext, Serve, Arrive, GiveUp, Focus, Collect, bounds
<1>2. ASSUME NEW p \in Visited, Visit(p)
      PROVE  Counted'
  <2>1. mutation'.stage = mutation.stage
    BY <1>2 DEF Visit
  <2> QED BY <1>2, <2>1 DEF Visit
<1>3. CASE PageNext
  BY <1>2, <1>3 DEF PageNext, Resolve, SubscribeFails, Receive, Reconnect, bounds
<1>4. ASSUME NEW w, Commit(w)
      PROVE  version' \in {version, version + 1}
  BY <1>4 DEF Commit
<1>5. CASE Mutate
  BY <1>5 DEF Mutate
<1>6. CASE CloseDialog \/ Refuse \/ LoseAnswer \/ Settle
  BY <1>6 DEF CloseDialog, Refuse, LoseAnswer, Settle, NoMutation, bounds
<1>7. CASE Accept
  <2>1. mutation'.stage = "done"
    BY <1>7 DEF Accept
  <2>2. version < writes /\ version' \in {version, version + 1}
    BY <1>4, <1>7 DEF Accept
  <2> QED BY <1>7, <2>1, <2>2 DEF Accept, bounds
<1>8. ASSUME NEW w \in watch.reads, ForeignChange(w)
      PROVE  Counted'
  BY <1>4, <1>8 DEF ForeignChange
<1>9. CASE UNCHANGED vars
  BY <1>9 DEF vars, bounds
<1> QED BY <1>1, <1>3, <1>5, <1>6, <1>7, <1>8, <1>9 DEF Next, ChangeNext

\* The query function and what it brings.
LEMMA FetchStep ==
  ASSUME IInv, FetchTyped, [Next]_vars
  PROVE  FetchTyped'
<1> USE DEF FetchTyped, IInv, VersionsOK
<1>1. ASSUME UNCHANGED data, version' \in Nat, version <= version', fetch' \in {fetch, Asked},
             invalid' \in BOOLEAN
      PROVE  FetchTyped'
  <2>1. data' # None => data' <= version'
    BY <1>1
  <2> QED BY <1>1, <2>1 DEF Asked
<1>2. CASE Serve
  BY <1>2 DEF Serve, Served
<1>3. CASE Arrive
  BY <1>3 DEF Arrive, Idle
<1>4. CASE GiveUp
  BY <1>4 DEF GiveUp, Failed
<1>5. CASE Focus
  BY <1>1, <1>5 DEF Focus, Refreshed
<1>6. CASE Collect
  BY <1>6 DEF Collect, Idle
<1>7. ASSUME NEW p \in Visited, Visit(p)
      PROVE  FetchTyped'
  BY <1>1, <1>7 DEF Visit, Refreshed
<1>8. ASSUME NEW s, Receive(s)
      PROVE  FetchTyped'
  BY <1>1, <1>8 DEF Receive, Invalidated
<1>9. CASE PageNext
  BY <1>1, <1>7, <1>8, <1>9 DEF PageNext, Resolve, SubscribeFails, Reconnect, cache
<1>10. CASE Mutate \/ CloseDialog \/ Refuse \/ LoseAnswer
  BY <1>1, <1>10 DEF Mutate, CloseDialog, Refuse, LoseAnswer, cache
<1>11. ASSUME Accept \/ \E w \in watch.reads : ForeignChange(w)
       PROVE  FetchTyped'
  <2>1. PICK w : Commit(w)
    BY <1>11 DEF Accept, ForeignChange
  <2>2. version' \in Nat /\ version <= version'
    BY <2>1, CommitStep
  <2>3. UNCHANGED cache
    BY <1>11 DEF Accept, ForeignChange
  <2> QED BY <1>1, <2>2, <2>3 DEF cache
<1>12. CASE Settle
  <2>1. fetch' \in {fetch, Asked} /\ UNCHANGED <<data, version>>
    BY <1>12 DEF Settle, Invalidated
  <2>2. invalid' = TRUE \/ invalid' = invalid
    BY <1>12, Zenon DEF Settle, Invalidated
  <2>3. invalid' \in BOOLEAN
    BY <2>2, Zenon
  <2>4. version' \in Nat /\ version <= version' /\ UNCHANGED data
    BY <2>1
  <2> QED BY <1>1, <2>1, <2>3, <2>4
<1>13. CASE UNCHANGED vars
  BY <1>1, <1>13 DEF vars, cache
<1> QED BY <1>2, <1>3, <1>4, <1>5, <1>6, <1>9, <1>10, <1>11, <1>12, <1>13
           DEF Next, CacheNext, ChangeNext

\* The user's change on its way.
LEMMA MutationStep ==
  ASSUME IInv, MutationTyped, [Next]_vars
  PROVE  MutationTyped'
<1> USE DEF MutationTyped
<1>1. CASE UNCHANGED mutation
  BY <1>1
<1>2. ASSUME NEW p \in Visited, Visit(p)
      PROVE  MutationTyped'
  <2>1. PICK h \in BOOLEAN : mutation' = [mutation EXCEPT !.here = h]
    BY <1>2, Zenon DEF Visit
  <2>2. mutation'.stage = mutation.stage /\ mutation'.here = h
    BY <2>1 DEF IInv, VersionsOK
  <2> QED BY <2>1, <2>2
<1>3. CASE Mutate
  BY <1>3, Zenon DEF Mutate
<1>4. CASE CloseDialog \/ Accept \/ Refuse \/ LoseAnswer
  <2>1. /\ mutation'.stage \in {mutation.stage, "done", "failed"}
        /\ mutation'.here = mutation.here \/ mutation'.here = FALSE
    BY <1>4 DEF CloseDialog, Accept, Refuse, LoseAnswer, IInv, VersionsOK
  <2> QED BY <2>1
<1>5. CASE Settle
  BY <1>5 DEF Settle, NoMutation
<1> QED BY <1>1, <1>2, <1>3, <1>4, <1>5
           DEF Next, CacheNext, PageNext, ChangeNext, Serve, Arrive, GiveUp, Focus, Collect,
               Resolve, SubscribeFails, Receive, Reconnect, ForeignChange, vars

\* Pages.
LEMMA PlacesStep ==
  ASSUME PlacesTyped, [Next]_vars
  PROVE  PlacesTyped'
<1>1. UNCHANGED feeder
  BY DEF Next, CacheNext, PageNext, ChangeNext, Serve, Arrive, GiveUp, Focus, Collect, Visit,
         Resolve, SubscribeFails, Receive, Reconnect, Mutate, CloseDialog, Accept, Refuse,
         LoseAnswer, Settle, ForeignChange, vars, table
<1>2. ASSUME NEW p \in Visited, Visit(p)
      PROVE  page' \in Pages
  BY <1>2, VisitedArePages DEF Visit
<1>3. UNCHANGED page \/ \E p \in Visited : Visit(p)
  BY DEF Next, CacheNext, PageNext, ChangeNext, Serve, Arrive, GiveUp, Focus, Collect,
         Resolve, SubscribeFails, Receive, Reconnect, Mutate, CloseDialog, Accept, Refuse,
         LoseAnswer, Settle, ForeignChange, vars
<1> QED BY <1>1, <1>2, <1>3 DEF PlacesTyped

\* Subscriptions, and the events on their way to them.
LEMMA SubscriptionsStep ==
  ASSUME PlacesTyped, SubsTyped, SubsOK, [Next]_vars
  PROVE  SubsTyped'
<1> USE DEF SubsTyped
<1>1. ASSUME UNCHANGED subs, events' \subseteq events \cup {s \in subs : s.stage = "live"}
      PROVE  SubsTyped'
  BY <1>1
<1>2. CASE Arrive
  <2>1. Subs({watch} \cap Feeders(page)) \subseteq Subscription
    BY SubsAreTyped DEF PlacesTyped
  <2> QED BY <1>2, <2>1 DEF Arrive
<1>3. ASSUME NEW p \in Visited, Visit(p)
      PROVE  SubsTyped'
  <2>1. Subs(Running(p)) \subseteq Subscription
    BY SubsAreTyped, VisitedArePages DEF Running
  <2>2. Disposed \subseteq Subscription
    BY DEF Disposed, Subscription
  <2> QED BY <1>3, <2>1, <2>2 DEF Visit
<1>4. ASSUME NEW s \in subs, Resolve(s) \/ SubscribeFails(s)
      PROVE  SubsTyped'
  <2>1. Kept(s) \subseteq Subscription
    BY DEF Kept, Subscription
  <2>2. subs' \subseteq Subscription /\ subs \ {s} \subseteq subs'
    BY <1>4, <2>1 DEF Resolve, SubscribeFails
  <2>3. s.stage = "asked" /\ UNCHANGED events
    BY <1>4 DEF Resolve, SubscribeFails
  <2> QED BY <2>2, <2>3
<1>5. ASSUME NEW s, Receive(s)
      PROVE  SubsTyped'
  BY <1>1, <1>5 DEF Receive
<1>6. CASE PageNext
  BY <1>1, <1>3, <1>4, <1>5, <1>6 DEF PageNext, Reconnect
<1>7. CASE CacheNext
  BY <1>1, <1>2, <1>7 DEF CacheNext, Serve, GiveUp, Focus, Collect, realtime
<1>8. ASSUME NEW w, Commit(w), UNCHANGED subs
      PROVE  SubsTyped'
  BY <1>1, <1>8 DEF Commit
<1>9. CASE ChangeNext
  BY <1>1, <1>8, <1>9 DEF ChangeNext, Mutate, CloseDialog, Accept, Refuse, LoseAnswer, Settle,
     ForeignChange, realtime
<1>10. CASE UNCHANGED vars
  BY <1>1, <1>10 DEF vars, realtime
<1> QED BY <1>6, <1>7, <1>9, <1>10 DEF Next

\* What a behaviour begins with.
LEMMA InitTyped == Init => Typed
<1> SUFFICES ASSUME Init
             PROVE  Typed
  OBVIOUS
<1>1. Counted
  BY CacheAssumption DEF CacheAssumption, Init, Counted, NoMutation
<1>2. FetchTyped
  BY DEF Init, FetchTyped, Asked, Idle
<1>3. MutationTyped
  BY DEF Init, MutationTyped, NoMutation
<1>4. PlacesTyped
  <2> DEFINE hooks == {l \in Lists : watch.key \in l.refreshes}
  <2>1. feeder \in IF hooks = {} THEN {None} ELSE hooks
    BY DEF Init
  <2>2. page \in Pages
    BY VisitedArePages DEF Init
  <2> QED BY <2>1, <2>2 DEF PlacesTyped
<1>5. SubsTyped
  <2>1. Subs(Running(page)) \subseteq Subscription
    BY <1>4, SubsAreTyped DEF Running, PlacesTyped
  <2> QED BY <2>1 DEF Init, SubsTyped
<1> QED BY <1>1, <1>2, <1>3, <1>4, <1>5 DEF Typed

\* A version never exceeds the changes there were, only a served fetch carries one, and
\* events are on their way to live subscriptions alone: whatever the order of settling,
\* events, fetches and visits, and whatever fails.
THEOREM TypeCorrect == Spec => []TypeOK
<1>1. IInv /\ Typed => TypeOK
  <2> SUFFICES ASSUME IInv, Typed
               PROVE  TypeOK
    OBVIOUS
  <2> USE CacheAssumption DEF CacheAssumption, IInv, Typed
  <2>1. /\ version \in 0..writes /\ due \in 0..version /\ missed \in 0..due
        /\ writes \in 0..MaxWrites /\ trouble \in 0..MaxTrouble /\ visits \in 0..MaxVisits
    BY DEF VersionsOK, Counted
  <2>2. data \in Versions \cup {None} /\ invalid \in BOOLEAN
    BY <2>1 DEF VersionsOK, FetchTyped, Versions
  <2>3. fetch \in {Idle, Asked, Failed} \cup {Served(v) : v \in Versions}
    <3>1. fetch = [stage |-> fetch.stage, v |-> fetch.v] /\ fetch.v \in Versions
      BY <2>1 DEF VersionsOK, Versions
    <3> QED BY <3>1 DEF FetchTyped, Idle, Asked, Failed, Served
  <2>4. mutation \in [stage : {"idle", "asked", "done", "failed"}, here : BOOLEAN, v : Versions]
    <3>1. /\ mutation = [stage |-> mutation.stage, here |-> mutation.here, v |-> mutation.v]
          /\ mutation.v \in Versions
      BY <2>1 DEF VersionsOK, Versions
    <3> QED BY <3>1, Zenon DEF MutationTyped
  <2> QED BY <2>1, <2>2, <2>3, <2>4 DEF TypeOK, ChangeOK, PlacesTyped, SubsTyped
<1>2. Init => SubsOK
  BY SubsAreAsked DEF Init, SubsOK
<1>3. IInv /\ Typed /\ SubsOK /\ [Next]_vars => Typed' /\ SubsOK'
  BY CountedStep, FetchStep, MutationStep, PlacesStep, SubscriptionsStep, SubsStep DEF Typed
<1> QED BY <1>1, <1>2, <1>3, InitTyped, CacheInvariant, PTL DEF Spec
=============================================================================
