------------------------------ MODULE WebForms ------------------------------
(***************************************************************************)
(* The dialogs and forms of the web client: what they hold while the list    *)
(* under them is fetched anew, what they send, and what they do with the     *)
(* answer.                                                                 *)
(*                                                                         *)
(* The tables name every dialog and where its page mounts it.  A behaviour   *)
(* follows one of them.  A record has two fields besides its id: "mine",     *)
(* which the user edits in the dialog, and "theirs", which somebody else     *)
(* changes; "active" stands for is_active of an API key and the status of a  *)
(* schedule.                                                               *)
(***************************************************************************)
EXTENDS Integers, FiniteSets

CONSTANTS
    MaxRecords,    \* bound: records ever created
    MaxSends,      \* bound: submitted requests
    MaxEvents      \* bound: changes by others, left pages

ASSUME FormsAssumption == MaxRecords \in Nat \ {0} /\ {MaxSends, MaxEvents} \subseteq Nat

-----------------------------------------------------------------------------
(* Dialogs                                                                   *)

\* clears: closing it restores the defaults; forgets: closing it resets the mutation;
\* key: the answer is a key that is shown once; diff: it sends only the fields that differ
\* from the cache; syncs: its fields follow the cache
Dialog(op, traits) == [does |-> op, has |-> traits]

AddContact == Dialog("create", {"clears"})
AddGroup == Dialog("create", {"clears"})
ImportContacts == Dialog("create", {"clears"})
AddDevice == Dialog("create", {"clears", "key"})
AddApiKey == Dialog("create", {"clears", "forgets", "key"})
AddUser == Dialog("create", {})
AddTemplate == Dialog("create", {})
AddWebhook == Dialog("create", {})
AddScheduledSMS == Dialog("create", {})
SendSMS == Dialog("create", {})

EditContact == Dialog("edit", {})
EditGroup == Dialog("edit", {})
EditDevice == Dialog("edit", {})
EditUser == Dialog("edit", {})
EditTemplate == Dialog("edit", {})
EditWebhook == Dialog("edit", {})
EditScheduledSMS == Dialog("edit", {})

\* All of them are ConfirmDeleteDialog with the hook of their collection
ConfirmDelete == Dialog("delete", {})
DeleteContact == ConfirmDelete
DeleteGroup == ConfirmDelete
DeleteDevice == ConfirmDelete
DeleteUser == ConfirmDelete
DeleteTemplate == ConfirmDelete
DeleteWebhook == ConfirmDelete
DeleteScheduledSMS == ConfirmDelete
DeleteApiKey == ConfirmDelete

RevokeApiKey == Dialog("revoke", {})
RotateApiKey == Dialog("rotate", {"clears", "forgets", "key"})
PauseScheduledSMS == Dialog("toggle", {})
TestWebhook == Dialog("call", {})
RetryDelivery == Dialog("call", {})            \* in the rows of WebhookLogs

UpgradePlan == Dialog("call", {})
TopUp == Dialog("call", {"clears", "forgets"})
RedeemPromo == Dialog("call", {"clears", "forgets"})

SystemSettings == Dialog("edit", {"diff", "syncs"})
UserInformation == Dialog("edit", {"clears", "diff"})

-----------------------------------------------------------------------------
(* Pages: the dialogs of the header, whose state the page holds; those inside  *)
(* the empty state; those in the menu of a row of DataTable; those in a row    *)
(* keyed by its record; the forms that are part of the page.                  *)

ContactMenu == {EditContact, DeleteContact}
GroupMenu == {EditGroup, DeleteGroup}
DeviceMenu == {EditDevice, DeleteDevice}
UserMenu == {EditUser, DeleteUser}
TemplateMenu == {EditTemplate, DeleteTemplate}
WebhookMenu == {EditWebhook, TestWebhook, DeleteWebhook}
ScheduledSMSMenu == {PauseScheduledSMS, EditScheduledSMS, DeleteScheduledSMS}
ApiKeyMenu == {RotateApiKey, RevokeApiKey, DeleteApiKey}
ManageGroups == GroupMenu                  \* its rows have key={group.id}

At(place, dialogs) == {place} \X dialogs

ContactsPage == At("header", {AddContact, AddGroup, ImportContacts}) \cup At("row", ContactMenu)
                  \cup At("keyed", ManageGroups)
DevicesPage == At("header", {AddDevice}) \cup At("row", DeviceMenu)
IntegrationsPage == At("header", {AddApiKey}) \cup At("row", ApiKeyMenu)
SMSPage == At("header", {SendSMS}) \cup At("empty", {SendSMS})
TemplatesPage == At("header", {AddTemplate}) \cup At("empty", {AddTemplate}) \cup At("row", TemplateMenu)
WebhooksPage == At("header", {AddWebhook}) \cup At("empty", {AddWebhook}) \cup At("row", WebhookMenu)
                  \cup At("keyed", {RetryDelivery})
ScheduledPage == At("header", {AddScheduledSMS}) \cup At("empty", {AddScheduledSMS})
                   \cup At("row", ScheduledSMSMenu)
AdminPage == At("header", {AddUser}) \cup At("row", UserMenu) \cup At("page", {SystemSettings})
SettingsPage == At("header", {UpgradePlan, TopUp, RedeemPromo}) \cup At("page", {UserInformation})

Forms == UNION {ContactsPage, DevicesPage, IntegrationsPage, SMSPage, TemplatesPage, WebhooksPage,
                ScheduledPage, AdminPage, SettingsPage}

-----------------------------------------------------------------------------
VARIABLES
    place, d,        \* the dialog of this behaviour and where it is mounted
    server,          \* server: the records
    list,            \* cache: the records as last fetched
    menu,            \* the row whose menu is open: an index, an id in a keyed row, or 0
    open,            \* the dialog is open
    form,            \* what its fields hold; Nothing when it is not mounted
    base,            \* defaultValues, taken when it was mounted
    held,            \* it holds a key to show
    opened,          \* history: the record whose menu the user opened
    sent,            \* requests whose answer has not been handled
    lost,            \* history: a key was issued that nobody got to read
    created, sends, events    \* bounds

chosen == <<place, d>>
dialog == <<menu, open, form, base, held, opened>>
bounds == <<created, sends, events>>
vars == <<chosen, server, list, dialog, sent, lost, bounds>>

Ids == 1..MaxRecords
Blank == <<0, "blank">>
Typed == <<0, "typed">>
Value == {Blank, Typed} \cup (Ids \X {"old", "foreign"})

Fields(m, t) == [mine |-> m, theirs |-> t]
BlankForm == Fields(Blank, Blank)
Nothing == Fields(<<0, "none">>, <<0, "none">>)

Record(i, m, t, a) == [id |-> i, mine |-> m, theirs |-> t, active |-> a]
OldRecord(i, a) == Record(i, <<i, "old">>, <<i, "old">>, a)

InRow == place \in {"row", "keyed"}

\* Acts on a click, without a dialog of its own
Direct == InRow /\ d.does \in {"toggle", "call"}

-----------------------------------------------------------------------------
(* Rows and components                                                       *)

\* DataTable keys a row by its index in the data, which the server sorts newest first
IndexRow(l, i) == {r \in l : Cardinality({x \in l : x.id > r.id}) = i - 1}
\* Mutant of KeyedRow: key={index}; IndexRow.
KeyedRow(l, i) == {r \in l : r.id = i}

RowOf(l, m) == CASE place = "row"   -> IndexRow(l, m)
                 [] place = "keyed" -> KeyedRow(l, m)
                 [] place = "page"  -> l
                 [] OTHER           -> {}

\* A menu offers to rotate and to revoke active keys only
Offered(r) == d.does \in {"rotate", "revoke"} => r.active

\* Mutant: the dialog of the header is inside the empty state.
PresentInEmptyState(l, m) ==
    CASE place = "page"              -> TRUE
      [] place \in {"header", "empty"} -> l = {}
      [] OTHER                       -> m # 0 /\ \E r \in RowOf(l, m) : Offered(r)
Present(l, m) ==
    CASE place \in {"header", "page"} -> TRUE
      [] place = "empty"             -> l = {}
      [] OTHER                       -> m # 0 /\ \E r \in RowOf(l, m) : Offered(r)

\* useForm({defaultValues}): an edit starts from the record as cached
Defaults(l, m) ==
    IF d.does = "edit" THEN LET r == CHOOSE x \in RowOf(l, m) : TRUE IN Fields(r.mine, r.theirs)
                       ELSE BlankForm

\* Mutant: the draft is filled once.
SyncedOnce(l, m) == form
Synced(l, m) == IF "syncs" \in d.has THEN Defaults(l, m) ELSE form

\* The library no longer calls back the component that sent r
Dropped == {[r EXCEPT !.here = FALSE] : r \in sent}
Pending == \E r \in sent : r.here

Mounted(l, m) ==
    /\ form' = Defaults(l, m) /\ base' = form'
    /\ open' = ("syncs" \in d.has) /\ held' = FALSE

Unmounted ==
    /\ form' = Nothing /\ base' = Nothing /\ open' = FALSE /\ held' = FALSE
    /\ sent' = Dropped
    /\ lost' = (lost \/ held)

-----------------------------------------------------------------------------
(* What the user does                                                        *)

OpenMenu(m) ==
    /\ InRow /\ menu = 0
    /\ \E r \in RowOf(list, m) : opened' = r.id
    /\ menu' = m
    /\ IF Present(list, m) THEN Mounted(list, m) ELSE UNCHANGED <<form, base, open, held>>
    /\ UNCHANGED <<chosen, server, list, sent, lost, bounds>>

CloseMenu ==
    /\ menu # 0 /\ ~ open
    /\ menu' = 0 /\ opened' = 0 /\ Unmounted
    /\ UNCHANGED <<chosen, server, list, bounds>>

OpenDialog ==
    /\ form # Nothing /\ ~ open /\ ~ Direct
    /\ open' = TRUE
    /\ UNCHANGED <<chosen, server, list, menu, form, base, held, opened, sent, lost, bounds>>

Type ==
    /\ open /\ ~ held /\ d.does \in {"create", "edit", "call"}
    /\ form' = [form EXCEPT !.mine = Typed]
    /\ UNCHANGED <<chosen, server, list, menu, open, base, held, opened, sent, lost, bounds>>

\* mutation.reset() in the handler that closes the dialog
\* Mutant: every dialog resets its mutation when it closes.
ForgetsAlways == TRUE
Forgets == "forgets" \in d.has

\* Esc, a click outside, Cancel; the handler runs also while a request is pending.  That
\* of RotateApiKey closes the menu, too.
CloseDialog ==
    /\ open /\ place # "page"
    /\ IF d.does = "rotate"
         THEN menu' = 0 /\ opened' = 0 /\ form' = Nothing /\ base' = Nothing
         ELSE /\ form' = IF "clears" \in d.has THEN base ELSE form
              /\ UNCHANGED <<menu, opened, base>>
    /\ open' = FALSE /\ held' = FALSE
    /\ sent' = IF Forgets THEN Dropped ELSE sent
    /\ UNCHANGED <<chosen, server, list, lost, bounds>>

\* The Cancel button of a form in the page
Cancel ==
    /\ open /\ place = "page" /\ "syncs" \notin d.has /\ ~ Pending
    /\ open' = FALSE /\ form' = base
    /\ UNCHANGED <<chosen, server, list, menu, base, held, opened, sent, lost, bounds>>

Differing(r) == {f \in DOMAIN form : form[f] # r[f]}

Puts(r) ==
    CASE d.does = "edit" /\ "diff" \in d.has -> {<<f, form[f]>> : f \in Differing(r)}
      [] d.does \in {"create", "edit"} /\ "diff" \notin d.has -> {<<f, form[f]>> : f \in DOMAIN form}
      [] OTHER                     -> {}

\* active: what a request to pause, resume, revoke or rotate asks for
Request(i, p, a) == [n |-> sends, does |-> d.does, id |-> i, puts |-> p, active |-> a, opened |-> opened,
                     here |-> d.does # "toggle", left |-> FALSE, answer |-> "none"]

\* The button is disabled while its mutation is pending.  A click on a plain menu item
\* closes the menu.
Submit ==
    /\ form # Nothing /\ (open \/ Direct)
    /\ ~ Pending /\ ~ held /\ sends < MaxSends
    /\ LET rows == RowOf(list, menu)
           r == CHOOSE x \in rows : TRUE
           request == IF rows = {} THEN Request(0, Puts(Nothing), TRUE)
                                   ELSE Request(r.id, Puts(r), d.does = "toggle" /\ ~ r.active)
       IN  /\ "syncs" \in d.has => request.puts # {}
           /\ sent' = sent \cup {request}
    /\ sends' = sends + 1
    /\ IF d.does = "toggle" THEN menu' = 0 /\ opened' = 0 /\ form' = Nothing /\ base' = Nothing
                            ELSE UNCHANGED <<menu, opened, form, base>>
    /\ UNCHANGED <<chosen, server, list, open, held, lost, created, events>>

\* The user goes to another page and comes back
Leave ==
    /\ events < MaxEvents /\ events' = events + 1
    /\ menu' = 0 /\ opened' = 0
    /\ IF Present(list, 0) THEN Mounted(list, 0)
       ELSE form' = Nothing /\ base' = Nothing /\ open' = FALSE /\ held' = FALSE
    /\ sent' = {[r EXCEPT !.left = TRUE] : r \in Dropped}
    /\ UNCHANGED <<chosen, server, list, lost, created, sends>>

-----------------------------------------------------------------------------
(* What the server does, and what comes of it                                *)

Put(r, field, old) == IF \E p \in r.puts : p[1] = field
                        THEN (CHOOSE p \in r.puts : p[1] = field)[2] ELSE old

Changed(x, r) == [x EXCEPT !.mine = Put(r, "mine", @), !.theirs = Put(r, "theirs", @),
                           !.active = IF r.does \in {"revoke", "rotate", "toggle"} THEN r.active ELSE @]

\* Rotation leaves the old key revoked and creates a new one
Creates(r) == r.does \in {"create", "rotate"}

Serve(r) ==
    /\ r \in sent /\ r.answer = "none"
    /\ \/ /\ r.id # 0 => \E x \in server : x.id = r.id
          /\ Creates(r) => created < MaxRecords
          /\ server' = {IF x.id = r.id THEN Changed(x, r) ELSE x :
                            x \in {y \in server : ~ (r.does = "delete" /\ y.id = r.id)}}
                       \cup IF Creates(r)
                              THEN {Changed(OldRecord(created + 1, TRUE), [r EXCEPT !.does = "create"])}
                              ELSE {}
          /\ created' = IF Creates(r) THEN created + 1 ELSE created
          /\ sent' = (sent \ {r}) \cup {[r EXCEPT !.answer = "ok"]}
       \/ /\ sent' = (sent \ {r}) \cup {[r EXCEPT !.answer = "refused"]}
          /\ UNCHANGED <<server, created>>
    /\ UNCHANGED <<chosen, list, dialog, lost, sends, events>>

\* The callbacks passed to mutate()
Finish ==
    IF "key" \in d.has
      THEN held' = TRUE /\ UNCHANGED <<menu, opened, form, base, open>>
    ELSE IF place = "keyed" /\ Direct
      THEN UNCHANGED dialog
    ELSE IF InRow
      THEN /\ menu' = 0 /\ opened' = 0 /\ form' = Nothing /\ base' = Nothing /\ open' = FALSE
           /\ UNCHANGED held
    ELSE /\ open' = ("syncs" \in d.has)
         /\ form' = IF place = "page" THEN form ELSE base
         /\ UNCHANGED <<menu, opened, base, held>>

Answer(r) ==
    /\ r \in sent /\ r.answer # "none"
    /\ sent' = sent \ {r}
    /\ IF r.here /\ (r.answer = "ok" \/ Direct) THEN Finish ELSE UNCHANGED dialog
    /\ lost' = (lost \/ ("key" \in d.has /\ r.answer = "ok" /\ ~ r.here /\ ~ r.left))
    /\ UNCHANGED <<chosen, server, list, bounds>>

\* Mutant: a component stays although what renders it has gone.
GoneNever(l) == FALSE
Gone(l) == form # Nothing /\ ~ Present(l, menu)

\* The list is fetched anew, after a change of the user's own or an event
Refetch ==
    /\ server # list /\ list' = server
    /\ IF InRow /\ RowOf(server, menu) = {} THEN menu' = 0 /\ opened' = 0 ELSE UNCHANGED <<menu, opened>>
    /\ IF Gone(server) THEN Unmounted
       ELSE /\ IF form = Nothing /\ Present(server, menu') THEN Mounted(server, menu')
               ELSE form' = Synced(server, menu) /\ UNCHANGED <<base, open, held>>
            /\ UNCHANGED <<sent, lost>>
    /\ UNCHANGED <<chosen, server, bounds>>

\* Others create, change and delete records; what a form in the page shows stays
ForeignChange ==
    /\ events < MaxEvents /\ events' = events + 1
    /\ \/ /\ place # "page" /\ created < MaxRecords /\ created' = created + 1
          /\ server' = server \cup {OldRecord(created + 1, TRUE)}
       \/ /\ \E x \in server : server' = (server \ {x}) \cup {[x EXCEPT !.theirs = <<x.id, "foreign">>]}
          /\ UNCHANGED created
       \/ /\ place # "page" /\ \E x \in server : server' = server \ {x}
          /\ UNCHANGED created
    /\ UNCHANGED <<chosen, list, dialog, sent, lost, sends>>

-----------------------------------------------------------------------------
Init ==
    /\ \E f \in Forms : place = f[1] /\ d = f[2]
    /\ created \in IF place = "page" THEN {1} ELSE 0..(MaxRecords - 1)
    /\ \E a \in [Ids -> IF d.does \in {"rotate", "revoke", "toggle"} THEN BOOLEAN ELSE {TRUE}] :
           server = {OldRecord(i, a[i]) : i \in 1..created}
    /\ list = server /\ menu = 0 /\ opened = 0
    /\ form = IF Present(list, 0) THEN Defaults(list, 0) ELSE Nothing
    /\ base = form /\ open = ("syncs" \in d.has) /\ held = FALSE
    /\ sent = {} /\ lost = FALSE /\ sends = 0 /\ events = 0

Next ==
    \/ \E m \in Ids : OpenMenu(m)
    \/ CloseMenu \/ OpenDialog \/ Type \/ CloseDialog \/ Cancel \/ Submit \/ Leave
    \/ \E r \in sent : Serve(r) \/ Answer(r)
    \/ Refetch \/ ForeignChange

Spec == Init /\ [][Next]_vars

-----------------------------------------------------------------------------
(* Properties                                                                *)

Records == [id : Ids, mine : Value, theirs : Value, active : BOOLEAN]
FormValues == [mine : Value, theirs : Value]
Puttings == {"mine", "theirs"} \X Value

\* The variables have their types, ids are unique, and a dialog has state exactly while what
\* renders it is on the page.
TypeOK ==
    /\ <<place, d>> \in Forms
    /\ server \subseteq Records /\ list \subseteq Records
    /\ \A x, y \in server : x.id = y.id => x = y
    /\ menu \in 0..MaxRecords /\ opened \in 0..MaxRecords
    /\ form \in FormValues \cup {Nothing} /\ base \in FormValues \cup {Nothing}
    /\ form # Nothing <=> Present(list, menu)
    /\ open \in BOOLEAN /\ held \in BOOLEAN /\ lost \in BOOLEAN
    /\ form = Nothing => ~ open /\ ~ held /\ ~ Pending
    /\ \A r \in sent : r.id \in 0..MaxRecords /\ r.puts \subseteq Puttings
    /\ created \in 0..MaxRecords /\ sends \in 0..MaxSends /\ events \in 0..MaxEvents

\* What a dialog in a row keyed by its record sends concerns the record whose menu the user
\* opened, and carries no value of another one.
KeyedRowKeepsItsRecord ==
    place = "keyed" => \A r \in sent : /\ r.id = r.opened
                                       /\ \A p \in r.puts : p[2] = Typed \/ p[2][1] = r.id

\* The system settings send only what the administrator typed: a setting changed meanwhile
\* by another one is never put back, whenever the cache was refreshed.
SendsOnlyTyped ==
    d = SystemSettings => \A r \in sent : \A p \in r.puts : p[2] = Typed

\* A refetch that fills or empties the list does not disturb a dialog opened in the header.
TextSurvivesRefetch ==
    [][place = "header" /\ open /\ list' # list => open' /\ form' = form]_vars

\* The key of a new device can be read even if the dialog was closed before the answer came.
DeviceKeyIsNotLost == d = AddDevice => ~ lost

\* A dialog in the header has one request on its way at a time, however often it is closed
\* and opened again, except for those that reset their mutation.
OneSendAtATime ==
    place = "header" /\ "forgets" \notin d.has => Cardinality({r \in sent : ~ r.left}) <= 1
=============================================================================
