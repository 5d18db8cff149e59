---------------------------- MODULE WebFormsProofs ----------------------------
(***************************************************************************)
(* What the dialogs keep true for any number of records, requests and        *)
(* changes by others: a dialog in the header keeps its text and sends once,  *)
(* one in a keyed row keeps its record, the settings put back no setting of   *)
(* another one, and a dialog is mounted exactly while what renders it is on   *)
(* the page.                                                               *)
(***************************************************************************)
EXTENDS WebForms, FiniteSetTheorems, TLAPS

-----------------------------------------------------------------------------
(* The tables                                                                *)

\* Where the dialogs of the properties are, and what those of a place have in common.
Placed(w, x) ==
    /\ w \in {"header", "empty", "row", "keyed", "page"}
    /\ w = "header" => x.does \in {"create", "call"} /\ "syncs" \notin x.has
    /\ w = "keyed" => x.does \in {"edit", "delete", "call"} /\ "diff" \notin x.has /\ "syncs" \notin x.has /\ "key" \notin x.has
                    /\ "clears" \notin x.has
    /\ w = "empty" => x.does = "create"
    /\ w = "page" => x.does = "edit"
    /\ "syncs" \in x.has => w = "page"
    /\ x.does = "rotate" => w = "row" /\ "forgets" \in x.has
    /\ x.does = "toggle" => w = "row"
    /\ x = AddDevice => w = "header"
    /\ x = SystemSettings => w = "page"

LEMMA Places ==
  ASSUME NEW w, NEW x, <<w, x>> \in Forms
  PROVE  Placed(w, x)
<1> USE DEF Placed, At, Dialog, AddDevice, SystemSettings
<1>1. CASE <<w, x>> \in ContactsPage
  BY <1>1 DEF ContactsPage, ContactMenu, ManageGroups, GroupMenu, AddContact, AddGroup, ImportContacts,
     EditContact, DeleteContact, EditGroup, DeleteGroup, ConfirmDelete
<1>2. CASE <<w, x>> \in DevicesPage
  BY <1>2 DEF DevicesPage, DeviceMenu, EditDevice, DeleteDevice, ConfirmDelete
<1>3. CASE <<w, x>> \in IntegrationsPage
  BY <1>3 DEF IntegrationsPage, ApiKeyMenu, AddApiKey, RotateApiKey, RevokeApiKey, DeleteApiKey, ConfirmDelete
<1>4. CASE <<w, x>> \in SMSPage
  BY <1>4 DEF SMSPage, SendSMS
<1>5. CASE <<w, x>> \in TemplatesPage
  BY <1>5 DEF TemplatesPage, TemplateMenu, AddTemplate, EditTemplate, DeleteTemplate, ConfirmDelete
<1>6. CASE <<w, x>> \in WebhooksPage
  BY <1>6 DEF WebhooksPage, WebhookMenu, AddWebhook, EditWebhook, TestWebhook, DeleteWebhook,
     RetryDelivery, ConfirmDelete
<1>7. CASE <<w, x>> \in ScheduledPage
  BY <1>7 DEF ScheduledPage, ScheduledSMSMenu, AddScheduledSMS, PauseScheduledSMS, EditScheduledSMS,
     DeleteScheduledSMS, ConfirmDelete
<1>8. CASE <<w, x>> \in AdminPage
  BY <1>8 DEF AdminPage, UserMenu, AddUser, EditUser, DeleteUser, ConfirmDelete
<1>9. CASE <<w, x>> \in SettingsPage
  BY <1>9 DEF SettingsPage, UpgradePlan, TopUp, RedeemPromo, UserInformation
<1> QED BY <1>1, <1>2, <1>3, <1>4, <1>5, <1>6, <1>7, <1>8, <1>9 DEF Forms

-----------------------------------------------------------------------------
(* The inductive invariant                                                   *)

FormShape(f) == f = Fields(f.mine, f.theirs)
RecordShape(x) == x = Record(x.id, x.mine, x.theirs, x.active)
RequestShape(r) ==
    /\ r = [n |-> r.n, does |-> d.does, id |-> r.id, puts |-> r.puts, active |-> r.active,
            opened |-> r.opened, here |-> r.here, left |-> r.left, answer |-> r.answer]
    /\ r.here \in BOOLEAN /\ r.left \in BOOLEAN

ShapeOK ==
    /\ <<place, d>> \in Forms
    /\ ~ InRow => menu = 0
    /\ FormShape(form) /\ FormShape(base)
    /\ \A r \in sent : RequestShape(r)
    /\ \A x \in server \cup list : RecordShape(x)

\* A dialog of the header is always there, and its button knows of the request on its way
\* unless the user left the page.
HeaderOK ==
    /\ form # Nothing /\ base # Nothing
    /\ \A r, s \in sent : r.here /\ s.here => r = s
    /\ "forgets" \notin d.has => ~ lost /\ \A r \in sent : ~ r.left => r.here

\* A value of record i, or one the user typed.
Own(v, i) == v = Typed \/ v[1] = i
OwnRecord(x) == Own(x.mine, x.id) /\ Own(x.theirs, x.id)
OwnForm(f) == f # Nothing /\ d.does = "edit" => Own(f.mine, menu) /\ Own(f.theirs, menu)

\* In a keyed row the open menu is that of the record the user opened.
KeyedOK ==
    /\ menu # 0 => opened = menu
    /\ form # Nothing => menu # 0 /\ KeyedRow(list, menu) # {}
    /\ open => form # Nothing
    /\ OwnForm(form)
    /\ \A x \in server \cup list : OwnRecord(x)
    /\ \A r \in sent : r.id = r.opened /\ \A p \in r.puts : Own(p[2], r.id)

\* The draft differs from the one record of the cache only in what was typed.
SettingsOK ==
    /\ \E y : server = {y}
    /\ \E x : list = {x} /\ form.theirs = x.theirs /\ form.mine \in {x.mine, Typed}
    /\ \A r \in sent : \A p \in r.puts : p[2] = Typed

IInv ==
    /\ ShapeOK
    /\ place = "header" => HeaderOK
    /\ place = "keyed" => KeyedOK
    /\ d = SystemSettings => SettingsOK

-----------------------------------------------------------------------------
(* Shapes                                                                    *)

LEMMA FormShapes ==
  /\ FormShape(Nothing) /\ FormShape(BlankForm) /\ BlankForm # Nothing
  /\ \A l, m : FormShape(Defaults(l, m)) /\ (d.does # "edit" => Defaults(l, m) = BlankForm)
<1>1. \A a, b : FormShape(Fields(a, b)) /\ Fields(a, b).mine = a /\ Fields(a, b).theirs = b
  BY DEF FormShape, Fields
<1>2. <<0, "none">> # <<0, "blank">>
  OBVIOUS
<1>3. FormShape(Nothing) /\ FormShape(BlankForm) /\ BlankForm # Nothing
  BY <1>1, <1>2 DEF Nothing, BlankForm, Blank
<1> QED BY <1>1, <1>3 DEF Defaults

LEMMA TypedShape ==
  ASSUME NEW f, FormShape(f)
  PROVE  LET g == [f EXCEPT !.mine = Typed]
         IN  FormShape(g) /\ g.mine = Typed /\ g.theirs = f.theirs /\ g # Nothing
<1>1. f = [mine |-> f.mine, theirs |-> f.theirs]
  BY DEF FormShape, Fields
<1>2. PICK g : g = [f EXCEPT !.mine = Typed]
  OBVIOUS
<1>3. g = [mine |-> Typed, theirs |-> f.theirs]
  BY <1>1, <1>2
<1>4. Typed # <<0, "none">>
  BY DEF Typed
<1> QED BY <1>2, <1>3, <1>4 DEF FormShape, Fields, Nothing

\* q is r on a later page of its life.
Continues(q, r) ==
    RequestShape(q) /\ q.id = r.id /\ q.puts = r.puts /\ q.active = r.active /\ q.opened = r.opened

LEMMA RequestFields ==
  ASSUME NEW r, RequestShape(r), NEW v, NEW q
  PROVE  /\ q = [r EXCEPT !.here = v] =>
           q = [n |-> r.n, does |-> d.does, id |-> r.id, puts |-> r.puts, active |-> r.active,
               opened |-> r.opened, here |-> v, left |-> r.left, answer |-> r.answer]
         /\ q = [r EXCEPT !.left = v] =>
           q = [n |-> r.n, does |-> d.does, id |-> r.id, puts |-> r.puts, active |-> r.active,
               opened |-> r.opened, here |-> r.here, left |-> v, answer |-> r.answer]
         /\ r.here \in BOOLEAN /\ r.left \in BOOLEAN
<1>1. r = [n |-> r.n, does |-> d.does, id |-> r.id, puts |-> r.puts, active |-> r.active,
               opened |-> r.opened, here |-> r.here, left |-> r.left, answer |-> r.answer]
  BY DEF RequestShape
<1>2. ASSUME q = [r EXCEPT !.here = v]
      PROVE  q = [n |-> r.n, does |-> d.does, id |-> r.id, puts |-> r.puts, active |-> r.active,
               opened |-> r.opened, here |-> v, left |-> r.left, answer |-> r.answer]
  BY <1>1, <1>2
<1>3. ASSUME q = [r EXCEPT !.left = v]
      PROVE  q = [n |-> r.n, does |-> d.does, id |-> r.id, puts |-> r.puts, active |-> r.active,
               opened |-> r.opened, here |-> r.here, left |-> v, answer |-> r.answer]
  BY <1>1, <1>3
<1> QED BY <1>2, <1>3 DEF RequestShape

LEMMA Dropping ==
  ASSUME NEW r, RequestShape(r), NEW q, q = [r EXCEPT !.here = FALSE]
  PROVE  Continues(q, r) /\ ~ q.here /\ q.left = r.left
<1>1. q = [n |-> r.n, does |-> d.does, id |-> r.id, puts |-> r.puts, active |-> r.active,
               opened |-> r.opened, here |-> FALSE, left |-> r.left, answer |-> r.answer]
  BY RequestFields
<1> QED BY <1>1, RequestFields DEF Continues, RequestShape

LEMMA Leaving ==
  ASSUME NEW r, RequestShape(r), NEW q, q = [r EXCEPT !.left = TRUE]
  PROVE  Continues(q, r) /\ q.here = r.here /\ q.left
<1>1. q = [n |-> r.n, does |-> d.does, id |-> r.id, puts |-> r.puts, active |-> r.active,
               opened |-> r.opened, here |-> r.here, left |-> TRUE, answer |-> r.answer]
  BY RequestFields
<1> QED BY <1>1, RequestFields DEF Continues, RequestShape

LEMMA Answering ==
  ASSUME NEW r, RequestShape(r), NEW a, NEW q, q = [r EXCEPT !.answer = a]
  PROVE  Continues(q, r) /\ q.here = r.here /\ q.left = r.left
<1>1. r = [n |-> r.n, does |-> d.does, id |-> r.id, puts |-> r.puts, active |-> r.active,
           opened |-> r.opened, here |-> r.here, left |-> r.left, answer |-> r.answer]
      /\ r.here \in BOOLEAN /\ r.left \in BOOLEAN
  BY DEF RequestShape
<1>2. PICK b : b = a
  OBVIOUS
<1>3. q = [r EXCEPT !.answer = b]
  BY <1>2
<1>4. q = [n |-> r.n, does |-> d.does, id |-> r.id, puts |-> r.puts, active |-> r.active,
           opened |-> r.opened, here |-> r.here, left |-> r.left, answer |-> b]
  BY <1>1, <1>3
<1> QED BY <1>1, <1>2, <1>4 DEF Continues, RequestShape

LEMMA RecordFields ==
  ASSUME NEW x, RecordShape(x)
  PROVE  x = [id |-> x.id, mine |-> x.mine, theirs |-> x.theirs, active |-> x.active]
BY DEF RecordShape, Record

LEMMA Changing ==
  ASSUME NEW x, RecordShape(x), NEW r, NEW y, y = Changed(x, r)
  PROVE  /\ RecordShape(y) /\ y.id = x.id
         /\ y.mine = Put(r, "mine", x.mine) /\ y.theirs = Put(r, "theirs", x.theirs)
<1>1. PICK m : m = Put(r, "mine", x.mine)
  OBVIOUS
<1>2. PICK t : t = Put(r, "theirs", x.theirs)
  OBVIOUS
<1>3. PICK a : a = IF r.does \in {"revoke", "rotate", "toggle"} THEN r.active ELSE x.active
  OBVIOUS
<1>4. y = [x EXCEPT !.mine = m, !.theirs = t, !.active = a]
  BY <1>1, <1>2, <1>3, RecordFields DEF Changed
<1>5. y = [id |-> x.id, mine |-> m, theirs |-> t, active |-> a]
  BY <1>4, RecordFields
<1> QED BY <1>1, <1>2, <1>5 DEF RecordShape, Record

LEMMA Overwriting ==
  ASSUME NEW x, RecordShape(x), NEW v, NEW y, y = [x EXCEPT !.theirs = v]
  PROVE  RecordShape(y) /\ y.id = x.id /\ y.mine = x.mine /\ y.theirs = v
<1>1. y = [id |-> x.id, mine |-> x.mine, theirs |-> v, active |-> x.active]
  BY RecordFields
<1> QED BY <1>1 DEF RecordShape, Record

LEMMA NewRequest ==
  ASSUME NEW i, NEW p, NEW a, NEW q, q = Request(i, p, a)
  PROVE  /\ RequestShape(q) /\ q.id = i /\ q.puts = p /\ q.active = a /\ q.opened = opened /\ ~ q.left
         /\ d.does # "toggle" => q.here
BY DEF Request, RequestShape

LEMMA OldRecords ==
  ASSUME NEW i, NEW a
  PROVE  RecordShape(OldRecord(i, a)) /\ OldRecord(i, a).id = i /\ OwnRecord(OldRecord(i, a))
BY DEF OldRecord, Record, RecordShape, OwnRecord, Own

-----------------------------------------------------------------------------
(* Every step keeps the shapes                                               *)

LEMMA DroppedShape ==
  ASSUME ShapeOK, NEW q \in Dropped
  PROVE  RequestShape(q) /\ ~ q.here /\ \E r \in sent : Continues(q, r) /\ q.left = r.left
<1>1. PICK r \in sent : q = [r EXCEPT !.here = FALSE]
  BY DEF Dropped
<1>2. RequestShape(r)
  BY DEF ShapeOK
<1>3. Continues(q, r) /\ ~ q.here /\ q.left = r.left
  BY <1>1, <1>2, Dropping
<1> QED BY <1>3 DEF Continues

\* What Leave makes of the requests.
LEMMA LeftShape ==
  ASSUME ShapeOK, NEW q \in {[r EXCEPT !.left = TRUE] : r \in Dropped}
  PROVE  RequestShape(q) /\ ~ q.here /\ q.left /\ \E r \in sent : Continues(q, r)
<1>1. PICK u \in Dropped : q = [u EXCEPT !.left = TRUE]
  OBVIOUS
<1>2. PICK r \in sent : RequestShape(u) /\ ~ u.here /\ Continues(u, r)
  BY DroppedShape
<1>3. Continues(q, u) /\ q.here = u.here /\ q.left
  BY <1>1, <1>2, Leaving
<1> QED BY <1>2, <1>3 DEF Continues

LEMMA ServedShape ==
  ASSUME ShapeOK, NEW r, Serve(r)
  PROVE  /\ r \in sent
         /\ \E q : sent' = (sent \ {r}) \cup {q} /\ Continues(q, r) /\ q.here = r.here /\ q.left = r.left
<1>1. r \in sent /\ RequestShape(r)
  BY DEF Serve, ShapeOK
<1>2. PICK a : sent' = (sent \ {r}) \cup {[r EXCEPT !.answer = a]}
  BY DEF Serve
<1>3. PICK q : q = [r EXCEPT !.answer = a]
  OBVIOUS
<1>4. sent' = (sent \ {r}) \cup {q}
  BY <1>2, <1>3
<1>5. Continues(q, r) /\ q.here = r.here /\ q.left = r.left
  BY <1>1, <1>3, Answering
<1> QED BY <1>1, <1>4, <1>5

LEMMA SubmitShape ==
  ASSUME Submit
  PROVE  \E i, p, a : /\ sent' = sent \cup {Request(i, p, a)} /\ a \in BOOLEAN
                      /\ RowOf(list, menu) = {} => i = 0 /\ p = Puts(Nothing)
                      /\ RowOf(list, menu) # {} =>
                           i = (CHOOSE x \in RowOf(list, menu) : TRUE).id
                           /\ p = Puts(CHOOSE x \in RowOf(list, menu) : TRUE)
<1>1. PICK rows : rows = RowOf(list, menu)
  OBVIOUS
<1>2. PICK r : r = CHOOSE x \in rows : TRUE
  OBVIOUS
<1>3. PICK a \in BOOLEAN : a = (d.does = "toggle" /\ ~ r.active)
  BY Zenon
<1>4. sent' = sent \cup {IF rows = {} THEN Request(0, Puts(Nothing), TRUE) ELSE Request(r.id, Puts(r), a)}
  BY <1>1, <1>2, <1>3 DEF Submit
<1>5. CASE rows = {}
  BY <1>1, <1>4, <1>5
<1>6. CASE rows # {}
  BY <1>1, <1>2, <1>4, <1>6
<1> QED BY <1>5, <1>6

\* The records after a request was served are those before, changed, and perhaps a new one.
LEMMA ServedRecords ==
  ASSUME ShapeOK, NEW r, Serve(r), NEW y \in server'
  PROVE  \/ y \in server
         \/ \E x \in server : x.id = r.id /\ y = Changed(x, r)
         \/ Creates(r) /\ RecordShape(y)
<1>1. CASE server' = server
  BY <1>1
<1>2. CASE server' # server
  <2>1. server' = {IF x.id = r.id THEN Changed(x, r) ELSE x :
                       x \in {z \in server : ~ (r.does = "delete" /\ z.id = r.id)}}
                  \cup IF Creates(r)
                         THEN {Changed(OldRecord(created + 1, TRUE), [r EXCEPT !.does = "create"])}
                         ELSE {}
    BY <1>2 DEF Serve
  <2>2. CASE \E x \in server : y = (IF x.id = r.id THEN Changed(x, r) ELSE x)
    BY <2>2
  <2>3. CASE Creates(r) /\ y = Changed(OldRecord(created + 1, TRUE), [r EXCEPT !.does = "create"])
    BY <2>3, Changing, OldRecords
  <2> QED BY <2>1, <2>2, <2>3
<1> QED BY <1>1, <1>2

LEMMA ForeignRecords ==
  ASSUME ShapeOK, ForeignChange, NEW y \in server'
  PROVE  \/ y \in server
         \/ place # "page" /\ RecordShape(y) /\ OwnRecord(y)
         \/ \E x \in server : RecordShape(y) /\ y.id = x.id /\ y.mine = x.mine /\ y.theirs = <<x.id, "foreign">>
<1>1. \A x \in server : RecordShape(x)
  BY DEF ShapeOK
<1>2. \/ y \in server
      \/ place # "page" /\ y = OldRecord(created + 1, TRUE)
      \/ \E x \in server : y = [x EXCEPT !.theirs = <<x.id, "foreign">>]
  BY DEF ForeignChange
<1>3. ASSUME NEW x \in server, y = [x EXCEPT !.theirs = <<x.id, "foreign">>]
      PROVE  RecordShape(y) /\ y.id = x.id /\ y.mine = x.mine /\ y.theirs = <<x.id, "foreign">>
  BY <1>1, <1>3, Overwriting
<1>4. ASSUME y = OldRecord(created + 1, TRUE)
      PROVE  RecordShape(y) /\ OwnRecord(y)
  BY <1>4, OldRecords
<1> QED BY <1>2, <1>3, <1>4

LEMMA ChosenStays ==
  ASSUME Next
  PROVE  place' = place /\ d' = d
BY DEF Next, OpenMenu, CloseMenu, OpenDialog, Type, CloseDialog, Cancel, Submit, Leave, Serve, Answer,
   Refetch, ForeignChange, chosen

LEMMA ShapeStep ==
  ASSUME ShapeOK, Next
  PROVE  ShapeOK'
<1> USE FormShapes
<1>1. place' = place /\ d' = d
  BY ChosenStays
<1>3. ASSUME NEW m \in Ids, OpenMenu(m)
      PROVE  ShapeOK'
  BY <1>1, <1>3 DEF OpenMenu, Mounted, ShapeOK, InRow, RequestShape
<1>4. CASE CloseMenu
  BY <1>1, <1>4, DroppedShape DEF CloseMenu, Unmounted, ShapeOK, InRow, RequestShape
<1>5. CASE OpenDialog
  BY <1>1, <1>5 DEF OpenDialog, ShapeOK, InRow, RequestShape
<1>6. CASE Type
  BY <1>1, <1>6, TypedShape DEF Type, ShapeOK, InRow, RequestShape
<1>7. CASE CloseDialog
  BY <1>1, <1>7, DroppedShape DEF CloseDialog, ShapeOK, InRow, RequestShape
<1>8. CASE Cancel
  BY <1>1, <1>8 DEF Cancel, ShapeOK, InRow, RequestShape
<1>9. CASE Submit
  <2>1. PICK i, p, a : sent' = sent \cup {Request(i, p, a)}
    BY <1>9, SubmitShape
  <2>2. \A q \in sent' : RequestShape(q)
    <3>1. PICK q : q = Request(i, p, a)
      OBVIOUS
    <3> QED BY <2>1, <3>1, NewRequest DEF ShapeOK
  <2>3. (~ InRow => menu' = 0) /\ FormShape(form') /\ FormShape(base')
    BY <1>9 DEF Submit, ShapeOK
  <2>4. UNCHANGED <<server, list>>
    BY <1>9 DEF Submit
  <2> QED BY <1>1, <2>2, <2>3, <2>4 DEF ShapeOK, InRow, RequestShape
<1>10. CASE Leave
  BY <1>1, <1>10, LeftShape DEF Leave, Mounted, ShapeOK, InRow, RequestShape
<1>11. ASSUME NEW r \in sent, Serve(r)
       PROVE  ShapeOK'
  <2>1. \A q \in sent' : RequestShape(q)
    BY <1>11, ServedShape DEF ShapeOK, Continues
  <2>2. \A y \in server' : RecordShape(y)
    BY <1>11, ServedRecords, Changing DEF ShapeOK
  <2> QED BY <1>1, <1>11, <2>1, <2>2 DEF Serve, dialog, ShapeOK, InRow, RequestShape
<1>12. ASSUME NEW r \in sent, Answer(r)
       PROVE  ShapeOK'
  <2>1. (~ InRow => menu' = 0) /\ FormShape(form') /\ FormShape(base')
    BY <1>12 DEF Answer, Finish, dialog, ShapeOK
  <2> QED BY <1>1, <1>12, <2>1 DEF Answer, ShapeOK, InRow, RequestShape
<1>13. CASE Refetch
  <2>1. (~ InRow => menu' = 0) /\ FormShape(form') /\ FormShape(base')
    BY <1>13 DEF Refetch, Unmounted, Mounted, Synced, ShapeOK
  <2>2. \A q \in sent' : RequestShape(q)
    BY <1>13, DroppedShape DEF Refetch, Unmounted, ShapeOK
  <2> QED BY <1>1, <1>13, <2>1, <2>2 DEF Refetch, ShapeOK, InRow, RequestShape
<1>14. CASE ForeignChange
  <2>1. \A y \in server' : RecordShape(y)
    BY <1>14, ForeignRecords DEF ShapeOK
  <2> QED BY <1>1, <1>14, <2>1 DEF ForeignChange, dialog, ShapeOK, InRow, RequestShape
<1> QED
  BY <1>3, <1>4, <1>5, <1>6, <1>7, <1>8, <1>9, <1>10, <1>11, <1>12, <1>13, <1>14
     DEF Next, ShapeOK

-----------------------------------------------------------------------------
(* Dialogs of the header                                                     *)

LEMMA HeaderFacts ==
  ASSUME ShapeOK, place = "header"
  PROVE  /\ d.does \in {"create", "call"} /\ "syncs" \notin d.has
         /\ ~ InRow /\ menu = 0 /\ ~ Direct
         /\ \A l, m : Present(l, m)
<1>1. Placed(place, d)
  BY Places DEF ShapeOK
<1> QED BY <1>1 DEF Placed, ShapeOK, InRow, Direct, Present

LEMMA HeaderStep ==
  ASSUME ShapeOK, HeaderOK, place = "header", Next
  PROVE  HeaderOK'
<1> USE HeaderFacts DEF HeaderOK
<1>1. place' = place /\ d' = d
  BY ChosenStays
<1>2. ~ CloseMenu /\ ~ Cancel /\ \A m \in Ids : ~ OpenMenu(m)
  BY DEF CloseMenu, Cancel, OpenMenu
<1>3. CASE OpenDialog
  BY <1>1, <1>3 DEF OpenDialog
<1>4. CASE Type
  BY <1>1, <1>4, TypedShape DEF Type, ShapeOK
<1>5. CASE CloseDialog
  <2>1. form' \in {form, base} /\ UNCHANGED <<base, lost>>
    BY <1>5 DEF CloseDialog
  <2>2. CASE "forgets" \in d.has
    <3>1. sent' = Dropped
      BY <1>5, <2>2 DEF CloseDialog, Forgets
    <3> QED BY <1>1, <2>1, <2>2, <3>1, DroppedShape
  <2>3. CASE "forgets" \notin d.has
    BY <1>1, <1>5, <2>1, <2>3 DEF CloseDialog, Forgets
  <2> QED BY <2>2, <2>3
<1>6. CASE Submit
  <2>1. PICK i, p, a : sent' = sent \cup {Request(i, p, a)}
    BY <1>6, SubmitShape
  <2>2. Request(i, p, a).here /\ ~ Request(i, p, a).left
    BY NewRequest
  <2>3. \A r \in sent : ~ r.here
    BY <1>6 DEF Submit, Pending
  <2>4. UNCHANGED <<form, base, lost>>
    BY <1>6 DEF Submit
  <2> QED BY <1>1, <2>1, <2>2, <2>3, <2>4
<1>7. CASE Leave
  <2>1. form' = BlankForm /\ base' = form' /\ lost' = lost
    BY <1>7, FormShapes DEF Leave, Mounted
  <2>2. \A q \in sent' : ~ q.here /\ q.left
    BY <1>7, LeftShape DEF Leave
  <2> QED BY <1>1, <2>1, <2>2, FormShapes
<1>8. ASSUME NEW r \in sent, Serve(r)
      PROVE  HeaderOK'
  <2>1. PICK q : sent' = (sent \ {r}) \cup {q} /\ q.here = r.here /\ q.left = r.left
    BY <1>8, ServedShape
  <2>2. UNCHANGED <<form, base, lost>>
    BY <1>8 DEF Serve, dialog
  <2> QED BY <1>1, <1>8, <2>1, <2>2
<1>9. ASSUME NEW r \in sent, Answer(r)
      PROVE  HeaderOK'
  <2>1. form' \in {form, base} /\ base' = base /\ sent' = sent \ {r}
    BY <1>9 DEF Answer, Finish, dialog
  <2>2. lost' = (lost \/ ("key" \in d.has /\ r.answer = "ok" /\ ~ r.here /\ ~ r.left))
    BY <1>9 DEF Answer
  <2>3. "forgets" \notin d.has => ~ lost'
    BY <1>9, <2>2
  <2> QED BY <1>1, <2>1, <2>3
<1>10. CASE Refetch
  <2>1. ~ Gone(server) /\ form # Nothing
    BY DEF Gone
  <2>2. UNCHANGED <<form, base, sent, lost>>
    BY <1>10, <2>1 DEF Refetch, Synced
  <2> QED BY <1>1, <2>2
<1>11. CASE ForeignChange
  BY <1>1, <1>11 DEF ForeignChange, dialog
<1> QED
  BY <1>2, <1>3, <1>4, <1>5, <1>6, <1>7, <1>8, <1>9, <1>10, <1>11 DEF Next

-----------------------------------------------------------------------------
(* Rows keyed by their record                                                *)

LEMMA KeyedFacts ==
  ASSUME ShapeOK, place = "keyed"
  PROVE  /\ d.does \in {"edit", "delete", "call"} /\ "diff" \notin d.has /\ "syncs" \notin d.has
         /\ "key" \notin d.has /\ "clears" \notin d.has
         /\ InRow
         /\ \A l, m : RowOf(l, m) = KeyedRow(l, m)
         /\ \A l, m : Present(l, m) <=> m # 0 /\ KeyedRow(l, m) # {}
<1>1. Placed(place, d)
  BY Places DEF ShapeOK
<1>2. \A l, m : RowOf(l, m) = KeyedRow(l, m)
  BY DEF RowOf
<1>3. \A l, m : Present(l, m) <=> m # 0 /\ KeyedRow(l, m) # {}
  BY <1>1, <1>2 DEF Present, Offered, Placed
<1> QED BY <1>1, <1>2, <1>3 DEF Placed, InRow

\* The fields of a dialog mounted in a row are those of its record.
LEMMA KeyedDefaults ==
  ASSUME ShapeOK, place = "keyed", NEW l, \A x \in l : OwnRecord(x), NEW m, KeyedRow(l, m) # {},
         NEW f, f = Defaults(l, m), d.does = "edit"
  PROVE  Own(f.mine, m) /\ Own(f.theirs, m)
<1>1. PICK r : r = CHOOSE x \in KeyedRow(l, m) : TRUE
  OBVIOUS
<1>2. r \in l /\ r.id = m
  BY <1>1 DEF KeyedRow
<1>3. f = Fields(r.mine, r.theirs)
  BY <1>1, KeyedFacts DEF Defaults
<1> QED BY <1>2, <1>3 DEF Fields, OwnRecord

\* What a request puts into its own record leaves it its own.
LEMMA OwnPut ==
  ASSUME NEW r, NEW i, \A p \in r.puts : Own(p[2], i), NEW field, NEW old, Own(old, i)
  PROVE  Own(Put(r, field, old), i)
<1>1. CASE \E p \in r.puts : p[1] = field
  BY <1>1 DEF Put
<1>2. CASE ~ \E p \in r.puts : p[1] = field
  BY <1>2 DEF Put
<1> QED BY <1>1, <1>2

\* What a request leaves on its way is a request that concerns its own record.
OwnRequest(q) == q.id = q.opened /\ \A p \in q.puts : Own(p[2], q.id)

LEMMA OwnContinues ==
  ASSUME NEW q, NEW r, Continues(q, r), OwnRequest(r)
  PROVE  OwnRequest(q)
BY DEF Continues, OwnRequest

LEMMA KeyedStep ==
  ASSUME ShapeOK, KeyedOK, place = "keyed", Next
  PROVE  KeyedOK'
<1> USE KeyedFacts
<1>1. place' = place /\ d' = d
  BY ChosenStays
<1>2. /\ menu # 0 => opened = menu
      /\ form # Nothing => menu # 0 /\ KeyedRow(list, menu) # {}
      /\ open => form # Nothing
      /\ OwnForm(form) /\ (\A x \in server \cup list : OwnRecord(x)) /\ \A r \in sent : OwnRequest(r)
  BY DEF KeyedOK, OwnRequest
<1>3. ASSUME menu' # 0 => opened' = menu',
             form' # Nothing => menu' # 0 /\ KeyedRow(list', menu') # {},
             open' => form' # Nothing,
             OwnForm(form)', \A x \in server' \cup list' : OwnRecord(x), \A q \in sent' : OwnRequest(q)
      PROVE  KeyedOK'
  BY <1>3 DEF KeyedOK, OwnRequest
<1>4. ASSUME NEW m \in Ids, OpenMenu(m)
      PROVE  KeyedOK'
  <2>1. /\ menu' = m /\ opened' = m /\ m # 0 /\ KeyedRow(list, m) # {}
        /\ UNCHANGED <<server, list, sent>>
    BY <1>4 DEF OpenMenu, KeyedRow, Ids
  <2>2. Present(list, m)
    BY <2>1
  <2>3. form' = Defaults(list, m)
    BY <1>4, <2>2 DEF OpenMenu, Mounted
  <2>4. ~ open'
    BY <1>4, <2>2 DEF OpenMenu, Mounted
  <2>5. OwnForm(form)'
    BY <1>1, <1>2, <2>1, <2>3, KeyedDefaults DEF OwnForm
  <2> QED BY <1>2, <1>3, <2>1, <2>5, <2>4
<1>5. CASE CloseMenu
  <2>1. menu' = 0 /\ form' = Nothing /\ ~ open' /\ sent' = Dropped /\ UNCHANGED <<server, list>>
    BY <1>5 DEF CloseMenu, Unmounted
  <2>2. \A q \in sent' : OwnRequest(q)
    BY <1>2, <2>1, DroppedShape, OwnContinues
  <2> QED BY <1>2, <1>3, <2>1, <2>2 DEF OwnForm
<1>6. CASE OpenDialog
  BY <1>1, <1>2, <1>3, <1>6 DEF OpenDialog, OwnForm
<1>7. CASE Type
  <2>1. /\ form' = [form EXCEPT !.mine = Typed] /\ form # Nothing
        /\ UNCHANGED <<server, list, menu, opened, sent>>
    BY <1>2, <1>7 DEF Type
  <2> QED
  BY <1>1, <1>2, <1>3, <2>1, TypedShape DEF OwnForm, Own, ShapeOK
<1>8. CASE CloseDialog
  <2>1. UNCHANGED <<server, list, menu, opened, form>> /\ ~ open' /\ sent' \in {Dropped, sent}
    BY <1>8 DEF CloseDialog
  <2>2. \A q \in sent' : OwnRequest(q)
    BY <1>2, <2>1, DroppedShape, OwnContinues
  <2> QED BY <1>1, <1>2, <1>3, <2>1, <2>2 DEF OwnForm
<1>9. ~ Cancel
  BY DEF Cancel
<1>10. CASE Submit
  <2>1. form # Nothing /\ UNCHANGED <<server, list, menu, opened, form>>
    BY <1>10 DEF Submit
  <2>2. PICK r : r = CHOOSE x \in KeyedRow(list, menu) : TRUE
    OBVIOUS
  <2>3. r.id = menu
    BY <1>2, <2>1, <2>2 DEF KeyedRow
  <2>4. PICK i, p, a : sent' = sent \cup {Request(i, p, a)} /\ i = r.id /\ p = Puts(r)
    BY <1>2, <1>10, <2>1, <2>2, SubmitShape
  <2>5. PICK q : q = Request(i, p, a)
    OBVIOUS
  <2>6. q.id = menu /\ q.opened = menu /\ q.puts = Puts(r)
    BY <1>2, <2>1, <2>3, <2>4, <2>5, NewRequest
  <2>7. \A b \in Puts(r) : Own(b[2], menu)
    <3>1. CASE d.does = "edit"
      <4>1. Puts(r) = {<<f, form[f]>> : f \in DOMAIN form}
        BY <3>1 DEF Puts
      <4>2. \A f \in DOMAIN form : Own(form[f], menu)
        <5>1. form = [mine |-> form.mine, theirs |-> form.theirs]
          BY DEF ShapeOK, FormShape, Fields
        <5>2. DOMAIN form = {"mine", "theirs"}
          BY <5>1
        <5>3. Own(form.mine, menu) /\ Own(form.theirs, menu)
          BY <1>2, <2>1, <3>1 DEF OwnForm
        <5> QED BY <5>2, <5>3
      <4> QED BY <4>1, <4>2
    <3>2. CASE d.does # "edit"
      BY <3>2 DEF Puts
    <3> QED BY <3>1, <3>2
  <2>8. OwnRequest(q)
    BY <2>6, <2>7 DEF OwnRequest
  <2> QED BY <1>1, <1>2, <1>3, <2>1, <2>4, <2>5, <2>8 DEF OwnForm
<1>11. CASE Leave
  <2>1. menu' = 0 /\ form' = Nothing /\ ~ open' /\ UNCHANGED <<server, list>>
    BY <1>11 DEF Leave
  <2>2. \A q \in sent' : OwnRequest(q)
    BY <1>2, <1>11, LeftShape, OwnContinues DEF Leave
  <2> QED BY <1>2, <1>3, <2>1, <2>2 DEF OwnForm
<1>12. ASSUME NEW r \in sent, Serve(r)
       PROVE  KeyedOK'
  <2>1. UNCHANGED <<list, menu, form, open, opened>>
    BY <1>12 DEF Serve, dialog
  <2>2. PICK q : sent' = (sent \ {r}) \cup {q} /\ Continues(q, r)
    BY <1>12, ServedShape
  <2>3. OwnRequest(r) /\ RequestShape(r)
    BY <1>2, <1>12 DEF ShapeOK
  <2>4. ~ Creates(r)
    BY <2>3 DEF Creates, RequestShape
  <2>5. ASSUME NEW y \in server'
        PROVE  OwnRecord(y)
    <3>1. CASE y \in server
      BY <1>2, <3>1
    <3>2. CASE \E x \in server : x.id = r.id /\ y = Changed(x, r)
      <4>1. PICK x \in server : x.id = r.id /\ y = Changed(x, r)
        BY <3>2
      <4>2. y.id = r.id /\ y.mine = Put(r, "mine", x.mine) /\ y.theirs = Put(r, "theirs", x.theirs)
        BY <4>1, Changing DEF ShapeOK
      <4>3. Own(x.mine, r.id) /\ Own(x.theirs, r.id)
        BY <1>2, <4>1 DEF OwnRecord
      <4> QED BY <2>3, <4>2, <4>3, OwnPut DEF OwnRecord, OwnRequest
    <3> QED BY <1>12, <2>4, <3>1, <3>2, ServedRecords
  <2>6. OwnRequest(q)
    BY <2>2, <2>3, OwnContinues
  <2> QED BY <1>1, <1>2, <1>3, <2>1, <2>2, <2>5, <2>6 DEF OwnForm
<1>13. ASSUME NEW r \in sent, Answer(r)
       PROVE  KeyedOK'
  <2>1. /\ \/ UNCHANGED <<menu, opened, form, open>>
           \/ menu' = 0 /\ form' = Nothing /\ ~ open'
        /\ sent' = sent \ {r} /\ UNCHANGED <<server, list>>
    BY <1>13 DEF Answer, Finish, dialog
  <2> QED BY <1>1, <1>2, <1>3, <2>1 DEF OwnForm
<1>14. CASE Refetch
  <2>1. list' = server /\ server' = server
    BY <1>14 DEF Refetch
  <2>2. \A x \in server' \cup list' : OwnRecord(x)
    BY <1>2, <2>1
  <2>3. menu' \in {0, menu} /\ (menu' # 0 => opened' = menu')
    BY <1>2, <1>14 DEF Refetch
  <2>4. sent' \in {Dropped, sent}
    BY <1>14 DEF Refetch, Unmounted
  <2>5. \A q \in sent' : OwnRequest(q)
    BY <1>2, <2>4, DroppedShape, OwnContinues
  <2>6. /\ form' # Nothing => menu' # 0 /\ KeyedRow(list', menu') # {}
        /\ OwnForm(form)' /\ (open' => form' # Nothing)
    <3>1. CASE Gone(server)
      BY <1>14, <3>1 DEF Refetch, Unmounted, OwnForm
    <3>2. CASE ~ Gone(server) /\ form = Nothing /\ Present(server, menu')
      <4>1. form' = Defaults(server, menu') /\ ~ open'
        BY <1>14, <3>2 DEF Refetch, Mounted
      <4>2. menu' # 0 /\ KeyedRow(server, menu') # {}
        BY <3>2
      <4> QED BY <1>1, <1>2, <2>1, <4>1, <4>2, KeyedDefaults DEF OwnForm
    <3>3. CASE ~ Gone(server) /\ ~ (form = Nothing /\ Present(server, menu'))
      <4>1. form' = form /\ open' = open
        BY <1>14, <3>3 DEF Refetch, Synced
      <4>2. form # Nothing => menu # 0 /\ KeyedRow(server, menu) # {}
        BY <3>3 DEF Gone
      <4>3. form # Nothing => menu' = menu
        BY <1>14, <4>2 DEF Refetch
      <4> QED BY <1>1, <1>2, <2>1, <4>1, <4>2, <4>3 DEF OwnForm
    <3> QED BY <3>1, <3>2, <3>3
  <2> QED BY <1>3, <2>2, <2>3, <2>5, <2>6
<1>15. CASE ForeignChange
  <2>1. UNCHANGED <<list, menu, form, open, opened, sent>>
    BY <1>15 DEF ForeignChange, dialog
  <2>2. \A y \in server' : OwnRecord(y)
    BY <1>2, <1>15, ForeignRecords DEF OwnRecord, Own
  <2> QED BY <1>1, <1>2, <1>3, <2>1, <2>2 DEF OwnForm
<1> QED
  BY <1>4, <1>5, <1>6, <1>7, <1>8, <1>9, <1>10, <1>11, <1>12, <1>13, <1>14, <1>15 DEF Next

-----------------------------------------------------------------------------
(* The system settings                                                       *)

LEMMA SettingsFacts ==
  ASSUME ShapeOK, d = SystemSettings
  PROVE  /\ place = "page" /\ ~ InRow /\ menu = 0 /\ ~ Direct
         /\ d.does = "edit" /\ "diff" \in d.has /\ "syncs" \in d.has
         /\ "key" \notin d.has /\ "forgets" \notin d.has /\ "clears" \notin d.has
         /\ \A l, m : RowOf(l, m) = l /\ Present(l, m)
<1>1. Placed(place, d)
  BY Places DEF ShapeOK
<1>2. place = "page"
  BY <1>1 DEF Placed
<1>3. ~ InRow
  BY <1>2 DEF InRow
<1> QED BY <1>2, <1>3 DEF SystemSettings, Dialog, ShapeOK, Direct, RowOf, Present

LEMMA SettingsDefaults ==
  ASSUME ShapeOK, d = SystemSettings, NEW x, NEW m, NEW f, f = Defaults({x}, m)
  PROVE  f.mine = x.mine /\ f.theirs = x.theirs
<1>1. (CHOOSE r \in RowOf({x}, m) : TRUE) = x
  BY SettingsFacts
<1> QED BY <1>1, SettingsFacts DEF Defaults, Fields

LEMMA SettingsStep ==
  ASSUME ShapeOK, SettingsOK, d = SystemSettings, Next
  PROVE  SettingsOK'
<1> USE SettingsFacts
<1>1. place' = place /\ d' = d
  BY ChosenStays
<1>2. PICK x, y : /\ list = {x} /\ form.theirs = x.theirs /\ form.mine \in {x.mine, Typed}
                  /\ server = {y}
  BY DEF SettingsOK
<1>3. \A r \in sent : \A p \in r.puts : p[2] = Typed
  BY DEF SettingsOK
<1>4. ASSUME NEW q \in Dropped
      PROVE  \A p \in q.puts : p[2] = Typed
  BY <1>3, DroppedShape DEF Continues
<1>5. ~ CloseMenu /\ ~ CloseDialog /\ ~ Cancel /\ \A m \in Ids : ~ OpenMenu(m)
  BY DEF CloseMenu, CloseDialog, Cancel, OpenMenu
<1>6. CASE OpenDialog
  BY <1>2, <1>3, <1>6 DEF OpenDialog, SettingsOK
<1>7. CASE Type
  <2>1. form' = [form EXCEPT !.mine = Typed] /\ UNCHANGED <<server, list, sent>>
    BY <1>7 DEF Type
  <2>2. form'.mine = Typed /\ form'.theirs = form.theirs
    BY <2>1, TypedShape DEF ShapeOK
  <2> QED BY <1>2, <1>3, <2>1, <2>2 DEF SettingsOK
<1>8. CASE Submit
  <2>1. UNCHANGED <<server, list, form>>
    BY <1>8 DEF Submit
  <2>2. RowOf(list, menu) = {x}
    BY <1>2
  <2>3. PICK i, p, a : sent' = sent \cup {Request(i, p, a)} /\ p = Puts(x)
    BY <1>8, <2>2, SubmitShape
  <2>4. PICK q : q = Request(i, p, a)
    OBVIOUS
  <2>5. q.puts = Puts(x)
    BY <2>3, <2>4, NewRequest
  <2>6. Puts(x) = {<<f, form[f]>> : f \in Differing(x)}
    BY DEF Puts
  <2>7. \A f \in Differing(x) : form[f] = Typed
    <3>1. form = [mine |-> form.mine, theirs |-> form.theirs]
      BY DEF ShapeOK, FormShape, Fields
    <3>2. DOMAIN form = {"mine", "theirs"}
      BY <3>1
    <3> QED BY <1>2, <3>2 DEF Differing
  <2>8. \A b \in q.puts : b[2] = Typed
    BY <2>5, <2>6, <2>7
  <2> QED BY <1>2, <1>3, <2>1, <2>3, <2>4, <2>8 DEF SettingsOK
<1>9. CASE Leave
  <2>1. form' = Defaults({x}, 0) /\ UNCHANGED <<server, list>>
    BY <1>2, <1>9 DEF Leave, Mounted
  <2>2. form'.mine = x.mine /\ form'.theirs = x.theirs
    BY <2>1, SettingsDefaults
  <2>3. \A q \in sent' : \A p \in q.puts : p[2] = Typed
    BY <1>3, <1>9, LeftShape DEF Leave, Continues
  <2> QED BY <1>2, <2>1, <2>2, <2>3 DEF SettingsOK
<1>10. ASSUME NEW r \in sent, Serve(r)
       PROVE  SettingsOK'
  <2>1. UNCHANGED <<list, form>>
    BY <1>10 DEF Serve, dialog
  <2>2. PICK q : sent' = (sent \ {r}) \cup {q} /\ Continues(q, r)
    BY <1>10, ServedShape
  <2>3. r.does = "edit" /\ ~ Creates(r)
    BY DEF ShapeOK, RequestShape, Creates
  <2>4. \E z : server' = {z}
    <3>1. CASE server' = server
      BY <1>2, <3>1
    <3>2. CASE server' # server
      <4>1. server' = {IF z.id = r.id THEN Changed(z, r) ELSE z :
                           z \in {v \in server : ~ (r.does = "delete" /\ v.id = r.id)}} \cup {}
        BY <1>10, <2>3, <3>2 DEF Serve
      <4>2. server' = {IF y.id = r.id THEN Changed(y, r) ELSE y}
        BY <1>2, <2>3, <4>1
      <4> QED BY <4>2
    <3> QED BY <3>1, <3>2
  <2>5. \A b \in q.puts : b[2] = Typed
    BY <1>3, <2>2 DEF Continues
  <2> QED BY <1>2, <1>3, <2>1, <2>2, <2>4, <2>5 DEF SettingsOK
<1>11. ASSUME NEW r \in sent, Answer(r)
       PROVE  SettingsOK'
  <2>1. form' = form /\ sent' = sent \ {r} /\ UNCHANGED <<server, list>>
    BY <1>11 DEF Answer, Finish, dialog
  <2> QED BY <1>2, <1>3, <2>1 DEF SettingsOK
<1>12. CASE Refetch
  <2>1. ~ Gone(server) /\ list' = {y} /\ server' = {y}
    BY <1>2, <1>12 DEF Gone, Refetch
  <2>2. \E m : form' = Defaults({y}, m)
    BY <1>2, <1>12, <2>1 DEF Refetch, Mounted, Synced
  <2>3. form'.mine = y.mine /\ form'.theirs = y.theirs
    BY <2>2, SettingsDefaults
  <2>4. sent' = sent
    BY <1>12, <2>1 DEF Refetch
  <2> QED BY <1>3, <2>1, <2>3, <2>4 DEF SettingsOK
<1>13. CASE ForeignChange
  <2>1. UNCHANGED <<list, form, sent>>
    BY <1>13 DEF ForeignChange, dialog
  <2>2. \E z \in server : server' = (server \ {z}) \cup {[z EXCEPT !.theirs = <<z.id, "foreign">>]}
    BY <1>13 DEF ForeignChange
  <2>3. \E z : server' = {z}
    BY <1>2, <2>2
  <2> QED BY <1>2, <1>3, <2>1, <2>3 DEF SettingsOK
<1> QED
  BY <1>5, <1>6, <1>7, <1>8, <1>9, <1>10, <1>11, <1>12, <1>13 DEF Next

-----------------------------------------------------------------------------
(* The theorems                                                              *)

LEMMA InvInit ==
  ASSUME Init
  PROVE  IInv
<1> USE FormShapes
<1>1. <<place, d>> \in Forms
  <2>1. PICK f \in Forms : place = f[1] /\ d = f[2]
    BY DEF Init
  <2>2. \A w, D : \A g \in At(w, D) : g = <<g[1], g[2]>>
    BY DEF At
  <2>3. f = <<f[1], f[2]>>
    BY <2>2 DEF Forms, ContactsPage, DevicesPage, IntegrationsPage, SMSPage, TemplatesPage, WebhooksPage,
       ScheduledPage, AdminPage, SettingsPage
  <2> QED BY <2>1, <2>3
<1>2. \A x \in server : RecordShape(x) /\ OwnRecord(x)
  <2>1. PICK a : server = {OldRecord(i, a[i]) : i \in 1..created}
    BY DEF Init
  <2> QED BY <2>1, OldRecords
<1>3. list = server /\ menu = 0 /\ sent = {} /\ ~ lost /\ base = form
  BY DEF Init
<1>4. form = IF Present(list, 0) THEN Defaults(list, 0) ELSE Nothing
  BY DEF Init
<1>5. ShapeOK
  BY <1>1, <1>2, <1>3, <1>4 DEF ShapeOK
<1>6. Placed(place, d)
  BY <1>1, Places
<1>7. ASSUME place = "header"
      PROVE  HeaderOK
  <2>1. Present(list, 0) /\ d.does # "edit"
    BY <1>6, <1>7 DEF Present, Placed
  <2> QED BY <1>3, <1>4, <2>1 DEF HeaderOK
<1>8. ASSUME place = "keyed"
      PROVE  KeyedOK
  <2>1. ~ Present(list, 0)
    BY <1>7, <1>8 DEF Present
  <2>2. form = Nothing
    BY <1>4, <2>1
  <2>3. open => FALSE
    BY <1>6, <1>8 DEF Init, Placed
  <2> QED BY <1>2, <1>3, <2>2, <2>3 DEF KeyedOK, OwnForm
<1>9. ASSUME d = SystemSettings
      PROVE  SettingsOK
  <2>1. place = "page"
    BY <1>6, <1>9 DEF Placed
  <2>2. created = 1
    BY <2>1 DEF Init
  <2>3. 1..1 = {1}
    OBVIOUS
  <2>4. PICK a : server = {OldRecord(i, a[i]) : i \in 1..created}
    BY DEF Init
  <2>5. PICK x : server = {x}
    BY <2>2, <2>3, <2>4
  <2>6. form = Defaults({x}, 0)
    BY <1>3, <1>4, <1>5, <1>9, <2>5, SettingsFacts
  <2>7. form.mine = x.mine /\ form.theirs = x.theirs
    BY <1>5, <1>9, <2>6, SettingsDefaults
  <2> QED BY <1>3, <2>5, <2>7 DEF SettingsOK
<1> QED BY <1>5, <1>7, <1>8, <1>9 DEF IInv

LEMMA InvStutter ==
  ASSUME IInv, UNCHANGED vars
  PROVE  IInv'
<1>1. UNCHANGED <<place, d, server, list, menu, opened, open, form, base, sent, lost>>
  BY DEF vars, chosen, dialog
<1>2. ShapeOK'
  BY <1>1 DEF IInv, ShapeOK, InRow, RequestShape
<1>3. place = "header" => HeaderOK'
  BY <1>1 DEF IInv, HeaderOK
<1>4. place = "keyed" => KeyedOK'
  BY <1>1 DEF IInv, KeyedOK, OwnForm
<1>5. d = SystemSettings => SettingsOK'
  BY <1>1 DEF IInv, SettingsOK
<1> QED BY <1>1, <1>2, <1>3, <1>4, <1>5 DEF IInv

LEMMA InvStep ==
  ASSUME IInv, [Next]_vars
  PROVE  IInv'
<1>1. CASE Next
  <2>1. place' = place /\ d' = d
    BY <1>1, ChosenStays
  <2>2. ShapeOK'
    BY <1>1, ShapeStep DEF IInv
  <2>3. place = "header" => HeaderOK'
    BY <1>1, HeaderStep DEF IInv
  <2>4. place = "keyed" => KeyedOK'
    BY <1>1, KeyedStep DEF IInv
  <2>5. d = SystemSettings => SettingsOK'
    BY <1>1, SettingsStep DEF IInv
  <2> QED BY <2>1, <2>2, <2>3, <2>4, <2>5 DEF IInv
<1> QED BY <1>1, InvStutter

\* Every dialog keeps its part of the invariant, whatever the user, the server and the
\* others do.
THEOREM FormsInvariant == Spec => []IInv
<1> QED BY InvInit, InvStep, PTL DEF Spec

\* A dialog in a row keyed by its record sends what concerns that record alone: manage-groups
\* and webhook-logs give their rows key={id}.
THEOREM RecordsKept == Spec => []KeyedRowKeepsItsRecord
<1>1. IInv => KeyedRowKeepsItsRecord
  BY DEF IInv, KeyedOK, KeyedRowKeepsItsRecord, Own
<1> QED BY <1>1, FormsInvariant, PTL

\* The diff against the cache never puts back what another administrator changed: the draft
\* follows the cache in every field the user did not type into.
THEOREM OnlyTypedIsSent == Spec => []SendsOnlyTyped
<1>1. IInv => SendsOnlyTyped
  BY DEF IInv, SettingsOK, SendsOnlyTyped
<1> QED BY <1>1, FormsInvariant, PTL

\* A dialog of the header has at most one request on its way: the button stays disabled
\* while the dialog is closed and opened again.
THEOREM SendsOnce == Spec => []OneSendAtATime
<1>1. ASSUME IInv, place = "header", "forgets" \notin d.has
      PROVE  Cardinality({r \in sent : ~ r.left}) <= 1
  <2> DEFINE S == {r \in sent : ~ r.left}
  <2>1. \A r, s \in S : r = s
    BY <1>1 DEF IInv, HeaderOK
  <2>2. CASE S = {}
    BY <2>2, FS_EmptySet
  <2>3. CASE S # {}
    <3>1. PICK r : S = {r}
      BY <2>1, <2>3
    <3> QED BY <3>1, FS_Singleton
  <2> QED BY <2>2, <2>3
<1>2. IInv => OneSendAtATime
  BY <1>1 DEF OneSendAtATime
<1> QED BY <1>2, FormsInvariant, PTL

\* add-device keeps its mutation when it is closed, so the callback that shows the key of
\* the new device still runs.
THEOREM DeviceKeysAreRead == Spec => []DeviceKeyIsNotLost
<1>1. ASSUME IInv, d = AddDevice
      PROVE  ~ lost
  <2>1. place = "header"
    BY <1>1, Places DEF IInv, ShapeOK, Placed
  <2>2. "forgets" \notin d.has
    BY <1>1 DEF AddDevice, Dialog
  <2> QED BY <1>1, <2>1, <2>2 DEF IInv, HeaderOK
<1>2. IInv => DeviceKeyIsNotLost
  BY <1>1 DEF DeviceKeyIsNotLost
<1> QED BY <1>2, FormsInvariant, PTL

\* The dialogs of a page header stand outside the list and its empty state, so no refetch
\* mounts them anew.
THEOREM TextSurvives == Spec => TextSurvivesRefetch
<1>1. ASSUME IInv, Next, place = "header", open, list' # list
      PROVE  open' /\ form' = form
  <2>1. Refetch
    BY <1>1 DEF Next, OpenMenu, CloseMenu, OpenDialog, Type, CloseDialog, Cancel, Submit, Leave, Serve,
       Answer, ForeignChange
  <2>2. Placed(place, d)
    BY <1>1, Places DEF IInv, ShapeOK
  <2>3. ~ Gone(server) /\ form # Nothing /\ "syncs" \notin d.has
    BY <1>1, <2>2 DEF Gone, Present, IInv, HeaderOK, Placed
  <2>4. form' = form
    BY <2>1, <2>3 DEF Refetch, Synced
  <2>5. open' = open
    BY <2>1, <2>3 DEF Refetch
  <2> QED BY <1>1, <2>4, <2>5
<1>2. IInv /\ [Next]_vars => [place = "header" /\ open /\ list' # list => open' /\ form' = form]_vars
  BY <1>1
<1> QED BY <1>2, FormsInvariant, PTL DEF Spec, TextSurvivesRefetch

-----------------------------------------------------------------------------
(* Types, and what is on the page                                            *)

RecordsTyped ==
    /\ server \subseteq Records /\ list \subseteq Records
    /\ \A x, y \in server : x.id = y.id => x = y
    /\ created \in 0..MaxRecords
    /\ \A x \in server : x.id <= created
    /\ place = "page" => server # {} /\ list # {}

RequestsTyped ==
    \A r \in sent : r.id \in 0..MaxRecords /\ r.puts \subseteq Puttings /\ r.active \in BOOLEAN

FormsTyped ==
    /\ form \in FormValues \cup {Nothing} /\ base \in FormValues \cup {Nothing}
    /\ form = Nothing <=> base = Nothing

\* A dialog is mounted exactly while what renders it is on the page, and one that is not
\* holds nothing and waits for nothing.  One request at most can still call back.
Rendered ==
    /\ form # Nothing <=> Present(list, menu)
    /\ form = Nothing => ~ open /\ ~ held /\ ~ Pending
    /\ open => ~ Direct
    /\ held => "key" \in d.has
    /\ \A r, s \in sent : r.here /\ s.here => r = s

Bounded ==
    /\ menu \in 0..MaxRecords /\ opened \in 0..MaxRecords
    /\ open \in BOOLEAN /\ held \in BOOLEAN /\ lost \in BOOLEAN
    /\ sends \in 0..MaxSends /\ events \in 0..MaxEvents

TInv == RecordsTyped /\ RequestsTyped /\ FormsTyped /\ Rendered /\ Bounded

\* How the dialogs of the tables differ from each other.
LEMMA PlaceFacts ==
  ASSUME ShapeOK
  PROVE  /\ place \in {"header", "empty", "row", "keyed", "page"}
         /\ place \in {"header", "empty"} => d.does # "edit"
         /\ place = "page" => d.does = "edit"
         /\ "syncs" \in d.has => place = "page"
         /\ d.does = "rotate" => place = "row" /\ "forgets" \in d.has
         /\ d.does = "toggle" => place = "row"
         /\ InRow <=> place \in {"row", "keyed"}
         /\ ~ InRow => menu = 0
<1>1. Placed(place, d)
  BY Places DEF ShapeOK
<1> QED BY <1>1 DEF Placed, ShapeOK, InRow

LEMMA NothingApart == Nothing \notin FormValues
<1>1. Nothing.mine = <<0, "none">>
  BY DEF Nothing, Fields
<1>2. <<0, "none">> \notin Value
  BY DEF Value, Blank, Typed, Ids
<1> QED BY <1>1, <1>2 DEF FormValues

LEMMA RowsAreListed ==
  ASSUME NEW l, NEW m
  PROVE  RowOf(l, m) \subseteq l /\ (place = "page" => RowOf(l, m) = l)
BY DEF RowOf, IndexRow, KeyedRow

\* What is on the page in each place.
LEMMA PresentFacts ==
  ASSUME ShapeOK, NEW l, NEW m
  PROVE  /\ place \in {"header", "page"} => Present(l, m)
         /\ place = "empty" => (Present(l, m) <=> l = {})
         /\ InRow => ~ Present(l, 0)
         /\ InRow /\ Present(l, m) => RowOf(l, m) # {}
BY PlaceFacts DEF Present

LEMMA FieldsAreTyped ==
  ASSUME NEW a \in Value, NEW b \in Value
  PROVE  Fields(a, b) \in FormValues
BY DEF Fields, FormValues

LEMMA DefaultsAreTyped ==
  ASSUME ShapeOK, NEW l, l \subseteq Records, NEW m, Present(l, m), place = "page" => l # {}
  PROVE  Defaults(l, m) \in FormValues
<1>1. BlankForm \in FormValues
  BY FieldsAreTyped DEF BlankForm, Value
<1>2. CASE d.does = "edit"
  <2>1. RowOf(l, m) # {}
    BY <1>2, PlaceFacts, PresentFacts, RowsAreListed
  <2>2. PICK x : x = CHOOSE y \in RowOf(l, m) : TRUE
    OBVIOUS
  <2>3. x \in Records
    BY <2>1, <2>2, RowsAreListed
  <2>4. x.mine \in Value /\ x.theirs \in Value
    BY <2>3 DEF Records
  <2> QED BY <1>2, <2>2, <2>4, FieldsAreTyped DEF Defaults
<1> QED BY <1>1, <1>2 DEF Defaults

LEMMA PutsAreTyped ==
  ASSUME form \in FormValues, NEW x
  PROVE  Puts(x) \subseteq Puttings
<1>1. DOMAIN form = {"mine", "theirs"}
  BY DEF FormValues
<1>2. \A f \in DOMAIN form : form[f] \in Value
  BY DEF FormValues
<1> QED BY <1>1, <1>2 DEF Puts, Puttings, Differing

\* A request stores values, under the names of the fields.
LEMMA PutIsTyped ==
  ASSUME NEW r, r.puts \subseteq Puttings, NEW f, NEW v \in Value
  PROVE  Put(r, f, v) \in Value
<1>1. CASE \E p \in r.puts : p[1] = f
  <2>1. PICK p : p = CHOOSE q \in r.puts : q[1] = f
    OBVIOUS
  <2>2. p \in Puttings
    BY <1>1, <2>1
  <2>3. p[2] \in Value
    BY <2>2 DEF Puttings
  <2> QED BY <1>1, <2>1, <2>3 DEF Put
<1> QED BY <1>1 DEF Put

LEMMA ChangedIsTyped ==
  ASSUME NEW x \in Records, NEW r, r.puts \subseteq Puttings, r.active \in BOOLEAN
  PROVE  Changed(x, r) \in Records
<1>1. PICK m \in Value : m = Put(r, "mine", x.mine)
  BY PutIsTyped DEF Records
<1>2. PICK t \in Value : t = Put(r, "theirs", x.theirs)
  BY PutIsTyped DEF Records
<1>3. PICK a \in BOOLEAN : a = IF r.does \in {"revoke", "rotate", "toggle"} THEN r.active ELSE x.active
  BY Zenon DEF Records
<1>4. Changed(x, r) = [x EXCEPT !.mine = m, !.theirs = t, !.active = a]
  BY <1>1, <1>2, <1>3 DEF Changed, Records
<1> QED BY <1>4 DEF Records

LEMMA OldRecordIsTyped ==
  ASSUME NEW i \in Ids, NEW a \in BOOLEAN
  PROVE  OldRecord(i, a) \in Records
<1>1. <<i, "old">> \in Value
  BY DEF Value
<1> QED BY <1>1 DEF OldRecord, Record, Records

LEMMA NextId ==
  ASSUME NEW c \in 0..MaxRecords
  PROVE  /\ c + 1 <= c + 1
         /\ c < MaxRecords => c + 1 \in 0..MaxRecords /\ c + 1 \in Ids
         /\ \A i \in Ids : i <= c => i <= c + 1 /\ i # c + 1
BY FormsAssumption DEF Ids

\* Serving a request changes records under their ids and adds one with a new id.
LEMMA ServedTypes ==
  ASSUME ShapeOK, RecordsTyped, RequestsTyped, NEW r \in sent, Serve(r)
  PROVE  /\ server' \subseteq Records
         /\ \A x, y \in server' : x.id = y.id => x = y
         /\ created' \in 0..MaxRecords
         /\ \A x \in server' : x.id <= created'
         /\ place = "page" => server' # {}
<1> USE DEF RecordsTyped
<1>1. r.puts \subseteq Puttings /\ r.active \in BOOLEAN /\ RequestShape(r)
  BY DEF RequestsTyped, ShapeOK
<1>2. CASE UNCHANGED <<server, created>>
  BY <1>2
<1>3. CASE ~ UNCHANGED <<server, created>>
  <2> DEFINE Kept == {y \in server : ~ (r.does = "delete" /\ y.id = r.id)}
             F(x) == IF x.id = r.id THEN Changed(x, r) ELSE x
  <2>1. PICK s : s = [r EXCEPT !.does = "create"]
    OBVIOUS
  <2>2. /\ Creates(r) => created < MaxRecords
        /\ server' = {F(x) : x \in Kept}
                       \cup IF Creates(r) THEN {Changed(OldRecord(created + 1, TRUE), s)} ELSE {}
        /\ created' = IF Creates(r) THEN created + 1 ELSE created
    BY <1>3, <2>1 DEF Serve
  <2>3. s.puts = r.puts /\ s.active = r.active
    BY <1>1, <2>1 DEF RequestShape
  <2>4. \A x \in server : F(x) \in Records /\ F(x).id = x.id
    BY <1>1, ChangedIsTyped, Changing DEF ShapeOK
  <2>5. PICK n : n = Changed(OldRecord(created + 1, TRUE), s)
    OBVIOUS
  <2>6. n.id = created + 1
    <3>1. PICK o : o = OldRecord(created + 1, TRUE)
      OBVIOUS
    <3>2. RecordShape(o) /\ o.id = created + 1
      BY <3>1, OldRecords
    <3> QED BY <2>5, <3>1, <3>2, Changing
  <2>7. Creates(r) => n \in Records
    <3>1. ASSUME Creates(r)
          PROVE  created + 1 \in Ids
      BY <2>2, <3>1, FormsAssumption DEF Ids
    <3>2. ASSUME Creates(r)
          PROVE  OldRecord(created + 1, TRUE) \in Records
      BY <3>1, <3>2, OldRecordIsTyped
    <3> QED BY <1>1, <2>3, <2>5, <3>2, ChangedIsTyped
  <2> HIDE DEF F, Kept
  <2>8. \A x \in server' : \/ \E u \in Kept : x = F(u)
                           \/ Creates(r) /\ x = n
    BY <2>2, <2>5
  <2>9. \A x \in server' : \/ \E u \in server : x = F(u) /\ x.id = u.id /\ x \in Records /\ x.id <= created
                           \/ Creates(r) /\ x = n /\ x \in Records /\ x.id = created + 1
    BY <2>4, <2>6, <2>7, <2>8 DEF Kept
  <2>10. server' \subseteq Records
    BY <2>9
  <2>11. \A u \in server : u.id \in Int
    BY DEF Records, Ids
  <2>12. \A x, y \in server' : x.id = y.id => x = y
    BY <2>9, <2>11, FormsAssumption
  <2>13. created' \in 0..MaxRecords /\ \A x \in server' : x.id <= created'
    <3>1. CASE Creates(r)
      <4>1. \A x \in server : x.id \in Ids
        BY DEF Records
      <4>2. \A x \in server' : x.id <= created + 1
        BY <2>9, <4>1, NextId
      <4> QED BY <2>2, <3>1, <4>2, NextId
    <3>2. CASE ~ Creates(r)
      BY <2>2, <2>9, <3>2
    <3> QED BY <3>1, <3>2
  <2>14. ASSUME place = "page"
         PROVE  server' # {}
    <3>1. r.does = "edit"
      BY <1>1, <2>14, PlaceFacts DEF RequestShape
    <3>2. PICK x : x \in Kept
      BY <2>14, <3>1 DEF Kept
    <3> QED BY <2>2, <3>2
  <2> QED BY <2>10, <2>12, <2>13, <2>14
<1> QED BY <1>2, <1>3

LEMMA ForeignTypes ==
  ASSUME ShapeOK, RecordsTyped, ForeignChange
  PROVE  /\ server' \subseteq Records
         /\ \A x, y \in server' : x.id = y.id => x = y
         /\ created' \in 0..MaxRecords
         /\ \A x \in server' : x.id <= created'
         /\ place = "page" => server' # {}
<1> USE DEF RecordsTyped
<1>1. \A u \in server : u.id \in Ids /\ u.id \in Int
  BY DEF Records, Ids
<1>2. CASE /\ place # "page" /\ created < MaxRecords /\ created' = created + 1
           /\ server' = server \cup {OldRecord(created + 1, TRUE)}
  <2>1. created + 1 \in Ids
    BY <1>2, FormsAssumption DEF Ids
  <2>2. PICK n \in Records : n = OldRecord(created + 1, TRUE) /\ n.id = created + 1
    BY <2>1, OldRecordIsTyped, OldRecords
  <2>3. server' = server \cup {n}
    BY <1>2, <2>2
  <2>4. \A x \in server' : x \in Records /\ ((x \in server /\ x.id <= created) \/ x = n)
    BY <2>2, <2>3
  <2>5. \A x \in server : x.id # n.id
    BY <1>1, <2>2, NextId
  <2>6. \A x \in server' : x.id <= created + 1
    BY <1>1, <2>2, <2>4, NextId
  <2>7. created' \in 0..MaxRecords /\ \A x \in server' : x.id <= created'
    BY <1>2, <2>6, NextId
  <2> QED BY <1>2, <2>4, <2>5, <2>7
<1>3. CASE /\ \E x \in server : server' = (server \ {x}) \cup {[x EXCEPT !.theirs = <<x.id, "foreign">>]}
           /\ UNCHANGED created
  <2>1. PICK x \in server : server' = (server \ {x}) \cup {[x EXCEPT !.theirs = <<x.id, "foreign">>]}
    BY <1>3
  <2>2. PICK n : n = [x EXCEPT !.theirs = <<x.id, "foreign">>]
    OBVIOUS
  <2>3. n.id = x.id
    BY <2>2, Overwriting DEF ShapeOK
  <2>4. <<x.id, "foreign">> \in Value
    BY <1>1 DEF Value
  <2>5. n \in Records
    BY <2>2, <2>4 DEF Records
  <2>6. server' = (server \ {x}) \cup {n}
    BY <2>1, <2>2
  <2>7. \A y \in server' : y \in Records /\ ((y \in server /\ y # x) \/ y = n)
    BY <2>5, <2>6
  <2> QED BY <1>3, <2>3, <2>6, <2>7
<1>4. CASE /\ place # "page" /\ \E x \in server : server' = server \ {x}
           /\ UNCHANGED created
  BY <1>4
<1> QED BY <1>2, <1>3, <1>4 DEF ForeignChange

LEMMA RecordsTypedStep ==
  ASSUME ShapeOK, RecordsTyped, RequestsTyped, Next
  PROVE  RecordsTyped'
<1>1. place' = place /\ d' = d
  BY ChosenStays
<1>2. CASE \E r \in sent : Serve(r)
  BY <1>1, <1>2, ServedTypes DEF RecordsTyped, Serve
<1>3. CASE ForeignChange
  BY <1>1, <1>3, ForeignTypes DEF RecordsTyped, ForeignChange
<1>4. CASE Refetch
  BY <1>1, <1>4 DEF RecordsTyped, Refetch, bounds
<1>5. CASE UNCHANGED <<server, list, created>>
  BY <1>1, <1>5 DEF RecordsTyped
<1> QED
  BY <1>2, <1>3, <1>4, <1>5 DEF Next, OpenMenu, CloseMenu, OpenDialog, Type, CloseDialog, Cancel, Submit,
     Leave, Answer, bounds

LEMMA RequestsTypedStep ==
  ASSUME ShapeOK, RecordsTyped, RequestsTyped, FormsTyped, Next
  PROVE  RequestsTyped'
<1>1. \A q, r : Continues(q, r) /\ r \in sent
                  => q.id \in 0..MaxRecords /\ q.puts \subseteq Puttings /\ q.active \in BOOLEAN
  BY DEF Continues, RequestsTyped
<1>2. CASE Submit
  <2>1. PICK i, p, a : /\ sent' = sent \cup {Request(i, p, a)} /\ a \in BOOLEAN
                       /\ RowOf(list, menu) = {} => i = 0 /\ p = Puts(Nothing)
                       /\ RowOf(list, menu) # {} =>
                            i = (CHOOSE x \in RowOf(list, menu) : TRUE).id
                            /\ p = Puts(CHOOSE x \in RowOf(list, menu) : TRUE)
    BY <1>2, SubmitShape
  <2>2. form \in FormValues
    BY <1>2 DEF Submit, FormsTyped
  <2>3. p \subseteq Puttings
    BY <2>1, <2>2, PutsAreTyped
  <2>4. i \in 0..MaxRecords
    <3>1. CASE RowOf(list, menu) = {}
      BY <2>1, <3>1, FormsAssumption
    <3>2. CASE RowOf(list, menu) # {}
      <4>1. PICK x \in Records : x = CHOOSE y \in RowOf(list, menu) : TRUE
        BY <3>2, RowsAreListed DEF RecordsTyped
      <4> QED BY <2>1, <3>2, <4>1 DEF Records, Ids
    <3> QED BY <3>1, <3>2
  <2>5. PICK q : q = Request(i, p, a)
    OBVIOUS
  <2>6. q.id = i /\ q.puts = p /\ q.active = a
    BY <2>5, NewRequest
  <2> QED BY <2>1, <2>3, <2>4, <2>5, <2>6 DEF RequestsTyped
<1>3. CASE \E r \in sent : Serve(r)
  <2>1. PICK r \in sent : Serve(r)
    BY <1>3
  <2>2. PICK q : sent' = (sent \ {r}) \cup {q} /\ Continues(q, r)
    BY <2>1, ServedShape
  <2> QED BY <1>1, <2>1, <2>2 DEF RequestsTyped
<1>4. CASE Leave
  BY <1>1, <1>4, LeftShape DEF Leave, RequestsTyped
<1>5. CASE sent' = Dropped
  BY <1>1, <1>5, DroppedShape DEF RequestsTyped
<1>6. CASE sent' \subseteq sent
  BY <1>6 DEF RequestsTyped
<1> QED
  BY <1>2, <1>3, <1>4, <1>5, <1>6 DEF Next, OpenMenu, CloseMenu, OpenDialog, Type, CloseDialog, Cancel,
     Answer, Refetch, ForeignChange, Unmounted, bounds

LEMMA PresentStays ==
  ASSUME place' = place, d' = d
  PROVE  Present(list, menu)' <=> Present(list', menu')
BY DEF Present, RowOf, Offered

\* A dialog that has gone, or is not there.
LEMMA GoneStep ==
  ASSUME ShapeOK, place' = place, d' = d, form' = Nothing, base' = Nothing, ~ open', ~ held',
         \A r \in sent' : ~ r.here, ~ Present(list', menu')
  PROVE  FormsTyped' /\ Rendered'
BY PresentStays DEF FormsTyped, Rendered, Pending

\* A dialog that is there, with what it holds.
LEMMA ThereStep ==
  ASSUME ShapeOK, place' = place, d' = d, form' \in FormValues, base' \in FormValues,
         open' => ~ Direct, held' => "key" \in d.has,
         \A r, s \in sent' : r.here /\ s.here => r = s, Present(list', menu')
  PROVE  FormsTyped' /\ Rendered'
<1>1. Direct' = Direct
  BY DEF Direct, InRow
<1> QED BY <1>1, PresentStays, NothingApart DEF FormsTyped, Rendered, Pending

\* Mounting: nothing is on its way, and the fields hold the defaults.
LEMMA MountedStep ==
  ASSUME ShapeOK, RecordsTyped', place' = place, d' = d, Mounted(list', menu'),
         \A r \in sent' : ~ r.here, Present(list', menu')
  PROVE  FormsTyped' /\ Rendered'
<1>1. list' \subseteq Records /\ (place = "page" => list' # {})
  BY DEF RecordsTyped
<1>2. form' \in FormValues
  BY <1>1, DefaultsAreTyped DEF Mounted
<1>3. open' => ~ Direct
  BY PlaceFacts DEF Mounted, Direct
<1> QED BY <1>2, <1>3, ThereStep DEF Mounted

\* The library calls one component back, or none.
LEMMA OneCallback ==
  ASSUME ShapeOK, Rendered, NEW r \in sent, Serve(r) \/ Answer(r)
  PROVE  /\ \A q, s \in sent' : q.here /\ s.here => q = s
         /\ ~ Pending => \A q \in sent' : ~ q.here
         /\ r.here /\ Answer(r) => \A q \in sent' : ~ q.here
<1> USE DEF Rendered, Pending
<1>1. CASE Serve(r)
  <2>1. PICK q : sent' = (sent \ {r}) \cup {q} /\ q.here = r.here
    BY <1>1, ServedShape
  <2>2. r.here /\ Answer(r) => FALSE
    BY <1>1 DEF Serve, Answer
  <2> QED BY <2>1, <2>2
<1>2. CASE Answer(r)
  BY <1>2 DEF Answer
<1> QED BY <1>1, <1>2

\* What the answer does to the dialog that waits for it.
LEMMA AnswerStep ==
  ASSUME ShapeOK, FormsTyped, Rendered, NEW r \in sent, Answer(r)
  PROVE  FormsTyped' /\ Rendered'
<1>1. place' = place /\ d' = d /\ list' = list
  BY DEF Answer, chosen
<1>2. /\ \A q, s \in sent' : q.here /\ s.here => q = s
      /\ ~ Pending => \A q \in sent' : ~ q.here
      /\ r.here => \A q \in sent' : ~ q.here
  BY OneCallback
<1>3. CASE UNCHANGED dialog
  <2>1. UNCHANGED <<menu, open, form, base, held>>
    BY <1>3 DEF dialog
  <2>2. CASE form = Nothing
    BY <1>1, <1>2, <2>1, <2>2, GoneStep DEF FormsTyped, Rendered
  <2>3. CASE form # Nothing
    BY <1>1, <1>2, <2>1, <2>3, ThereStep DEF FormsTyped, Rendered
  <2> QED BY <2>2, <2>3
<1>4. CASE r.here /\ Finish
  <2>1. form # Nothing /\ form \in FormValues /\ base \in FormValues /\ Present(list, menu)
    BY <1>4 DEF FormsTyped, Rendered, Pending
  <2>2. CASE "key" \in d.has
    BY <1>1, <1>2, <1>4, <2>1, <2>2, ThereStep DEF Finish, Rendered
  <2>3. CASE "key" \notin d.has /\ place = "keyed" /\ Direct
    BY <1>3, <1>4, <2>3 DEF Finish
  <2>4. CASE "key" \notin d.has /\ ~ (place = "keyed" /\ Direct) /\ InRow
    <3>1. /\ menu' = 0 /\ form' = Nothing /\ base' = Nothing /\ ~ open' /\ held' = held
      BY <1>4, <2>4 DEF Finish
    <3>2. ~ held /\ ~ Present(list, 0)
      BY <2>4, PresentFacts DEF Rendered
    <3> QED BY <1>1, <1>2, <1>4, <3>1, <3>2, GoneStep
  <2>5. CASE "key" \notin d.has /\ ~ InRow
    <3>1. form' \in {form, base} /\ UNCHANGED <<menu, base, held>>
      BY <1>4, <2>5 DEF Finish, InRow
    <3>2. ~ Direct
      BY <2>5 DEF Direct
    <3> QED BY <1>1, <1>2, <2>1, <2>5, <3>1, <3>2, ThereStep DEF Rendered
  <2> QED BY <2>2, <2>3, <2>4, <2>5
<1> QED BY <1>3, <1>4 DEF Answer

\* A refetch takes the dialog off the page with what rendered it, and mounts it with it.
LEMMA RefetchStep ==
  ASSUME ShapeOK, RecordsTyped, RecordsTyped', FormsTyped, Rendered, Refetch
  PROVE  FormsTyped' /\ Rendered'
<1>1. place' = place /\ d' = d /\ list' = server /\ server' = server
  BY DEF Refetch, chosen
<1>2. \/ menu' = menu /\ (InRow => RowOf(server, menu) # {})
      \/ InRow /\ menu' = 0 /\ RowOf(server, menu) = {}
  BY DEF Refetch
<1>3. CASE Gone(server)
  <2>1. Unmounted /\ ~ Present(server, menu)
    BY <1>3 DEF Refetch, Gone
  <2>2. ~ Present(list', menu')
    BY <1>1, <1>2, <2>1, PresentFacts
  <2>3. \A q \in sent' : ~ q.here
    BY <2>1, DroppedShape DEF Unmounted
  <2> QED BY <1>1, <2>1, <2>2, <2>3, GoneStep DEF Unmounted
<1>4. CASE ~ Gone(server) /\ form = Nothing /\ Present(server, menu')
  <2>1. Mounted(list', menu') /\ sent' = sent
    BY <1>1, <1>4 DEF Refetch
  <2>2. \A q \in sent' : ~ q.here
    BY <1>4, <2>1 DEF Rendered, Pending
  <2> QED BY <1>1, <1>4, <2>1, <2>2, MountedStep
<1>5. CASE ~ Gone(server) /\ ~ (form = Nothing /\ Present(server, menu'))
  <2>1. form' = Synced(server, menu) /\ UNCHANGED <<base, open, held, sent>>
    BY <1>5 DEF Refetch
  <2>2. CASE form = Nothing
    <3>1. "syncs" \notin d.has
      BY <1>5, <2>2, PlaceFacts, PresentFacts
    <3>2. form' = Nothing
      BY <2>1, <2>2, <3>1 DEF Synced
    <3> QED BY <1>1, <1>5, <2>1, <2>2, <3>2, GoneStep DEF FormsTyped, Rendered, Pending
  <2>3. CASE form # Nothing
    <3>1. Present(server, menu) /\ menu' = menu
      BY <1>2, <1>5, <2>3, PresentFacts DEF Gone
    <3>2. form' \in FormValues
      BY <2>1, <2>3, <3>1, DefaultsAreTyped DEF Synced, FormsTyped, RecordsTyped
    <3> QED BY <1>1, <2>1, <2>3, <3>1, <3>2, ThereStep DEF FormsTyped, Rendered
  <2> QED BY <2>2, <2>3
<1> QED BY <1>3, <1>4, <1>5

\* A click sends a request; one on a plain menu item also closes the menu.
LEMMA SubmitStep ==
  ASSUME ShapeOK, FormsTyped, Rendered, Submit
  PROVE  FormsTyped' /\ Rendered'
<1>1. place' = place /\ d' = d /\ list' = list /\ form # Nothing /\ (open \/ Direct) /\ ~ Pending /\ ~ held
      /\ UNCHANGED <<open, held>>
  BY DEF Submit, chosen
<1>2. PICK i, p, a : sent' = sent \cup {Request(i, p, a)}
  BY SubmitShape
<1>3. PICK q : q = Request(i, p, a)
  OBVIOUS
<1>4. q.here = (d.does # "toggle")
  BY <1>3 DEF Request
<1>5. \A r, s \in sent' : r.here /\ s.here => r = s
  BY <1>1, <1>2, <1>3 DEF Pending
<1>6. CASE d.does = "toggle"
  <2>1. menu' = 0 /\ form' = Nothing /\ base' = Nothing
    BY <1>6 DEF Submit
  <2>2. InRow /\ Direct
    BY <1>6, PlaceFacts DEF Direct
  <2>3. ~ open
    BY <2>2 DEF Rendered
  <2>4. \A r \in sent' : ~ r.here
    BY <1>1, <1>2, <1>3, <1>4, <1>6 DEF Pending
  <2> QED BY <1>1, <2>1, <2>2, <2>3, <2>4, GoneStep, PresentFacts
<1>7. CASE d.does # "toggle"
  <2>1. UNCHANGED <<menu, form, base>>
    BY <1>7 DEF Submit
  <2> QED BY <1>1, <1>5, <2>1, ThereStep DEF FormsTyped, Rendered
<1> QED BY <1>6, <1>7

\* What the user does to the dialog alone.
LEMMA DialogStep ==
  ASSUME ShapeOK, RecordsTyped, FormsTyped, Rendered, OpenDialog \/ Type \/ CloseDialog \/ Cancel
  PROVE  FormsTyped' /\ Rendered'
<1>1. place' = place /\ d' = d /\ list' = list
  BY DEF OpenDialog, Type, CloseDialog, Cancel, chosen
<1>2. form # Nothing /\ form \in FormValues /\ base \in FormValues /\ Present(list, menu)
  BY DEF OpenDialog, Type, CloseDialog, Cancel, FormsTyped, Rendered
<1>3. CASE OpenDialog
  BY <1>1, <1>2, <1>3, ThereStep DEF OpenDialog, Rendered
<1>4. CASE Type
  <2>1. form' = [form EXCEPT !.mine = Typed] /\ UNCHANGED <<menu, open, base, held, sent>>
    BY <1>4 DEF Type
  <2>2. Typed \in Value
    BY DEF Value
  <2>3. form' \in FormValues
    BY <1>2, <2>1, <2>2 DEF FormValues
  <2> QED BY <1>1, <1>2, <2>1, <2>3, ThereStep DEF Rendered
<1>5. CASE CloseDialog
  <2>1. ~ open' /\ ~ held'
    BY <1>5 DEF CloseDialog
  <2>2. CASE d.does = "rotate"
    <3>1. InRow /\ Forgets
      BY <2>2, PlaceFacts DEF Forgets
    <3>2. menu' = 0 /\ form' = Nothing /\ base' = Nothing /\ sent' = Dropped
      BY <1>5, <2>2, <3>1 DEF CloseDialog
    <3> QED BY <1>1, <2>1, <3>1, <3>2, GoneStep, PresentFacts, DroppedShape
  <2>3. CASE d.does # "rotate"
    <3>1. form' \in {form, base} /\ UNCHANGED <<menu, base>> /\ sent' \in {Dropped, sent}
      BY <1>5, <2>3 DEF CloseDialog
    <3>2. \A r, s \in sent' : r.here /\ s.here => r = s
      BY <3>1, DroppedShape DEF Rendered
    <3> QED BY <1>1, <1>2, <2>1, <3>1, <3>2, ThereStep
  <2> QED BY <2>2, <2>3
<1>6. CASE Cancel
  BY <1>1, <1>2, <1>6, ThereStep DEF Cancel, Rendered
<1> QED BY <1>3, <1>4, <1>5, <1>6

LEMMA MenuStep ==
  ASSUME ShapeOK, RecordsTyped, RecordsTyped', FormsTyped, Rendered,
         CloseMenu \/ \E m \in Ids : OpenMenu(m)
  PROVE  FormsTyped' /\ Rendered'
<1>1. place' = place /\ d' = d /\ list' = list
  BY DEF CloseMenu, OpenMenu, chosen
<1>2. CASE CloseMenu
  <2>1. InRow
    BY <1>2, PlaceFacts DEF CloseMenu
  <2>2. menu' = 0 /\ Unmounted
    BY <1>2 DEF CloseMenu
  <2> QED BY <1>1, <2>1, <2>2, GoneStep, PresentFacts, DroppedShape DEF Unmounted
<1>3. CASE \E m \in Ids : OpenMenu(m)
  <2>1. PICK m \in Ids : OpenMenu(m)
    BY <1>3
  <2>2. menu' = m /\ sent' = sent /\ InRow /\ menu = 0
    BY <2>1 DEF OpenMenu
  <2>3. form = Nothing /\ base = Nothing /\ ~ open /\ ~ held /\ \A r \in sent : ~ r.here
    BY <2>2, PresentFacts DEF FormsTyped, Rendered, Pending
  <2>4. CASE Present(list, m)
    BY <1>1, <2>1, <2>2, <2>3, <2>4, MountedStep DEF OpenMenu
  <2>5. CASE ~ Present(list, m)
    <3>1. UNCHANGED <<form, base, open, held>>
      BY <2>1, <2>5 DEF OpenMenu
    <3> QED BY <1>1, <2>2, <2>3, <2>5, <3>1, GoneStep
  <2> QED BY <2>4, <2>5
<1> QED BY <1>2, <1>3

LEMMA LeaveStep ==
  ASSUME ShapeOK, RecordsTyped', Leave
  PROVE  FormsTyped' /\ Rendered'
<1>1. place' = place /\ d' = d /\ list' = list /\ menu' = 0
  BY DEF Leave, chosen
<1>2. \A r \in sent' : ~ r.here
  BY LeftShape DEF Leave
<1>3. CASE Present(list, 0)
  BY <1>1, <1>2, <1>3, MountedStep DEF Leave
<1>4. CASE ~ Present(list, 0)
  BY <1>1, <1>2, <1>4, GoneStep DEF Leave
<1> QED BY <1>3, <1>4

\* Steps of the server and of others do not reach the dialog.
LEMMA RemoteStep ==
  ASSUME ShapeOK, FormsTyped, Rendered, ForeignChange \/ \E r \in sent : Serve(r)
  PROVE  FormsTyped' /\ Rendered'
<1>1. place' = place /\ d' = d /\ list' = list /\ UNCHANGED <<menu, open, form, base, held>>
  BY DEF Serve, ForeignChange, chosen, dialog
<1>2. /\ \A q, s \in sent' : q.here /\ s.here => q = s
      /\ ~ Pending => \A q \in sent' : ~ q.here
  BY OneCallback DEF ForeignChange, Rendered, Pending
<1>3. CASE form = Nothing
  BY <1>1, <1>2, <1>3, GoneStep DEF FormsTyped, Rendered
<1>4. CASE form # Nothing
  BY <1>1, <1>2, <1>4, ThereStep DEF FormsTyped, Rendered
<1> QED BY <1>3, <1>4

LEMMA BoundedStep ==
  ASSUME ShapeOK, RecordsTyped, Bounded, Next
  PROVE  Bounded'
<1>1. menu' \in 0..MaxRecords /\ opened' \in 0..MaxRecords
  <2>1. CASE \E m \in Ids : OpenMenu(m)
    <3>1. PICK m \in Ids : OpenMenu(m)
      BY <2>1
    <3>2. PICK r \in Records : opened' = r.id /\ menu' = m
      BY <3>1, RowsAreListed DEF OpenMenu, RecordsTyped
    <3> QED BY <3>2 DEF Records, Ids
  <2>2. CASE UNCHANGED <<menu, opened>>
    BY <2>2 DEF Bounded
  <2>3. CASE menu' = 0 /\ opened' = 0
    BY <2>3, FormsAssumption
  <2> QED
    BY <2>1, <2>2, <2>3 DEF Next, CloseMenu, OpenDialog, Type, CloseDialog, Cancel, Submit, Leave, Serve,
       Answer, Finish, Refetch, ForeignChange, dialog
<1>2. open' \in BOOLEAN /\ held' \in BOOLEAN
  <2>1. ("syncs" \in d.has) \in BOOLEAN
    OBVIOUS
  <2> QED
    BY <2>1, Zenon DEF Bounded, Next, OpenMenu, CloseMenu, OpenDialog, Type, CloseDialog, Cancel, Submit,
       Leave, Serve, Answer, Finish, Refetch, ForeignChange, Mounted, Unmounted, dialog
<1>3. lost' \in BOOLEAN
  BY Zenon DEF Bounded, Next, OpenMenu, CloseMenu, OpenDialog, Type, CloseDialog, Cancel, Submit,
     Leave, Serve, Answer, Refetch, ForeignChange, Unmounted
<1>4. sends' \in 0..MaxSends
  <2>1. CASE Submit
    BY <2>1, FormsAssumption DEF Submit, Bounded
  <2>2. CASE sends' = sends
    BY <2>2 DEF Bounded
  <2> QED
    BY <2>1, <2>2 DEF Next, OpenMenu, CloseMenu, OpenDialog, Type, CloseDialog, Cancel, Leave, Serve, Answer,
       Refetch, ForeignChange, bounds
<1>5. events' \in 0..MaxEvents
  <2>1. CASE Leave \/ ForeignChange
    <3>1. events < MaxEvents /\ events' = events + 1
      BY <2>1 DEF Leave, ForeignChange
    <3> QED BY <3>1, FormsAssumption DEF Bounded
  <2>2. CASE events' = events
    BY <2>2 DEF Bounded
  <2> QED
    BY <2>1, <2>2 DEF Next, OpenMenu, CloseMenu, OpenDialog, Type, CloseDialog, Cancel, Submit, Serve, Answer,
       Refetch, bounds
<1> QED BY <1>1, <1>2, <1>3, <1>4, <1>5 DEF Bounded

LEMMA TypedStep ==
  ASSUME ShapeOK, TInv, Next
  PROVE  TInv'
<1> USE DEF TInv
<1>1. RecordsTyped'
  BY RecordsTypedStep
<1>2. RequestsTyped'
  BY RequestsTypedStep
<1>3. Bounded'
  BY BoundedStep
<1>4. FormsTyped' /\ Rendered'
  <2>1. CASE OpenDialog \/ Type \/ CloseDialog \/ Cancel
    BY <2>1, DialogStep
  <2>2. CASE CloseMenu \/ \E m \in Ids : OpenMenu(m)
    BY <1>1, <2>2, MenuStep
  <2>3. CASE Submit
    BY <2>3, SubmitStep
  <2>4. CASE Leave
    BY <1>1, <2>4, LeaveStep
  <2>5. CASE ForeignChange \/ \E r \in sent : Serve(r)
    BY <2>5, RemoteStep
  <2>6. CASE \E r \in sent : Answer(r)
    BY <2>6, AnswerStep
  <2>7. CASE Refetch
    BY <1>1, <2>7, RefetchStep
  <2> QED BY <2>1, <2>2, <2>3, <2>4, <2>5, <2>6, <2>7 DEF Next
<1> QED BY <1>1, <1>2, <1>3, <1>4

LEMMA TypedStutter ==
  ASSUME TInv, UNCHANGED vars
  PROVE  TInv'
<1>1. UNCHANGED <<place, d, server, list, menu, opened, open, form, base, held, sent, lost, created, sends,
                  events>>
  BY DEF vars, chosen, dialog, bounds
<1>2. Direct' = Direct
  BY <1>1 DEF Direct, InRow
<1>3. RecordsTyped' /\ RequestsTyped' /\ FormsTyped'
  BY <1>1 DEF TInv, RecordsTyped, RequestsTyped, FormsTyped
<1>4. Rendered'
  BY <1>1, <1>2, PresentStays DEF TInv, Rendered, Pending
<1>5. Bounded'
  BY <1>1 DEF TInv, Bounded
<1> QED BY <1>3, <1>4, <1>5 DEF TInv

LEMMA TypedInit ==
  ASSUME Init
  PROVE  TInv
<1>1. ShapeOK
  BY InvInit DEF IInv
<1>2. list = server /\ menu = 0 /\ opened = 0 /\ base = form /\ ~ held /\ sent = {} /\ ~ lost /\ sends = 0
      /\ events = 0
  BY DEF Init
<1>3. created \in 0..MaxRecords /\ (place = "page" => created = 1)
  BY FormsAssumption DEF Init
<1>4. PICK a \in [Ids -> BOOLEAN] : server = {OldRecord(i, a[i]) : i \in 1..created}
  BY DEF Init
<1>5. \A i \in 1..created : i \in Ids /\ i <= created
  BY <1>3, FormsAssumption DEF Ids
<1>6. \A x \in server : \E i \in 1..created : x = OldRecord(i, a[i]) /\ x.id = i /\ x \in Records /\ x.id <= created
  BY <1>4, <1>5, OldRecords, OldRecordIsTyped
<1>7. place = "page" => server # {}
  <2>1. 1 \in 1..1
    OBVIOUS
  <2> QED BY <1>3, <1>4, <2>1
<1>8. RecordsTyped
  BY <1>2, <1>3, <1>6, <1>7 DEF RecordsTyped
<1>9. form = IF Present(list, 0) THEN Defaults(list, 0) ELSE Nothing
  BY DEF Init
<1>10. Present(list, 0) => form \in FormValues
  BY <1>1, <1>8, <1>9, DefaultsAreTyped DEF RecordsTyped
<1>11. FormsTyped
  BY <1>2, <1>9, <1>10 DEF FormsTyped
<1>12. open => place = "page"
  BY <1>1, PlaceFacts DEF Init
<1>13. Rendered
  <2>1. open => ~ Direct /\ Present(list, 0)
    BY <1>1, <1>12, PlaceFacts, PresentFacts DEF Direct
  <2> QED BY <1>2, <1>9, <1>10, <2>1, NothingApart DEF Rendered, Pending
<1>14. RequestsTyped
  BY <1>2 DEF RequestsTyped
<1>15. open \in BOOLEAN
  <2>1. ("syncs" \in d.has) \in BOOLEAN
    OBVIOUS
  <2>2. open = ("syncs" \in d.has)
    BY Zenon DEF Init
  <2> QED BY <2>1, <2>2, Zenon
<1>16. 0 \in 0..MaxRecords /\ 0 \in 0..MaxSends /\ 0 \in 0..MaxEvents
  BY FormsAssumption
<1>17. held \in BOOLEAN /\ lost \in BOOLEAN
  BY Zenon DEF Init
<1>18. Bounded
  BY <1>2, <1>15, <1>16, <1>17, Zenon DEF Bounded
<1> QED BY <1>8, <1>11, <1>13, <1>14, <1>18 DEF TInv

\* The variables have their types, the ids of the records are unique, and a dialog has fields,
\* shows a key or waits for an answer exactly while its page, row or empty state renders it.
THEOREM TypeCorrect == Spec => []TypeOK
<1>1. IInv /\ TInv /\ [Next]_vars => TInv'
  BY TypedStep, TypedStutter DEF IInv
<1>2. IInv /\ TInv => TypeOK
  BY DEF IInv, ShapeOK, TInv, RecordsTyped, RequestsTyped, FormsTyped, Rendered, Bounded, TypeOK
<1> QED BY <1>1, <1>2, TypedInit, FormsInvariant, PTL DEF Spec
=============================================================================
