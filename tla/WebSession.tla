----------------------------- MODULE WebSession -----------------------------
(***************************************************************************)
(* The session of the web client: the token that every tab of a browser     *)
(* shares, what each tab has cached under it, the guards of the routes, and  *)
(* the requests whose answers come back after the session has changed.      *)
(*                                                                         *)
(* The PocketBase SDK keeps the token in localStorage and writes it on its   *)
(* own: on a login, on every answer to authRefresh, on the deletion of the   *)
(* account.  TanStack Query keeps the caches; a query that clear() removed   *)
(* is cancelled, yet the function that fetches it runs on.                  *)
(***************************************************************************)
EXTENDS Integers, FiniteSets

CONSTANTS
    Accounts,
    Admins,          \* the accounts with is_superuser
    Tabs,            \* tabs of one browser
    Nobody,          \* no account: the empty cache entry, the guest
    NoToken,         \* the empty authStore
    QueryRetries,    \* attempts after a failed one; 3 in the library
    MaxFlights,      \* bound: requests in flight, the refreshes not counted
    MaxLogins,       \* bound: submitted logins
    MaxEvents        \* bound: sign-ups, new passwords, deletions, reloads, lost requests,
                     \* expired tokens, switches of the maintenance mode

Token == [acct : Accounts, key : Nat, fresh : BOOLEAN]

ASSUME SessionAssumption ==
    /\ Admins \subseteq Accounts
    /\ Nobody \notin Accounts /\ NoToken \notin Token
    /\ {QueryRetries, MaxFlights, MaxLogins, MaxEvents} \subseteq Nat

VARIABLES
    exists,       \* server: the accounts there are
    key,          \* server: tokenKey, renewed by a new password; it voids older tokens.  0 is
                  \* that of an account nobody has signed up yet: the id of a deleted one is
                  \* not used again
    maintenance,  \* server: maintenance_mode
    store,        \* browser: pb.authStore, one for all tabs
    page,         \* tab: the route it shows
    config,       \* tab: config.maintenanceMode as last fetched
    cache,        \* tab: query -> whose data it holds
    stale,        \* tab: the staleTime of currentUser has passed
    requests,     \* what is on its way to the server or back
    logins, events    \* bounds

serverVars == <<exists, key, maintenance>>
tabVars == <<page, config, cache, stale>>
bounds == <<logins, events>>
vars == <<serverVars, store, tabVars, requests, bounds>>

-----------------------------------------------------------------------------
(* Tokens, routes, queries                                                   *)

Honoured(t) == t # NoToken /\ t.fresh /\ t.acct \in exists /\ key[t.acct] = t.key

\* isLoggedIn(): authStore.isValid looks at the expiry in the token, nothing else
IsLoggedIn(t) == t # NoToken /\ t.fresh

AuthPages == {"login", "signup", "reset"}     \* redirect away when logged in
OpenPages == {"check-email"}
Protected == {"app", "settings", "admin"}     \* below _layout
Pages == AuthPages \cup OpenPages \cup Protected

\* The beforeLoad guards: where a visit of page p ends
AdminGuard(p, t) == IF p = "admin" /\ t.acct \notin Admins THEN "app" ELSE p

Landing(p, t) ==
    IF p \in Protected
      THEN IF IsLoggedIn(t) THEN AdminGuard(p, t) ELSE "login"
      ELSE IF p \in AuthPages /\ IsLoggedIn(t) THEN "app" ELSE p

\* list: a PocketBase list, which a guest may ask for; quota: behind RequireAuth;
\* system: behind IsAppSuperuser.  The cache tells the user from all other data.
Lists == {"list", "quota", "system"}
Queries == {"currentUser"} \cup Lists
Entries == {"currentUser", "data"}

Entry == [acct : Accounts \cup {Nobody}, old : BOOLEAN]    \* old: asked for before a logout
Empty == [acct |-> Nobody, old |-> FALSE]
EmptyCache == [e \in Entries |-> Empty]

-----------------------------------------------------------------------------
(* Requests                                                                  *)

Kinds == Queries \cup {"login", "oauth", "delete"}
Answers == {"none", "ok", "guest", "400", "401", "403", "503"}

Request == [tab : Tabs, kind : Kinds, token : Token \cup {NoToken},
            acct : Accounts \cup {Nobody},    \* whom a login or a deletion is about
            live : BOOLEAN,      \* its query is still in the cache; clear() cancels it
            old : BOOLEAN, attempt : 0..QueryRetries, answer : Answers]

Ask(t, kind, a) ==
    [tab |-> t, kind |-> kind, token |-> store, acct |-> a,
     live |-> TRUE, old |-> FALSE, attempt |-> 0, answer |-> "none"]

InFlight(t, kind) == \E r \in requests : r.tab = t /\ r.kind = kind /\ r.live

MayAsk(t, kind) ==
    /\ ~ InFlight(t, kind)
    /\ Cardinality({r \in requests : r.kind # "currentUser"}) < MaxFlights

\* What the server says to r, and may say: a wrong password is refused, and the hook
\* on auth-with-password answers 401 to an unverified account
Verdicts(r) ==
    IF maintenance /\ r.kind \notin {"currentUser", "login", "oauth", "system"} THEN {"503"}
    ELSE CASE r.kind = "currentUser"           -> {IF Honoured(r.token) THEN "ok" ELSE "401"}
           [] r.kind = "list"                  -> {IF Honoured(r.token) THEN "ok" ELSE "guest"}
           [] r.kind = "quota"                 -> {IF Honoured(r.token) THEN "ok" ELSE "401"}
           [] r.kind = "system"                -> {IF Honoured(r.token) /\ r.token.acct \in Admins
                                                     THEN "ok" ELSE "403"}
           [] r.kind = "login"                 -> IF r.acct \in exists THEN {"ok", "400", "401"} ELSE {"400"}
           [] r.kind = "oauth"                 -> IF r.acct \in exists THEN {"ok", "400"} ELSE {"400"}
           [] r.kind = "delete"                -> IF Honoured(r.token) THEN {"ok", "400"} ELSE {"400"}

\* The token an answer is about: that of the request, or the one a login brings
TokenOf(r, v) ==
    IF v = "ok" /\ r.kind \in {"login", "oauth"}
      THEN [acct |-> r.acct, key |-> key[r.acct], fresh |-> TRUE] ELSE r.token

Serve(r) ==
    /\ r \in requests /\ r.answer = "none"
    /\ \E v \in Verdicts(r) :
         /\ exists' = IF v = "ok" /\ r.kind = "delete" THEN exists \ {r.acct} ELSE exists
         /\ requests' = (requests \ {r}) \cup {[r EXCEPT !.answer = v, !.token = TokenOf(r, v)]}
    /\ UNCHANGED <<key, maintenance, store, tabVars, bounds>>

-----------------------------------------------------------------------------
(* What the client does with its cache and its pages                         *)

\* queryClient.clear(): the entries are gone, the queries in flight cancelled
ClearedCache(t) == [cache EXCEPT ![t] = EmptyCache]
\* Mutant: clear() does not cancel what is in flight.
CancelledNot(t, r) == IF r.tab = t THEN [r EXCEPT !.old = TRUE] ELSE r
Cancelled(t, r) == IF r.tab = t THEN [r EXCEPT !.live = FALSE, !.old = TRUE] ELSE r

\* A full page load at p with token s: the tab's JavaScript and its requests are gone
LoadPage(t, p, s) ==
    /\ store' = s
    /\ cache' = [cache EXCEPT ![t] = EmptyCache]
    /\ stale' = [stale EXCEPT ![t] = FALSE]
    /\ page' = [page EXCEPT ![t] = Landing(p, s)]
    /\ config' = [config EXCEPT ![t] = FALSE]         \* DEFAULT_CONFIG until fetched
    /\ requests' = {r \in requests : r.tab # t}

\* handleApiError: no other status ends a session
\* Mutant: a refused permission counts as a refused session.
UnauthorizedOrForbidden(v) == v \in {"401", "403"}
Unauthorized(v) == v = "401"

DropSession(t) == LoadPage(t, "login", NoToken)

\* What Layout renders on a protected page
Shown(t) == IF config[t] /\ cache[t]["currentUser"].acct \notin Admins THEN "maintenance" ELSE page[t]

Visit(t, p) ==
    /\ page' = [page EXCEPT ![t] = Landing(p, store)]
    /\ UNCHANGED <<serverVars, store, config, cache, stale, requests, bounds>>

Reload(t) ==
    /\ events < MaxEvents /\ events' = events + 1
    /\ LoadPage(t, page[t], store)
    /\ UNCHANGED <<serverVars, logins>>

\* logout() of useAuth, and of handleLogout in the sidebar
LogOut(t, rs) ==
    /\ store' = NoToken
    /\ cache' = ClearedCache(t)
    /\ stale' = [stale EXCEPT ![t] = FALSE]
    /\ requests' = {Cancelled(t, r) : r \in rs}
    /\ page' = [page EXCEPT ![t] = "login"]
    /\ UNCHANGED config

Logout(t) ==
    /\ Shown(t) \in Protected /\ cache[t]["currentUser"] # Empty
    /\ LogOut(t, requests)
    /\ UNCHANGED <<serverVars, bounds>>

FetchConfig(t) ==
    /\ config[t] # maintenance
    /\ config' = [config EXCEPT ![t] = maintenance]
    /\ UNCHANGED <<serverVars, store, page, cache, stale, requests, bounds>>

-----------------------------------------------------------------------------
(* Requests the client starts                                                *)

AskFor(t, kind, a) ==
    /\ requests' = requests \cup {Ask(t, kind, a)}
    /\ UNCHANGED <<serverVars, store, tabVars>>

\* currentUser of useAuth: fetched when missing or stale, on a mount or a focus.  It is
\* enabled if the tab was logged in when it last rendered; the token may have gone since.
\* Mutant: staleTime Infinity.
UserDueOnce(t) == cache[t]["currentUser"] = Empty
UserDue(t) == cache[t]["currentUser"] = Empty \/ stale[t]

Refresh(t) ==
    /\ page[t] \in Protected
    /\ UserDue(t)
    /\ ~ InFlight(t, "currentUser")
    /\ AskFor(t, "currentUser", Nobody)
    /\ UNCHANGED bounds

LoadList(t, q) ==
    /\ Shown(t) = (IF q = "system" THEN "admin" ELSE "app")
    /\ MayAsk(t, q)
    /\ AskFor(t, q, Nobody)
    /\ UNCHANGED bounds

\* The login form, and the OAuth buttons below it
SubmitLogin(t, kind, a) ==
    /\ page[t] \in (IF kind = "oauth" THEN {"login", "signup"} ELSE {"login"})
    /\ kind \in {"login", "oauth"}
    /\ MayAsk(t, kind) /\ logins < MaxLogins
    /\ AskFor(t, kind, a)
    /\ logins' = logins + 1
    /\ UNCHANGED events

\* What follows changes the server and at most the tab's page, never its session; request
\* and answer are one step.
MayChange == events < MaxEvents /\ events' = events + 1 /\ ~ maintenance

\* signUpMutation makes two calls; an account whose second call failed stays unverified,
\* and the form where it is
SignUp(t, a) ==
    /\ page[t] = "signup" /\ key[a] = 0 /\ MayChange
    /\ exists' = exists \cup {a}
    /\ key' = [key EXCEPT ![a] = 1]
    /\ \/ page' = [page EXCEPT ![t] = "check-email"]
       \/ UNCHANGED page
    /\ UNCHANGED <<maintenance, store, config, cache, stale, requests, logins>>

\* A new password, by the link in a mail or in the settings: older tokens are void
NewPassword(a) ==
    /\ a \in exists /\ MayChange
    /\ key' = [key EXCEPT ![a] = @ + 1]
    /\ UNCHANGED <<exists, maintenance, store, config, cache, stale, requests, logins>>

ResetPassword(t, a) ==
    /\ page[t] = "reset"
    /\ NewPassword(a)
    /\ page' = [page EXCEPT ![t] = Landing("login", store)]

ChangePassword(t) ==
    /\ Shown(t) = "settings" /\ cache[t]["currentUser"] # Empty /\ Honoured(store)
    /\ NewPassword(store.acct)
    /\ UNCHANGED page

\* The danger zone: shown by the cached user, aimed at the stored one
DangerZone(t) ==
    /\ Shown(t) = "settings"
    /\ cache[t]["currentUser"].acct \notin Admins \cup {Nobody}

DeleteAccount(t) ==
    /\ DangerZone(t) /\ store # NoToken
    /\ MayAsk(t, "delete") /\ events < MaxEvents
    /\ AskFor(t, "delete", store.acct)
    /\ events' = events + 1
    /\ UNCHANGED logins

-----------------------------------------------------------------------------
(* Answers                                                                   *)

Fill(r, a) ==
    IF r.live THEN [cache EXCEPT ![r.tab][IF r.kind \in Lists THEN "data" ELSE r.kind] =
                        [acct |-> a, old |-> r.old]]
              ELSE cache

Answered(kinds, r) == r \in requests /\ r.kind \in kinds /\ r.answer # "none"

Forget(r) == requests' = requests \ {r}

\* The queryFn of currentUser: the SDK saves the new token, or the 401 empties the
\* store at once; a query that was cancelled meanwhile reaches no error handler
RefreshAnswered(r) ==
    /\ Answered({"currentUser"}, r)
    /\ IF Unauthorized(r.answer)
         THEN IF r.live
                THEN DropSession(r.tab)
                ELSE store' = NoToken /\ Forget(r) /\ UNCHANGED tabVars
         ELSE /\ store' = r.token
              /\ Forget(r)
              /\ cache' = Fill(r, r.token.acct)
              /\ stale' = IF r.live THEN [stale EXCEPT ![r.tab] = FALSE] ELSE stale
              /\ UNCHANGED <<page, config>>
    /\ UNCHANGED <<serverVars, bounds>>

ListAnswered(r) ==
    /\ Answered(Lists, r)
    /\ ~ Unauthorized(r.answer)
    /\ Forget(r)
    /\ cache' = CASE r.answer = "ok"    -> Fill(r, r.token.acct)
                  [] r.answer = "guest" -> Fill(r, Nobody)
                  [] OTHER              -> cache
    /\ UNCHANGED <<serverVars, store, page, config, stale, bounds>>

\* A 401 is tried again with whatever token there is now; the last one ends the session
\* Mutant: the comparison is off by one.
RetriedOnceMore(r) == r.live /\ r.attempt <= QueryRetries
Retried(r) == r.live /\ r.attempt < QueryRetries

ListRefused(r) ==
    /\ Answered(Lists, r) /\ Unauthorized(r.answer)
    /\ \/ /\ Retried(r)
          /\ requests' = (requests \ {r}) \cup
                {[r EXCEPT !.attempt = @ + 1, !.answer = "none", !.token = store]}
          /\ UNCHANGED <<store, tabVars>>
       \/ r.live /\ ~ Retried(r) /\ DropSession(r.tab)
       \/ ~ r.live /\ Forget(r) /\ UNCHANGED <<store, tabVars>>
    /\ UNCHANGED <<serverVars, bounds>>

LoginAnswered(r) ==
    /\ Answered({"login", "oauth"}, r)
    /\ CASE r.answer = "ok" /\ r.kind = "login" ->
              /\ store' = r.token
              /\ page' = [page EXCEPT ![r.tab] = Landing("app", r.token)]
              /\ Forget(r)
              /\ UNCHANGED <<config, cache, stale>>
         [] r.answer = "ok" /\ r.kind = "oauth" -> LoadPage(r.tab, "app", r.token)
         [] Unauthorized(r.answer)              -> DropSession(r.tab)
         [] OTHER                               -> Forget(r) /\ UNCHANGED <<store, tabVars>>
    /\ UNCHANGED <<serverVars, bounds>>

\* The deletion is settled: currentUser is invalidated, which fetches it at once where it
\* is in use and enabled, in place of a fetch under way
Refetched(t, rs, s) ==
    {IF r.tab = t /\ r.kind = "currentUser" THEN [r EXCEPT !.live = FALSE] ELSE r : r \in rs}
       \cup {[Ask(t, "currentUser", Nobody) EXCEPT !.token = s]}

Invalidate(r, s) ==
    \E again \in BOOLEAN :
       /\ again => page[r.tab] \in Protected
       /\ requests' = IF again THEN Refetched(r.tab, requests \ {r}, s) ELSE requests \ {r}
       /\ stale' = [stale EXCEPT ![r.tab] =
                      @ \/ (~ again /\ cache[r.tab]["currentUser"] # Empty)]

\* The SDK empties the store when the deleted record is the stored one; the dialog
\* logs out if it is still there, after the refetch was asked for
DeleteAnswered(r) ==
    /\ Answered({"delete"}, r)
    /\ LET own  == r.answer = "ok" /\ store # NoToken /\ store.acct = r.acct
           kept == IF own THEN NoToken ELSE store
       IN  IF r.answer = "ok" /\ page[r.tab] = "settings"
             THEN LogOut(r.tab, Refetched(r.tab, requests \ {r}, kept))
             ELSE /\ store' = kept
                  /\ Invalidate(r, kept)
                  /\ UNCHANGED <<page, config, cache>>
    /\ UNCHANGED <<serverVars, bounds>>

-----------------------------------------------------------------------------
(* Environment                                                               *)

StaleTimePasses(t) ==
    /\ cache[t]["currentUser"] # Empty /\ ~ stale[t]
    /\ stale' = [stale EXCEPT ![t] = TRUE]
    /\ UNCHANGED <<serverVars, store, page, config, cache, requests, bounds>>

TokenExpires ==
    /\ events < MaxEvents /\ events' = events + 1
    /\ IsLoggedIn(store)
    /\ store' = [store EXCEPT !.fresh = FALSE]
    /\ UNCHANGED <<serverVars, tabVars, requests, logins>>

\* The network loses a request, or its answer; the caller sees an error without a status
RequestLost(r) ==
    /\ events < MaxEvents /\ events' = events + 1
    /\ r \in requests
    /\ IF r.kind = "delete" THEN Invalidate(r, store) ELSE Forget(r) /\ UNCHANGED stale
    /\ UNCHANGED <<serverVars, store, page, config, cache, logins>>

MaintenanceToggled ==
    /\ events < MaxEvents /\ events' = events + 1
    /\ maintenance' = ~ maintenance
    /\ UNCHANGED <<exists, key, store, tabVars, requests, logins>>

-----------------------------------------------------------------------------

Init ==
    /\ exists \in {Accounts, Admins}
    /\ key = [a \in Accounts |-> IF a \in exists THEN 1 ELSE 0]
    /\ maintenance = FALSE
    /\ store = NoToken
    /\ page = [t \in Tabs |-> "login"]
    /\ config = [t \in Tabs |-> FALSE]
    /\ cache = [t \in Tabs |-> EmptyCache]
    /\ stale = [t \in Tabs |-> FALSE]
    /\ requests = {}
    /\ logins = 0 /\ events = 0

TabStep(t) ==
    \/ \E p \in Pages : Visit(t, p)
    \/ Reload(t)
    \/ Logout(t)
    \/ FetchConfig(t)
    \/ Refresh(t)
    \/ \E q \in Lists : LoadList(t, q)
    \/ \E a \in Accounts, k \in {"login", "oauth"} : SubmitLogin(t, k, a)
    \/ \E a \in Accounts : SignUp(t, a) \/ ResetPassword(t, a)
    \/ ChangePassword(t)
    \/ DeleteAccount(t)
    \/ StaleTimePasses(t)

Arrives(r) ==
    \/ RefreshAnswered(r)
    \/ ListAnswered(r)
    \/ ListRefused(r)
    \/ LoginAnswered(r)
    \/ DeleteAnswered(r)

Next ==
    \/ \E t \in Tabs : TabStep(t)
    \/ \E r \in requests : Serve(r) \/ Arrives(r) \/ RequestLost(r)
    \/ TokenExpires
    \/ MaintenanceToggled

Spec == Init /\ [][Next]_vars

\* Servers answer and answers arrive; the configuration and a missing or stale user
\* are fetched (the tab is mounted or focused again); the stale time passes.  Nobody is
\* assumed to click.
Fairness ==
    /\ \A k \in Kinds : WF_vars(\E r \in requests : r.kind = k /\ (Serve(r) \/ Arrives(r)))
    /\ \A t \in Tabs : /\ WF_vars(IsLoggedIn(store) /\ Refresh(t))
                      /\ WF_vars(FetchConfig(t)) /\ WF_vars(StaleTimePasses(t))

FairSpec == Spec /\ Fairness

-----------------------------------------------------------------------------
(* Properties                                                                *)

\* The variables have their types: a request is tried again QueryRetries times at most.
TypeOK ==
    /\ exists \subseteq Accounts
    /\ key \in [Accounts -> Nat]
    /\ maintenance \in BOOLEAN
    /\ store \in Token \cup {NoToken}
    /\ page \in [Tabs -> Pages]
    /\ config \in [Tabs -> BOOLEAN]
    /\ cache \in [Tabs -> [Entries -> Entry]]
    /\ stale \in [Tabs -> BOOLEAN]
    /\ requests \subseteq Request
    /\ {logins, events} \subseteq Nat

\* useAuth.ts, logout(): whatever a tab shows was asked for after its last logout.  An
\* answer that was on its way when the user left must not fill the cache of the next.
AfterLogoutNothingOld ==
    \A t \in Tabs, e \in Entries : ~ cache[t][e].old

\* main.tsx, handleApiError: only a 401 means that the session is invalid.  While the
\* server honours the stored token, nothing it answers to that token ends the session, nor
\* does a lost request: besides a logout and the deletion dialog only a 401 to a request
\* that was sent with another token, or to a login attempt, empties the store.
SessionOutlivesErrors ==
    [][Honoured(store) /\ store' = NoToken =>
         \/ \E t \in Tabs : Logout(t)
         \/ \E r \in requests : DeleteAnswered(r) /\ r.answer = "ok"
         \/ \E r \in requests : Arrives(r) /\ r.answer = "401"
                                /\ (r.kind = "login" \/ r.token # store)]_vars

\* A session the server has voided (the password changed, the account is gone) ends in
\* every tab that shows a protected page, though lists answer a guest without an error.
Voided == IsLoggedIn(store) /\ ~ Honoured(store)

VoidedSessionEnds ==
    \A t \in Tabs : (Voided /\ page[t] \in Protected) ~> (~ Voided \/ page[t] \notin Protected)

\* What a protected page shows as its user becomes the user of the session: an
\* administrator is not left with the maintenance page, nor a tab with the account that
\* was logged in before.
ShownUserCatchesUp ==
    \A t \in Tabs, a \in Accounts :
        (page[t] \in Protected /\ Honoured(store) /\ store.acct = a)
          ~> (\/ cache[t]["currentUser"].acct = a
              \/ page[t] \notin Protected
              \/ ~ Honoured(store)
              \/ store.acct # a)

=============================================================================
