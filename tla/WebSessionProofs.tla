--------------------------- MODULE WebSessionProofs ---------------------------
(***************************************************************************)
(* What the client keeps true of the session for any number of accounts,     *)
(* tabs, requests, logins and troubles: after a logout nothing that was      *)
(* asked for before it is shown, and a session the server honours is ended   *)
(* by no error but a 401 that was meant for another token.                   *)
(***************************************************************************)
EXTENDS WebSession, TLAPS

-----------------------------------------------------------------------------
(* The inductive invariant                                                   *)

\* Every account that exists was signed up once.
ServerOK ==
    /\ exists \subseteq Accounts /\ key \in [Accounts -> Nat]
    /\ \A a \in exists : key[a] # 0
    /\ maintenance \in BOOLEAN
    /\ {logins, events} \subseteq Nat

\* A token has the current key of its account or an older one, and keys never come back.
Known(tk) == tk # NoToken => key[tk.acct] # 0 /\ tk.key <= key[tk.acct]

TabsOK ==
    /\ store \in Token \cup {NoToken} /\ Known(store)
    /\ page \in [Tabs -> Pages] /\ config \in [Tabs -> BOOLEAN]
    /\ cache \in [Tabs -> [Entries -> Entry]] /\ stale \in [Tabs -> BOOLEAN]
    /\ AfterLogoutNothingOld

\* A query that is still in the cache was asked for after the last logout.
FreshOK(r) == r.live => ~ r.old

\* What succeeds brings or had a token; a 401 is about one that is honoured no more, or it
\* refuses a login.
AnswerOK(r) ==
    /\ Known(r.token)
    /\ r.answer = "401" => r.kind # "oauth" /\ (r.kind # "login" => ~ Honoured(r.token))
    /\ r.kind = "currentUser" => r.answer \in {"none", "ok", "401"}
    /\ r.answer = "ok" => r.token # NoToken
    /\ r.kind \in {"login", "oauth"} => r.acct \in Accounts

\* A deletion is about the account of its token, which is gone for good once it succeeded.
DeletionOK(r) ==
    r.kind = "delete" =>
        /\ r.acct \in Accounts
        /\ r.answer = "none" => r.token # NoToken /\ r.token.acct = r.acct
        /\ r.answer = "ok" => r.acct \notin exists /\ key[r.acct] # 0

RequestOK(r) == r \in Request /\ FreshOK(r) /\ AnswerOK(r) /\ DeletionOK(r)
RequestsOK == \A r \in requests : RequestOK(r)

IInv == ServerOK /\ TabsOK /\ RequestsOK

-----------------------------------------------------------------------------
(* The parts of a step                                                       *)

LEMMA LandsOnAPage ==
  ASSUME NEW p \in Pages, NEW t
  PROVE  Landing(p, t) \in Pages
BY DEF Landing, AdminGuard, Pages, Protected, AuthPages, OpenPages

\* Requests that disappear leave the others as they were.
LEMMA FewerRequests ==
  ASSUME RequestsOK, requests' \subseteq requests, UNCHANGED <<exists, key>>
  PROVE  RequestsOK'
BY DEF RequestsOK, RequestOK, FreshOK, AnswerOK, DeletionOK, Known, Honoured

\* Requests that hold as they are go on to hold while the accounts stay as they are.
LEMMA SameRequests ==
  ASSUME NEW rs, \A r \in rs : RequestOK(r), requests' = rs, UNCHANGED <<exists, key>>
  PROVE  RequestsOK'
BY DEF RequestsOK, RequestOK, FreshOK, AnswerOK, DeletionOK, Known, Honoured

LEMMA LoadPageOK ==
  ASSUME TabsOK, RequestsOK, NEW t \in Tabs, NEW p \in Pages, NEW s \in Token \cup {NoToken}, Known(s),
         LoadPage(t, p, s), UNCHANGED <<exists, key>>
  PROVE  TabsOK' /\ RequestsOK'
<1>1. Landing(p, s) \in Pages
  BY LandsOnAPage
<1>2. EmptyCache \in [Entries -> Entry] /\ \A e \in Entries : ~ EmptyCache[e].old
  BY DEF EmptyCache, Empty, Entry
<1>3. /\ cache' \in [Tabs -> [Entries -> Entry]]
      /\ \A u \in Tabs : cache'[u] = IF u = t THEN EmptyCache ELSE cache[u]
  BY <1>2 DEF LoadPage, TabsOK
<1>4. AfterLogoutNothingOld'
  BY <1>2, <1>3 DEF AfterLogoutNothingOld, TabsOK
<1>5. TabsOK'
  BY <1>1, <1>3, <1>4 DEF LoadPage, TabsOK, Known
<1>6. RequestsOK'
  BY FewerRequests DEF LoadPage
<1> QED BY <1>5, <1>6

LEMMA CancelledOK ==
  ASSUME NEW t, NEW r, RequestOK(r)
  PROVE  RequestOK(Cancelled(t, r))
<1>1. r \in Request /\ FreshOK(r) /\ AnswerOK(r) /\ DeletionOK(r)
  BY DEF RequestOK
<1>2. CASE r.tab = t
  <2>1. PICK c : c = Cancelled(t, r)
    OBVIOUS
  <2>2. c = [tab |-> r.tab, kind |-> r.kind, token |-> r.token, acct |-> r.acct,
             live |-> FALSE, old |-> TRUE, attempt |-> r.attempt, answer |-> r.answer]
    BY <1>1, <1>2, <2>1 DEF Cancelled, Request
  <2>3. c \in Request
    BY <1>1, <2>2 DEF Request
  <2>4. FreshOK(c) /\ AnswerOK(c) /\ DeletionOK(c)
    BY <1>1, <2>2 DEF FreshOK, AnswerOK, DeletionOK
  <2> QED BY <2>1, <2>3, <2>4 DEF RequestOK
<1>3. CASE r.tab # t
  BY <1>3 DEF Cancelled
<1> QED BY <1>2, <1>3

LEMMA LogOutOK ==
  ASSUME TabsOK, NEW t \in Tabs, NEW rs, \A r \in rs : RequestOK(r), LogOut(t, rs),
         UNCHANGED <<exists, key>>
  PROVE  TabsOK' /\ RequestsOK'
<1>1. EmptyCache \in [Entries -> Entry] /\ \A e \in Entries : ~ EmptyCache[e].old
  BY DEF EmptyCache, Empty, Entry
<1>2. /\ cache' \in [Tabs -> [Entries -> Entry]]
      /\ \A u \in Tabs : cache'[u] = IF u = t THEN EmptyCache ELSE cache[u]
  BY <1>1 DEF LogOut, ClearedCache, TabsOK
<1>3. AfterLogoutNothingOld'
  BY <1>1, <1>2 DEF AfterLogoutNothingOld, TabsOK
<1>4. TabsOK'
  BY <1>2, <1>3 DEF LogOut, TabsOK, Pages, AuthPages, Known
<1>5. RequestsOK'
  <2>1. \A c \in {Cancelled(t, r) : r \in rs} : RequestOK(c)
    BY CancelledOK
  <2> QED BY <2>1, SameRequests DEF LogOut
<1> QED BY <1>4, <1>5

\* A new query is well formed with the token it is sent with.
LEMMA NewQueryOK ==
  ASSUME NEW t \in Tabs, NEW s \in Token \cup {NoToken}, Known(s), NEW kind \in Kinds,
         NEW a \in Accounts \cup {Nobody},
         kind \in {"login", "oauth"} => a \in Accounts,
         kind = "delete" => s # NoToken /\ a = s.acct /\ a \in Accounts
  PROVE  RequestOK([tab |-> t, kind |-> kind, token |-> s, acct |-> a,
                    live |-> TRUE, old |-> FALSE, attempt |-> 0, answer |-> "none"])
<1>1. PICK q : q = [tab |-> t, kind |-> kind, token |-> s, acct |-> a,
                    live |-> TRUE, old |-> FALSE, attempt |-> 0, answer |-> "none"]
  OBVIOUS
<1>2. q \in Request
  <2>1. 0 \in 0..QueryRetries
    BY SessionAssumption
  <2> QED BY <1>1, <2>1 DEF Request, Answers
<1>3. FreshOK(q) /\ AnswerOK(q) /\ DeletionOK(q)
  BY <1>1 DEF FreshOK, AnswerOK, DeletionOK
<1> QED BY <1>1, <1>2, <1>3 DEF RequestOK

\* The refetch of an invalidated query takes the place of the one under way.
LEMMA RefetchedOK ==
  ASSUME RequestsOK, store \in Token \cup {NoToken}, NEW t \in Tabs, NEW rs, rs \subseteq requests,
         NEW s \in Token \cup {NoToken}, Known(s)
  PROVE  \A c \in Refetched(t, rs, s) : RequestOK(c)
<1>1. ASSUME NEW r \in rs, NEW c, c = [r EXCEPT !.live = FALSE]
      PROVE  RequestOK(c)
  <2>1. r \in Request /\ FreshOK(r) /\ AnswerOK(r) /\ DeletionOK(r)
    BY DEF RequestsOK, RequestOK
  <2>2. c = [tab |-> r.tab, kind |-> r.kind, token |-> r.token, acct |-> r.acct,
             live |-> FALSE, old |-> r.old, attempt |-> r.attempt, answer |-> r.answer]
    BY <1>1, <2>1 DEF Request
  <2>3. c \in Request
    BY <2>1, <2>2 DEF Request
  <2>4. FreshOK(c) /\ AnswerOK(c) /\ DeletionOK(c)
    BY <2>1, <2>2 DEF FreshOK, AnswerOK, DeletionOK
  <2> QED BY <2>3, <2>4 DEF RequestOK
<1>2. ASSUME NEW c, c = [Ask(t, "currentUser", Nobody) EXCEPT !.token = s]
      PROVE  RequestOK(c)
  <2>1. c = [tab |-> t, kind |-> "currentUser", token |-> s, acct |-> Nobody,
             live |-> TRUE, old |-> FALSE, attempt |-> 0, answer |-> "none"]
    BY <1>2 DEF Ask
  <2>2. "currentUser" \in Kinds
    BY DEF Kinds, Queries
  <2> QED BY <2>1, <2>2, NewQueryOK
<1>3. \A r \in rs : RequestOK(r)
  BY DEF RequestsOK
<1> QED BY <1>1, <1>2, <1>3 DEF Refetched

LEMMA InvalidateOK ==
  ASSUME TabsOK, RequestsOK, NEW r \in requests, NEW s \in Token \cup {NoToken}, Known(s),
         Invalidate(r, s), UNCHANGED <<exists, key>>
  PROVE  RequestsOK' /\ stale' \in [Tabs -> BOOLEAN]
<1>1. r.tab \in Tabs
  BY DEF RequestsOK, RequestOK, Request
<1>2. PICK again \in BOOLEAN :
        /\ requests' = IF again THEN Refetched(r.tab, requests \ {r}, s) ELSE requests \ {r}
        /\ stale' = [stale EXCEPT ![r.tab] =
                       @ \/ (~ again /\ cache[r.tab]["currentUser"] # Empty)]
  BY DEF Invalidate
<1>3. stale' \in [Tabs -> BOOLEAN]
  <2>1. PICK b \in BOOLEAN :
          b = (stale[r.tab] \/ (~ again /\ cache[r.tab]["currentUser"] # Empty))
    OBVIOUS
  <2>2. stale' = [stale EXCEPT ![r.tab] = b]
    BY <1>2, <2>1
  <2> QED BY <1>1, <2>2 DEF TabsOK
<1>4. CASE again
  <2>1. \A c \in Refetched(r.tab, requests \ {r}, s) : RequestOK(c)
    BY <1>1, RefetchedOK DEF TabsOK
  <2> QED BY <1>2, <1>3, <1>4, <2>1, SameRequests
<1>5. CASE ~ again
  BY <1>2, <1>3, <1>5, FewerRequests
<1> QED BY <1>4, <1>5

LEMMA AskOK ==
  ASSUME IInv, NEW t \in Tabs, NEW kind \in Kinds, NEW a \in Accounts \cup {Nobody},
         AskFor(t, kind, a),
         kind \in {"login", "oauth"} => a \in Accounts,
         kind = "delete" => store # NoToken /\ a = store.acct /\ a \in Accounts
  PROVE  TabsOK' /\ RequestsOK'
<1>1. PICK q : q = Ask(t, kind, a)
  OBVIOUS
<1>2. q = [tab |-> t, kind |-> kind, token |-> store, acct |-> a,
           live |-> TRUE, old |-> FALSE, attempt |-> 0, answer |-> "none"]
  BY <1>1 DEF Ask
<1>3. RequestOK(q)
  BY <1>2, NewQueryOK DEF IInv, TabsOK
<1>4. requests' = requests \cup {q} /\ UNCHANGED <<exists, key, store, page, config, cache, stale>>
  BY <1>1 DEF AskFor, serverVars, tabVars
<1>5. \A r \in requests \cup {q} : RequestOK(r)
  BY <1>3 DEF IInv, RequestsOK
<1>6. RequestsOK'
  BY <1>4, <1>5, SameRequests
<1> QED BY <1>4, <1>6 DEF IInv, TabsOK, AfterLogoutNothingOld, Known

-----------------------------------------------------------------------------
(* What the server does                                                      *)

\* A granted token and the outcomes of every kind.
LEMMA VerdictsOK ==
  ASSUME NEW r \in Request, NEW v \in Verdicts(r)
  PROVE  /\ v \in Answers \ {"none"}
         /\ r.kind = "currentUser" => v \in {"ok", "401"}
         /\ r.kind \notin {"login", "oauth"} /\ v = "ok" => Honoured(r.token)
         /\ v = "401" => r.kind # "oauth" /\ (r.kind # "login" => ~ Honoured(r.token))
<1> USE DEF Verdicts, Answers
<1>1. r.kind \in {"currentUser", "list", "quota", "system", "login", "oauth", "delete"}
  BY DEF Request, Kinds, Queries, Lists
<1>2. CASE maintenance /\ r.kind \notin {"currentUser", "login", "oauth", "system"}
  BY <1>2
<1>3. CASE ~ (maintenance /\ r.kind \notin {"currentUser", "login", "oauth", "system"})
  <2>1. CASE r.kind = "currentUser"
    BY <1>3, <2>1
  <2>2. CASE r.kind = "list"
    BY <1>3, <2>2
  <2>3. CASE r.kind = "quota"
    BY <1>3, <2>3
  <2>4. CASE r.kind = "system"
    BY <1>3, <2>4
  <2>5. CASE r.kind = "login"
    BY <1>3, <2>5
  <2>6. CASE r.kind = "oauth"
    BY <1>3, <2>6
  <2>7. CASE r.kind = "delete"
    BY <1>3, <2>7
  <2> QED BY <1>1, <2>1, <2>2, <2>3, <2>4, <2>5, <2>6, <2>7
<1> QED BY <1>2, <1>3

LEMMA ServeStep ==
  ASSUME IInv, NEW r, Serve(r)
  PROVE  IInv'
<1> USE DEF IInv
<1>1. r \in requests /\ r.answer = "none" /\ r \in Request /\ FreshOK(r) /\ AnswerOK(r) /\ DeletionOK(r)
  BY DEF Serve, RequestsOK, RequestOK
<1>2. PICK v \in Verdicts(r) :
        /\ exists' = IF v = "ok" /\ r.kind = "delete" THEN exists \ {r.acct} ELSE exists
        /\ requests' = (requests \ {r}) \cup {[r EXCEPT !.answer = v, !.token = TokenOf(r, v)]}
  BY DEF Serve
<1>3. /\ v \in Answers \ {"none"}
      /\ r.kind = "currentUser" => v \in {"ok", "401"}
      /\ r.kind \notin {"login", "oauth"} /\ v = "ok" => Honoured(r.token)
      /\ v = "401" => r.kind # "oauth" /\ (r.kind # "login" => ~ Honoured(r.token))
      /\ r.kind \in {"login", "oauth"} /\ v = "ok" => r.acct \in exists
  <2>1. r.kind \in {"login", "oauth"} /\ v = "ok" => r.acct \in exists
    BY DEF Verdicts
  <2> QED BY <1>1, <2>1, VerdictsOK
<1>4. PICK tk : tk = TokenOf(r, v)
  OBVIOUS
<1>5. PICK q : q = [tab |-> r.tab, kind |-> r.kind, token |-> tk, acct |-> r.acct,
                    live |-> r.live, old |-> r.old, attempt |-> r.attempt, answer |-> v]
  OBVIOUS
<1>6. requests' = (requests \ {r}) \cup {q}
  <2>1. r = [tab |-> r.tab, kind |-> r.kind, token |-> r.token, acct |-> r.acct,
             live |-> r.live, old |-> r.old, attempt |-> r.attempt, answer |-> r.answer]
    BY <1>1 DEF Request
  <2>2. PICK u : u = [r EXCEPT !.answer = v, !.token = tk]
    OBVIOUS
  <2>3. u = [tab |-> r.tab, kind |-> r.kind, token |-> u.token, acct |-> r.acct,
             live |-> r.live, old |-> r.old, attempt |-> r.attempt, answer |-> v]
    BY <2>1, <2>2
  <2>4. u.token = tk
    BY <2>1, <2>2
  <2>5. u = q
    BY <1>5, <2>3, <2>4
  <2> QED BY <1>2, <1>4, <2>2, <2>5
<1>7. UNCHANGED <<key, maintenance, store, page, config, cache, stale, logins, events>>
  BY DEF Serve, tabVars, bounds
<1>8. exists' = (IF v = "ok" /\ r.kind = "delete" THEN exists \ {r.acct} ELSE exists)
  BY <1>2
<1>9. ServerOK' /\ TabsOK'
  BY <1>7, <1>8 DEF ServerOK, TabsOK, AfterLogoutNothingOld, Known
<1>10. tk \in Token \cup {NoToken} /\ (r.kind \in {"login", "oauth"} /\ v = "ok" => tk \in Token)
  BY <1>1, <1>4 DEF TokenOf, Token, AnswerOK, ServerOK, Request
<1>11. q \in Request /\ FreshOK(q)
  BY <1>1, <1>3, <1>5, <1>10 DEF Request, FreshOK
<1>12. AnswerOK(q)'
  <2>1. r.kind \notin {"login", "oauth"} /\ v = "ok" => q.token # NoToken
    BY <1>3, <1>4, <1>5 DEF Honoured, TokenOf
  <2>2. r.kind \in {"login", "oauth"} /\ v = "ok" => q.token # NoToken
    BY <1>5, <1>10, SessionAssumption
  <2>3. Known(tk)
    <3>1. CASE v = "ok" /\ r.kind \in {"login", "oauth"}
      BY <1>1, <1>3, <1>4, <3>1 DEF TokenOf, Known, ServerOK
    <3>2. CASE ~ (v = "ok" /\ r.kind \in {"login", "oauth"})
      BY <1>1, <1>4, <3>2 DEF TokenOf, AnswerOK
    <3> QED BY <3>1, <3>2
  <2>4. v = "401" => q.token = r.token
    BY <1>4, <1>5 DEF TokenOf
  <2>5. Known(q.token)' /\ (~ Honoured(r.token) => ~ Honoured(r.token)')
    BY <1>5, <1>7, <1>8, <2>3 DEF Known, Honoured
  <2>6. q.token' = q.token /\ q.kind = r.kind /\ q.answer = v /\ q.acct = r.acct
    BY <1>5
  <2> QED BY <1>1, <1>3, <2>1, <2>2, <2>4, <2>5, <2>6 DEF AnswerOK
<1>13. DeletionOK(q)'
  <2> SUFFICES ASSUME r.kind = "delete"
               PROVE  r.acct \in Accounts /\ (v = "ok" => r.acct \notin exists' /\ key[r.acct] # 0)
    BY <1>3, <1>5, <1>7 DEF DeletionOK
  <2>1. r.acct \in Accounts /\ r.token.acct = r.acct
    BY <1>1 DEF DeletionOK
  <2>2. v = "ok" => r.acct \in exists
    BY <1>3, <2>1 DEF Honoured
  <2> QED BY <1>8, <2>1, <2>2 DEF ServerOK
<1>14. RequestsOK'
  <2> SUFFICES ASSUME NEW c \in requests
               PROVE  RequestOK(c)'
    BY <1>6, <1>11, <1>12, <1>13 DEF RequestsOK, RequestOK, FreshOK
  <2> QED
    BY <1>7, <1>8 DEF RequestsOK, RequestOK, FreshOK, AnswerOK, DeletionOK, Known, Honoured
<1> QED BY <1>9, <1>14

\* A new account is one that never was, so a deletion stays true of its own.
LEMMA AccountSteps ==
  ASSUME IInv, NEW t \in Tabs, NEW a \in Accounts,
         SignUp(t, a) \/ ResetPassword(t, a) \/ ChangePassword(t)
  PROVE  IInv'
<1> USE DEF IInv
<1>1. /\ UNCHANGED <<maintenance, store, config, cache, stale, requests, logins>>
      /\ events' = events + 1
  BY DEF SignUp, ResetPassword, ChangePassword, NewPassword, MayChange
<1>2. page' \in [Tabs -> Pages]
  <2>1. Landing("login", store) \in Pages
    BY LandsOnAPage DEF Pages, AuthPages
  <2> QED BY <2>1 DEF SignUp, ResetPassword, ChangePassword, TabsOK, Pages, OpenPages
<1>4. PICK b \in Accounts, n \in Nat \ {0} :
        /\ key' = [key EXCEPT ![b] = n] /\ n > key[b]
        /\ \/ exists' = exists
           \/ exists' = exists \cup {b} /\ key[b] = 0
  <2>1. CASE SignUp(t, a)
    <3>1. key' = [key EXCEPT ![a] = 1] /\ exists' = exists \cup {a} /\ key[a] = 0
      BY <2>1 DEF SignUp
    <3>2. 1 \in Nat \ {0} /\ 1 > 0
      OBVIOUS
    <3> QED BY <3>1, <3>2
  <2>2. ASSUME NEW b, NewPassword(b)
        PROVE  \E n \in Nat \ {0} :
                 b \in Accounts /\ key' = [key EXCEPT ![b] = n] /\ n > key[b] /\ exists' = exists
    <3>1. b \in Accounts /\ key[b] \in Nat /\ key' = [key EXCEPT ![b] = key[b] + 1] /\ exists' = exists
      BY <2>2 DEF NewPassword, ServerOK
    <3>2. key[b] + 1 \in Nat \ {0} /\ key[b] + 1 > key[b]
      BY <3>1
    <3> QED BY <3>1, <3>2
  <2> QED BY <2>1, <2>2 DEF ResetPassword, ChangePassword
<1>5. /\ key' \in [Accounts -> Nat]
      /\ \A x \in Accounts : key'[x] = IF x = b THEN n ELSE key[x]
  BY <1>4 DEF ServerOK
<1>6. ServerOK'
  BY <1>1, <1>4, <1>5 DEF ServerOK
<1>7. ASSUME NEW tk \in Token \cup {NoToken}, Known(tk)
      PROVE  Known(tk)' /\ (~ Honoured(tk) => ~ Honoured(tk)')
  <2>1. CASE tk = NoToken
    BY <2>1 DEF Known, Honoured
  <2>2. CASE tk # NoToken
    <3>1. tk.acct \in Accounts /\ tk.key \in Nat /\ key[tk.acct] \in Nat /\ key[b] \in Nat
          /\ key[tk.acct] # 0 /\ tk.key <= key[tk.acct]
      BY <1>7, <2>2 DEF Token, Known, ServerOK
    <3>2. CASE tk.acct = b
      BY <1>4, <1>5, <3>1, <3>2 DEF Known, Honoured
    <3>3. CASE tk.acct # b
      BY <1>4, <1>5, <3>1, <3>3 DEF Known, Honoured
    <3> QED BY <3>2, <3>3
  <2> QED BY <2>1, <2>2
<1>8. TabsOK'
  <2>1. Known(store)'
    BY <1>1, <1>7 DEF TabsOK, Known
  <2> QED BY <1>1, <1>2, <2>1 DEF TabsOK, AfterLogoutNothingOld
<1>9. ASSUME NEW r \in requests
      PROVE  RequestOK(r)'
  <2>1. r \in Request /\ FreshOK(r) /\ AnswerOK(r) /\ DeletionOK(r) /\ r.token \in Token \cup {NoToken}
    BY DEF RequestsOK, RequestOK, Request
  <2>2. Known(r.token)' /\ (~ Honoured(r.token) => ~ Honoured(r.token)')
    BY <1>7, <2>1 DEF AnswerOK
  <2>3. AnswerOK(r)'
    BY <2>1, <2>2 DEF AnswerOK
  <2>4. DeletionOK(r)'
    BY <1>4, <1>5, <2>1 DEF DeletionOK
  <2> QED BY <2>1, <2>3, <2>4 DEF RequestOK, FreshOK
<1>10. RequestsOK'
  BY <1>1, <1>9 DEF RequestsOK
<1> QED BY <1>6, <1>8, <1>10

-----------------------------------------------------------------------------
(* What a tab does                                                           *)

LEMMA TabSteps ==
  ASSUME IInv, NEW t \in Tabs, TabStep(t)
  PROVE  IInv'
<1> USE DEF IInv
<1>1. ASSUME NEW p \in Pages, Visit(t, p)
      PROVE  IInv'
  <2>1. Landing(p, store) \in Pages
    BY LandsOnAPage
  <2>2. UNCHANGED <<exists, key, maintenance, store, config, cache, stale, requests, logins, events>>
        /\ page' = [page EXCEPT ![t] = Landing(p, store)]
    BY <1>1 DEF Visit, serverVars, bounds
  <2>3. RequestsOK'
    BY <2>2, FewerRequests
  <2> QED BY <2>1, <2>2, <2>3 DEF ServerOK, TabsOK, AfterLogoutNothingOld, Known
<1>2. CASE Reload(t)
  <2>1. /\ LoadPage(t, page[t], store) /\ events' = events + 1
        /\ UNCHANGED <<exists, key, maintenance, logins>>
    BY <1>2 DEF Reload, serverVars
  <2>2. page[t] \in Pages /\ store \in Token \cup {NoToken} /\ Known(store)
    BY DEF TabsOK
  <2>3. TabsOK' /\ RequestsOK'
    BY <2>1, <2>2, LoadPageOK
  <2> QED BY <2>1, <2>3 DEF ServerOK
<1>3. CASE Logout(t)
  <2>1. LogOut(t, requests) /\ UNCHANGED <<exists, key, maintenance, logins, events>>
    BY <1>3 DEF Logout, serverVars, bounds
  <2>2. TabsOK' /\ RequestsOK'
    BY <2>1, LogOutOK DEF RequestsOK
  <2> QED BY <2>1, <2>2 DEF ServerOK
<1>4. CASE FetchConfig(t)
  <2>1. UNCHANGED <<exists, key, maintenance, store, page, cache, stale, requests, logins, events>>
        /\ config' = [config EXCEPT ![t] = maintenance]
    BY <1>4 DEF FetchConfig, serverVars, bounds
  <2>2. RequestsOK'
    BY <2>1, FewerRequests
  <2> QED BY <2>1, <2>2 DEF ServerOK, TabsOK, AfterLogoutNothingOld, Known
<1>5. CASE StaleTimePasses(t)
  <2>1. UNCHANGED <<exists, key, maintenance, store, page, cache, config, requests, logins, events>>
        /\ stale' = [stale EXCEPT ![t] = TRUE]
    BY <1>5 DEF StaleTimePasses, serverVars, bounds
  <2>2. RequestsOK'
    BY <2>1, FewerRequests
  <2> QED BY <2>1, <2>2 DEF ServerOK, TabsOK, AfterLogoutNothingOld, Known
<1>6. ASSUME NEW kind, NEW a, AskFor(t, kind, a), {logins', events'} \subseteq Nat
      PROVE  ServerOK'
  BY <1>6 DEF AskFor, serverVars, ServerOK
<1>7. CASE Refresh(t)
  <2>1. AskFor(t, "currentUser", Nobody) /\ UNCHANGED <<logins, events>>
    BY <1>7 DEF Refresh, bounds
  <2>2. TabsOK' /\ RequestsOK'
    BY <2>1, AskOK DEF Kinds, Queries
  <2> QED BY <1>6, <2>1, <2>2 DEF ServerOK
<1>8. ASSUME NEW q \in Lists, LoadList(t, q)
      PROVE  IInv'
  <2>1. AskFor(t, q, Nobody) /\ UNCHANGED <<logins, events>>
    BY <1>8 DEF LoadList, bounds
  <2>2. q \in Kinds /\ q \notin {"login", "oauth", "delete"}
    BY DEF Kinds, Queries, Lists
  <2>3. TabsOK' /\ RequestsOK'
    BY <2>1, <2>2, AskOK
  <2> QED BY <1>6, <2>1, <2>3 DEF ServerOK
<1>9. ASSUME NEW a \in Accounts, NEW k \in {"login", "oauth"}, SubmitLogin(t, k, a)
      PROVE  IInv'
  <2>1. AskFor(t, k, a) /\ logins' = logins + 1 /\ events' = events
    BY <1>9 DEF SubmitLogin
  <2>2. k \in Kinds /\ k # "delete"
    BY DEF Kinds
  <2>3. TabsOK' /\ RequestsOK'
    BY <2>1, <2>2, AskOK
  <2> QED BY <1>6, <2>1, <2>3 DEF ServerOK
<1>10. CASE DeleteAccount(t)
  <2>1. AskFor(t, "delete", store.acct) /\ events' = events + 1 /\ logins' = logins /\ store # NoToken
    BY <1>10 DEF DeleteAccount
  <2>2. store.acct \in Accounts
    BY <2>1 DEF TabsOK, Token
  <2>3. TabsOK' /\ RequestsOK'
    BY <2>1, <2>2, AskOK DEF Kinds
  <2> QED BY <1>6, <2>1, <2>3 DEF ServerOK
<1>11. ASSUME NEW a \in Accounts, SignUp(t, a) \/ ResetPassword(t, a)
       PROVE  IInv'
  BY <1>11, AccountSteps
<1>12. CASE ChangePassword(t)
  <2>1. PICK a : a \in Accounts
    BY <1>12 DEF ChangePassword, NewPassword, ServerOK
  <2> QED BY <1>12, <2>1, AccountSteps
<1> QED
  BY <1>1, <1>2, <1>3, <1>4, <1>5, <1>7, <1>8, <1>9, <1>10, <1>11, <1>12 DEF TabStep

-----------------------------------------------------------------------------
(* What answers do                                                           *)

\* Only a query that was not cancelled fills the cache.
LEMMA FillOK ==
  ASSUME TabsOK, RequestsOK, NEW r \in requests, r.kind \in Queries, NEW a \in Accounts \cup {Nobody}
  PROVE  /\ Fill(r, a) \in [Tabs -> [Entries -> Entry]]
         /\ \A t \in Tabs, e \in Entries : ~ Fill(r, a)[t][e].old
<1>1. r \in Request /\ FreshOK(r)
  BY DEF RequestsOK, RequestOK
<1>2. CASE ~ r.live
  BY <1>2 DEF Fill, TabsOK, AfterLogoutNothingOld
<1>3. CASE r.live
  <2>1. PICK e : e = IF r.kind \in Lists THEN "data" ELSE r.kind
    OBVIOUS
  <2>2. PICK n : n = [acct |-> a, old |-> r.old]
    OBVIOUS
  <2>3. e \in Entries /\ n \in Entry /\ ~ n.old
    BY <1>1, <1>3, <2>1, <2>2 DEF Entries, Entry, Queries, FreshOK, Request
  <2>4. Fill(r, a) = [cache EXCEPT ![r.tab] = [cache[r.tab] EXCEPT ![e] = n]]
    BY <1>3, <2>1, <2>2 DEF Fill
  <2>5. r.tab \in Tabs /\ cache \in [Tabs -> [Entries -> Entry]]
    BY <1>1 DEF Request, TabsOK
  <2>6. PICK c : c = [cache[r.tab] EXCEPT ![e] = n]
    OBVIOUS
  <2>7. c \in [Entries -> Entry] /\ \A x \in Entries : ~ c[x].old
    BY <2>3, <2>5, <2>6 DEF AfterLogoutNothingOld, TabsOK
  <2> QED BY <2>4, <2>5, <2>6, <2>7 DEF AfterLogoutNothingOld, TabsOK
<1> QED BY <1>2, <1>3

LEMMA AnswerParts ==
  ASSUME IInv, NEW r \in requests
  PROVE  /\ r \in Request /\ r.tab \in Tabs /\ AnswerOK(r) /\ DeletionOK(r)
         /\ r.token \in Token \cup {NoToken} /\ Known(r.token)
BY DEF IInv, RequestsOK, RequestOK, Request, AnswerOK

LEMMA DropSessionStep ==
  ASSUME IInv, NEW r \in requests, DropSession(r.tab), UNCHANGED <<serverVars, bounds>>
  PROVE  IInv'
<1>1. TabsOK' /\ RequestsOK'
  BY AnswerParts, LoadPageOK DEF IInv, DropSession, Pages, AuthPages, serverVars, Known
<1> QED BY <1>1 DEF IInv, ServerOK, serverVars, bounds

LEMMA ForgetStep ==
  ASSUME IInv, NEW r \in requests, Forget(r), UNCHANGED <<serverVars, page, config>>,
         {logins', events'} \subseteq Nat, store' \in Token \cup {NoToken}, Known(store'),
         cache' \in [Tabs -> [Entries -> Entry]], stale' \in [Tabs -> BOOLEAN],
         AfterLogoutNothingOld'
  PROVE  IInv'
<1>1. RequestsOK'
  BY FewerRequests DEF IInv, Forget, serverVars
<1> QED BY <1>1 DEF IInv, ServerOK, TabsOK, serverVars, Known

LEMMA RefreshAnsweredStep ==
  ASSUME IInv, NEW r \in requests, RefreshAnswered(r)
  PROVE  IInv'
<1> USE AnswerParts
<1>1. /\ r.kind = "currentUser" /\ r.answer \in {"ok", "401"}
      /\ UNCHANGED <<serverVars, bounds>>
  BY DEF RefreshAnswered, Answered, AnswerOK
<1>2. CASE r.answer = "401" /\ r.live
  BY <1>1, <1>2, DropSessionStep DEF RefreshAnswered, Unauthorized, IInv, ServerOK
<1>3. CASE r.answer = "401" /\ ~ r.live
  <2>1. store' = NoToken /\ Forget(r) /\ UNCHANGED tabVars
    BY <1>3 DEF RefreshAnswered, Unauthorized
  <2>2. AfterLogoutNothingOld'
    BY <2>1 DEF IInv, TabsOK, AfterLogoutNothingOld, tabVars
  <2> QED BY <1>1, <2>1, <2>2, ForgetStep DEF IInv, ServerOK, TabsOK, tabVars, bounds, Known
<1>4. CASE r.answer = "ok"
  <2>1. /\ store' = r.token /\ Forget(r) /\ cache' = Fill(r, r.token.acct)
        /\ stale' = (IF r.live THEN [stale EXCEPT ![r.tab] = FALSE] ELSE stale)
        /\ UNCHANGED <<page, config>>
    BY <1>4 DEF RefreshAnswered, Unauthorized
  <2>2. r.token \in Token /\ r.token.acct \in Accounts
    BY <1>1, <1>4 DEF AnswerOK, Token
  <2>3. cache' \in [Tabs -> [Entries -> Entry]] /\ AfterLogoutNothingOld'
    BY <1>1, <2>1, <2>2, FillOK DEF IInv, Queries, AfterLogoutNothingOld
  <2>4. stale' \in [Tabs -> BOOLEAN]
    BY <2>1 DEF IInv, TabsOK
  <2> QED BY <1>1, <2>1, <2>2, <2>3, <2>4, ForgetStep DEF IInv, ServerOK, bounds
<1> QED BY <1>1, <1>2, <1>3, <1>4

LEMMA ListAnsweredStep ==
  ASSUME IInv, NEW r \in requests, ListAnswered(r)
  PROVE  IInv'
<1> USE AnswerParts
<1>1. /\ r.kind \in Lists /\ Forget(r)
      /\ UNCHANGED <<serverVars, store, page, config, stale, bounds>>
      /\ cache' = CASE r.answer = "ok"    -> Fill(r, r.token.acct)
                    [] r.answer = "guest" -> Fill(r, Nobody)
                    [] OTHER              -> cache
  BY DEF ListAnswered, Answered
<1>2. cache' \in [Tabs -> [Entries -> Entry]] /\ AfterLogoutNothingOld'
  <2>1. CASE r.answer = "ok"
    <3>1. cache' = Fill(r, r.token.acct)
      BY <1>1, <2>1
    <3>2. r.token.acct \in Accounts
      BY <1>1, <2>1 DEF AnswerOK, Token
    <3> QED BY <1>1, <3>1, <3>2, FillOK DEF IInv, Queries, AfterLogoutNothingOld
  <2>2. CASE r.answer = "guest"
    <3>1. cache' = Fill(r, Nobody)
      BY <1>1, <2>2
    <3> QED BY <1>1, <3>1, FillOK DEF IInv, Queries, AfterLogoutNothingOld
  <2>3. CASE r.answer \notin {"ok", "guest"}
    BY <1>1, <2>3 DEF IInv, TabsOK, AfterLogoutNothingOld
  <2> QED BY <2>1, <2>2, <2>3
<1> QED BY <1>1, <1>2, ForgetStep DEF IInv, ServerOK, TabsOK, bounds, Known

\* A query that is asked again was not cancelled meanwhile.
LEMMA ListRefusedStep ==
  ASSUME IInv, NEW r \in requests, ListRefused(r)
  PROVE  IInv'
<1> USE AnswerParts
<1>1. r.kind \in Lists /\ r.answer = "401" /\ UNCHANGED <<serverVars, bounds>>
  BY DEF ListRefused, Answered, Unauthorized
<1>2. CASE ~ Retried(r) /\ r.live
  BY <1>1, <1>2, DropSessionStep DEF ListRefused, IInv, ServerOK
<1>3. CASE ~ Retried(r) /\ ~ r.live
  <2>1. Forget(r) /\ UNCHANGED <<store, tabVars>>
    BY <1>3 DEF ListRefused
  <2>2. AfterLogoutNothingOld'
    BY <2>1 DEF IInv, TabsOK, AfterLogoutNothingOld, tabVars
  <2> QED BY <1>1, <2>1, <2>2, ForgetStep DEF IInv, ServerOK, TabsOK, tabVars, bounds, Known
<1>4. CASE Retried(r)
  <2>1. /\ requests' = (requests \ {r}) \cup
              {[r EXCEPT !.attempt = @ + 1, !.answer = "none", !.token = store]}
        /\ UNCHANGED <<store, tabVars>>
    BY <1>4 DEF ListRefused, Retried
  <2>2. PICK q : q = [r EXCEPT !.attempt = @ + 1, !.answer = "none", !.token = store]
    OBVIOUS
  <2>3. r = [tab |-> r.tab, kind |-> r.kind, token |-> r.token, acct |-> r.acct,
             live |-> r.live, old |-> r.old, attempt |-> r.attempt, answer |-> r.answer]
    BY DEF Request
  <2>4. q = [tab |-> r.tab, kind |-> r.kind, token |-> q.token, acct |-> r.acct,
             live |-> r.live, old |-> r.old, attempt |-> q.attempt, answer |-> "none"]
    BY <2>2, <2>3
  <2>5. q.token = store /\ q.attempt = r.attempt + 1
    BY <2>2, <2>3
  <2>6. q.attempt \in 0..QueryRetries
    <3>1. r.attempt \in 0..QueryRetries /\ r.attempt < QueryRetries /\ QueryRetries \in Nat
      BY <1>4, SessionAssumption DEF Retried, Request
    <3> QED BY <2>5, <3>1
  <2>7. q \in Request
    BY <2>4, <2>5, <2>6 DEF Request, Answers, IInv, TabsOK
  <2>8. r.kind \notin {"currentUser", "login", "oauth", "delete"} /\ FreshOK(r) /\ Known(store)
    BY <1>1 DEF Lists, IInv, RequestsOK, RequestOK, TabsOK
  <2>9. RequestOK(q)
    BY <2>4, <2>5, <2>7, <2>8 DEF RequestOK, FreshOK, AnswerOK, DeletionOK
  <2>10. RequestsOK'
    <3>1. \A c \in (requests \ {r}) \cup {q} : RequestOK(c)
      BY <2>9 DEF IInv, RequestsOK
    <3> QED BY <1>1, <2>1, <2>2, <3>1, SameRequests DEF serverVars
  <2>11. TabsOK'
    BY <1>1, <2>1 DEF IInv, TabsOK, AfterLogoutNothingOld, tabVars, serverVars, Known
  <2> QED BY <1>1, <2>10, <2>11 DEF IInv, ServerOK, serverVars, bounds
<1> QED BY <1>2, <1>3, <1>4

LEMMA LoginAnsweredStep ==
  ASSUME IInv, NEW r \in requests, LoginAnswered(r)
  PROVE  IInv'
<1> USE AnswerParts
<1>1. /\ r.kind \in {"login", "oauth"} /\ r.answer # "none"
      /\ UNCHANGED <<serverVars, bounds>>
  BY DEF LoginAnswered, Answered
<1>2. r.answer = "ok" => r.token \in Token
  BY DEF AnswerOK
<1>3. CASE r.answer = "ok" /\ r.kind = "login"
  <2>1. /\ store' = r.token /\ page' = [page EXCEPT ![r.tab] = Landing("app", r.token)]
        /\ Forget(r) /\ UNCHANGED <<config, cache, stale>>
    BY <1>3 DEF LoginAnswered, Unauthorized
  <2>2. Landing("app", r.token) \in Pages
    BY LandsOnAPage DEF Pages, Protected
  <2>3. RequestsOK'
    BY <1>1, <2>1, FewerRequests DEF IInv, Forget, serverVars
  <2>4. TabsOK'
    BY <1>1, <1>2, <1>3, <2>1, <2>2 DEF IInv, TabsOK, AfterLogoutNothingOld, serverVars, Known
  <2> QED BY <1>1, <2>3, <2>4 DEF IInv, ServerOK, serverVars, bounds
<1>4. CASE r.answer = "ok" /\ r.kind = "oauth"
  <2>1. LoadPage(r.tab, "app", r.token)
    BY <1>4 DEF LoginAnswered, Unauthorized
  <2>2. TabsOK' /\ RequestsOK'
    BY <1>1, <2>1, LoadPageOK DEF IInv, Pages, Protected, serverVars
  <2> QED BY <1>1, <2>2 DEF IInv, ServerOK, serverVars, bounds
<1>5. CASE r.answer = "401"
  <2>1. DropSession(r.tab)
    BY <1>5 DEF LoginAnswered, Unauthorized
  <2> QED BY <1>1, <2>1, DropSessionStep
<1>6. CASE r.answer \notin {"ok", "401"}
  <2>1. Forget(r) /\ UNCHANGED <<store, tabVars>>
    BY <1>6 DEF LoginAnswered, Unauthorized
  <2>2. AfterLogoutNothingOld'
    BY <2>1 DEF IInv, TabsOK, AfterLogoutNothingOld, tabVars
  <2> QED BY <1>1, <2>1, <2>2, ForgetStep DEF IInv, ServerOK, TabsOK, tabVars, bounds, Known
<1> QED BY <1>1, <1>3, <1>4, <1>5, <1>6

LEMMA DeleteAnsweredStep ==
  ASSUME IInv, NEW r \in requests, DeleteAnswered(r)
  PROVE  IInv'
<1> USE AnswerParts
<1>1. UNCHANGED <<serverVars, bounds>>
  BY DEF DeleteAnswered
<1>2. PICK kept \in {store, NoToken} :
        IF r.answer = "ok" /\ page[r.tab] = "settings"
          THEN LogOut(r.tab, Refetched(r.tab, requests \ {r}, kept))
          ELSE store' = kept /\ Invalidate(r, kept) /\ UNCHANGED <<page, config, cache>>
  BY DEF DeleteAnswered
<1>3. kept \in Token \cup {NoToken} /\ Known(kept) /\ TabsOK /\ RequestsOK
  BY DEF IInv, TabsOK, Known
<1>4. CASE r.answer = "ok" /\ page[r.tab] = "settings"
  <2>1. LogOut(r.tab, Refetched(r.tab, requests \ {r}, kept))
    BY <1>2, <1>4
  <2>2. \A c \in Refetched(r.tab, requests \ {r}, kept) : RequestOK(c)
    BY <1>3, RefetchedOK DEF TabsOK
  <2>3. TabsOK' /\ RequestsOK'
    BY <1>1, <1>3, <2>1, <2>2, LogOutOK DEF serverVars
  <2> QED BY <1>1, <2>3 DEF IInv, ServerOK, serverVars, bounds
<1>5. CASE ~ (r.answer = "ok" /\ page[r.tab] = "settings")
  <2>1. store' = kept /\ Invalidate(r, kept) /\ UNCHANGED <<page, config, cache>>
    BY <1>2, <1>5
  <2>2. RequestsOK' /\ stale' \in [Tabs -> BOOLEAN]
    BY <1>1, <1>3, <2>1, InvalidateOK DEF serverVars
  <2>3. TabsOK'
    BY <1>1, <1>3, <2>1, <2>2 DEF TabsOK, AfterLogoutNothingOld, serverVars, Known
  <2> QED BY <1>1, <2>2, <2>3 DEF IInv, ServerOK, serverVars, bounds
<1> QED BY <1>4, <1>5

LEMMA EnvironmentSteps ==
  ASSUME IInv, TokenExpires \/ MaintenanceToggled \/ \E r \in requests : RequestLost(r)
  PROVE  IInv'
<1>1. CASE TokenExpires
  <2>1. /\ store' = [store EXCEPT !.fresh = FALSE] /\ store # NoToken /\ events' = events + 1
        /\ UNCHANGED <<serverVars, tabVars, requests, logins>>
    BY <1>1 DEF TokenExpires, IsLoggedIn
  <2>2. store' \in Token /\ store'.acct = store.acct /\ store'.key = store.key
    BY <2>1 DEF IInv, TabsOK, Token
  <2>3. RequestsOK'
    BY <2>1, FewerRequests DEF IInv, serverVars
  <2> QED BY <2>1, <2>2, <2>3 DEF IInv, ServerOK, TabsOK, AfterLogoutNothingOld, serverVars, tabVars, Known
<1>2. CASE MaintenanceToggled
  <2>1. /\ maintenance' = ~ maintenance /\ events' = events + 1
        /\ UNCHANGED <<exists, key, store, tabVars, requests, logins>>
    BY <1>2 DEF MaintenanceToggled
  <2>2. RequestsOK'
    BY <2>1, FewerRequests DEF IInv
  <2> QED BY <2>1, <2>2 DEF IInv, ServerOK, TabsOK, AfterLogoutNothingOld, tabVars, Known
<1>3. ASSUME NEW r \in requests, RequestLost(r)
      PROVE  IInv'
  <2>1. /\ IF r.kind = "delete" THEN Invalidate(r, store) ELSE Forget(r) /\ UNCHANGED stale
        /\ events' = events + 1
        /\ UNCHANGED <<serverVars, store, page, config, cache, logins>>
    BY <1>3 DEF RequestLost
  <2>2. TabsOK /\ RequestsOK /\ store \in Token \cup {NoToken} /\ Known(store)
    BY DEF IInv, TabsOK
  <2>3. RequestsOK' /\ stale' \in [Tabs -> BOOLEAN]
    <3>1. CASE r.kind = "delete"
      BY <2>1, <2>2, <3>1, InvalidateOK DEF serverVars
    <3>2. CASE r.kind # "delete"
      BY <2>1, <2>2, <3>2, FewerRequests DEF serverVars, Forget, TabsOK
    <3> QED BY <3>1, <3>2
  <2>4. TabsOK'
    BY <2>1, <2>2, <2>3 DEF TabsOK, AfterLogoutNothingOld, serverVars, Known
  <2> QED BY <2>1, <2>3, <2>4 DEF IInv, ServerOK, serverVars
<1> QED BY <1>1, <1>2, <1>3

-----------------------------------------------------------------------------
(* Theorems                                                                  *)

LEMMA InductiveStep ==
  ASSUME IInv, [Next]_vars
  PROVE  IInv'
<1>1. CASE UNCHANGED vars
  <2>1. UNCHANGED <<serverVars, store, tabVars, requests, bounds>>
    BY <1>1 DEF vars
  <2>2. RequestsOK'
    BY <2>1, FewerRequests DEF IInv, serverVars
  <2> QED
    BY <2>1, <2>2 DEF IInv, ServerOK, TabsOK, AfterLogoutNothingOld, serverVars, tabVars, bounds, Known
<1>2. ASSUME NEW t \in Tabs, TabStep(t)
      PROVE  IInv'
  BY <1>2, TabSteps
<1>3. ASSUME NEW r \in requests, Serve(r) \/ Arrives(r)
      PROVE  IInv'
  BY <1>3, ServeStep, RefreshAnsweredStep, ListAnsweredStep, ListRefusedStep, LoginAnsweredStep,
     DeleteAnsweredStep DEF Arrives
<1> QED BY <1>1, <1>2, <1>3, EnvironmentSteps DEF Next

\* The invariant holds of every reachable state.
THEOREM SessionInvariant == Spec => []IInv
<1>1. Init => IInv
  <2> SUFFICES ASSUME Init
               PROVE  IInv
    OBVIOUS
  <2>1. EmptyCache \in [Entries -> Entry] /\ \A e \in Entries : ~ EmptyCache[e].old
    BY DEF EmptyCache, Empty, Entry
  <2>2. ServerOK
    <3>1. exists \subseteq Accounts
      BY SessionAssumption DEF Init
    <3>2. key = [a \in Accounts |-> IF a \in exists THEN 1 ELSE 0]
      BY DEF Init
    <3>3. key \in [Accounts -> Nat] /\ \A a \in exists : key[a] # 0
      BY <3>1, <3>2
    <3>4. maintenance = FALSE /\ logins = 0 /\ events = 0
      BY DEF Init
    <3>5. maintenance \in BOOLEAN
      BY <3>4
    <3>6. {logins, events} \subseteq Nat
      BY <3>4
    <3> QED BY <3>1, <3>3, <3>5, <3>6 DEF ServerOK
  <2>3. TabsOK
    BY <2>1 DEF Init, TabsOK, AfterLogoutNothingOld, Pages, AuthPages, Known
  <2> QED BY <2>2, <2>3 DEF Init, IInv, RequestsOK
<1> QED BY <1>1, InductiveStep, PTL DEF Spec

\* The variables have their types: a request is tried again QueryRetries times at most.
THEOREM TypeCorrect == Spec => []TypeOK
<1>1. IInv => TypeOK
  BY DEF IInv, ServerOK, TabsOK, RequestsOK, RequestOK, TypeOK
<1> QED BY <1>1, SessionInvariant, PTL

\* Whatever a tab shows was asked for after its last logout.
THEOREM NothingOldIsShown == Spec => []AfterLogoutNothingOld
<1>1. IInv => AfterLogoutNothingOld
  BY DEF IInv, TabsOK
<1> QED BY <1>1, SessionInvariant, PTL

\* What may empty the store while the server honours its token.
Excused ==
    \/ \E t \in Tabs : Logout(t)
    \/ \E r \in requests : DeleteAnswered(r) /\ r.answer = "ok"
    \/ \E r \in requests : Arrives(r) /\ r.answer = "401"
                           /\ (r.kind = "login" \/ r.token # store)

LEMMA OutlivesStep ==
  ASSUME IInv, [Next]_vars
  PROVE  Honoured(store) /\ store' = NoToken => Excused
<1> SUFFICES ASSUME Honoured(store), store' = NoToken
             PROVE  Excused
  OBVIOUS
<1>0. store # NoToken
  BY DEF Honoured
<1>1. ASSUME NEW t \in Tabs, TabStep(t)
      PROVE  Excused
  <2>1. ~ Reload(t) /\ (\A p \in Pages : ~ Visit(t, p)) /\ ~ FetchConfig(t) /\ ~ StaleTimePasses(t)
    BY <1>0 DEF Reload, LoadPage, Visit, FetchConfig, StaleTimePasses
  <2>2. ~ Refresh(t) /\ (\A q \in Lists : ~ LoadList(t, q)) /\ ~ DeleteAccount(t)
        /\ \A a \in Accounts, k \in {"login", "oauth"} : ~ SubmitLogin(t, k, a)
    BY <1>0 DEF Refresh, LoadList, DeleteAccount, SubmitLogin, AskFor
  <2>3. ~ ChangePassword(t) /\ \A a \in Accounts : ~ SignUp(t, a) /\ ~ ResetPassword(t, a)
    BY <1>0 DEF ChangePassword, SignUp, ResetPassword, NewPassword
  <2> QED BY <1>1, <2>1, <2>2, <2>3 DEF TabStep, Excused
<1>2. ASSUME NEW r \in requests, Serve(r) \/ Arrives(r)
      PROVE  Excused
  <2>1. AnswerOK(r) /\ r.token \in Token \cup {NoToken}
    BY AnswerParts
  <2>2. ~ Serve(r) /\ ~ ListAnswered(r)
    BY <1>0 DEF Serve, ListAnswered
  <2>3. Arrives(r)
    BY <1>2, <2>2
  <2>4. ASSUME r.answer = "401"
        PROVE  Excused
    <3>1. r.kind = "login" \/ r.token # store
      BY <2>1, <2>4 DEF AnswerOK
    <3> QED BY <2>3, <2>4, <3>1 DEF Excused
  <2>5. CASE RefreshAnswered(r)
    <3>1. CASE Unauthorized(r.answer)
      BY <2>4, <3>1 DEF Unauthorized
    <3>2. CASE ~ Unauthorized(r.answer)
      BY <2>1, <2>5, <3>2 DEF RefreshAnswered, Answered, Unauthorized, AnswerOK
    <3> QED BY <3>1, <3>2
  <2>6. CASE ListRefused(r)
    BY <2>4, <2>6 DEF ListRefused, Unauthorized
  <2>7. CASE LoginAnswered(r)
    <3>1. CASE r.answer = "ok" /\ r.kind = "login"
      BY <2>1, <2>7, <3>1 DEF LoginAnswered, Unauthorized, AnswerOK
    <3>2. CASE r.answer = "ok" /\ r.kind = "oauth"
      BY <2>1, <2>7, <3>2 DEF LoginAnswered, Unauthorized, AnswerOK, LoadPage
    <3>3. CASE r.answer = "401"
      BY <2>4, <3>3
    <3>4. CASE r.answer \notin {"ok", "401"}
      BY <1>0, <2>7, <3>4 DEF LoginAnswered, Unauthorized
    <3> QED BY <2>7, <3>1, <3>2, <3>3, <3>4 DEF LoginAnswered, Answered
  <2>8. CASE DeleteAnswered(r)
    <3>1. r.answer = "ok"
      BY <1>0, <2>8 DEF DeleteAnswered
    <3> QED BY <2>8, <3>1 DEF Excused
  <2> QED BY <2>2, <2>3, <2>5, <2>6, <2>7, <2>8 DEF Arrives
<1>3. ~ TokenExpires /\ ~ MaintenanceToggled /\ \A r \in requests : ~ RequestLost(r)
  <2>1. [store EXCEPT !.fresh = FALSE] \in Token
    BY <1>0 DEF IInv, TabsOK, Token
  <2> QED BY <1>0, <2>1, SessionAssumption DEF TokenExpires, MaintenanceToggled, RequestLost
<1>4. ~ UNCHANGED vars
  BY <1>0 DEF vars
<1> QED BY <1>1, <1>2, <1>3, <1>4 DEF Next

\* A session that the server honours is ended by a logout, by the deletion of the account,
\* by the 401 that refuses a login, or by a 401 to a request that was sent with another
\* token.  No answer to its own token and no lost request ends it.
THEOREM ErrorsEndNoSession == Spec => SessionOutlivesErrors
<1>1. IInv /\ [Next]_vars => [Honoured(store) /\ store' = NoToken =>
         \/ \E t \in Tabs : Logout(t)
         \/ \E r \in requests : DeleteAnswered(r) /\ r.answer = "ok"
         \/ \E r \in requests : Arrives(r) /\ r.answer = "401"
                                /\ (r.kind = "login" \/ r.token # store)]_vars
  BY OutlivesStep DEF Excused
<1> QED BY <1>1, SessionInvariant, PTL DEF Spec, SessionOutlivesErrors

=============================================================================
