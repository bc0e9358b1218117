------------------------- MODULE SurroundingsProofs -------------------------
(***************************************************************************)
(* Proofs about what surrounds the analysis: there is always an            *)
(* administrator who can sign in, and no session outlives what it was      *)
(* opened with (Identity); what a tab shows belongs together, a draft is   *)
(* only lost where the person gave it up or it was saved (ClientViews),    *)
(* one thing is polled at a time (ClientPolling) and what was confirmed is *)
(* what is started (ClientStarts); what is imported is what was announced, *)
(* and what is exported what is shown (SheetImport and Workbook, from      *)
(* FilesProofs); the judgement of an answer is complete where nobody looks *)
(* at it (ReceptionQuality), and the report made of it adds up             *)
(* (ReceptionReport); and the links of a lost deal are those of its newest *)
(* attribution (LostDeal).                                                 *)
(***************************************************************************)
EXTENDS MCSurroundings, Identity, FilesProofs

----------------------------------------------------------------------------
(* Identity. *)

AccountRow == [role : Role, on : BOOLEAN, pw : 1 .. MaxPassword, change : BOOLEAN]

\* A session that counts has an account's id.
SessionsHaveUsers == \A s \in Session : session[s].st = "live" => session[s].user \in User

\* What is inductive: that a new account has no session yet, and that somebody
\* who administers is not the last one to go, follows from the sessions being
\* those of accounts.
SInv == IdTypeOK /\ AccessHolds /\ SessionsHaveUsers

(* Facts used for several actions. *)

\* An account is a row, and no row is taken for the absence of one.
LEMMA RowsAreRows ==
  ASSUME IdTypeOK, NEW u \in User, account[u] # NoAccount
  PROVE  account[u] \in AccountRow
BY DEF IdTypeOK, AccountRow

LEMMA RowIsAccount == ASSUME NEW a \in AccountRow PROVE a # NoAccount
BY IdentityAssumption DEF AccountRow

\* The holder of a session that resolves has an account (resolveSession).
LEMMA HolderHasAccount ==
  ASSUME SInv, NEW s \in Session, Resolves(s)
  PROVE  session[s].user \in User /\ HasAccount(session[s].user) /\ HasAnyUser
BY DEF SInv, AccessHolds, SessionsAreCurrent, SessionsHaveUsers, Resolves, HasAnyUser, HasAccount

\* Where rows stay or are revoked, sessions keep their type (revokeAllSessions).
LEMMA RevokedTypes ==
  ASSUME IdTypeOK, NEW u \in User
  PROVE  /\ RevokeAllSessions(u) \in [Session -> [st : {"unused", "live", "revoked"},
                                                  user : User \cup {NoAccount}, pw : 0 .. MaxPassword]]
         /\ \A s \in Session : RevokeAllSessions(u)[s].st = "live" =>
              RevokeAllSessions(u)[s] = session[s] /\ session[s].user # u
BY DEF IdTypeOK, RevokeAllSessions

\* A change of one account that leaves it none or ends its sessions keeps the
\* sessions current.
LEMMA ChangeOfOne ==
  ASSUME SInv, NEW u \in User, NEW a \in AccountRow,
         account' = [account EXCEPT ![u] = a],
         \/ session' = RevokeAllSessions(u)
         \/ /\ session' = session
            /\ \A s \in Session : (session[s].st = "live" /\ session[s].user = u)
                  => a.on /\ a.pw = session[s].pw
  PROVE  SessionsAreCurrent' /\ SessionsHaveUsers'
<1>1. a # NoAccount
  BY RowIsAccount
<1>2. account \in [User -> {NoAccount} \cup AccountRow]
  BY DEF SInv, IdTypeOK, AccountRow
<1> SUFFICES ASSUME NEW s \in Session, session'[s].st = "live"
             PROVE  /\ session'[s].user \in User
                    /\ account'[session'[s].user] # NoAccount
                    /\ account'[session'[s].user].on
                    /\ account'[session'[s].user].pw = session'[s].pw
  BY DEF SessionsAreCurrent, SessionsHaveUsers
<1>3. session'[s] = session[s] /\ (session' = session \/ session[s].user # u)
  BY RevokedTypes DEF SInv
<1>4. /\ session[s].user \in User /\ account[session[s].user] # NoAccount
      /\ account[session[s].user].on /\ account[session[s].user].pw = session[s].pw
  BY <1>3 DEF SInv, AccessHolds, SessionsAreCurrent, SessionsHaveUsers
<1>5. CASE session[s].user = u
  <2>1. account'[u] = a
    BY <1>2
  <2>2. session' = session
    BY <1>3, <1>5
  <2>3. session[s].st = "live"
    BY <2>2
  <2>4. a.on /\ a.pw = session[s].pw
    <3>1. session' # RevokeAllSessions(u)
      BY <1>5, <2>3, <2>2, RevokedTypes DEF SInv
    <3> QED BY <1>5, <2>3, <3>1
  <2> QED BY <1>1, <1>4, <1>5, <2>1, <2>2, <2>4
<1>6. CASE session[s].user # u
  BY <1>2, <1>3, <1>4, <1>6
<1> QED BY <1>5, <1>6

----------------------------------------------------------------------------
(* The invariant. *)

LEMMA SInvInit == IdInit => SInv
<1> SUFFICES ASSUME IdInit PROVE SInv
  OBVIOUS
<1>1. IdTypeOK
  <2>1. NoSession \in [st : {"unused", "live", "revoked"},
                   user : User \cup {NoAccount}, pw : 0 .. MaxPassword]
    BY IdentityAssumption DEF NoSession
  <2> QED BY <2>1 DEF IdInit, IdTypeOK
<1>2. ~HasAnyUser /\ \A s \in Session : session[s].st # "live"
  BY DEF IdInit, HasAnyUser, HasAccount, NoSession
<1> QED BY <1>1, <1>2 DEF SInv, AccessHolds, AdminRemains, SessionsAreCurrent, SessionsHaveUsers

LEMMA StartStops == ASSUME SInv, StartServer \/ StopServer PROVE SInv'
BY DEF SInv, StartServer, StopServer, IdTypeOK, AccessHolds, AdminRemains, SessionsAreCurrent,
       SessionsHaveUsers, HasAnyUser, HasAccount, Admin

LEMMA BootstrapKeeps == ASSUME SInv, NEW u \in User, Bootstrap(u) PROVE SInv'
<1> DEFINE a == [role |-> "admin", on |-> TRUE, pw |-> 1, change |-> FALSE]
<1>1. a \in AccountRow
  BY IdentityAssumption DEF AccountRow
<1>2. account' = [account EXCEPT ![u] = a] /\ session' = session /\ running' = running
  BY DEF Bootstrap
<1>3. IdTypeOK'
  BY <1>1, <1>2 DEF SInv, IdTypeOK, AccountRow
<1>4. \A s \in Session : session[s].st # "live"
  BY DEF SInv, AccessHolds, SessionsAreCurrent, SessionsHaveUsers, Bootstrap, HasAnyUser, HasAccount
<1>5. SessionsAreCurrent' /\ SessionsHaveUsers'
  BY <1>2, <1>4 DEF SessionsAreCurrent, SessionsHaveUsers
<1>6. account'[u] = a /\ a # NoAccount
  BY <1>1, <1>2, RowIsAccount DEF SInv, IdTypeOK
<1>7. Admin(u)'
  BY <1>6 DEF Admin, HasAccount
<1> QED BY <1>3, <1>5, <1>7 DEF SInv, AccessHolds, AdminRemains

\* Logging in and out, and expiry: the accounts stay.
LEMMA SessionsKeep ==
  ASSUME SInv, NEW u \in User, NEW s \in Session, NEW pw \in 1 .. MaxPassword,
         Login(u, pw, s) \/ LoginFails(u, pw) \/ Logout(s) \/ Expire(s) \/ Denied(s)
  PROVE  SInv'
<1>1. account' = account /\ running' = running
  BY DEF Login, LoginFails, Logout, Expire, Denied
<1>2. IdTypeOK'
  <2>1. CASE Login(u, pw, s)
    BY <2>1 DEF SInv, IdTypeOK, Login
  <2>2. CASE LoginFails(u, pw) \/ Denied(s)
    BY <2>2 DEF SInv, IdTypeOK, LoginFails, Denied
  <2>3. CASE Logout(s) \/ Expire(s)
    BY <2>3 DEF SInv, IdTypeOK, Logout, Expire
  <2> QED BY <2>1, <2>2, <2>3
<1>3. \A t \in Session : session'[t].st = "live" =>
        \/ session'[t] = session[t]
        \/ /\ session'[t] = [st |-> "live", user |-> u, pw |-> pw]
           /\ HasAccount(u) /\ account[u].on /\ account[u].pw = pw
  <2>1. CASE Login(u, pw, s)
    BY <2>1 DEF SInv, IdTypeOK, Login
  <2>2. CASE LoginFails(u, pw) \/ Denied(s)
    BY <2>2 DEF LoginFails, Denied
  <2>3. CASE Logout(s) \/ Expire(s)
    BY <2>3 DEF SInv, IdTypeOK, Logout, Expire
  <2> QED BY <2>1, <2>2, <2>3
<1>4. SessionsAreCurrent' /\ SessionsHaveUsers'
  BY <1>1, <1>3 DEF SInv, AccessHolds, SessionsAreCurrent, SessionsHaveUsers, HasAccount
<1> QED BY <1>1, <1>2, <1>4 DEF SInv, AccessHolds, AdminRemains, HasAnyUser, HasAccount, Admin

LEMMA CreateKeeps ==
  ASSUME SInv, NEW s \in Session, NEW u \in User, NEW role \in Role, CreateUser(s, u, role)
  PROVE  SInv'
<1> DEFINE a == [role |-> role, on |-> TRUE, pw |-> 1, change |-> TRUE]
<1>1. a \in AccountRow
  BY IdentityAssumption DEF AccountRow
<1>2. account' = [account EXCEPT ![u] = a] /\ session' = session /\ running' = running
  BY DEF CreateUser
<1>3. IdTypeOK'
  BY <1>1, <1>2 DEF SInv, IdTypeOK, AccountRow
<1>4. \A t \in Session : session[t].st = "live" => session[t].user # u
  BY DEF SInv, AccessHolds, SessionsAreCurrent, CreateUser, HasAccount
<1>5. SessionsAreCurrent' /\ SessionsHaveUsers'
  BY <1>1, <1>2, <1>4, ChangeOfOne
<1>6. PICK v \in User : Admin(v)
  BY HolderHasAccount DEF SInv, AccessHolds, AdminRemains, CreateUser, ByAdmin
<1>7. v # u
  BY <1>6 DEF Admin, CreateUser
<1>8. Admin(v)'
  BY <1>2, <1>6, <1>7 DEF Admin, HasAccount, SInv, IdTypeOK
<1> QED BY <1>3, <1>5, <1>8 DEF SInv, AccessHolds, AdminRemains

LEMMA UpdateKeeps ==
  ASSUME SInv, NEW s \in Session, NEW u \in User, NEW role \in Role, NEW on \in BOOLEAN,
         UpdateUser(s, u, role, on)
  PROVE  SInv'
<1> DEFINE a == [account[u] EXCEPT !.role = role, !.on = on]
<1>0. account[u] \in AccountRow
  BY RowsAreRows DEF SInv, UpdateUser, HasAccount
<1>1. a \in AccountRow /\ a.role = role /\ a.on = on /\ a.pw = account[u].pw
  BY <1>0 DEF AccountRow
<1>2. /\ account' = [account EXCEPT ![u] = a]
      /\ session' = (IF on THEN session ELSE RevokeAllSessions(u)) /\ running' = running
  BY DEF UpdateUser
<1>3. IdTypeOK'
  BY <1>1, <1>2, RevokedTypes DEF SInv, IdTypeOK, AccountRow
<1>4. SessionsAreCurrent' /\ SessionsHaveUsers'
  <2>1. CASE on
    <3>1. \A t \in Session : (session[t].st = "live" /\ session[t].user = u)
             => a.on /\ a.pw = session[t].pw
      BY <1>1, <2>1 DEF SInv, AccessHolds, SessionsAreCurrent
    <3> QED BY <1>1, <1>2, <2>1, <3>1, ChangeOfOne
  <2>2. CASE ~on
    BY <1>1, <1>2, <2>2, ChangeOfOne
  <2> QED BY <2>1, <2>2
<1>5. \E v \in User : Admin(v)'
  <2>0. PICK w \in User : Admin(w)
    BY HolderHasAccount DEF SInv, AccessHolds, AdminRemains, UpdateUser, ByAdmin
  <2>1. \A v \in User \ {u} : Admin(v) => Admin(v)'
    BY <1>2 DEF Admin, HasAccount, SInv, IdTypeOK
  <2>2. CASE \E v \in User \ {u} : Admin(v)
    BY <2>1, <2>2
  <2>3. CASE ~\E v \in User \ {u} : Admin(v)
    <3>1. Admin(u) /\ on /\ role = "admin"
      BY <2>0, <2>3 DEF UpdateUser, AdminContinuity
    <3>2. account'[u] = a /\ a # NoAccount
      BY <1>1, <1>2, RowIsAccount DEF SInv, IdTypeOK
    <3> QED BY <1>1, <3>1, <3>2 DEF Admin, HasAccount
  <2> QED BY <2>2, <2>3
<1> QED BY <1>3, <1>4, <1>5 DEF SInv, AccessHolds, AdminRemains

LEMMA PasswordKeeps ==
  ASSUME SInv, NEW u \in User, HasAccount(u), NewPassword(u)
  PROVE  SInv'
<1> DEFINE a == [account[u] EXCEPT !.pw = account[u].pw + 1, !.change = TRUE]
<1>0. account[u] \in AccountRow
  BY RowsAreRows DEF SInv, HasAccount
<1>1. a \in AccountRow /\ a.role = account[u].role /\ a.on = account[u].on
  <2>1. account[u].pw + 1 \in 1 .. MaxPassword
    BY <1>0, IdentityAssumption DEF AccountRow, NewPassword
  <2> QED BY <1>0, <2>1 DEF AccountRow
<1>2. account' = [account EXCEPT ![u] = a] /\ session' = RevokeAllSessions(u) /\ running' = running
  BY DEF NewPassword
<1>3. IdTypeOK'
  BY <1>1, <1>2, RevokedTypes DEF SInv, IdTypeOK, AccountRow
<1>4. SessionsAreCurrent' /\ SessionsHaveUsers'
  BY <1>1, <1>2, ChangeOfOne
<1>5. \E v \in User : Admin(v)'
  <2>1. PICK v \in User : Admin(v)
    BY DEF SInv, AccessHolds, AdminRemains, HasAnyUser
  <2>2. account'[u] = a /\ a # NoAccount /\ (v # u => account'[v] = account[v])
    BY <1>1, <1>2, RowIsAccount DEF SInv, IdTypeOK
  <2> QED BY <1>1, <2>1, <2>2 DEF Admin, HasAccount
<1> QED BY <1>3, <1>4, <1>5 DEF SInv, AccessHolds, AdminRemains

LEMMA SInvNext == SInv /\ [IdNext]_idVars => SInv'
<1> SUFFICES ASSUME SInv, [IdNext]_idVars PROVE SInv'
  OBVIOUS
<1>1. CASE UNCHANGED idVars
  BY <1>1 DEF idVars, SInv, IdTypeOK, AccessHolds, AdminRemains, SessionsAreCurrent,
             SessionsHaveUsers, HasAnyUser, HasAccount, Admin
<1>2. CASE StartServer \/ StopServer
  BY <1>2, StartStops
<1>3. ASSUME NEW u \in User, Bootstrap(u) \/ ToolReset(u) PROVE SInv'
  BY <1>3, BootstrapKeeps, PasswordKeeps DEF ToolReset
<1>4. ASSUME NEW u \in User, NEW pw \in 1 .. MaxPassword, LoginFails(u, pw) PROVE SInv'
  BY <1>4 DEF LoginFails, SInv, IdTypeOK, AccessHolds, AdminRemains, SessionsAreCurrent,
             SessionsHaveUsers, HasAnyUser, HasAccount, Admin
<1>5. ASSUME NEW u \in User, NEW pw \in 1 .. MaxPassword, NEW s \in Session, Login(u, pw, s)
      PROVE  SInv'
  BY <1>5, SessionsKeep
<1>6. ASSUME NEW s \in Session, Logout(s) \/ Expire(s) \/ Denied(s) PROVE SInv'
  <2>1. 1 \in 1 .. MaxPassword
    BY IdentityAssumption
  <2>2. \E u \in User : TRUE
    BY <1>6, HolderHasAccount DEF Logout, Denied, Expire, SInv, SessionsHaveUsers
  <2> QED BY <1>6, <2>1, <2>2, SessionsKeep
<1>7. ASSUME NEW s \in Session, NEW u \in User, ResetPassword(s, u) PROVE SInv'
  BY <1>7, PasswordKeeps DEF ResetPassword
<1>8. ASSUME NEW s \in Session, NEW u \in User, NEW role \in Role, CreateUser(s, u, role)
      PROVE  SInv'
  BY <1>8, CreateKeeps
<1>9. ASSUME NEW s \in Session, NEW u \in User, NEW role \in Role, NEW on \in BOOLEAN,
             UpdateUser(s, u, role, on)
      PROVE  SInv'
  BY <1>9, UpdateKeeps
<1> QED BY <1>1, <1>2, <1>3, <1>4, <1>5, <1>6, <1>7, <1>8, <1>9 DEF IdNext

\* The inductive invariant of accounts and sessions.
THEOREM IdentityInvariant == IdSpec => []SInv
BY SInvInit, SInvNext, PTL DEF IdSpec

\* Whatever administrators do to one another's accounts and host commands do in
\* between, an administrator who can sign in remains, and every session that
\* counts is of an enabled account and its present password.
THEOREM AccessKept == IdSpec => []AccessHolds
<1>1. SInv => AccessHolds
  BY DEF SInv
<1> QED BY <1>1, IdentityInvariant, PTL

----------------------------------------------------------------------------
(* ClientViews. *)

Leads == {"navigate", "refresh"}
Others == {"page", "poll", "summary"}
ListRequest == [by : Leads \cup Others, q : Query, stage : {"lists", "page"}, ok : BOOLEAN]
DetailRequest == [rec : Record, by : Leads \cup Others \cup {"person"},
                  seen : 1 .. MaxVersion, same : BOOLEAN]
SaveRequest == [rec : Record, draft : 0 .. MaxDraft, stage : {"sent", "written", "refresh"},
                ver : 0 .. MaxVersion, op : BOOLEAN, rev : BOOLEAN]

\* A request for a page that does not lead to another job is of the job shown.
ListIsOfActive ==
  list # Nothing => /\ list \in ListRequest
                    /\ list.stage = "lists" => list.by \in Leads
                    /\ list.by \notin Leads => list.q.job = active

\* A record that is read again is the one that is open, which has no draft, and
\* is asked for in a version no older than the one shown.
DetailIsOfOpen ==
  detail # Nothing => /\ detail \in DetailRequest
                      /\ sel # Nothing => /\ detail.rec = sel.rec
                                          /\ sel.draft = 0 /\ sel.ver <= detail.seen

\* A save of which nothing was changed since is of the open record and draft.
SaveIsOfOpen ==
  save # Nothing =>
    /\ save \in SaveRequest
    /\ save.stage # "sent" => save.ver \in 1 .. version[save.rec]
    /\ save.rev => /\ sel # Nothing /\ sel.rec = save.rec
                   /\ save.stage # "refresh" => sel.draft = save.draft

OpenIsOfServer == sel # Nothing => sel.ver <= version[sel.rec]

VInv == ShownTogether /\ ListIsOfActive /\ DetailIsOfOpen /\ SaveIsOfOpen /\ OpenIsOfServer

\* What the next state must satisfy of a draft and of a version.
DraftStep ==
  (Dirty /\ sel' # sel) =>
     \/ Edit \/ (\E r \in Record : OpenRecord(r)) \/ (\E j \in Job : DeleteJob(j))
     \/ /\ sel' # Nothing /\ save # Nothing
        /\ save.rec = sel.rec /\ save.draft = sel.draft
     \/ sel.rec \notin items'
VersionStep ==
  (sel # Nothing /\ sel' # Nothing /\ sel'.rec = sel.rec /\ save' = save) => sel'.ver >= sel.ver


Steps == VInv' /\ DraftStep /\ VersionStep

----------------------------------------------------------------------------
(* Facts used for several actions. *)

LEMMA Bounds ==
  /\ MaxVersion \in Nat /\ 1 \in 1 .. MaxVersion /\ 1 \in Page /\ MaxDraft \in Nat
  /\ NoQuery \in Query /\ JobOf \in [Record -> Job]
  /\ \A r \in Record, v \in Nat, d \in Nat : [rec |-> r, ver |-> v, draft |-> d] # Nothing
BY ViewAssumption DEF Page, NoQuery, Query

\* What the server has only gets newer.
LEMMA OpenStays ==
  ASSUME VInv, UNCHANGED <<pageVars, sel>>, present' \subseteq Job, want' \in Query,
         version' \in [Record -> 1 .. MaxVersion], \A r \in Record : version'[r] >= version[r]
  PROVE  ShownTogether' /\ OpenIsOfServer' /\ DraftStep /\ VersionStep
<1> USE Bounds
<1>1. ShownTogether'
  BY DEF VInv, ShownTogether, ViewTypeOK, pageVars
<1>2. OpenIsOfServer'
  BY DEF VInv, ShownTogether, ViewTypeOK, OpenIsOfServer, pageVars
<1>3. VersionStep
  BY DEF VInv, ShownTogether, ViewTypeOK, VersionStep
<1> QED BY <1>1, <1>2, <1>3 DEF DraftStep

LEMMA StaleDetail ==
  ASSUME VInv, UNCHANGED sel,
         \/ detail' \in {detail, Nothing}
         \/ detail # Nothing /\ detail' = [detail EXCEPT !.same = FALSE]
  PROVE  DetailIsOfOpen'
<1>1. CASE detail' \in {detail, Nothing}
  BY <1>1 DEF VInv, DetailIsOfOpen
<1>2. CASE detail # Nothing /\ detail' = [detail EXCEPT !.same = FALSE]
  <2>1. /\ detail' \in DetailRequest
        /\ detail'.rec = detail.rec /\ detail'.seen = detail.seen
    BY <1>2 DEF VInv, DetailIsOfOpen, DetailRequest
  <2> QED BY <1>2, <2>1 DEF VInv, DetailIsOfOpen
<1> QED BY <1>1, <1>2

\* What a save carries does not change while it is under way.
SameSave == /\ save' \in SaveRequest /\ save'.rec = save.rec /\ save'.draft = save.draft
            /\ save'.stage = save.stage /\ save'.ver = save.ver

LEMMA SaveOlder ==
  ASSUME VInv, save # Nothing, SameSave, UNCHANGED version,
         save'.rev => /\ save.rev /\ sel' # Nothing
                      /\ sel'.rec = sel.rec /\ sel'.draft = sel.draft
  PROVE  SaveIsOfOpen'
<1>1. save'.stage # "sent" => save'.ver \in 1 .. version'[save'.rec]
  BY DEF VInv, SaveIsOfOpen, SameSave
<1>2. save'.rev => /\ sel' # Nothing /\ sel'.rec = save'.rec
                   /\ save'.stage # "refresh" => sel'.draft = save'.draft
  BY DEF VInv, SaveIsOfOpen, SameSave
<1> QED BY <1>1, <1>2 DEF SaveIsOfOpen, SameSave

\* A step that leaves the page and the record shown alone, that replaces or
\* drops requests and gives up what was current of a save.
LEMMA AsideKeeps ==
  ASSUME VInv, UNCHANGED <<serverVars, pageVars, sel>>, want' \in Query, ListIsOfActive',
         \/ detail' \in {detail, Nothing}
         \/ detail # Nothing /\ detail' = [detail EXCEPT !.same = FALSE],
         \/ save' \in {save, Nothing}
         \/ save # Nothing /\ save' = [save EXCEPT !.op = FALSE]
  PROVE  Steps
<1> USE Bounds
<1>1. ShownTogether' /\ OpenIsOfServer' /\ DraftStep /\ VersionStep
  <2>1. \A r \in Record : version[r] >= version[r]
    BY DEF VInv, ShownTogether, ViewTypeOK
  <2> QED BY <2>1, OpenStays DEF VInv, ShownTogether, ViewTypeOK, serverVars
<1>2. DetailIsOfOpen'
  BY StaleDetail
<1>3. SaveIsOfOpen'
  <2>1. CASE save' \in {save, Nothing}
    BY <2>1 DEF VInv, SaveIsOfOpen, serverVars
  <2>2. CASE save # Nothing /\ save' = [save EXCEPT !.op = FALSE]
    <3>1. SameSave
      BY <2>2 DEF VInv, SaveIsOfOpen, SaveRequest, SameSave
    <3>2. save'.rev = save.rev
      BY <2>2 DEF VInv, SaveIsOfOpen, SaveRequest
    <3> QED BY <2>2, <3>1, <3>2, SaveOlder DEF VInv, SaveIsOfOpen, serverVars
  <2> QED BY <2>1, <2>2
<1> QED BY <1>1, <1>2, <1>3 DEF Steps, VInv

\* A new request is of the job shown or leads to the one it asks for.
LEMMA AskIsOfActive ==
  ASSUME NEW how \in Leads \cup Others, NEW q \in Query, NEW stage \in {"lists", "page"},
         Ask(how, q, stage), stage = "lists" => how \in Leads,
         how \notin Leads => q.job = active'
  PROVE  ListIsOfActive' /\ want' \in Query /\ detail' = Nothing
BY DEF Ask, ListIsOfActive, ListRequest

LEMMA RefreshQueries ==
  ASSUME VInv, NEW j \in Job \cup {Nothing}
  PROVE  RefreshQuery(j) \in Query
BY Bounds DEF VInv, ShownTogether, ViewTypeOK, RefreshQuery, Query

----------------------------------------------------------------------------
(* Requests, and replies that change nothing shown. *)

LEMMA RequestsKeep ==
  ASSUME VInv,
         \/ \E p \in Page : ChangePage(p)
         \/ \E j \in Job : Navigate(j)
         \/ \E j \in Job \cup {active} : Refresh(j)
         \/ \E how \in {"poll", "summary"} : Poll(how)
  PROVE  Steps
<1> USE Bounds
<1>1. ASSUME NEW p \in Page, ChangePage(p) PROVE Steps
  <2>1. [shown EXCEPT !.page = p] \in Query /\ [shown EXCEPT !.page = p].job = active
    BY DEF VInv, ShownTogether, ViewTypeOK, Query
  <2>2. ListIsOfActive' /\ want' \in Query /\ detail' = Nothing
    BY <1>1, <2>1, AskIsOfActive DEF ChangePage, Leads, Others, pageVars
  <2> QED BY <1>1, <2>2, AsideKeeps DEF ChangePage
<1>2. ASSUME NEW j \in Job, Navigate(j) PROVE Steps
  <2>1. ListIsOfActive' /\ want' \in Query /\ detail' = Nothing
    BY <1>2, RefreshQueries, AskIsOfActive DEF Navigate, Leads, Others
  <2> QED BY <1>2, <2>1, AsideKeeps DEF Navigate, Superseded
<1>3. ASSUME NEW j \in Job \cup {active}, Refresh(j) PROVE Steps
  <2>1. j \in Job \cup {Nothing}
    BY DEF VInv, ShownTogether, ViewTypeOK
  <2>2. ListIsOfActive' /\ want' \in Query /\ detail' = Nothing
    BY <1>3, <2>1, RefreshQueries, AskIsOfActive DEF Refresh, Leads, Others
  <2> QED BY <1>3, <2>2, AsideKeeps DEF Refresh
<1>4. ASSUME NEW how \in {"poll", "summary"}, Poll(how) PROVE Steps
  <2>1. ListIsOfActive' /\ want' \in Query /\ detail' = Nothing
    BY <1>4, AskIsOfActive DEF Poll, Leads, Others, pageVars, VInv, ShownTogether, ViewTypeOK
  <2> QED BY <1>4, <2>1, AsideKeeps DEF Poll
<1> QED BY <1>1, <1>2, <1>3, <1>4

\* The operations of a person set the poll's request aside, or not.
LEMMA SuspendKeeps ==
  ASSUME VInv, UNCHANGED active, Suspend \/ UNCHANGED <<list, detail>>
  PROVE  /\ ListIsOfActive'
         /\ \/ detail' \in {detail, Nothing}
            \/ detail # Nothing /\ detail' = [detail EXCEPT !.same = FALSE]
<1>1. CASE UNCHANGED <<list, detail>>
  BY <1>1 DEF VInv, ListIsOfActive
<1>2. CASE Suspend
  <2>1. CASE list' = list
    BY <1>2, <2>1 DEF VInv, ListIsOfActive, Suspend
  <2>2. CASE list' # list
    <3>1. list # Nothing /\ list' = [list EXCEPT !.ok = FALSE]
      BY <1>2, <2>2 DEF Suspend
    <3>2. list' \in ListRequest /\ list'.by = list.by /\ list'.q = list.q /\ list'.stage = list.stage
      BY <3>1 DEF VInv, ListIsOfActive, ListRequest
    <3> QED BY <1>2, <3>1, <3>2 DEF VInv, ListIsOfActive, Suspend
  <2> QED BY <2>1, <2>2
<1> QED BY <1>1, <1>2

\* Another query makes what was asked for the old one stale.
LEMMA RequeryKeeps ==
  ASSUME VInv, UNCHANGED <<serverVars, pageVars, sel, save>>, NEW q \in Query, Requery(q),
         ListIsOfActive'
  PROVE  Steps
<1>1. want' \in Query
  BY DEF Requery
<1>2. \/ detail' \in {detail, Nothing}
      \/ detail # Nothing /\ detail' = [detail EXCEPT !.same = FALSE]
  BY DEF Requery
<1> QED BY <1>1, <1>2, AsideKeeps

LEMMA RepliesKeep ==
  ASSUME VInv,
         Operate \/ SaveEnds \/ DetailFails \/ ListsReply \/ PageFails \/ PageDropped
           \/ \E p \in Page : Clamp(p)
  PROVE  Steps
<1> USE Bounds
<1>0. want \in Query /\ shown \in Query /\ present \subseteq Job
  BY DEF VInv, ShownTogether, ViewTypeOK
<1>1. CASE Operate
  BY <1>0, <1>1, SuspendKeeps, AsideKeeps DEF Operate, Superseded, pageVars
<1>2. CASE SaveEnds \/ DetailFails
  <2>1. ListIsOfActive'
    BY <1>2 DEF SaveEnds, DetailFails, VInv, ListIsOfActive, pageVars
  <2> QED BY <1>0, <1>2, <2>1, AsideKeeps DEF SaveEnds, DetailFails
<1>3. CASE ListsReply
  <2>1. PICK j \in Target :
          LET q == [job |-> j, page |-> IF j # shown.job THEN 1 ELSE list.q.page] IN
          Requery(q) /\ list' = [list EXCEPT !.q = q, !.stage = "page"]
    BY <1>3 DEF ListsReply
  <2> DEFINE q == [job |-> j, page |-> IF j # shown.job THEN 1 ELSE list.q.page]
  <2>2. j \in Job
    BY <1>0 DEF Target
  <2>3. list \in ListRequest /\ list.by \in Leads
    BY <1>3 DEF VInv, ListIsOfActive, ListsReply
  <2>4. q \in Query
    BY <2>2, <2>3 DEF Query, ListRequest
  <2>5. list' \in ListRequest /\ list'.by \in Leads
    BY <2>1, <2>3, <2>4 DEF ListRequest
  <2>6. ListIsOfActive'
    BY <2>5 DEF ListIsOfActive
  <2> QED BY <1>3, <2>1, <2>4, <2>6, RequeryKeeps DEF ListsReply
<1>4. CASE PageFails \/ PageDropped
  <2>1. ListIsOfActive'
    BY <1>4 DEF PageFails, PageDropped, ListIsOfActive
  <2>2. CASE PageFails
    BY <1>0, <2>1, <2>2, RequeryKeeps DEF PageFails
  <2>3. CASE PageDropped
    BY <1>0, <2>1, <2>3, AsideKeeps DEF PageDropped
  <2> QED BY <1>4, <2>2, <2>3
<1>5. ASSUME NEW p \in Page, Clamp(p) PROVE Steps
  <2>1. /\ list # Nothing /\ list \in ListRequest /\ list.stage = "page"
        /\ list.by \notin Leads => list.q.job = active
    BY <1>5 DEF VInv, ListIsOfActive, Clamp
  <2>2. [list.q EXCEPT !.page = p] \in Query
    BY <2>1 DEF ListRequest, Query
  <2>3. /\ list' \in ListRequest /\ list'.by = list.by /\ list'.stage = "page"
        /\ list'.q.job = list.q.job
    BY <1>5, <2>1, <2>2 DEF Clamp, ListRequest, Query
  <2>4. ListIsOfActive'
    BY <1>5, <2>1, <2>3 DEF ListIsOfActive, Clamp, pageVars
  <2> QED BY <1>5, <2>2, <2>4, RequeryKeeps DEF Clamp
<1> QED BY <1>1, <1>2, <1>3, <1>4, <1>5

----------------------------------------------------------------------------
(* The server writes. *)

LEMMA ServerKeeps ==
  ASSUME VInv, Written \/ (\E r \in Record : Analysed(r)) \/ (\E j \in Job : Removed(j))
  PROVE  Steps
<1> USE Bounds
<1>1. UNCHANGED <<pageVars, want, list, sel, detail>> /\ present' \subseteq Job
  BY DEF Written, Analysed, Removed, VInv, ShownTogether, ViewTypeOK
<1>2. /\ version' \in [Record -> 1 .. MaxVersion]
      /\ \A r \in Record : version'[r] >= version[r]
  BY DEF Written, Analysed, Removed, VInv, ShownTogether, ViewTypeOK, SaveIsOfOpen, SaveRequest
<1>3. ShownTogether' /\ OpenIsOfServer' /\ DraftStep /\ VersionStep
  BY <1>1, <1>2, OpenStays DEF VInv, ShownTogether, ViewTypeOK
<1>4. ListIsOfActive' /\ DetailIsOfOpen'
  BY <1>1 DEF VInv, ListIsOfActive, DetailIsOfOpen, pageVars
<1>5. SaveIsOfOpen'
  <2>1. CASE save' = save
    <3>1. save # Nothing => save.rec \in Record /\ save.ver \in 0 .. MaxVersion
      BY DEF VInv, SaveIsOfOpen, SaveRequest
    <3>2. save # Nothing => version[save.rec] \in 1 .. MaxVersion /\ version'[save.rec] \in 1 .. MaxVersion
                            /\ version'[save.rec] >= version[save.rec]
      BY <1>2, <3>1 DEF VInv, ShownTogether, ViewTypeOK
    <3>3. (save # Nothing /\ save.stage # "sent") => save.ver \in 1 .. version'[save.rec]
      BY <3>1, <3>2 DEF VInv, SaveIsOfOpen
    <3> QED BY <1>1, <2>1, <3>3 DEF VInv, SaveIsOfOpen
  <2>2. CASE Written
    <3>1. /\ save # Nothing /\ save.stage = "sent" /\ save \in SaveRequest
          /\ version[save.rec] \in 1 .. MaxVersion /\ version[save.rec] < MaxVersion
      BY <2>2 DEF Written, VInv, SaveIsOfOpen, SaveRequest, ShownTogether, ViewTypeOK
    <3>2. /\ save' \in SaveRequest /\ save'.rec = save.rec /\ save'.draft = save.draft
          /\ save'.rev = save.rev /\ save'.ver = version[save.rec] + 1
      <4>1. version[save.rec] + 1 \in 0 .. MaxVersion
        BY <3>1
      <4>2. save' = [save EXCEPT !.stage = "written", !.ver = version[save.rec] + 1]
        BY <2>2 DEF Written
      <4> QED BY <3>1, <4>1, <4>2 DEF SaveRequest
    <3>3. version'[save.rec] = version[save.rec] + 1
      BY <2>2, <3>1 DEF Written, SaveRequest, VInv, ShownTogether, ViewTypeOK
    <3>4. save'.ver \in 1 .. version'[save'.rec]
      BY <3>1, <3>2, <3>3
    <3> QED BY <1>1, <3>1, <3>2, <3>4 DEF VInv, SaveIsOfOpen
  <2> QED BY <2>1, <2>2 DEF Analysed, Removed
<1> QED BY <1>3, <1>4, <1>5 DEF Steps, VInv

----------------------------------------------------------------------------
(* The open record. *)

LEMMA OpenRecordKeeps == ASSUME VInv, NEW r \in Record, OpenRecord(r) PROVE Steps
<1> USE Bounds
<1>1. ShownTogether' /\ OpenIsOfServer' /\ ListIsOfActive'
  BY DEF OpenRecord, VInv, ShownTogether, ViewTypeOK, OpenIsOfServer, ListIsOfActive, serverVars, pageVars
<1>2. DetailIsOfOpen'
  BY DEF OpenRecord, Fetching, VInv, ShownTogether, ViewTypeOK, DetailIsOfOpen, DetailRequest
<1>3. SaveIsOfOpen'
  <2>1. CASE save = Nothing
    BY <2>1 DEF OpenRecord, SaveIsOfOpen
  <2>2. CASE save # Nothing
    <3>1. SameSave /\ save'.rev = FALSE
      BY <2>2 DEF OpenRecord, VInv, SaveIsOfOpen, SaveRequest, SameSave
    <3> QED BY <2>2, <3>1, SaveOlder DEF OpenRecord, serverVars
  <2> QED BY <2>1, <2>2
<1>4. DraftStep /\ VersionStep
  BY DEF OpenRecord, DraftStep, VersionStep
<1> QED BY <1>1, <1>2, <1>3, <1>4 DEF Steps, VInv

LEMMA EditKeeps == ASSUME VInv, Edit PROVE Steps
<1> USE Bounds
<1>1. /\ sel # Nothing /\ sel.rec \in items
      /\ sel \in [rec : Record, ver : 1 .. MaxVersion, draft : 0 .. MaxDraft]
  BY DEF Edit, VInv, ShownTogether, ViewTypeOK
<1>2. /\ sel' \in [rec : Record, ver : 1 .. MaxVersion, draft : 0 .. MaxDraft]
      /\ sel'.rec = sel.rec /\ sel'.ver = sel.ver
  BY <1>1 DEF Edit
<1>3. ShownTogether'
  BY <1>1, <1>2 DEF Edit, VInv, ShownTogether, ViewTypeOK, serverVars, pageVars
<1>4. OpenIsOfServer' /\ ListIsOfActive' /\ DetailIsOfOpen'
  BY <1>1, <1>2 DEF Edit, VInv, OpenIsOfServer, ListIsOfActive, DetailIsOfOpen, serverVars, pageVars
<1>5. SaveIsOfOpen'
  <2>1. CASE save = Nothing
    BY <2>1 DEF Edit, SaveIsOfOpen
  <2>2. CASE save # Nothing
    <3>1. SameSave /\ save'.rev = FALSE
      BY <2>2 DEF Edit, VInv, SaveIsOfOpen, SaveRequest, SameSave
    <3> QED BY <2>2, <3>1, SaveOlder DEF Edit, serverVars
  <2> QED BY <2>1, <2>2
<1>6. VersionStep
  BY <1>1, <1>2 DEF VersionStep
<1> QED BY <1>3, <1>4, <1>5, <1>6 DEF Steps, VInv, DraftStep

LEMMA SaveKeeps == ASSUME VInv, Save PROVE Steps
<1> USE Bounds
<1>1. UNCHANGED <<serverVars, pageVars, want, sel>>
  BY DEF Save
<1>2. ShownTogether' /\ OpenIsOfServer' /\ DraftStep /\ VersionStep
  <2>1. \A r \in Record : version[r] >= version[r]
    BY DEF VInv, ShownTogether, ViewTypeOK
  <2> QED BY <1>1, <2>1, OpenStays DEF VInv, ShownTogether, ViewTypeOK, serverVars
<1>3. /\ ListIsOfActive'
      /\ \/ detail' \in {detail, Nothing}
         \/ detail # Nothing /\ detail' = [detail EXCEPT !.same = FALSE]
  BY <1>1, SuspendKeeps DEF Save, pageVars
<1>4. DetailIsOfOpen'
  BY <1>1, <1>3, StaleDetail
<1>5. SaveIsOfOpen'
  BY <1>1 DEF Save, SaveIsOfOpen, SaveRequest, VInv, ShownTogether, ViewTypeOK
<1> QED BY <1>2, <1>3, <1>4, <1>5 DEF Steps, VInv

LEMMA SavedKeeps == ASSUME VInv, Saved PROVE Steps
<1> USE Bounds
<1>1. /\ save # Nothing /\ save \in SaveRequest /\ save.stage = "written" /\ save.rev
      /\ save.ver \in 1 .. version[save.rec]
      /\ sel # Nothing /\ sel.rec = save.rec /\ sel.draft = save.draft
  BY DEF Saved, SavedThisDraft, VInv, SaveIsOfOpen
<1>2. save.rec \in Record /\ save.rec \in items /\ version[save.rec] \in 1 .. MaxVersion
  BY <1>1 DEF SaveRequest, VInv, ShownTogether, ViewTypeOK
<1>3. /\ sel' = [rec |-> save.rec, ver |-> save.ver, draft |-> 0]
      /\ save.ver \in 1 .. MaxVersion /\ UNCHANGED <<serverVars, pageVars>>
  BY <1>1, <1>2 DEF Saved
<1>4. sel' \in [rec : Record, ver : 1 .. MaxVersion, draft : 0 .. MaxDraft]
  BY <1>2, <1>3
<1>5. ListIsOfActive' /\ want' \in Query /\ detail' = Nothing
  BY <1>3, RefreshQueries, AskIsOfActive
     DEF Saved, Leads, Others, VInv, ShownTogether, ViewTypeOK
<1>6. ShownTogether'
  BY <1>2, <1>3, <1>4, <1>5 DEF VInv, ShownTogether, ViewTypeOK, serverVars, pageVars
<1>7. OpenIsOfServer'
  BY <1>1, <1>2, <1>3 DEF OpenIsOfServer, serverVars
<1>8. DetailIsOfOpen'
  BY <1>5 DEF DetailIsOfOpen
<1>9. save' = [save EXCEPT !.stage = "refresh"]
  BY DEF Saved
<1>10. /\ save' \in SaveRequest /\ save'.rec = save.rec /\ save'.ver = save.ver
       /\ save'.stage = "refresh"
  BY <1>1, <1>9 DEF SaveRequest
<1>11. sel' # Nothing
  BY <1>2, <1>3
<1>12. SaveIsOfOpen'
  BY <1>1, <1>3, <1>10, <1>11 DEF SaveIsOfOpen, serverVars
<1>13. DraftStep
  BY <1>1, <1>11 DEF DraftStep
<1>14. VersionStep
  BY <1>1, <1>10 DEF VersionStep
<1> QED BY <1>5, <1>6, <1>7, <1>8, <1>12, <1>13, <1>14 DEF Steps, VInv

LEMMA DetailReplyKeeps == ASSUME VInv, NEW v \in 1 .. MaxVersion, DetailReply(v) PROVE Steps
<1> USE Bounds
<1>1. /\ detail # Nothing /\ detail \in DetailRequest /\ v \in detail.seen .. version[detail.rec]
      /\ sel # Nothing => detail.rec = sel.rec /\ sel.draft = 0 /\ sel.ver <= detail.seen
      /\ UNCHANGED <<serverVars, pageVars, want, list, save>> /\ detail' = Nothing
  BY DEF DetailReply, VInv, DetailIsOfOpen
<1>2. ListIsOfActive' /\ DetailIsOfOpen'
  BY <1>1 DEF VInv, ListIsOfActive, DetailIsOfOpen, pageVars
<1>3. CASE sel' = sel
  <2>1. ShownTogether' /\ OpenIsOfServer' /\ SaveIsOfOpen'
    BY <1>1, <1>3 DEF VInv, ShownTogether, ViewTypeOK, OpenIsOfServer, SaveIsOfOpen, serverVars, pageVars
  <2>2. VersionStep
    BY <1>3 DEF VersionStep, VInv, ShownTogether, ViewTypeOK
  <2> QED BY <1>2, <1>3, <2>1, <2>2 DEF Steps, VInv, DraftStep
<1>4. CASE sel' # sel
  <2>1. /\ sel' = [rec |-> detail.rec, ver |-> v, draft |-> 0] /\ detail.rec \in items
        /\ detail.rec \in Record /\ detail.seen \in 1 .. MaxVersion
    BY <1>1, <1>4 DEF DetailReply, DetailRequest
  <2>2. sel' \in [rec : Record, ver : 1 .. MaxVersion, draft : 0 .. MaxDraft] /\ sel' # Nothing
    BY <2>1
  <2>3. ShownTogether'
    BY <1>1, <2>1, <2>2 DEF VInv, ShownTogether, ViewTypeOK, serverVars, pageVars
  <2>4. OpenIsOfServer'
    BY <1>1, <2>1 DEF OpenIsOfServer, serverVars, VInv, ShownTogether, ViewTypeOK
  <2>5. SaveIsOfOpen'
    BY <1>1, <2>1, <2>2 DEF VInv, SaveIsOfOpen, serverVars
  <2>6. DraftStep
    BY <1>1 DEF DraftStep, Dirty
  <2>7. VersionStep
    <3>1. sel # Nothing => sel.ver \in Nat
      BY DEF VInv, ShownTogether, ViewTypeOK
    <3> QED BY <1>1, <2>1, <3>1 DEF VersionStep
  <2> QED BY <1>2, <2>3, <2>4, <2>5, <2>6, <2>7 DEF Steps, VInv
<1> QED BY <1>3, <1>4

----------------------------------------------------------------------------
(* Another page, another job, none. *)

LEMMA DeleteJobKeeps == ASSUME VInv, NEW j \in Job, DeleteJob(j) PROVE Steps
<1> USE Bounds
<1>1. UNCHANGED <<version, pageVars>> /\ present' \subseteq Job /\ sel' \in {sel, Nothing}
  BY DEF DeleteJob, VInv, ShownTogether, ViewTypeOK
<1>2. ListIsOfActive' /\ want' \in Query /\ detail' = Nothing
  <2>1. (IF j = active THEN shown.job ELSE active) \in Job \cup {Nothing}
    BY DEF VInv, ShownTogether, ViewTypeOK
  <2> QED BY <2>1, RefreshQueries, AskIsOfActive DEF DeleteJob, Leads, Others
<1>3. ShownTogether' /\ OpenIsOfServer'
  BY <1>1, <1>2 DEF VInv, ShownTogether, ViewTypeOK, OpenIsOfServer, pageVars
<1>4. DetailIsOfOpen'
  BY <1>2 DEF DetailIsOfOpen
<1>5. SaveIsOfOpen'
  <2>1. CASE save' = save /\ sel' = sel
    BY <1>1, <2>1 DEF VInv, SaveIsOfOpen
  <2>2. CASE save = Nothing
    BY <2>2 DEF DeleteJob, SaveIsOfOpen
  <2>3. CASE save # Nothing /\ sel' # sel
    <3>1. SameSave /\ save'.rev = FALSE
      BY <2>3 DEF DeleteJob, VInv, SaveIsOfOpen, SaveRequest, SameSave
    <3> QED BY <1>1, <2>3, <3>1, SaveOlder
  <2> QED BY <2>1, <2>2, <2>3 DEF DeleteJob
<1>6. DraftStep
  BY DEF DraftStep
<1>7. VersionStep
  BY <1>1 DEF VersionStep, VInv, ShownTogether, ViewTypeOK
<1> QED BY <1>2, <1>3, <1>4, <1>5, <1>6, <1>7 DEF Steps, VInv

LEMMA NoJobsKeeps == ASSUME VInv, NoJobs PROVE Steps
<1> USE Bounds
<1>1. ShownTogether' /\ OpenIsOfServer' /\ ListIsOfActive' /\ DetailIsOfOpen'
  BY DEF NoJobs, NoQuery, VInv, ShownTogether, ViewTypeOK, OpenIsOfServer, ListIsOfActive,
         DetailIsOfOpen, serverVars
<1>2. SaveIsOfOpen'
  <2>1. CASE save = Nothing
    BY <2>1 DEF NoJobs, SaveIsOfOpen
  <2>2. CASE save # Nothing
    <3>1. save \in SaveRequest /\ save' = [save EXCEPT !.op = @ /\ active = Nothing, !.rev = FALSE]
      BY <2>2 DEF NoJobs, VInv, SaveIsOfOpen
    <3>2. SameSave /\ save'.rev = FALSE
      BY <3>1 DEF SaveRequest, SameSave
    <3> QED BY <2>2, <3>2, SaveOlder DEF NoJobs, serverVars
  <2> QED BY <2>1, <2>2
<1>3. DraftStep /\ VersionStep
  BY DEF NoJobs, DraftStep, VersionStep
<1> QED BY <1>1, <1>2, <1>3 DEF Steps, VInv

LEMMA PageReplyKeeps ==
  ASSUME VInv, NEW page \in SUBSET Record, PageReply(page)
  PROVE  Steps
<1> USE Bounds
<1> DEFINE kept == KeptBeside(list.q, page)
<1>1. /\ list # Nothing /\ list \in ListRequest /\ list.q \in Query
      /\ list.by \notin Leads => list.q.job = active
  BY DEF PageReply, VInv, ListIsOfActive, ListRequest
<1>2. ActiveAfter(list.q) = list.q.job
  BY <1>1 DEF ActiveAfter, Leads
<1>3. /\ kept \in {sel, Nothing} /\ sel' = kept
      /\ kept # Nothing => kept.rec \in page
      /\ sel # Nothing /\ kept # sel => sel.rec \notin page
  <2>1. \A r \in page : JobOf[r] = list.q.job
    BY DEF PageReply
  <2> QED BY <2>1 DEF PageReply, KeptBeside
<1>4. ShownTogether'
  BY <1>1, <1>2, <1>3 DEF PageReply, VInv, ShownTogether, ViewTypeOK, serverVars, Query
<1>5. OpenIsOfServer' /\ ListIsOfActive'
  BY <1>3 DEF PageReply, VInv, OpenIsOfServer, ListIsOfActive, serverVars
<1>6. DetailIsOfOpen'
  <2>1. CASE detail' = Nothing
    BY <2>1 DEF DetailIsOfOpen
  <2>2. CASE kept = sel /\ detail' = detail
    BY <1>3, <2>2 DEF VInv, DetailIsOfOpen
  <2>3. CASE kept # Nothing /\ detail' = Refetch(kept) /\ detail' # Nothing
    <3>1. /\ sel' = kept /\ kept = sel /\ sel # Nothing
          /\ sel \in [rec : Record, ver : 1 .. MaxVersion, draft : 0 .. MaxDraft]
      BY <1>3, <2>3 DEF VInv, ShownTogether, ViewTypeOK
    <3>2. sel.draft = 0
      <4>1. ~(sel.draft > 0)
        BY <2>3, <3>1 DEF Refetch
      <4>2. sel.draft \in 0 .. MaxDraft
        BY <3>1
      <4> QED BY <4>1, <4>2
    <3>3. /\ detail' = [rec |-> sel.rec, by |-> list.by, seen |-> version[sel.rec], same |-> TRUE]
          /\ version[sel.rec] \in 1 .. MaxVersion /\ sel.ver <= version[sel.rec]
      BY <2>3, <3>1, <3>2 DEF Refetch, Fetching, VInv, OpenIsOfServer, ShownTogether, ViewTypeOK
    <3>4. detail' \in DetailRequest
      BY <1>1, <3>1, <3>3 DEF DetailRequest, ListRequest
    <3> QED BY <3>1, <3>2, <3>3, <3>4 DEF DetailIsOfOpen
  <2> QED BY <2>1, <2>2, <2>3 DEF PageReply
<1>7. SaveIsOfOpen'
  <2>1. CASE save = Nothing
    BY <2>1 DEF PageReply, SaveIsOfOpen
  <2>2. CASE save # Nothing
    <3>1. /\ save \in SaveRequest
          /\ save' = [save EXCEPT !.op = @ /\ ActiveAfter(list.q) = active,
                                  !.rev = @ /\ kept = sel]
      BY <2>2 DEF PageReply, VInv, SaveIsOfOpen
    <3>2. SameSave
      BY <3>1 DEF SaveRequest, SameSave
    <3>3. save'.rev => save.rev /\ kept = sel
      BY <3>1 DEF SaveRequest
    <3>4. save.rev => sel # Nothing
      BY <2>2 DEF VInv, SaveIsOfOpen
    <3> QED BY <1>3, <2>2, <3>2, <3>3, <3>4, SaveOlder DEF PageReply, serverVars
  <2> QED BY <2>1, <2>2
<1>8. DraftStep
  BY <1>3 DEF DraftStep, Dirty, PageReply
<1>9. VersionStep
  BY <1>3 DEF VersionStep, VInv, ShownTogether, ViewTypeOK
<1> QED BY <1>4, <1>5, <1>6, <1>7, <1>8, <1>9 DEF Steps, VInv

----------------------------------------------------------------------------

LEMMA VInvInit == ViewInit => VInv
BY Bounds DEF ViewInit, NoQuery, VInv, ShownTogether, ViewTypeOK, ListIsOfActive, DetailIsOfOpen,
              SaveIsOfOpen, OpenIsOfServer

LEMMA VInvNext == VInv /\ [ViewNext]_viewVars => Steps
<1> SUFFICES ASSUME VInv, [ViewNext]_viewVars PROVE Steps
  OBVIOUS
<1>1. CASE UNCHANGED viewVars
  BY <1>1, Bounds DEF viewVars, Steps, DraftStep, VersionStep, VInv, ShownTogether, ViewTypeOK,
     ListIsOfActive, DetailIsOfOpen, SaveIsOfOpen, OpenIsOfServer
<1>2. CASE ViewNext
  BY <1>2, RequestsKeep, RepliesKeep, ServerKeeps, OpenRecordKeeps, EditKeeps, SaveKeeps,
     SavedKeeps, DetailReplyKeeps, DeleteJobKeeps, NoJobsKeeps, PageReplyKeeps DEF ViewNext
<1> QED BY <1>1, <1>2

\* The inductive invariant: what is shown, with the requests under way.
THEOREM ViewInvariant == ViewSpec => []VInv
<1>1. Steps => VInv'
  BY DEF Steps
<1> QED BY <1>1, VInvInit, VInvNext, PTL DEF ViewSpec

\* The page shown is of the job shown, and the record open is of the page,
\* whatever replies come late.
THEOREM ShownStaysTogether == ViewSpec => []ShownTogether
<1>1. VInv => ShownTogether
  BY DEF VInv
<1> QED BY <1>1, ViewInvariant, PTL

\* No late reply takes a draft the person did not give up or save, and a record
\* is not shown older than it was.
THEOREM DraftsStand == ViewSpec => ViewStands
<1>1. VInv /\ [ViewNext]_viewVars => [DraftStep /\ VersionStep]_viewVars
  BY VInvNext DEF Steps
<1> QED BY <1>1, ViewInvariant, PTL DEF ViewSpec, ViewStands, DraftStep, VersionStep

----------------------------------------------------------------------------
(* What is polled. *)

\* A poll in progress belongs to the poller there is; no poller, no polls.
PollInv ==
  /\ poller = NoPoll => polls = {}
  /\ poller # NoPoll =>
       /\ poller \in Pollers
       /\ polls = {} \/ \E poll : polls = {poll}
       /\ ~poller.suspended => (poller.timer <=> polls = {})
       /\ poller.suspended => ~poller.timer

\* A poller goes on waiting when it is scheduled.
LEMMA ScheduledWaits ==
  ASSUME NEW p \in Pollers, NEW waiting \in BOOLEAN, ~p.timer
  PROVE  /\ Scheduled(p, waiting) \in Pollers /\ Scheduled(p, waiting).suspended = p.suspended
         /\ Scheduled(p, waiting).timer <=> ~p.suspended /\ ~waiting
BY DEF Scheduled, Pollers

LEMMA PollInitially == PollInit => PollInv
BY DEF PollInit, PollInv

LEMMA OverStep ==
  ASSUME PollInv, NEW poll \in polls, Over(poll)
  PROVE  PollInv'
<1>1. poller # NoPoll /\ poller \in Pollers /\ polls = {poll} /\ ~poller.timer
  BY DEF PollInv
<1>2. polls' = {} /\ poller' = Scheduled(poller, FALSE)
  <2>1. polls' = {}
    BY <1>1 DEF Over
  <2> QED BY <2>1 DEF Over
<1> DEFINE next == Scheduled(poller, FALSE)
<1>3. next \in Pollers /\ next.suspended = poller.suspended /\ (next.timer <=> ~poller.suspended)
  BY <1>1, ScheduledWaits
<1> HIDE DEF next
<1> QED BY <1>2, <1>3, PollingAssumption DEF PollInv, next

LEMMA PollStep == PollInv /\ [PollNext]_pollVars => PollInv'
<1> SUFFICES ASSUME PollInv, [PollNext]_pollVars PROVE PollInv'
  OBVIOUS
<1>1. CASE StartAnalysis
  <2> DEFINE p == [gen |-> 1, timer |-> FALSE, suspended |-> FALSE]
             next == Scheduled(p, FALSE)
  <2>1. p \in Pollers /\ ~p.timer /\ ~p.suspended
    BY DEF Pollers
  <2>2. polls' = {} /\ poller' = next
    BY <1>1 DEF StartAnalysis
  <2> HIDE DEF p
  <2>3. next \in Pollers /\ ~next.suspended /\ next.timer
    BY <2>1, ScheduledWaits
  <2> HIDE DEF next
  <2> QED BY <2>2, <2>3, PollingAssumption DEF PollInv
<1>2. CASE CancelPoll
  BY <1>2 DEF CancelPoll, PollInv
<1>3. CASE Ends \/ StartsElsewhere \/ SeesJob
  BY <1>3 DEF Ends, StartsElsewhere, SeesJob, PollInv
<1>4. CASE Fires
  <2>1. poller # NoPoll /\ poller \in Pollers /\ poller.timer /\ ~poller.suspended /\ polls = {}
    BY <1>4 DEF Fires, PollInv
  <2>2. /\ poller' = [poller EXCEPT !.timer = FALSE]
        /\ polls' = {[gen |-> poller.gen, stage |-> "job", to |-> "none"]}
    BY <1>4, <2>1 DEF Fires
  <2>3. poller' \in Pollers /\ ~poller'.timer /\ ~poller'.suspended
    BY <2>1, <2>2 DEF Pollers
  <2> QED BY <2>2, <2>3, PollingAssumption DEF PollInv
<1>5. ASSUME NEW o \in Operation, SuspendPoll(o) PROVE PollInv'
  <2>1. poller # NoPoll /\ poller \in Pollers /\ polls' = polls
    BY <1>5 DEF SuspendPoll, PollInv
  <2>2. poller' = [gen |-> poller.gen + 1, timer |-> FALSE, suspended |-> TRUE]
    BY <1>5 DEF SuspendPoll
  <2>3. poller' \in Pollers /\ ~poller'.timer /\ poller'.suspended
    BY <2>1, <2>2 DEF Pollers
  <2> QED BY <2>1, <2>3, PollingAssumption DEF PollInv
<1>6. ASSUME NEW o \in Operation, ResumePoll(o) PROVE PollInv'
  <2>1. polls' = polls
    BY <1>6 DEF ResumePoll
  <2>2. CASE poller' = poller
    BY <2>1, <2>2 DEF PollInv
  <2>3. CASE poller # NoPoll /\ MayResume(o)
    <3> DEFINE p == [poller EXCEPT !.suspended = FALSE]
               next == Scheduled(p, polls # {})
    <3>1. p \in Pollers /\ ~p.timer /\ ~p.suspended
      BY <2>3 DEF Pollers, PollInv, MayResume
    <3>2. poller' = next
      BY <1>6, <2>3 DEF ResumePoll
    <3> HIDE DEF p
    <3>3. next \in Pollers /\ ~next.suspended /\ (next.timer <=> polls = {})
      BY <3>1, ScheduledWaits
    <3> HIDE DEF next
    <3> QED BY <2>1, <2>3, <3>2, <3>3, PollingAssumption DEF PollInv
  <2> QED BY <1>6, <2>2, <2>3 DEF ResumePoll
<1>7. ASSUME NEW poll \in polls, JobReply(poll) \/ JobFails(poll) \/ PollPageReply(poll) PROVE PollInv'
  <2>1. CASE Over(poll)
    BY <2>1, OverStep
  <2>2. CASE poller' = NoPoll /\ polls' = {}
    BY <2>2 DEF PollInv
  <2>3. CASE /\ polls' = (polls \ {poll}) \cup {[poll EXCEPT !.stage = "page", !.to = seen']}
             /\ poller' = poller
    <3>1. poller # NoPoll /\ polls = {poll}
      BY DEF PollInv
    <3>2. polls' = {[poll EXCEPT !.stage = "page", !.to = seen']}
      BY <2>3, <3>1
    <3> QED BY <2>3, <3>1, <3>2 DEF PollInv
  <2> QED BY <1>7, <2>1, <2>2, <2>3 DEF JobReply, JobFails, PollPageReply
<1>8. CASE UNCHANGED pollVars
  BY <1>8 DEF pollVars, PollInv
<1> QED BY <1>1, <1>2, <1>3, <1>4, <1>5, <1>6, <1>7, <1>8 DEF PollNext

LEMMA PollInvStands == PollInv => OnePollAtATime
<1> SUFFICES ASSUME PollInv, poller # NoPoll PROVE Cardinality(polls) <= 1
  BY DEF PollInv, OnePollAtATime
<1>1. CASE polls = {}
  BY <1>1, FS_EmptySet
<1>2. CASE \E poll : polls = {poll}
  <2>1. PICK poll : polls = {poll}
    BY <1>2
  <2>2. Cardinality({poll}) = 1
    BY FS_Singleton
  <2> QED BY <2>1, <2>2
<1> QED BY <1>1, <1>2 DEF PollInv

\* A tab polls one thing at a time, for any operations that suspend it.
THEOREM PollsOnce == PollSpec => []OnePollAtATime
BY PollInitially, PollStep, PollInvStands, PTL DEF PollSpec

----------------------------------------------------------------------------
(* What is started. *)

AskedOf == [job : TaskJob, ids : SUBSET TaskRecord, toward : TaskJob \cup {NoTask}]
Kinds == {"capacity", "start", "single", "options", "retry", "stop"}
FlightOf == [id : Nat \ {0}, kind : Kinds, job : TaskJob, ids : SUBSET TaskRecord, asked : AskedOf,
             stage : {"sent", "served"}, skips : BOOLEAN]

\* Operations are numbered, and a number is given once.
StartsTyped ==
  /\ token \in Nat /\ open \in TaskJob /\ heading \in TaskJob \cup {NoTask}
  /\ confined \subseteq TaskRecord
  /\ run \in [TaskJob -> SUBSET TaskRecord] /\ by \in [TaskJob -> AskedOf \cup {NoTask}]
  /\ flights \subseteq FlightOf /\ \A f \in flights : f.id <= token
  /\ \A f, g \in flights : f.id = g.id => f = g

\* What was asked for is of the job shown then; only a batch may be sent to the
\* job that was being opened.
Means(f) ==
  /\ f.asked.ids \subseteq Of(f.asked.job)
  /\ f.kind = "start" => f.ids = f.asked.ids /\ f.job \in {f.asked.job, f.asked.toward}
  /\ f.kind # "start" => f.asked.job = f.job
  /\ f.kind \in {"options", "retry"} => f.asked.ids = {}

\* The dialog shown, and the one that the last operation may still bring, are for
\* the records that are kept for the next batch; the job shown is the one they
\* were asked for in, or the one it was then left for.
Proposes(asked) ==
  /\ asked \in AskedOf /\ asked.ids \subseteq Of(asked.job) /\ asked.ids = confined
  /\ \/ open = asked.job /\ heading \in {NoTask, asked.toward}
     \/ open = asked.toward /\ heading = NoTask
Coming(f) == busy = f.id /\ f.job = open /\ f.asked.ids = confined /\ heading \in {NoTask, f.asked.toward}
DialogsMean ==
  /\ offered # NoTask => Proposes(offered)
  /\ offer # NoTask => offer \in AskedOf /\ offer.ids = {}
  /\ \A f \in flights : f.kind = "capacity" /\ f.id = token => Coming(f)

StartsInv == /\ StartsTyped /\ DialogsMean /\ StartsHold
             /\ \A f \in flights : Means(f)

LEMMA StartsInitially == StartInit => StartsInv
BY DEF StartInit, StartsInv, StartsTyped, DialogsMean, StartsHold, Of

\* An operation of the job shown is sent.
LEMMA DepartStep ==
  ASSUME StartsInv, NEW kind \in Kinds, NEW ids \in SUBSET TaskRecord, NEW asked \in AskedOf,
         Depart(kind, ids, asked), Means(Flight(kind, ids, asked)),
         UNCHANGED <<run, by, open, heading, ticks>>, confined' \subseteq TaskRecord,
         kind = "capacity" => busy' = token + 1 /\ asked.ids = confined' /\ asked.toward = heading,
         busy' = busy \/ (busy' = token + 1 /\ kind \in {"capacity", "start", "single"}),
         acting' = acting \/ (acting' = token + 1 /\ kind \in {"options", "retry", "stop"}),
         offered' = NoTask \/ UNCHANGED <<offered, confined>>, offer' \in {offer, NoTask}
  PROVE  StartsInv'
<1> DEFINE new == Flight(kind, ids, asked)
<1>0. StartsTyped /\ DialogsMean /\ StartsHold /\ \A f \in flights : Means(f)
  BY DEF StartsInv
<1>1. new \in FlightOf /\ new.id = token + 1 /\ new.job = open /\ new.kind = kind /\ new.asked = asked
  BY <1>0 DEF StartsTyped, Flight, FlightOf
<1>2. token' = token + 1 /\ flights' = flights \cup {new} /\ Means(new)
  BY DEF Depart
<1> HIDE DEF new
<1>3. \A f \in flights : f.id \in Nat /\ f.id <= token /\ f.id # token + 1
  BY <1>0 DEF StartsTyped, FlightOf
<1>4. StartsTyped'
  BY <1>0, <1>1, <1>2, <1>3 DEF StartsTyped
<1>5. busy' # 0 => \E f \in flights' : f.id = busy' /\ f.job = open /\ f.kind \in {"capacity", "start", "single"}
  BY <1>0, <1>1, <1>2 DEF StartsHold
<1>6. acting' # 0 => \E f \in flights' : f.id = acting' /\ f.job = open /\ f.kind \in {"options", "retry", "stop"}
  BY <1>0, <1>1, <1>2 DEF StartsHold
<1>7. \A f \in flights' : Means(f)'
  BY <1>0, <1>2 DEF Means, Of
<1>8. DialogsMean'
  <2>1. ASSUME NEW f \in flights', f.kind = "capacity", f.id = token' PROVE Coming(f)'
    <3>1. f = new
      BY <1>2, <1>3, <2>1
    <3> QED BY <1>1, <1>2, <2>1, <3>1 DEF Coming
  <2>2. offered' # NoTask => Proposes(offered)'
    BY <1>0 DEF DialogsMean, Proposes, Of
  <2>3. offer' # NoTask => offer' \in AskedOf /\ offer'.ids = {}
    BY <1>0 DEF DialogsMean
  <2> QED BY <2>1, <2>2, <2>3 DEF DialogsMean
<1>9. \A j \in TaskJob : run'[j] # {} => AsAsked(j, by[j])'
  BY <1>0 DEF StartsHold, AsAsked, Of
<1> QED BY <1>0, <1>4, <1>5, <1>6, <1>7, <1>8, <1>9 DEF StartsInv, StartsHold, Of

\* A gesture that sends nothing.
LEMMA QuietStep ==
  ASSUME StartsInv, UNCHANGED <<run, by, open, token, busy, acting, flights>>,
         heading' \in {heading, NoTask}, ticks' \subseteq Of(open), confined' \subseteq TaskRecord,
         confined' = confined \/ (busy = 0 /\ offered' = NoTask),
         offered' \in {offered, NoTask}, offer' \in {offer, NoTask}
  PROVE  StartsInv'
<1>0. StartsTyped /\ DialogsMean /\ StartsHold /\ \A f \in flights : Means(f)
  BY DEF StartsInv
<1>1. StartsTyped'
  BY <1>0 DEF StartsTyped
<1>2. StartsHold'
  BY <1>0 DEF StartsHold, AsAsked, Of
<1>3. \A f \in flights' : Means(f)'
  BY <1>0 DEF Means, Of
<1>4. ASSUME NEW f \in flights, f.kind = "capacity", f.id = token PROVE Coming(f)'
  <2>1. Coming(f) /\ f.id # 0
    BY <1>0, <1>4 DEF DialogsMean, StartsTyped, FlightOf
  <2> QED BY <2>1 DEF Coming
<1>5. offered' # NoTask => Proposes(offered)'
  BY <1>0 DEF DialogsMean, Proposes, Of
<1> QED BY <1>0, <1>1, <1>2, <1>3, <1>4, <1>5 DEF StartsInv, DialogsMean

LEMMA GestureStep ==
  ASSUME StartsInv,
         \/ ClearTicks \/ AnalyseOne \/ CancelBatch \/ ConfirmBatch
         \/ RequestRetry \/ CancelRetry \/ ConfirmRetry \/ StopJob \/ ArriveFails
         \/ \E r \in TaskRecord : TickRecord(r)
         \/ \E ids \in {{}, ticks} : RequestBatch(ids)
  PROVE  StartsInv'
<1>0. /\ ticks \subseteq Of(open) /\ ticks \subseteq TaskRecord /\ confined \subseteq TaskRecord
      /\ {} \in SUBSET TaskRecord /\ open \in TaskJob /\ heading \in TaskJob \cup {NoTask}
  BY DEF StartsInv, StartsTyped, StartsHold, Of
<1>a. \A ids \in SUBSET TaskRecord :
        Asked(ids) \in AskedOf /\ Asked(ids).job = open /\ Asked(ids).ids = ids /\ Asked(ids).toward = heading
  BY <1>0 DEF Asked, AskedOf
<1>b. \A kind \in Kinds, ids \in SUBSET TaskRecord, asked \in AskedOf :
        LET f == Flight(kind, ids, asked)
        IN f.kind = kind /\ f.ids = ids /\ f.asked = asked /\ f.job = open
  BY DEF Flight
<1>c. ASSUME NEW kind \in Kinds \ {"start"} PROVE Means(Flight(kind, {}, Asked({})))
  <2>1. {} \subseteq Of(open)
    OBVIOUS
  <2> QED BY <1>0, <1>a, <1>b, <2>1 DEF Means
<1>1. CASE ClearTicks \/ CancelBatch \/ CancelRetry \/ ArriveFails \/ \E r \in TaskRecord : TickRecord(r)
  <2>1. /\ UNCHANGED <<run, by, open, token, busy, acting, flights, confined>>
        /\ heading' \in {heading, NoTask} /\ offered' \in {offered, NoTask} /\ offer' \in {offer, NoTask}
    BY <1>1 DEF ClearTicks, CancelBatch, CancelRetry, ArriveFails, TickRecord, runVars, View
  <2>2. ticks' \subseteq Of(open)
    BY <1>0, <1>1 DEF ClearTicks, CancelBatch, CancelRetry, ArriveFails, TickRecord
  <2> QED BY <1>0, <2>1, <2>2, QuietStep
<1>2. CASE AnalyseOne
  <2>1. /\ Depart("single", {}, Asked({})) /\ busy' = token + 1
        /\ UNCHANGED <<run, by, open, heading, ticks, confined, acting, offered, offer>>
    BY <1>2 DEF AnalyseOne, runVars, View
  <2>2. Means(Flight("single", {}, Asked({}))) /\ "single" \in Kinds
    BY <1>c DEF Kinds
  <2> QED BY <1>0, <1>a, <2>1, <2>2, DepartStep
<1>3. CASE ConfirmBatch
  <2>1. /\ Depart("start", confined, offered) /\ busy' = token + 1 /\ confined' = {} /\ offered' = NoTask
        /\ offered # NoTask /\ UNCHANGED <<run, by, open, heading, ticks, acting, offer>>
    BY <1>3 DEF ConfirmBatch, runVars, View
  <2>2. offered \in AskedOf /\ offered.ids \subseteq Of(offered.job) /\ offered.ids = confined
        /\ open \in {offered.job, offered.toward}
    BY <2>1 DEF StartsInv, DialogsMean, Proposes
  <2>3. "start" \in Kinds
    BY DEF Kinds
  <2>4. Means(Flight("start", confined, offered))
    BY <1>0, <1>b, <2>2, <2>3 DEF Means
  <2> QED BY <1>0, <2>1, <2>2, <2>3, <2>4, DepartStep
<1>4. CASE RequestRetry
  <2>1. /\ Depart("options", {}, Asked({})) /\ acting' = token + 1
        /\ UNCHANGED <<run, by, open, heading, ticks, confined, busy, offered, offer>>
    BY <1>4 DEF RequestRetry, runVars, View
  <2>2. Means(Flight("options", {}, Asked({}))) /\ "options" \in Kinds
    BY <1>c DEF Kinds
  <2> QED BY <1>0, <1>a, <2>1, <2>2, DepartStep
<1>5. CASE ConfirmRetry
  <2>1. /\ UNCHANGED <<run, by, open, heading, ticks, confined, busy, offered>>
        /\ offer # NoTask /\ offer.job = open /\ offer' = NoTask
    BY <1>5 DEF ConfirmRetry, RetryShown, runVars, View
  <2>2. CASE acting # 0
    <3>1. UNCHANGED <<token, flights, acting>>
      BY <1>5, <2>2 DEF ConfirmRetry
    <3> QED BY <1>0, <2>1, <3>1, QuietStep
  <2>3. CASE acting = 0
    <3>1. Depart("retry", {}, offer) /\ acting' = token + 1
      BY <1>5, <2>1, <2>3 DEF ConfirmRetry
    <3>2. offer \in AskedOf /\ offer.ids = {} /\ "retry" \in Kinds
      BY <2>1 DEF StartsInv, DialogsMean, Kinds
    <3>3. Means(Flight("retry", {}, offer))
      BY <1>0, <1>b, <2>1, <3>2 DEF Means
    <3> QED BY <1>0, <2>1, <3>1, <3>2, <3>3, DepartStep
  <2> QED BY <2>2, <2>3
<1>6. CASE StopJob
  <2>1. /\ Depart("stop", {}, Asked({})) /\ acting' = token + 1
        /\ UNCHANGED <<run, by, open, heading, ticks, confined, busy, offered, offer>>
    BY <1>6 DEF StopJob, runVars, View
  <2>2. Means(Flight("stop", {}, Asked({}))) /\ "stop" \in Kinds
    BY <1>c DEF Kinds
  <2> QED BY <1>0, <1>a, <2>1, <2>2, DepartStep
<1>7. CASE \E ids \in {{}, ticks} : RequestBatch(ids)
  <2>1. PICK ids \in {{}, ticks} : RequestBatch(ids)
    BY <1>7
  <2>2. /\ UNCHANGED <<run, by, open, heading, ticks, acting, offered, offer>> /\ confined' = ids
        /\ ids \in SUBSET TaskRecord /\ ids \subseteq Of(open) /\ busy = 0 /\ offered = NoTask
        /\ \/ Depart("capacity", {}, Asked(ids)) /\ busy' = token + 1
           \/ UNCHANGED <<token, flights, busy>>
    BY <1>0, <2>1 DEF RequestBatch, Covered, runVars, View
  <2>3. CASE UNCHANGED <<token, flights, busy>>
    BY <1>0, <2>2, <2>3, QuietStep
  <2>4. CASE Depart("capacity", {}, Asked(ids)) /\ busy' = token + 1
    <3>1. "capacity" \in Kinds
      BY DEF Kinds
    <3>2. Means(Flight("capacity", {}, Asked(ids)))
      BY <1>0, <1>a, <1>b, <2>2, <3>1 DEF Means
    <3> QED BY <1>0, <1>a, <2>2, <2>4, <3>1, <3>2, DepartStep
  <2> QED BY <2>2, <2>3, <2>4
<1> QED BY <1>1, <1>2, <1>3, <1>4, <1>5, <1>6, <1>7

\* What a run is given is what was asked for.
LEMMA GivenRun ==
  ASSUME StartsInv, NEW f \in flights, ServeStart(f) \/ ServeAction(f)
  PROVE  /\ run' \in [TaskJob -> SUBSET TaskRecord] /\ by' \in [TaskJob -> AskedOf \cup {NoTask}]
         /\ \A j \in TaskJob : run'[j] # {} => AsAsked(j, by[j])'
<1>0. /\ run \in [TaskJob -> SUBSET TaskRecord] /\ by \in [TaskJob -> AskedOf \cup {NoTask}]
      /\ \A j \in TaskJob : run[j] # {} => AsAsked(j, by[j])
      /\ f \in FlightOf /\ Means(f)
  BY DEF StartsInv, StartsTyped, StartsHold
<1>1. f.job \in TaskJob /\ f.asked \in AskedOf
  BY <1>0 DEF FlightOf
<1> DEFINE Fits(S) == /\ S \subseteq TaskRecord
                      /\ S # {} => /\ S \subseteq IF f.asked.ids = {} THEN Of(f.job) ELSE f.asked.ids
                                   /\ f.asked.ids # {} => f.asked.job = f.job
                                   /\ f.job \in {f.asked.job, f.asked.toward}
<1>2. \/ UNCHANGED <<run, by>>
      \/ run' = [run EXCEPT ![f.job] = {}] /\ UNCHANGED by
      \/ \E S : Fits(S) /\ run' = [run EXCEPT ![f.job] = S] /\ by' = [by EXCEPT ![f.job] = f.asked]
  <2>1. CASE ServeStart(f)
    <3> DEFINE S == Unfinished(IF f.ids = {} THEN Of(f.job) ELSE f.ids)
    <3>1. f.kind = "start" /\ (IF Accepts(f) /\ run[f.job] = {}
                               THEN run' = [run EXCEPT ![f.job] = S] /\ by' = [by EXCEPT ![f.job] = f.asked]
                               ELSE UNCHANGED <<run, by>>)
      BY <2>1 DEF ServeStart
    <3>2. f.ids = f.asked.ids /\ f.job \in {f.asked.job, f.asked.toward} /\ f.asked.ids \subseteq Of(f.asked.job)
      BY <1>0, <3>1 DEF Means
    <3>3. ASSUME Accepts(f) PROVE Fits(S)
      <4>1. S \subseteq Of(f.job) /\ S \subseteq TaskRecord
        BY <3>3 DEF Accepts, Unfinished, Of
      <4>2. f.ids # {} => S \subseteq f.ids
        BY DEF Unfinished
      <4>3. S # {} /\ f.ids # {} => f.asked.job = f.job
        BY <3>2, <4>1, <4>2 DEF Of
      <4> HIDE DEF S
      <4> QED BY <3>2, <4>1, <4>2, <4>3
    <3> HIDE DEF S, Fits
    <3> QED BY <3>1, <3>3
  <2>2. CASE ServeAction(f)
    <3> DEFINE S == {r \in Of(f.job) : status[r] = "failed"}
    <3>1. /\ f.kind \in {"retry", "stop"}
          /\ CASE f.kind = "stop" -> run' = [run EXCEPT ![f.job] = {}] /\ UNCHANGED by
               [] f.kind = "retry" /\ run[f.job] # {} -> UNCHANGED <<run, by>>
               [] OTHER -> run' = [run EXCEPT ![f.job] = S] /\ by' = [by EXCEPT ![f.job] = f.asked]
      BY <2>2 DEF ServeAction
    <3>2. f.kind = "retry" => f.asked.ids = {} /\ f.asked.job = f.job
      BY <1>0 DEF Means
    <3>3. S \subseteq Of(f.job) /\ S \subseteq TaskRecord
      BY DEF Of
    <3> HIDE DEF S
    <3>4. f.kind = "retry" => Fits(S)
      BY <3>2, <3>3
    <3> HIDE DEF Fits
    <3> QED BY <3>1, <3>4
  <2> QED BY <2>1, <2>2
<1>3. CASE UNCHANGED <<run, by>>
  BY <1>0, <1>3 DEF AsAsked, Of
<1>4. CASE run' = [run EXCEPT ![f.job] = {}] /\ UNCHANGED by
  BY <1>0, <1>1, <1>4 DEF AsAsked, Of
<1>5. CASE \E S : Fits(S) /\ run' = [run EXCEPT ![f.job] = S] /\ by' = [by EXCEPT ![f.job] = f.asked]
  <2>1. PICK S : Fits(S) /\ run' = [run EXCEPT ![f.job] = S] /\ by' = [by EXCEPT ![f.job] = f.asked]
    BY <1>5
  <2>2. run' \in [TaskJob -> SUBSET TaskRecord] /\ by' \in [TaskJob -> AskedOf \cup {NoTask}]
    BY <1>0, <1>1, <2>1
  <2>3. ASSUME NEW j \in TaskJob, run'[j] # {} PROVE AsAsked(j, by[j])'
    <3>1. CASE j = f.job
      <4>1. run'[j] = S /\ by'[j] = f.asked
        BY <1>0, <1>1, <2>1, <3>1
      <4> QED BY <2>1, <2>3, <3>1, <4>1 DEF AsAsked, Of
    <3>2. CASE j # f.job
      <4>1. run'[j] = run[j] /\ by'[j] = by[j]
        BY <1>0, <1>1, <2>1, <3>2
      <4> QED BY <1>0, <2>3, <4>1 DEF AsAsked, Of
    <3> QED BY <3>1, <3>2
  <2> QED BY <2>2, <2>3
<1> QED BY <1>2, <1>3, <1>4, <1>5

\* The server gets a request.
LEMMA ServedStep ==
  ASSUME StartsInv, NEW f \in flights, ServeStart(f) \/ ServeAction(f)
  PROVE  StartsInv'
<1>0. StartsTyped /\ DialogsMean /\ StartsHold /\ \A k \in flights : Means(k)
  BY DEF StartsInv
<1>1. f \in FlightOf /\ f.kind # "capacity"
      /\ UNCHANGED <<open, heading, ticks, confined, offered, offer, token, busy, acting>>
  BY <1>0 DEF StartsTyped, ServeStart, ServeAction, View
<1>2. PICK g \in FlightOf : /\ flights' = (flights \ {f}) \cup {g}
                            /\ g.id = f.id /\ g.job = f.job /\ g.kind = f.kind
                            /\ g.ids = f.ids /\ g.asked = f.asked
  <2>1. CASE ServeStart(f)
    <3> DEFINE todo == Unfinished(IF f.ids = {} THEN Of(f.job) ELSE f.ids)
               b == Accepts(f) /\ ~(f.ids \subseteq todo)
               g == [f EXCEPT !.stage = "served", !.skips = b]
    <3>1. flights' = (flights \ {f}) \cup {g}
      BY <2>1 DEF ServeStart
    <3>2. b \in BOOLEAN
      BY DEF Accepts
    <3> HIDE DEF b
    <3>3. g \in FlightOf /\ g.id = f.id /\ g.job = f.job /\ g.kind = f.kind /\ g.ids = f.ids /\ g.asked = f.asked
      BY <1>1, <3>2 DEF FlightOf
    <3> QED BY <3>1, <3>3
  <2>2. CASE ServeAction(f)
    <3> DEFINE g == [f EXCEPT !.stage = "served"]
    <3>1. flights' = (flights \ {f}) \cup {g}
      BY <2>2 DEF ServeAction
    <3>3. g \in FlightOf /\ g.id = f.id /\ g.job = f.job /\ g.kind = f.kind /\ g.ids = f.ids /\ g.asked = f.asked
      BY <1>1 DEF FlightOf
    <3> QED BY <3>1, <3>3
  <2> QED BY <2>1, <2>2
<1>3. /\ run' \in [TaskJob -> SUBSET TaskRecord] /\ by' \in [TaskJob -> AskedOf \cup {NoTask}]
      /\ \A j \in TaskJob : run'[j] # {} => AsAsked(j, by[j])'
  BY GivenRun
<1>4. StartsTyped'
  BY <1>0, <1>1, <1>2, <1>3 DEF StartsTyped
<1>5. \A h \in flights : \E k \in flights' : k.id = h.id /\ k.job = h.job /\ k.kind = h.kind
  BY <1>2
<1>6. \A k \in flights' : Means(k)'
  BY <1>0, <1>2 DEF Means, Of
<1>7. /\ busy' # 0 => \E k \in flights' : k.id = busy' /\ k.job = open /\ k.kind \in {"capacity", "start", "single"}
      /\ acting' # 0 => \E k \in flights' : k.id = acting' /\ k.job = open /\ k.kind \in {"options", "retry", "stop"}
  BY <1>0, <1>1, <1>5 DEF StartsHold
<1>8. DialogsMean'
  <2>1. \A k \in flights' : k.kind = "capacity" => k \in flights
    BY <1>1, <1>2
  <2> QED BY <1>0, <1>1, <2>1 DEF DialogsMean, Proposes, Coming, Of
<1> QED BY <1>0, <1>1, <1>3, <1>4, <1>6, <1>7, <1>8 DEF StartsInv, StartsHold, Of

\* An answer comes, or a request is lost.
LEMMA LandStep ==
  ASSUME StartsInv, NEW f \in flights, FlightLost(f) \/ \E ok \in BOOLEAN : AnswerFlight(f, ok)
  PROVE  StartsInv'
<1>0. StartsTyped /\ DialogsMean /\ StartsHold /\ \A k \in flights : Means(k)
  BY DEF StartsInv
<1>1. /\ flights' = flights \ {f} /\ busy' = (IF busy = f.id THEN 0 ELSE busy)
      /\ acting' = (IF acting = f.id THEN 0 ELSE acting)
      /\ UNCHANGED <<run, by, open, heading, confined, token>> /\ ticks' \in {ticks, {}}
      /\ offered' = offered \/ (offered' = f.asked /\ f.kind = "capacity" /\ f.id = token)
      /\ offer' = offer \/ (offer' = f.asked /\ f.kind = "options")
  BY DEF FlightLost, AnswerFlight, Landed, IsLatest, runVars, View
<1>2. StartsTyped'
  BY <1>0, <1>1 DEF StartsTyped
<1>3. busy' # 0 => \E k \in flights' : k.id = busy' /\ k.job = open /\ k.kind \in {"capacity", "start", "single"}
  BY <1>0, <1>1 DEF StartsHold
<1>4. acting' # 0 => \E k \in flights' : k.id = acting' /\ k.job = open /\ k.kind \in {"options", "retry", "stop"}
  BY <1>0, <1>1 DEF StartsHold
<1>5. \A k \in flights' : Means(k)'
  BY <1>0, <1>1 DEF Means, Of
<1>6. f \in FlightOf /\ f.asked \in AskedOf /\ Means(f)
  BY <1>0 DEF StartsTyped, FlightOf
<1>7. offered' # NoTask => Proposes(offered)'
  <2>1. CASE offered' = offered
    BY <1>0, <1>1, <2>1 DEF DialogsMean, Proposes, Of
  <2>2. CASE offered' = f.asked /\ f.kind = "capacity" /\ f.id = token
    <3>1. Coming(f)
      BY <1>0, <2>2 DEF DialogsMean
    <3>2. f.asked.job = f.job /\ f.asked.ids \subseteq Of(f.asked.job)
      BY <1>6, <2>2 DEF Means
    <3> QED BY <1>1, <1>6, <2>2, <3>1, <3>2 DEF Coming, Proposes, Of
  <2> QED BY <1>1, <2>1, <2>2
<1>8. offer' # NoTask => offer' \in AskedOf /\ offer'.ids = {}
  <2>1. offer # NoTask => offer \in AskedOf /\ offer.ids = {}
    BY <1>0 DEF DialogsMean
  <2>2. f.kind = "options" => f.asked.ids = {}
    BY <1>6 DEF Means
  <2> QED BY <1>1, <1>6, <2>1, <2>2
<1>9. ASSUME NEW k \in flights', k.kind = "capacity", k.id = token' PROVE Coming(k)'
  <2>1. k \in flights /\ k # f /\ k.id # f.id /\ Coming(k)
    BY <1>0, <1>1, <1>9 DEF StartsTyped, DialogsMean
  <2> QED BY <1>1, <2>1 DEF Coming
<1>10. DialogsMean'
  BY <1>7, <1>8, <1>9 DEF DialogsMean
<1>11. \A j \in TaskJob : run'[j] # {} => AsAsked(j, by[j])'
  BY <1>0, <1>1 DEF StartsHold, AsAsked, Of
<1> QED BY <1>0, <1>1, <1>2, <1>3, <1>4, <1>5, <1>10, <1>11 DEF StartsInv, StartsHold, Of

\* Another job is opened.
LEMMA OpenJobStep ==
  ASSUME StartsInv, Arrive \/ \E j \in TaskJob : GoTo(j)
  PROVE  StartsInv'
<1>0. StartsTyped /\ DialogsMean /\ StartsHold /\ \A k \in flights : Means(k)
  BY DEF StartsInv
<1>1. UNCHANGED <<run, by, confined, flights, offered, offer>>
  BY DEF Arrive, GoTo, runVars
<1>2. \/ UNCHANGED <<open, token, busy, acting, ticks>> /\ heading' = NoTask
      \/ /\ token' = token + 1 /\ busy' = 0 /\ acting' = 0
         /\ (open' = open /\ ticks' = ticks) \/ ticks' = {}
  BY DEF Arrive, GoTo, LeaveOperations
<1>3. open' \in TaskJob /\ heading' \in TaskJob \cup {NoTask}
  BY <1>0 DEF Arrive, GoTo, StartsTyped
<1>4. ticks' \subseteq Of(open')
  BY <1>0, <1>2 DEF StartsHold, Of
<1>5. token' \in Nat /\ \A f \in flights : f.id <= token'
  BY <1>0, <1>2 DEF StartsTyped, FlightOf
<1>6. StartsTyped'
  BY <1>0, <1>1, <1>3, <1>5 DEF StartsTyped
<1>7. \A k \in flights' : Means(k)'
  BY <1>0, <1>1 DEF Means, Of
<1>8. ASSUME NEW k \in flights, k.kind = "capacity", k.id = token' PROVE Coming(k)'
  <2>1. k.id <= token /\ token \in Nat /\ k.id \in Nat
    BY <1>0 DEF StartsTyped, FlightOf
  <2>2. token' = token /\ UNCHANGED <<open, busy>> /\ heading' = NoTask
    BY <1>2, <1>8, <2>1
  <2> QED BY <1>0, <1>1, <1>8, <2>2 DEF DialogsMean, Coming
<1>9. offered' # NoTask => Proposes(offered)'
  <2>1. CASE Arrive
    <3>1. open' = heading /\ heading # NoTask /\ heading' = NoTask
      BY <2>1 DEF Arrive
    <3> QED BY <1>0, <1>1, <3>1 DEF DialogsMean, Proposes, Of
  <2>2. CASE \E j \in TaskJob : GoTo(j)
    BY <1>1, <2>2 DEF GoTo, Covered
  <2> QED BY <2>1, <2>2
<1>10. DialogsMean'
  BY <1>0, <1>1, <1>8, <1>9 DEF DialogsMean
<1>11. \A j \in TaskJob : run'[j] # {} => AsAsked(j, by[j])'
  BY <1>0, <1>1 DEF StartsHold, AsAsked, Of
<1>12. /\ busy' # 0 => \E k \in flights' : k.id = busy' /\ k.job = open' /\ k.kind \in {"capacity", "start", "single"}
       /\ acting' # 0 => \E k \in flights' : k.id = acting' /\ k.job = open' /\ k.kind \in {"options", "retry", "stop"}
  BY <1>0, <1>1, <1>2 DEF StartsHold
<1> QED BY <1>4, <1>6, <1>7, <1>10, <1>11, <1>12 DEF StartsInv, StartsHold, Of

LEMMA StartsStep == StartsInv /\ [StartNext]_startVars => StartsInv'
<1> SUFFICES ASSUME StartsInv, [StartNext]_startVars PROVE StartsInv'
  OBVIOUS
<1>0. StartsTyped /\ DialogsMean /\ StartsHold /\ \A k \in flights : Means(k)
  BY DEF StartsInv
<1>1. ASSUME NEW r \in TaskRecord, NEW outcome \in {"failed", "done"}, Work(r, outcome) PROVE StartsInv'
  <2>1. UNCHANGED <<by, open, heading, ticks, confined, offered, offer, token, busy, acting, flights>>
    BY <1>1 DEF Work, View
  <2>2. PICK j \in TaskJob : run' = [run EXCEPT ![j] = run[j] \ {r}]
    BY <1>1 DEF Work
  <2>3. run' \in [TaskJob -> SUBSET TaskRecord] /\ \A i \in TaskJob : run'[i] \subseteq run[i]
    BY <1>0, <2>2 DEF StartsTyped
  <2>4. \A i \in TaskJob : run'[i] # {} => AsAsked(i, by[i])'
    <3>1. \A i \in TaskJob : run'[i] # {} => run[i] # {} /\ AsAsked(i, by[i])
      BY <1>0, <2>3 DEF StartsHold
    <3> QED BY <2>1, <2>3, <3>1 DEF AsAsked, Of
  <2>5. StartsTyped' /\ DialogsMean' /\ \A k \in flights' : Means(k)'
    BY <1>0, <2>1, <2>3 DEF StartsTyped, DialogsMean, Proposes, Coming, Means, Of
  <2> QED BY <1>0, <2>1, <2>4, <2>5 DEF StartsInv, StartsHold, Of
<1>2. CASE UNCHANGED startVars
  <2>1. UNCHANGED <<run, by, open, heading, ticks, confined, offered, offer, token, busy, acting, flights>>
    BY <1>2 DEF startVars
  <2>2. ticks \subseteq Of(open) /\ confined \subseteq TaskRecord
    BY <1>0 DEF StartsHold, StartsTyped
  <2> QED BY <2>1, <2>2, QuietStep
<1> QED BY <1>1, <1>2, GestureStep, ServedStep, LandStep, OpenJobStep DEF StartNext

\* What a run analyses is what was asked for, of the job it was asked for in or, for
\* a batch of a whole job, of the one that was being opened then; and no late reply
\* frees a button of another job (useAnalysisActions.ts), for any jobs.
THEOREM StartsStand == StartsSpec => []StartsHold
<1>1. StartsInv => StartsHold
  BY DEF StartsInv
<1> QED BY <1>1, StartsInitially, StartsStep, PTL DEF StartsSpec

----------------------------------------------------------------------------
(* The tab as a whole, composed with what it is checked beside. *)

LEMMA TabParts == Spec => ViewSpec /\ PollSpec /\ StartsSpec
<1>1. Init => ViewInit /\ PollInit /\ StartInit
  BY DEF Init
<1> DEFINE all == <<part, diskVars, qualityVars, reportVars,
                    dealVars, bookVars, planVars, sheetVars, viewVars, pollVars, startVars>>
<1>2. [Next]_all => [ViewNext]_viewVars /\ [PollNext]_pollVars /\ [StartNext]_startVars
  <2>1. CASE Next
    BY <2>1 DEF Next
  <2>2. CASE UNCHANGED all
    BY <2>2
  <2> QED BY <2>1, <2>2
<1> QED BY <1>1, <1>2, PTL DEF Spec, ViewSpec, PollSpec, StartsSpec

\* A tab shows one page of one job with a record of it, polls one thing at a
\* time, and what runs is what was asked for in it, with the exception AsAsked
\* names, whatever replies come late.
THEOREM TabStands == Spec => []TabHolds
BY TabParts, ShownStaysTogether, PollsOnce, StartsStand, PTL DEF TabHolds

----------------------------------------------------------------------------
(* The workbooks. *)

\* A behaviour of all is one of the workbook that is imported and of the one
\* that is exported.
LEMMA WorkbookParts == Spec => SheetSpec /\ BookSpec /\ PlanSpec
<1>1. Init => SheetInit /\ BookInit /\ PlanInit
  BY DEF Init
<1> DEFINE all == <<part, diskVars, qualityVars, reportVars,
                    dealVars, bookVars, planVars, sheetVars, viewVars, pollVars, startVars>>
<1>2. [Next]_all => [SheetNext]_sheetVars /\ [BookNext]_bookVars /\ [ExportBook]_planVars
  <2>1. CASE Next
    BY <2>1 DEF Next
  <2>2. CASE UNCHANGED all
    BY <2>2
  <2> QED BY <2>1, <2>2
<1> QED BY <1>1, <1>2, PTL DEF Spec, SheetSpec, BookSpec, PlanSpec

\* The task made of a workbook is the one its preview announced, with no row that
\* has a result analysed again and no picture left out.  The workbook of a task
\* says what the screen says, but for what only an old run of the whole record
\* found (resultForRecord, App.tsx).  The plan of its columns ends where no column
\* has the header of a shared one that is not configured; it puts a column where a
\* header stands for it, else behind the sheet, and two columns only in one place
\* where a header stands for both (buildOutputPlan).
THEOREM WorkbooksStand == Spec => []WorkbooksHold
<1>1. SheetInv /\ BookInv /\ PlanInv => WorkbooksHold
  BY SheetsStand, BookHolds DEF WorkbooksHold
<1> QED BY <1>1, WorkbookParts, SheetInvariant, BookInvariant, PlanInvariant, PTL

----------------------------------------------------------------------------
(* The judgement of an answer. *)

\* There is no result before an answer, and the result is the answer's.
QualityInv ==
  \/ answer = Missing /\ result.st = "asked"
  \/ /\ \E v2 \in BOOLEAN, scene \in Scene, m \in Material :
          answer \in Answer(v2, scene, m.present, m.knowledge)
     /\ result = IF answer.v2 THEN ParseV2(answer) ELSE ParseStrict(answer)

LEMMA FewOfThem == ASSUME NEW S, NEW T \in Few(S) PROVE T \subseteq S
BY DEF Few

LEMMA PossibleOnes ==
  ASSUME NEW handed, NEW knowledge PROVE Possible(handed, knowledge) \subseteq References
BY DEF Possible

\* The references of an answer to a rule: at most a few, and of one at least
\* where the strict protocol asks for a quotation.
LEMMA ShapeV2 ==
  ASSUME NEW scene, NEW handed, NEW knowledge, NEW a \in Answer(TRUE, scene, handed, knowledge)
  PROVE  /\ a.v2 = TRUE /\ a.scene = scene /\ a.listed \in SUBSET Rule
         /\ \A r \in Rule : a.checks[r] # Missing =>
              /\ \A e \in a.checks[r].evidence : e \in References
              /\ a.checks[r].status \in {"violation", "compliant", "needs_review", "not_applicable"}
<1>1. a.v2 = TRUE /\ a.scene = scene /\ a.listed \in SUBSET Rule
  BY DEF Answer
<1>2. a.checks \in [Rule -> {Missing} \cup [status : {"violation", "compliant", "needs_review", "not_applicable"},
                                            evidence : Few(Possible(handed, knowledge))]]
  BY DEF Answer
<1>3. \A T \in Few(Possible(handed, knowledge)) : T \subseteq References
  BY FewOfThem, PossibleOnes
<1> QED BY <1>1, <1>2, <1>3

LEMMA ShapeStrict ==
  ASSUME NEW scene, NEW handed, NEW knowledge, NEW a \in Answer(FALSE, scene, handed, knowledge)
  PROVE  /\ a.v2 = FALSE
         /\ a.checks \in [Rule -> {Missing} \cup
              [heading : {"preSale", "afterSale"},
               evidence : {T \in SUBSET {e \in References : e.source = "dialogue"} : T # {}}]]
<1> DEFINE quotes == {e \in Possible(handed, knowledge) : e.source = "dialogue"}
           all == {e \in References : e.source = "dialogue"}
<1>1. a.v2 = FALSE
  BY DEF Answer
<1>2. a.checks \in [Rule -> {Missing} \cup [heading : {"preSale", "afterSale"}, evidence : Few(quotes) \ {{}}]]
  BY DEF Answer
<1>3. quotes \subseteq all
  BY PossibleOnes
<1> HIDE DEF quotes, all
<1>4. \A T \in Few(quotes) : T \subseteq all
  BY <1>3, FewOfThem
<1> QED BY <1>1, <1>2, <1>4 DEF all

\* With evidence of several sources.
LEMMA JudgedV2 ==
  ASSUME NEW scene \in Scene, NEW handed, NEW knowledge,
         answer \in Answer(TRUE, scene, handed, knowledge), result = ParseV2(answer)
  PROVE  JudgementStands
<1> DEFINE c(r) == answer.checks[r]
<1>1. /\ answer.v2 = TRUE /\ answer.scene = scene /\ answer.listed \in SUBSET Rule
      /\ \A r \in Rule : c(r) # Missing =>
           /\ \A e \in c(r).evidence : e \in References
           /\ c(r).status \in {"violation", "compliant", "needs_review", "not_applicable"}
  BY ShapeV2
<1>2. /\ result.st = "parsed" /\ result.issues = {r \in Rule : Counts(answer, r)}
      /\ result.review <=> \/ answer.scene = "unclear" \/ answer.doubts \/ ~Coverage(answer)
                           \/ answer.knowledge = "cut"
                           \/ \E r \in Rule : Blocks(answer, r)
  BY DEF ParseV2, Judged
<1>3. Reported = {r \in Rule : c(r) # Missing /\ c(r).status = "violation"}
  BY <1>1 DEF Reported
\* What no invalid reference and no backend reference means.
<1>4. ASSUME NEW r \in Rule, c(r) # Missing, ~InvalidRef(c(r)), ~HasBackendRef(c(r))
      PROVE  \A e \in c(r).evidence : e.found
  BY <1>1, <1>4 DEF InvalidRef, HasBackendRef, References
<1>5. ASSUME NEW r \in Rule, c(r) # Missing, ~Unproven(answer, r)
      PROVE  Declared[r] \subseteq Cited(c(r))
  BY <1>5 DEF Unproven
<1>6. \A r \in Rule : "dialogue" \in Cited(c(r)) => \E e \in c(r).evidence : e.source = "dialogue" /\ e.found
  BY DEF Cited
<1>7. DeductionsAreProven
  <2> SUFFICES ASSUME NEW r \in result.issues
               PROVE  /\ r \in Reported
                      /\ \E e \in c(r).evidence : e.source = "dialogue" /\ e.found
                      /\ \A e \in c(r).evidence : e.found
                      /\ Declared[r] \subseteq Cited(c(r))
    BY DEF DeductionsAreProven
  <2>1. /\ r \in Rule /\ c(r) # Missing /\ c(r).status = "violation"
        /\ ~InvalidRef(c(r)) /\ ~Unproven(answer, r) /\ ~HasBackendRef(c(r)) /\ "dialogue" \in Cited(c(r))
    BY <1>2 DEF Counts
  <2> QED BY <1>3, <1>4, <1>5, <1>6, <2>1
<1>8. AloneIsComplete
  <2> SUFFICES ASSUME ~result.review
               PROVE  /\ answer.scene # "unclear" /\ ~answer.doubts
                      /\ answer.listed = Expected(answer.scene)
                      /\ result.issues = Reported
                      /\ \A r \in Expected(answer.scene) :
                           /\ c(r).status \in {"violation", "compliant"}
                           /\ Declared[r] \subseteq Cited(c(r))
                           /\ \A e \in c(r).evidence : e.found
    BY DEF AloneIsComplete
  <2>1. /\ answer.scene # "unclear" /\ ~answer.doubts /\ answer.listed = Expected(answer.scene)
        /\ Coverage(answer) /\ \A r \in Rule : c(r) # Missing /\ ~Blocks(answer, r)
    BY <1>2 DEF Coverage
  <2>2. ASSUME NEW r \in Rule, Applicable(answer.scene, r)
        PROVE  /\ c(r) # Missing /\ ~InvalidRef(c(r)) /\ ~Unproven(answer, r) /\ ~HasBackendRef(c(r))
               /\ c(r).status \in {"violation", "compliant"}
               /\ c(r).status = "violation" => "dialogue" \in Cited(c(r))
    BY <1>1, <2>1, <2>2 DEF Blocks
  <2>3. ASSUME NEW r \in Rule, ~Applicable(answer.scene, r) PROVE c(r).status # "violation"
    <3>1. ~(Applicable(answer.scene, r) # (c(r).status # "not_applicable"))
      BY <2>1 DEF Blocks
    <3> QED BY <2>3, <3>1
  <2>4. \A r \in Rule : Counts(answer, r) <=> c(r).status = "violation"
    BY <2>1, <2>2, <2>3 DEF Counts
  <2>5. result.issues = Reported
    BY <1>2, <1>3, <2>1, <2>4
  <2> QED BY <1>4, <1>5, <2>1, <2>2, <2>5 DEF Expected
<1> QED BY <1>7, <1>8 DEF JudgementStands

\* With quotations of the dialogue.
LEMMA JudgedStrict ==
  ASSUME NEW scene \in Scene, NEW handed, NEW knowledge,
         answer \in Answer(FALSE, scene, handed, knowledge), result = ParseStrict(answer)
  PROVE  JudgementStands
<1> DEFINE c(r) == answer.checks[r]
           issues == {r \in Findings(answer) : Traceable(answer, r)}
<1>1. /\ answer.v2 = FALSE
      /\ \A r \in Rule : answer.checks[r] # Missing =>
           /\ answer.checks[r].evidence # {}
           /\ \A e \in answer.checks[r].evidence : e.source = "dialogue"
  <2>1. /\ answer.v2 = FALSE
        /\ answer.checks \in [Rule -> {Missing} \cup
              [heading : {"preSale", "afterSale"},
               evidence : {T \in SUBSET {e \in References : e.source = "dialogue"} : T # {}}]]
    BY ShapeStrict
  <2> QED BY <2>1
<1>2. Reported = Findings(answer)
  BY <1>1 DEF Reported
<1>3. CASE Malformed(answer)
  <2>1. result.st = "refused"
    BY <1>3 DEF ParseStrict
  <2> QED BY <2>1 DEF JudgementStands, AloneIsComplete, DeductionsAreProven
<1>4. CASE ~Malformed(answer)
  <2>1. /\ result.st = "parsed" /\ result.issues = issues
        /\ result.review <=> \/ answer.scene = "unclear" \/ answer.doubts
                             \/ answer.listed # Expected(answer.scene)
                             \/ issues # Findings(answer)
                             \/ ~(issues \subseteq Expected(answer.scene))
    BY <1>4 DEF ParseStrict, Judged
  <2>2. \A r \in issues : /\ r \in Findings(answer)
                          /\ \A e \in c(r).evidence : e.found
                          /\ \E e \in c(r).evidence : e.source = "dialogue" /\ e.found
    BY <1>1 DEF Findings, Traceable
  <2> HIDE DEF issues
  <2>3. AloneIsComplete
    BY <1>1, <1>2, <2>1 DEF AloneIsComplete
  <2>4. DeductionsAreProven
    BY <1>1, <1>2, <2>1, <2>2 DEF DeductionsAreProven
  <2> QED BY <2>3, <2>4 DEF JudgementStands
<1> QED BY <1>3, <1>4

LEMMA QualityInvStands == QualityInv => JudgementStands
<1> SUFFICES ASSUME QualityInv PROVE JudgementStands
  OBVIOUS
<1>1. CASE answer = Missing /\ result.st = "asked"
  BY <1>1 DEF JudgementStands, AloneIsComplete, DeductionsAreProven
<1>2. ASSUME NEW v2 \in BOOLEAN, NEW scene \in Scene, NEW handed, NEW knowledge,
             answer \in Answer(v2, scene, handed, knowledge),
             result = IF answer.v2 THEN ParseV2(answer) ELSE ParseStrict(answer)
      PROVE  JudgementStands
  <2>2. CASE v2 = TRUE
    <3>1. answer \in Answer(TRUE, scene, handed, knowledge)
      BY <1>2, <2>2
    <3>2. answer.v2 = TRUE
      BY <3>1, ShapeV2
    <3>3. result = ParseV2(answer)
      BY <1>2, <3>2
    <3> QED BY <3>1, <3>3, JudgedV2
  <2>3. CASE v2 = FALSE
    <3>1. answer \in Answer(FALSE, scene, handed, knowledge)
      BY <1>2, <2>3
    <3>2. answer.v2 = FALSE
      BY <3>1, ShapeStrict
    <3>3. result = ParseStrict(answer)
      BY <1>2, <3>2
    <3> QED BY <3>1, <3>3, JudgedStrict
  <2> QED BY <2>2, <2>3
<1> QED BY <1>1, <1>2 DEF QualityInv

\* A result nobody looks at is complete, and every deduction is proved by the
\* dialogue (parseReceptionQualityAnalysis and -V2), for any rules and sources.
THEOREM JudgementsStand == QualitySpec => []JudgementStands
<1>1. QualityInit => QualityInv
  BY DEF QualityInit, QualityInv
<1>2. QualityInv /\ [QualityNext]_qualityVars => QualityInv'
  <2> SUFFICES ASSUME QualityInv, [QualityNext]_qualityVars PROVE QualityInv'
    OBVIOUS
  <2>1. CASE Parse
    BY <2>1 DEF Parse, QualityInv
  <2>2. CASE UNCHANGED qualityVars
    BY <2>2 DEF qualityVars, QualityInv
  <2> QED BY <2>1, <2>2 DEF QualityNext
<1> QED BY <1>1, <1>2, QualityInvStands, PTL DEF QualitySpec

----------------------------------------------------------------------------
(* The report of a reception. *)

(* What is computed of sequences. *)

\* A function that is given by its first value and by each value from the one
\* before exists.
GoesOn(N, s, G, f) == f = [n \in 0 .. N |-> IF n = 0 THEN s ELSE G[<<n, f[n - 1]>>]]

\* A proof by recursion on the numbers up to N: f is built one number at a time.
LEMMA Recursion ==
  ASSUME NEW V, NEW N \in Nat, NEW s \in V, NEW G \in [(1 .. N) \X V -> V]
  PROVE  \E f \in [0 .. N -> V] : GoesOn(N, s, G, f)
<1> DEFINE Upto(k) == \E f \in [0 .. k -> V] :
                        f = [n \in 0 .. k |-> IF n = 0 THEN s ELSE G[<<n, f[n - 1]>>]]
           T == {k \in Nat : k <= N => Upto(k)}
<1>1. 0 \in T
  <2> DEFINE f == [n \in 0 .. 0 |-> s]
  <2>1. f = [n \in 0 .. 0 |-> IF n = 0 THEN s ELSE G[<<n, f[n - 1]>>]] /\ f \in [0 .. 0 -> V]
    OBVIOUS
  <2> HIDE DEF f
  <2> QED BY <2>1
<1>2. ASSUME NEW k \in T PROVE k + 1 \in T
  <2> SUFFICES ASSUME k + 1 <= N PROVE Upto(k + 1)
    OBVIOUS
  <2>1. PICK f \in [0 .. k -> V] : f = [n \in 0 .. k |-> IF n = 0 THEN s ELSE G[<<n, f[n - 1]>>]]
    OBVIOUS
  <2> DEFINE g == [n \in 0 .. k + 1 |-> IF n = 0 THEN s ELSE G[<<n, f[n - 1]>>]]
  <2>2. \A n \in 0 .. k : g[n] = f[n]
    BY <2>1
  <2>3. \A n \in 0 .. k + 1 : n # 0 => n - 1 \in 0 .. k /\ n \in 1 .. N
    OBVIOUS
  <2>4. \A n \in 0 .. k + 1 : n # 0 => g[n - 1] = f[n - 1] /\ f[n - 1] \in V
    BY <2>2, <2>3
  <2>5. \A n \in 0 .. k + 1 : g[n] = (IF n = 0 THEN s ELSE G[<<n, g[n - 1]>>]) /\ g[n] \in V
    BY <2>3, <2>4
  <2>6. g = [n \in 0 .. k + 1 |-> IF n = 0 THEN s ELSE G[<<n, g[n - 1]>>]] /\ g \in [0 .. k + 1 -> V]
    BY <2>5
  <2> HIDE DEF g
  <2> QED BY <2>6
<1> HIDE DEF Upto
<1>3. T \in SUBSET Nat
  OBVIOUS
<1> HIDE DEF T
<1>4. T = Nat
  BY <1>1, <1>2, <1>3, AllNumbers
<1>5. Upto(N)
  BY <1>4 DEF T
<1> QED BY <1>5 DEF Upto, GoesOn

\* The least of some numbers.
LEMMA LeastIs ==
  ASSUME NEW T \in SUBSET Nat, T # {}
  PROVE  Least(T) \in T /\ \A k \in T : Least(T) <= k
BY LeastOf DEF Least

Ruled == Seq(AllRules)

\* What is in a range stands somewhere in the sequence.
LEMMA RangeIs == ASSUME NEW s PROVE \A x : x \in Range(s) <=> \E i \in DOMAIN s : s[i] = x
BY DEF Range

\* Two sequences without a rule in common, one behind the other.
LEMMA Joined ==
  ASSUME NEW a \in Ruled, NEW b \in Ruled, IsInjective(a), IsInjective(b), Range(a) \cap Range(b) = {}
  PROVE  /\ a \o b \in Ruled /\ IsInjective(a \o b) /\ Range(a \o b) = Range(a) \cup Range(b)
         /\ Len(a \o b) = Len(a) + Len(b)
<1> USE DEF Ruled
<1>1. PICK c \in Ruled : c = a \o b
  <2>1. a \o b \in Seq(AllRules)
    OBVIOUS
  <2> QED BY <2>1
<1>2. /\ Len(a) \in Nat /\ Len(b) \in Nat /\ Len(c) = Len(a) + Len(b)
      /\ DOMAIN a = 1 .. Len(a) /\ DOMAIN b = 1 .. Len(b) /\ DOMAIN c = 1 .. Len(a) + Len(b)
  BY <1>1
<1>3. \A i \in DOMAIN a : i \in DOMAIN c /\ c[i] = a[i]
  BY <1>1, <1>2
<1>4. \A i \in DOMAIN b : i + Len(a) \in DOMAIN c /\ c[i + Len(a)] = b[i]
  BY <1>1, <1>2
<1>5. \A i \in DOMAIN c : i \in DOMAIN a \/ (i - Len(a) \in DOMAIN b /\ i = (i - Len(a)) + Len(a))
  BY <1>2
<1>6. Range(c) = Range(a) \cup Range(b)
  <2>1. ASSUME NEW x \in Range(c) PROVE x \in Range(a) \cup Range(b)
    <3>1. PICK i \in DOMAIN c : c[i] = x
      BY RangeIs
    <3>2. CASE i \in DOMAIN a
      BY <3>1, <3>2, <1>3, RangeIs
    <3>3. CASE i \notin DOMAIN a
      <4>1. i - Len(a) \in DOMAIN b /\ b[i - Len(a)] = x
        BY <3>1, <3>3, <1>4, <1>5
      <4> QED BY <4>1, RangeIs
    <3> QED BY <3>2, <3>3
  <2>2. Range(a) \subseteq Range(c)
    BY <1>3, RangeIs
  <2>3. Range(b) \subseteq Range(c)
    BY <1>4, RangeIs
  <2> QED BY <2>1, <2>2, <2>3
<1>7. IsInjective(c)
  <2> SUFFICES ASSUME NEW i \in DOMAIN c, NEW j \in DOMAIN c, c[i] = c[j] PROVE i = j
    BY DEF IsInjective
  <2>1. CASE i \in DOMAIN a /\ j \in DOMAIN a
    BY <2>1, <1>3 DEF IsInjective
  <2>2. CASE i \in DOMAIN a /\ j \notin DOMAIN a
    <3>1. c[i] \in Range(a) /\ c[j] \in Range(b)
      BY <2>2, <1>3, <1>4, <1>5, RangeIs
    <3> QED BY <3>1
  <2>3. CASE i \notin DOMAIN a /\ j \in DOMAIN a
    <3>1. c[j] \in Range(a) /\ c[i] \in Range(b)
      BY <2>3, <1>3, <1>4, <1>5, RangeIs
    <3> QED BY <3>1
  <2>4. CASE i \notin DOMAIN a /\ j \notin DOMAIN a
    <3>1. i - Len(a) \in DOMAIN b /\ j - Len(a) \in DOMAIN b /\ b[i - Len(a)] = b[j - Len(a)]
      BY <2>4, <1>4, <1>5
    <3>2. i - Len(a) = j - Len(a)
      BY <3>1 DEF IsInjective
    <3> QED BY <3>2, <1>2
  <2> QED BY <2>1, <2>2, <2>3, <2>4
<1> QED BY <1>1, <1>2, <1>6, <1>7

\* Two sequences of the same rules, each named once, are as long.
LEMMA AsLong ==
  ASSUME NEW a \in Ruled, NEW b \in Ruled, IsInjective(a), IsInjective(b), Range(a) = Range(b)
  PROVE  Len(a) = Len(b)
<1>1. ASSUME NEW s \in Ruled, IsInjective(s) PROVE Cardinality(Range(s)) = Len(s)
  <2>1. PICK n \in Nat : n = Len(s) /\ DOMAIN s = 1 .. n
    BY DEF Ruled
  <2>2. s \in [1 .. n -> Range(s)] /\ \A i, j \in 1 .. n : s[i] = s[j] => i = j
    <3>1. s = [i \in 1 .. n |-> s[i]]
      BY <2>1 DEF Ruled
    <3>2. \A i \in 1 .. n : s[i] \in Range(s)
      BY <2>1, RangeIs
    <3> QED BY <3>1, <3>2, <2>1, <1>1 DEF IsInjective
  <2>3. \A x \in Range(s) : \E i \in 1 .. n : s[i] = x
    BY <2>1, RangeIs
  <2>4. ExistsBijection(1 .. n, Range(s))
    <3>1. s \in Bijection(1 .. n, Range(s))
      BY <2>2, <2>3 DEF Bijection, Injection, Surjection, IsInjective
    <3> QED BY <3>1 DEF ExistsBijection
  <2>5. IsFiniteSet(1 .. n) /\ Cardinality(1 .. n) = n
    BY FS_Interval
  <2> QED BY <2>1, <2>4, <2>5, FS_Bijection
<1> QED BY <1>1
(* Rules that are in a set. *)

\* The function Only is defined by, and the equations that define it.
OnlyRec(rules, S) ==
  CHOOSE f : f = [n \in 0 .. Len(rules) |-> IF n = 0 THEN <<>> ELSE Kept(f[n - 1], rules[n], S)]
OnlyBody(rules, S, f) ==
  f = [n \in 0 .. Len(rules) |-> IF n = 0 THEN <<>> ELSE Kept(f[n - 1], rules[n], S)]
OnlyGoes(rules, S, f) ==
  /\ f[0] = <<>> /\ Only(rules, S) = f[Len(rules)]
  /\ \A n \in 1 .. Len(rules) : f[n] = Kept(f[n - 1], rules[n], S)

\* Only keeps or passes one rule after the other.
LEMMA OnlyIs ==
  ASSUME NEW rules \in Ruled, NEW S
  PROVE  \E f : OnlyGoes(rules, S, f)
<1>1. PICK N \in Nat : N = Len(rules) /\ \A n \in 1 .. N : rules[n] \in AllRules
  BY DEF Ruled
<1>2. PICK G : G = [x \in (1 .. N) \X Ruled |-> Kept(x[2], rules[x[1]], S)]
  OBVIOUS
<1>3. G \in [(1 .. N) \X Ruled -> Ruled]
  BY <1>1, <1>2 DEF Ruled, Kept
<1>4. <<>> \in Ruled
  BY DEF Ruled
<1>5. PICK f \in [0 .. N -> Ruled] : GoesOn(N, <<>>, G, f)
  BY <1>3, <1>4, Recursion
<1>6. OnlyBody(rules, S, f)
  <2>1. ASSUME NEW n \in 0 .. N, n # 0
        PROVE  G[<<n, f[n - 1]>>] = Kept(f[n - 1], rules[n], S)
    <3>1. n \in 1 .. N /\ n - 1 \in 0 .. N
      BY <1>1, <2>1
    <3> QED BY <3>1, <1>2
  <2> QED BY <1>1, <1>5, <2>1 DEF GoesOn, OnlyBody
<1> DEFINE g == OnlyRec(rules, S)
<1>8. Only(rules, S) = g[Len(rules)]
  BY DEF Only, OnlyRec
<1>9. OnlyBody(rules, S, g)
  <2>1. g = CHOOSE h : OnlyBody(rules, S, h)
    BY DEF OnlyRec, OnlyBody
  <2> HIDE DEF g
  <2> QED BY <2>1, <1>6
<1> HIDE DEF g
<1>10. g[0] = <<>> /\ \A n \in 1 .. N : g[n] = Kept(g[n - 1], rules[n], S)
  BY <1>1, <1>9 DEF OnlyBody
<1> QED BY <1>1, <1>8, <1>10 DEF OnlyGoes

\* The rules of a sequence that are in a set, in their order.
LEMMA OnlyHas ==
  ASSUME NEW rules \in Ruled, NEW S
  PROVE  /\ Only(rules, S) \in Ruled /\ Range(Only(rules, S)) = Range(rules) \cap S
         /\ IsInjective(rules) => IsInjective(Only(rules, S))
<1>1. PICK N \in Nat : N = Len(rules) /\ DOMAIN rules = 1 .. N /\ \A n \in 1 .. N : rules[n] \in AllRules
  BY DEF Ruled
<1>2. PICK f : OnlyGoes(rules, S, f)
  BY OnlyIs
<1> DEFINE Well(n) == /\ f[n] \in Ruled
                      /\ \A x : x \in Range(f[n]) <=> x \in S /\ \E i \in 1 .. n : rules[i] = x
                      /\ IsInjective(rules) => IsInjective(f[n])
           T == {n \in Nat : n <= N => Well(n)}
<1>3. 0 \in T
  <2>1. f[0] = <<>>
    BY <1>2 DEF OnlyGoes
  <2>2. <<>> \in Ruled /\ Range(<<>>) = {} /\ IsInjective(<<>>)
    BY DEF Ruled, Range, IsInjective
  <2>3. \A i \in 1 .. 0 : FALSE
    OBVIOUS
  <2> QED BY <2>1, <2>2, <2>3
<1>4. ASSUME NEW n \in T PROVE n + 1 \in T
  <2> SUFFICES ASSUME n + 1 <= N PROVE Well(n + 1)
    OBVIOUS
  <2>1. Well(n) /\ n \in Nat /\ n + 1 \in 1 .. N
    BY <1>1
  <2> HIDE DEF T
  <2>2. f[n + 1] = IF rules[n + 1] \in S THEN Append(f[n], rules[n + 1]) ELSE f[n]
    <3>1. (n + 1) - 1 = n
      BY <2>1
    <3> QED BY <1>1, <1>2, <2>1, <3>1 DEF OnlyGoes, Kept
  <2>3. \A i : i \in 1 .. n + 1 <=> i \in 1 .. n \/ i = n + 1
    BY <2>1
  <2>4. CASE rules[n + 1] \notin S
    <3>1. \A x : (x \in S /\ \E i \in 1 .. n + 1 : rules[i] = x) <=> (x \in S /\ \E i \in 1 .. n : rules[i] = x)
      BY <2>3, <2>4
    <3>2. f[n + 1] = f[n]
      BY <2>2, <2>4
    <3> QED BY <2>1, <3>1, <3>2
  <2>5. CASE rules[n + 1] \in S
    <3>1. PICK s \in Ruled : s = f[n]
      BY <2>1
    <3>2. PICK r \in AllRules : r = rules[n + 1]
      BY <1>1, <2>1
    <3>3. PICK t : t = Append(s, r)
      OBVIOUS
    <3>4. f[n + 1] = t
      BY <2>2, <2>5, <3>1, <3>2, <3>3
    <3>5. /\ t \in Ruled /\ Len(s) \in Nat /\ DOMAIN s = 1 .. Len(s) /\ DOMAIN t = 1 .. Len(s) + 1
          /\ \A i \in DOMAIN s : t[i] = s[i]
          /\ t[Len(s) + 1] = r
      BY <3>3 DEF Ruled
    <3>6. \A i : i \in DOMAIN t <=> i \in DOMAIN s \/ i = Len(s) + 1
      BY <3>5
    <3>7. \A x : x \in Range(t) <=> x \in Range(s) \/ x = r
      BY <3>5, <3>6, RangeIs
    <3>8. \A x : x \in Range(t) <=> x \in S /\ \E i \in 1 .. n + 1 : rules[i] = x
      BY <2>1, <2>3, <2>5, <3>1, <3>2, <3>7
    <3>9. ASSUME IsInjective(rules) PROVE IsInjective(t)
      <4>1. IsInjective(s)
        BY <2>1, <3>1, <3>9
      <4>2. r \notin Range(s)
        <5> SUFFICES ASSUME r \in Range(s) PROVE FALSE
          OBVIOUS
        <5>1. PICK i \in 1 .. n : rules[i] = r
          BY <2>1, <3>1
        <5>2. i \in DOMAIN rules /\ n + 1 \in DOMAIN rules /\ i # n + 1
          BY <1>1, <2>1
        <5> QED BY <5>1, <5>2, <3>2, <3>9 DEF IsInjective
      <4>3. \A i \in DOMAIN s : t[i] # r
        BY <3>5, <4>2, RangeIs
      <4> QED BY <3>5, <3>6, <4>1, <4>3 DEF IsInjective
    <3> QED BY <3>4, <3>5, <3>8, <3>9
  <2> QED BY <2>4, <2>5
<1> HIDE DEF Well
<1>5. T \in SUBSET Nat
  OBVIOUS
<1> HIDE DEF T
<1>6. T = Nat
  BY <1>3, <1>4, <1>5, AllNumbers
<1>7. Well(N)
  BY <1>6 DEF T
<1>8. Only(rules, S) = f[N]
  BY <1>1, <1>2 DEF OnlyGoes
<1>9. \A x : x \in Range(rules) <=> \E i \in 1 .. N : rules[i] = x
  BY <1>1, RangeIs
<1> QED BY <1>7, <1>8, <1>9 DEF Well

(* Rules in the order of their priority. *)

Sorted(s) == \A i, j \in DOMAIN s : i < j => PriorityOf[s[i]] <= PriorityOf[s[j]]

\* A rule put in its place leaves the others in order, with no rule lost.
LEMMA PutInOrder ==
  ASSUME NEW s \in Ruled, Sorted(s), NEW r \in AllRules
  PROVE  LET t == ByPriority(s, r) IN
         /\ t \in Ruled /\ Len(t) = Len(s) + 1 /\ Range(t) = Range(s) \cup {r} /\ Sorted(t)
         /\ IsInjective(s) /\ r \notin Range(s) => IsInjective(t)
<1>1. PICK N \in Nat : N = Len(s) /\ DOMAIN s = 1 .. N /\ \A n \in 1 .. N : s[n] \in AllRules
  BY DEF Ruled
<1>2. PICK L : L = {i \in DOMAIN s : PriorityOf[s[i]] > PriorityOf[r]} \cup {N + 1}
  OBVIOUS
<1>3. PICK p : p = Least(L)
  OBVIOUS
<1>4. PICK t : t = [i \in 1 .. N + 1 |-> CASE i < p -> s[i] [] i = p -> r [] i > p -> s[i - 1]]
  OBVIOUS
<1>5. t = ByPriority(s, r)
  BY <1>1, <1>2, <1>3, <1>4 DEF ByPriority
<1>6. L \in SUBSET (1 .. N + 1) /\ L # {} /\ L \in SUBSET Nat
  BY <1>1, <1>2
<1>7. p \in L /\ p \in 1 .. N + 1 /\ \A k \in L : p <= k
  BY <1>3, <1>6, LeastIs
<1>8. /\ \A i \in 1 .. N : i < p => i \in DOMAIN t /\ t[i] = s[i]
      /\ p \in DOMAIN t /\ t[p] = r
      /\ \A i \in 1 .. N : i >= p => i + 1 \in DOMAIN t /\ t[i + 1] = s[i]
      /\ DOMAIN t = 1 .. N + 1
  BY <1>4, <1>7
<1>9. ASSUME NEW i \in 1 .. N + 1
      PROVE  \/ i < p /\ i \in 1 .. N /\ t[i] = s[i]
             \/ i = p /\ t[i] = r
             \/ i > p /\ i - 1 \in 1 .. N /\ i - 1 >= p /\ t[i] = s[i - 1]
  <2>1. i < p \/ i = p \/ i > p
    BY <1>7
  <2>2. CASE i < p
    BY <2>2, <1>7, <1>8
  <2>3. CASE i > p
    <3>1. i - 1 \in 1 .. N /\ i - 1 >= p /\ (i - 1) + 1 = i
      BY <2>3, <1>7
    <3> QED BY <2>3, <3>1, <1>8
  <2> QED BY <2>1, <2>2, <2>3, <1>8
<1>10. t \in Ruled /\ Len(t) = N + 1
  <2>1. \A i \in 1 .. N + 1 : t[i] \in AllRules
    BY <1>1, <1>9
  <2>2. t \in [1 .. N + 1 -> AllRules]
    BY <1>4, <2>1
  <2> QED BY <2>2 DEF Ruled
<1>11. Range(t) = Range(s) \cup {r}
  <2>1. ASSUME NEW x \in Range(t) PROVE x \in Range(s) \cup {r}
    <3>1. PICK i \in 1 .. N + 1 : t[i] = x
      BY <1>8, RangeIs
    <3> QED BY <3>1, <1>1, <1>9, RangeIs
  <2>2. ASSUME NEW x \in Range(s) PROVE x \in Range(t)
    <3>1. PICK i \in 1 .. N : s[i] = x
      BY <1>1, RangeIs
    <3>2. i < p \/ i >= p
      BY <1>7
    <3> QED BY <3>1, <3>2, <1>8, RangeIs
  <2>3. r \in Range(t)
    BY <1>8, RangeIs
  <2> QED BY <2>1, <2>2, <2>3
<1>12. \A q \in AllRules : PriorityOf[q] \in Nat
  BY ReportAssumption
<1>13. \A i \in 1 .. N : i < p => PriorityOf[s[i]] <= PriorityOf[r]
  <2> SUFFICES ASSUME NEW i \in 1 .. N, i < p PROVE PriorityOf[s[i]] <= PriorityOf[r]
    OBVIOUS
  <2>1. i \notin L
    BY <1>7
  <2> QED BY <2>1, <1>1, <1>2, <1>12
<1>14. \A i \in 1 .. N : i >= p => PriorityOf[s[i]] >= PriorityOf[r]
  <2> SUFFICES ASSUME NEW i \in 1 .. N, i >= p PROVE PriorityOf[s[i]] >= PriorityOf[r]
    OBVIOUS
  <2>1. p \in 1 .. N /\ PriorityOf[s[p]] > PriorityOf[r]
    BY <1>1, <1>2, <1>7
  <2>2. i = p \/ PriorityOf[s[p]] <= PriorityOf[s[i]]
    BY <1>1, <2>1 DEF Sorted
  <2>3. PriorityOf[s[p]] \in Nat /\ PriorityOf[s[i]] \in Nat /\ PriorityOf[r] \in Nat
    BY <1>1, <1>12, <2>1
  <2> QED BY <2>1, <2>2, <2>3
<1>15. Sorted(t)
  <2> SUFFICES ASSUME NEW i \in 1 .. N + 1, NEW j \in 1 .. N + 1, i < j
               PROVE  PriorityOf[t[i]] <= PriorityOf[t[j]]
    BY <1>8 DEF Sorted
  <2>1. \A k \in 1 .. N : PriorityOf[s[k]] \in Nat
    BY <1>1, <1>12
  <2>2. PriorityOf[r] \in Nat
    BY <1>12
  <2>3. \A k, l \in 1 .. N : k < l => PriorityOf[s[k]] <= PriorityOf[s[l]]
    BY <1>1 DEF Sorted
  <2>4. CASE j < p
    <3>1. t[i] = s[i] /\ t[j] = s[j] /\ i \in 1 .. N /\ j \in 1 .. N
      BY <2>4, <1>7, <1>9
    <3> QED BY <2>3, <3>1
  <2>5. CASE j = p
    BY <2>5, <1>9, <1>13
  <2>6. CASE j > p /\ i < p
    <3>1. t[i] = s[i] /\ t[j] = s[j - 1] /\ i \in 1 .. N /\ j - 1 \in 1 .. N /\ j - 1 >= p
      BY <2>6, <1>7, <1>9
    <3>2. PriorityOf[s[i]] <= PriorityOf[r] /\ PriorityOf[s[j - 1]] >= PriorityOf[r]
      BY <2>6, <3>1, <1>13, <1>14
    <3>3. PriorityOf[s[i]] \in Nat /\ PriorityOf[s[j - 1]] \in Nat
      BY <2>1, <3>1
    <3> QED BY <2>2, <3>1, <3>2, <3>3
  <2>7. CASE j > p /\ i = p
    <3>1. t[i] = r /\ t[j] = s[j - 1] /\ j - 1 \in 1 .. N /\ j - 1 >= p
      BY <2>7, <1>7, <1>9
    <3>2. PriorityOf[s[j - 1]] >= PriorityOf[r]
      BY <3>1, <1>14
    <3> QED BY <3>1, <3>2
  <2>8. CASE j > p /\ i > p
    <3>1. t[i] = s[i - 1] /\ t[j] = s[j - 1] /\ i - 1 \in 1 .. N /\ j - 1 \in 1 .. N /\ i - 1 < j - 1
      BY <2>8, <1>7, <1>9
    <3> QED BY <3>1, <2>3
  <2> QED BY <2>4, <2>5, <2>6, <2>7, <2>8, <1>7
<1>16. ASSUME IsInjective(s), r \notin Range(s) PROVE IsInjective(t)
  <2> SUFFICES ASSUME NEW i \in 1 .. N + 1, NEW j \in 1 .. N + 1, t[i] = t[j] PROVE i = j
    BY <1>8 DEF IsInjective
  <2>1. \A k \in 1 .. N : s[k] # r
    BY <1>1, <1>16, RangeIs
  <2>2. \A k, l \in 1 .. N : s[k] = s[l] => k = l
    BY <1>1, <1>16 DEF IsInjective
  <2> QED BY <2>1, <2>2, <1>7, <1>9
<1> QED BY <1>1, <1>5, <1>10, <1>11, <1>15, <1>16
\* The function InOrder is defined by, and the equations that define it.
OrderRec(rules) ==
  CHOOSE f : f = [n \in 0 .. Len(rules) |-> IF n = 0 THEN <<>> ELSE ByPriority(f[n - 1], rules[n])]
OrderBody(rules, f) ==
  f = [n \in 0 .. Len(rules) |-> IF n = 0 THEN <<>> ELSE ByPriority(f[n - 1], rules[n])]
OrderGoes(rules, f) ==
  /\ f[0] = <<>> /\ InOrder(rules) = f[Len(rules)]
  /\ \A n \in 1 .. Len(rules) : f[n] = ByPriority(f[n - 1], rules[n])

InOrderedRules == {s \in Ruled : Sorted(s)}

\* InOrder puts one rule after the other in its place.
LEMMA OrderIs ==
  ASSUME NEW rules \in Ruled
  PROVE  \E f : OrderGoes(rules, f)
<1>1. PICK N \in Nat : N = Len(rules) /\ \A n \in 1 .. N : rules[n] \in AllRules
  BY DEF Ruled
<1>2. PICK G : G = [x \in (1 .. N) \X InOrderedRules |-> ByPriority(x[2], rules[x[1]])]
  OBVIOUS
<1>3. G \in [(1 .. N) \X InOrderedRules -> InOrderedRules]
  <2>1. ASSUME NEW x \in (1 .. N) \X InOrderedRules
        PROVE  ByPriority(x[2], rules[x[1]]) \in InOrderedRules
    <3>1. x[1] \in 1 .. N /\ x[2] \in Ruled /\ Sorted(x[2]) /\ rules[x[1]] \in AllRules
      BY <1>1 DEF InOrderedRules
    <3> QED BY <3>1, PutInOrder DEF InOrderedRules
  <2> QED BY <2>1, <1>2
<1>4. <<>> \in InOrderedRules
  BY DEF Ruled, InOrderedRules, Sorted
<1>5. PICK f \in [0 .. N -> InOrderedRules] : GoesOn(N, <<>>, G, f)
  BY <1>3, <1>4, Recursion
<1>6. OrderBody(rules, f)
  <2>1. ASSUME NEW n \in 0 .. N, n # 0
        PROVE  G[<<n, f[n - 1]>>] = ByPriority(f[n - 1], rules[n])
    <3>1. n \in 1 .. N /\ n - 1 \in 0 .. N
      BY <1>1, <2>1
    <3> QED BY <3>1, <1>2
  <2> QED BY <1>1, <1>5, <2>1 DEF GoesOn, OrderBody
<1> DEFINE g == OrderRec(rules)
<1>8. InOrder(rules) = g[Len(rules)]
  BY DEF InOrder, OrderRec
<1>9. OrderBody(rules, g)
  <2>1. g = CHOOSE h : OrderBody(rules, h)
    BY DEF OrderRec, OrderBody
  <2> HIDE DEF g
  <2> QED BY <2>1, <1>6
<1> HIDE DEF g
<1>10. g[0] = <<>> /\ \A n \in 1 .. N : g[n] = ByPriority(g[n - 1], rules[n])
  BY <1>1, <1>9 DEF OrderBody
<1> QED BY <1>1, <1>8, <1>10 DEF OrderGoes

\* The order of priority has the same rules, as many of them.
LEMMA OrderHas ==
  ASSUME NEW rules \in Ruled
  PROVE  /\ InOrder(rules) \in Ruled /\ Range(InOrder(rules)) = Range(rules) /\ Sorted(InOrder(rules))
         /\ Len(InOrder(rules)) = Len(rules)
         /\ IsInjective(rules) => IsInjective(InOrder(rules))
<1>1. PICK N \in Nat : N = Len(rules) /\ DOMAIN rules = 1 .. N /\ \A n \in 1 .. N : rules[n] \in AllRules
  BY DEF Ruled
<1>2. PICK f : OrderGoes(rules, f)
  BY OrderIs
<1> DEFINE Well(n) == /\ f[n] \in Ruled /\ Len(f[n]) = n /\ Sorted(f[n])
                      /\ \A x : x \in Range(f[n]) <=> \E i \in 1 .. n : rules[i] = x
                      /\ IsInjective(rules) => IsInjective(f[n])
           T == {n \in Nat : n <= N => Well(n)}
<1>3. 0 \in T
  <2>1. f[0] = <<>>
    BY <1>2 DEF OrderGoes
  <2>2. <<>> \in Ruled /\ Len(<<>>) = 0 /\ Range(<<>>) = {} /\ IsInjective(<<>>) /\ Sorted(<<>>)
    BY DEF Ruled, Range, IsInjective, Sorted
  <2>3. \A i \in 1 .. 0 : FALSE
    OBVIOUS
  <2> QED BY <2>1, <2>2, <2>3
<1>4. ASSUME NEW n \in T PROVE n + 1 \in T
  <2> SUFFICES ASSUME n + 1 <= N PROVE Well(n + 1)
    OBVIOUS
  <2>1. Well(n) /\ n \in Nat /\ n + 1 \in 1 .. N
    BY <1>1
  <2> HIDE DEF T
  <2>2. PICK s \in Ruled : s = f[n]
    BY <2>1
  <2>3. PICK r \in AllRules : r = rules[n + 1]
    BY <1>1, <2>1
  <2>4. f[n + 1] = ByPriority(s, r)
    <3>1. (n + 1) - 1 = n
      BY <2>1
    <3> QED BY <1>1, <1>2, <2>1, <2>2, <2>3, <3>1 DEF OrderGoes
  <2>5. PICK t : t = f[n + 1]
    OBVIOUS
  <2>6. Sorted(s) /\ Len(s) = n
    BY <2>1, <2>2
  <2>7. /\ t \in Ruled /\ Len(t) = n + 1 /\ Range(t) = Range(s) \cup {r} /\ Sorted(t)
        /\ IsInjective(s) /\ r \notin Range(s) => IsInjective(t)
    BY <2>4, <2>5, <2>6, PutInOrder
  <2>8. \A i : i \in 1 .. n + 1 <=> i \in 1 .. n \/ i = n + 1
    BY <2>1
  <2>9. \A x : x \in Range(t) <=> \E i \in 1 .. n + 1 : rules[i] = x
    BY <2>1, <2>2, <2>3, <2>7, <2>8
  <2>10. ASSUME IsInjective(rules) PROVE IsInjective(t)
    <3>1. IsInjective(s)
      BY <2>1, <2>2, <2>10
    <3>2. r \notin Range(s)
      <4> SUFFICES ASSUME r \in Range(s) PROVE FALSE
        OBVIOUS
      <4>1. PICK i \in 1 .. n : rules[i] = r
        BY <2>1, <2>2
      <4>2. i \in DOMAIN rules /\ n + 1 \in DOMAIN rules /\ i # n + 1
        BY <1>1, <2>1
      <4> QED BY <4>1, <4>2, <2>3, <2>10 DEF IsInjective
    <3> QED BY <3>1, <3>2, <2>7
  <2> QED BY <2>5, <2>7, <2>9, <2>10
<1> HIDE DEF Well
<1>5. T \in SUBSET Nat
  OBVIOUS
<1> HIDE DEF T
<1>6. T = Nat
  BY <1>3, <1>4, <1>5, AllNumbers
<1>7. Well(N)
  BY <1>6 DEF T
<1>8. InOrder(rules) = f[N]
  BY <1>1, <1>2 DEF OrderGoes
<1>9. \A x : x \in Range(rules) <=> \E i \in 1 .. N : rules[i] = x
  BY <1>1, RangeIs
<1> QED BY <1>1, <1>7, <1>8, <1>9 DEF Well

(* The issues that names are matched with. *)

\* The function MatchedIssues is defined by, and the equations that define it.
MatchRec(names, issues) ==
  CHOOSE f : f = [n \in 0 .. Len(names) |-> IF n = 0 THEN <<>> ELSE Matched(f[n - 1], names[n], issues)]
MatchBody(names, issues, f) ==
  f = [n \in 0 .. Len(names) |-> IF n = 0 THEN <<>> ELSE Matched(f[n - 1], names[n], issues)]
MatchGoes(names, issues, f) ==
  /\ f[0] = <<>> /\ MatchedIssues(names, issues) = f[Len(names)]
  /\ \A n \in 1 .. Len(names) : f[n] = Matched(f[n - 1], names[n], issues)

\* The issue a name is matched with is one of that name that is free.
LEMMA FirstFreeIs ==
  ASSUME NEW m, NEW r, NEW issues \in Ruled
  PROVE  /\ FirstFree(m, r, issues) \in Nat
         /\ FirstFree(m, r, issues) # 0 <=> \E i \in DOMAIN issues \ Range(m) : issues[i] = r
         /\ FirstFree(m, r, issues) # 0 =>
              /\ FirstFree(m, r, issues) \in DOMAIN issues \ Range(m)
              /\ issues[FirstFree(m, r, issues)] = r
<1>1. PICK F : F = {i \in DOMAIN issues \ Range(m) : issues[i] = r}
  OBVIOUS
<1>2. F \in SUBSET Nat /\ \A i \in F : i # 0
  BY <1>1 DEF Ruled
<1>3. FirstFree(m, r, issues) = IF F = {} THEN 0 ELSE Least(F)
  BY <1>1 DEF FirstFree
<1>4. F # {} => Least(F) \in F
  BY <1>2, LeastIs
<1> QED BY <1>1, <1>2, <1>3, <1>4

\* MatchedIssues matches one name after the other.
LEMMA MatchIs ==
  ASSUME NEW names \in Ruled, NEW issues \in Ruled
  PROVE  \E f : MatchGoes(names, issues, f)
<1>1. PICK N \in Nat : N = Len(names) /\ \A n \in 1 .. N : names[n] \in AllRules
  BY DEF Ruled
<1>2. PICK G : G = [x \in (1 .. N) \X Seq(Nat) |-> Matched(x[2], names[x[1]], issues)]
  OBVIOUS
<1>3. G \in [(1 .. N) \X Seq(Nat) -> Seq(Nat)]
  <2>1. ASSUME NEW x \in (1 .. N) \X Seq(Nat)
        PROVE  Matched(x[2], names[x[1]], issues) \in Seq(Nat)
    <3>1. FirstFree(x[2], names[x[1]], issues) \in Nat
      BY FirstFreeIs
    <3> QED BY <3>1 DEF Matched
  <2> QED BY <2>1, <1>2
<1>4. PICK V : V = Seq(Nat)
  OBVIOUS
<1>5. PICK f \in [0 .. N -> V] : GoesOn(N, <<>>, G, f)
  <2>1. <<>> \in V /\ G \in [(1 .. N) \X V -> V]
    BY <1>3, <1>4
  <2> QED BY <2>1, Recursion
<1>6. MatchBody(names, issues, f)
  <2>1. ASSUME NEW n \in 0 .. N, n # 0
        PROVE  G[<<n, f[n - 1]>>] = Matched(f[n - 1], names[n], issues)
    <3>1. n \in 1 .. N /\ n - 1 \in 0 .. N
      BY <1>1, <2>1
    <3> QED BY <3>1, <1>2, <1>4, <1>5
  <2> QED BY <1>1, <1>5, <2>1 DEF GoesOn, MatchBody
<1> DEFINE g == MatchRec(names, issues)
<1>8. MatchedIssues(names, issues) = g[Len(names)]
  BY DEF MatchedIssues, MatchRec
<1>9. MatchBody(names, issues, g)
  <2>1. g = CHOOSE h : MatchBody(names, issues, h)
    BY DEF MatchRec, MatchBody
  <2> HIDE DEF g
  <2> QED BY <2>1, <1>6
<1> HIDE DEF g
<1>10. g[0] = <<>> /\ \A n \in 1 .. N : g[n] = Matched(g[n - 1], names[n], issues)
  BY <1>1, <1>9 DEF MatchBody
<1> QED BY <1>1, <1>8, <1>10 DEF MatchGoes

\* Where names and issues are each there once, a name is matched with its issue.
LEMMA MatchHas ==
  ASSUME NEW names \in Ruled, NEW issues \in Ruled, IsInjective(names), IsInjective(issues)
  PROVE  LET m == MatchedIssues(names, issues) IN
         /\ m \in Seq(Nat) /\ Len(m) = Len(names)
         /\ \A i \in DOMAIN names :
              /\ m[i] # 0 <=> names[i] \in Range(issues)
              /\ m[i] # 0 => m[i] \in DOMAIN issues /\ issues[m[i]] = names[i]
<1>1. PICK N \in Nat : N = Len(names) /\ DOMAIN names = 1 .. N /\ \A n \in 1 .. N : names[n] \in AllRules
  BY DEF Ruled
<1>2. PICK f : MatchGoes(names, issues, f)
  BY MatchIs
<1> DEFINE Well(n) == /\ f[n] \in Seq(Nat) /\ Len(f[n]) = n
                      /\ \A i \in 1 .. n :
                           /\ f[n][i] # 0 <=> names[i] \in Range(issues)
                           /\ f[n][i] # 0 => f[n][i] \in DOMAIN issues /\ issues[f[n][i]] = names[i]
           T == {n \in Nat : n <= N => Well(n)}
<1>3. 0 \in T
  <2>1. f[0] = <<>>
    BY <1>2 DEF MatchGoes
  <2>2. <<>> \in Seq(Nat) /\ Len(<<>>) = 0
    OBVIOUS
  <2>3. \A i \in 1 .. 0 : FALSE
    OBVIOUS
  <2> QED BY <2>1, <2>2, <2>3
<1>4. ASSUME NEW n \in T PROVE n + 1 \in T
  <2> SUFFICES ASSUME n + 1 <= N PROVE Well(n + 1)
    OBVIOUS
  <2>1. Well(n) /\ n \in Nat /\ n + 1 \in 1 .. N
    BY <1>1
  <2> HIDE DEF T
  <2>2. PICK m \in Seq(Nat) : m = f[n]
    BY <2>1
  <2>3. PICK r \in AllRules : r = names[n + 1]
    BY <1>1, <2>1
  <2>4. PICK k \in Nat : k = FirstFree(m, r, issues)
    BY FirstFreeIs
  <2>5. PICK t : t = f[n + 1]
    OBVIOUS
  <2>6. t = Append(m, k)
    <3>1. (n + 1) - 1 = n
      BY <2>1
    <3> QED BY <1>1, <1>2, <2>1, <2>2, <2>3, <2>4, <2>5, <3>1 DEF MatchGoes, Matched
  <2>7. /\ Len(m) = n
        /\ \A i \in 1 .. n : /\ m[i] # 0 <=> names[i] \in Range(issues)
                             /\ m[i] # 0 => m[i] \in DOMAIN issues /\ issues[m[i]] = names[i]
    BY <2>1, <2>2
  <2>8. t \in Seq(Nat) /\ Len(t) = n + 1 /\ t[n + 1] = k /\ \A i \in 1 .. n : t[i] = m[i]
    BY <2>1, <2>6, <2>7
  <2>9. k # 0 => k \in DOMAIN issues /\ issues[k] = r
    BY <2>4, FirstFreeIs
  <2>10. k # 0 <=> r \in Range(issues)
    <3>1. k # 0 => r \in Range(issues)
      BY <2>9, RangeIs
    <3>2. ASSUME r \in Range(issues) PROVE k # 0
      <4>1. PICK i \in DOMAIN issues : issues[i] = r
        BY <3>2, RangeIs
      <4>2. i \notin Range(m)
        <5> SUFFICES ASSUME i \in Range(m) PROVE FALSE
          OBVIOUS
        <5>1. PICK j \in 1 .. n : m[j] = i
          BY <2>1, <2>7, RangeIs
        <5>2. i # 0
          BY DEF Ruled
        <5>3. issues[i] = names[j]
          BY <2>7, <5>1, <5>2
        <5>4. j \in DOMAIN names /\ n + 1 \in DOMAIN names /\ j # n + 1 /\ names[j] = names[n + 1]
          BY <1>1, <2>1, <2>3, <4>1, <5>3
        <5> QED BY <5>4 DEF IsInjective
      <4> QED BY <4>1, <4>2, <2>4, FirstFreeIs
    <3> QED BY <3>1, <3>2
  <2>11. \A i \in 1 .. n + 1 : i \in 1 .. n \/ i = n + 1
    BY <2>1
  <2>12. \A i \in 1 .. n + 1 : /\ t[i] # 0 <=> names[i] \in Range(issues)
                               /\ t[i] # 0 => t[i] \in DOMAIN issues /\ issues[t[i]] = names[i]
    BY <2>3, <2>7, <2>8, <2>9, <2>10, <2>11
  <2> QED BY <2>5, <2>8, <2>12
<1> HIDE DEF Well
<1>5. T \in SUBSET Nat
  OBVIOUS
<1> HIDE DEF T
<1>6. T = Nat
  BY <1>3, <1>4, <1>5, AllNumbers
<1>7. Well(N)
  BY <1>6 DEF T
<1>8. MatchedIssues(names, issues) = f[N]
  BY <1>1, <1>2 DEF MatchGoes
<1> QED BY <1>1, <1>7, <1>8 DEF Well

\* Names with their deductions are in order with issues exactly when both are of
\* the same rules.
LEMMA AlignedIf ==
  ASSUME NEW q, q.names \in Ruled, IsInjective(q.names),
         q.points = [i \in DOMAIN q.names |-> PointsOf[q.names[i]]],
         NEW issues \in Ruled, IsInjective(issues)
  PROVE  ~Misaligned(q, issues) <=> Range(q.names) = Range(issues)
<1>1. PICK names \in Ruled : names = q.names
  OBVIOUS
<1>2. PICK m : m = MatchedIssues(names, issues)
  OBVIOUS
<1>3. /\ m \in Seq(Nat) /\ Len(m) = Len(names)
      /\ \A i \in DOMAIN names : m[i] # 0 <=> names[i] \in Range(issues)
      /\ \A i \in DOMAIN names : m[i] # 0 => m[i] \in DOMAIN issues /\ issues[m[i]] = names[i]
  BY <1>1, <1>2, MatchHas
<1>4. PICK N \in Nat : N = Len(names) /\ DOMAIN names = 1 .. N /\ DOMAIN m = 1 .. N /\ Len(q.points) = N
  <2>1. PICK N \in Nat : N = Len(names) /\ DOMAIN names = 1 .. N
    BY DEF Ruled
  <2>2. DOMAIN m = 1 .. N
    BY <1>3, <2>1
  <2>3. \A r \in AllRules : PointsOf[r] \in Nat
    BY ReportAssumption
  <2>4. q.points \in [1 .. N -> Nat]
    BY <1>1, <2>1, <2>3 DEF Ruled
  <2>5. Len(q.points) = N
    BY <2>1, <2>4
  <2> QED BY <2>1, <2>2, <2>5
<1>5. Misaligned(q, issues) <=> \/ Len(names) # Len(q.points) \/ Len(names) # Len(issues)
                                \/ Range(m) # DOMAIN issues
                                \/ \E i \in DOMAIN m : m[i] = 0 \/ PointsOf[issues[m[i]]] # q.points[i]
  BY <1>1, <1>2 DEF Misaligned
<1>6. ASSUME Range(names) = Range(issues) PROVE ~Misaligned(q, issues)
  <2>1. Len(names) = Len(issues)
    BY <1>1, <1>6, AsLong
  <2>2. \A i \in DOMAIN m : m[i] # 0 /\ m[i] \in DOMAIN issues /\ issues[m[i]] = names[i]
    BY <1>3, <1>4, <1>6, RangeIs
  <2>3. \A i \in DOMAIN m : PointsOf[issues[m[i]]] = q.points[i]
    BY <1>1, <1>4, <2>2
  <2>4. Range(m) = DOMAIN issues
    <3>1. Range(m) \subseteq DOMAIN issues
      BY <2>2, RangeIs
    <3>2. ASSUME NEW k \in DOMAIN issues PROVE k \in Range(m)
      <4>0. issues[k] \in Range(names)
        BY <1>6, RangeIs
      <4>1. PICK i \in DOMAIN names : names[i] = issues[k]
        BY <4>0, RangeIs
      <4>2. i \in DOMAIN m /\ m[i] \in DOMAIN issues /\ issues[m[i]] = issues[k]
        BY <1>4, <2>2, <4>1
      <4>3. m[i] = k
        BY <4>2 DEF IsInjective
      <4> QED BY <4>2, <4>3, RangeIs
    <3> QED BY <3>1, <3>2
  <2> QED BY <1>4, <1>5, <2>1, <2>2, <2>3, <2>4
<1>7. ASSUME ~Misaligned(q, issues) PROVE Range(names) = Range(issues)
  <2>1. Range(m) = DOMAIN issues /\ \A i \in DOMAIN m : m[i] # 0
    BY <1>5, <1>7
  <2>2. \A i \in DOMAIN names : names[i] \in Range(issues)
    BY <1>3, <1>4, <2>1
  <2>3. ASSUME NEW k \in DOMAIN issues PROVE issues[k] \in Range(names)
    <3>1. PICK i \in DOMAIN m : m[i] = k
      BY <2>1, RangeIs
    <3>2. issues[k] = names[i] /\ i \in DOMAIN names
      BY <1>3, <1>4, <2>1, <3>1
    <3> QED BY <3>2, RangeIs
  <2>4. ASSUME NEW x \in Range(names) PROVE x \in Range(issues)
    <3>1. PICK i \in DOMAIN names : names[i] = x
      BY RangeIs
    <3> QED BY <2>2, <3>1
  <2>5. ASSUME NEW x \in Range(issues) PROVE x \in Range(names)
    <3>1. PICK k \in DOMAIN issues : issues[k] = x
      BY RangeIs
    <3> QED BY <2>3, <3>1
  <2> QED BY <2>4, <2>5
<1> QED BY <1>1, <1>6, <1>7

(* The rounds of a dialogue. *)

Round == [waiting : BOOLEAN, n : Nat]

\* The function Rounds is defined by, and the equations that define it.
HeardRec(turns) ==
  CHOOSE f : f = [n \in 0 .. Len(turns) |->
                    IF n = 0 THEN [waiting |-> FALSE, n |-> 0] ELSE Heard(f[n - 1], turns[n])]
HeardBody(turns, f) ==
  f = [n \in 0 .. Len(turns) |->
         IF n = 0 THEN [waiting |-> FALSE, n |-> 0] ELSE Heard(f[n - 1], turns[n])]
HeardGoes(turns, f) ==
  /\ f[0] = [waiting |-> FALSE, n |-> 0] /\ Rounds(turns) = f[Len(turns)].n
  /\ \A n \in 1 .. Len(turns) : f[n] = Heard(f[n - 1], turns[n])

\* What one turn changes.
LEMMA HeardIs ==
  ASSUME NEW s \in Round, NEW t \in Speech
  PROVE  /\ Heard(s, t) \in Round
         /\ t.speaker = "customer" => Heard(s, t).waiting /\ Heard(s, t).n = s.n
         /\ t.speaker = "agent" => ~Heard(s, t).waiting
         /\ t.speaker = "agent" /\ s.waiting => Heard(s, t).n = s.n + 1
         /\ t.speaker = "agent" /\ ~s.waiting => Heard(s, t) = s
         /\ t.speaker = "robot" => Heard(s, t) = s
<1>1. t.speaker \in {"customer", "agent", "robot"} /\ s.waiting \in BOOLEAN /\ s.n \in Nat
  BY DEF Speech, Round
<1>2. CASE t.speaker = "customer"
  <2>1. Heard(s, t) = [s EXCEPT !.waiting = TRUE]
    BY <1>2 DEF Heard
  <2> QED BY <1>2, <2>1 DEF Round
<1>3. CASE t.speaker = "agent" /\ s.waiting
  <2>1. Heard(s, t) = [waiting |-> FALSE, n |-> s.n + 1]
    BY <1>3 DEF Heard
  <2> QED BY <1>1, <1>3, <2>1 DEF Round
<1>4. CASE t.speaker = "agent" /\ ~s.waiting
  <2>1. Heard(s, t) = s
    BY <1>4 DEF Heard
  <2> QED BY <1>1, <1>4, <2>1
<1>5. CASE t.speaker = "robot"
  <2>1. Heard(s, t) = s
    BY <1>5 DEF Heard
  <2> QED BY <1>5, <2>1
<1> QED BY <1>1, <1>2, <1>3, <1>4, <1>5

\* Rounds hears one turn after the other.
LEMMA HeardExists ==
  ASSUME NEW turns \in Seq(Speech)
  PROVE  \E f : HeardGoes(turns, f)
<1>1. PICK N \in Nat : N = Len(turns) /\ \A n \in 1 .. N : turns[n] \in Speech
  OBVIOUS
<1>2. PICK G : G = [x \in (1 .. N) \X Round |-> Heard(x[2], turns[x[1]])]
  OBVIOUS
<1>3. G \in [(1 .. N) \X Round -> Round]
  <2>1. ASSUME NEW x \in (1 .. N) \X Round
        PROVE  Heard(x[2], turns[x[1]]) \in Round
    <3>1. x[2] \in Round /\ turns[x[1]] \in Speech
      BY <1>1
    <3> QED BY <3>1, HeardIs
  <2> QED BY <2>1, <1>2
<1>4. PICK s : s = [waiting |-> FALSE, n |-> 0]
  OBVIOUS
<1>5. PICK f \in [0 .. N -> Round] : GoesOn(N, s, G, f)
  <2>1. s \in Round
    BY <1>4 DEF Round
  <2> QED BY <1>3, <2>1, Recursion
<1>6. HeardBody(turns, f)
  <2>1. ASSUME NEW n \in 0 .. N, n # 0
        PROVE  G[<<n, f[n - 1]>>] = Heard(f[n - 1], turns[n])
    <3>1. n \in 1 .. N /\ n - 1 \in 0 .. N
      BY <1>1, <2>1
    <3> QED BY <3>1, <1>2
  <2> QED BY <1>1, <1>4, <1>5, <2>1 DEF GoesOn, HeardBody
<1> DEFINE g == HeardRec(turns)
<1>8. Rounds(turns) = g[Len(turns)].n
  BY DEF Rounds, HeardRec
<1>9. HeardBody(turns, g)
  <2>1. g = CHOOSE h : HeardBody(turns, h)
    BY DEF HeardRec, HeardBody
  <2> HIDE DEF g
  <2> QED BY <2>1, <1>6
<1> HIDE DEF g
<1>10. g[0] = [waiting |-> FALSE, n |-> 0] /\ \A n \in 1 .. N : g[n] = Heard(g[n - 1], turns[n])
  <2>1. g = [n \in 0 .. N |-> IF n = 0 THEN [waiting |-> FALSE, n |-> 0] ELSE Heard(g[n - 1], turns[n])]
    BY <1>1, <1>9 DEF HeardBody
  <2>2. 0 \in 0 .. N /\ \A n \in 1 .. N : n \in 0 .. N /\ n # 0
    BY <1>1
  <2> QED BY <2>1, <2>2
<1> QED BY <1>1, <1>8, <1>10 DEF HeardGoes

\* The rounds are the turns of an agent that answer a customer.
LEMMA RoundsAre ==
  ASSUME NEW turns \in Seq(Speech)
  PROVE  Rounds(turns) = Cardinality({i \in DOMAIN turns : IsAnswer(turns, i)})
<1>1. PICK N \in Nat : N = Len(turns) /\ DOMAIN turns = 1 .. N /\ \A n \in 1 .. N : turns[n] \in Speech
  OBVIOUS
<1>2. PICK f : HeardGoes(turns, f)
  BY HeardExists
<1> DEFINE Awaits(n) == \E k \in 1 .. n : /\ turns[k].speaker = "customer"
                                          /\ \A l \in k + 1 .. n : turns[l].speaker # "agent"
           Replies(n) == {i \in 1 .. n : IsAnswer(turns, i)}
           Well(n) == /\ f[n] \in Round /\ (f[n].waiting <=> Awaits(n))
                      /\ IsFiniteSet(Replies(n)) /\ f[n].n = Cardinality(Replies(n))
           T == {n \in Nat : n <= N => Well(n)}
<1>3. 0 \in T
  <2>1. f[0] = [waiting |-> FALSE, n |-> 0]
    BY <1>2 DEF HeardGoes
  <2>2. f[0] \in Round /\ ~f[0].waiting /\ f[0].n = 0
    BY <2>1 DEF Round
  <2>3. ~Awaits(0) /\ Replies(0) = {}
    OBVIOUS
  <2>4. IsFiniteSet(Replies(0)) /\ Cardinality(Replies(0)) = 0
    BY <2>3, FS_EmptySet
  <2> HIDE DEF Awaits, Replies
  <2>5. Well(0)
    BY <2>2, <2>3, <2>4
  <2> QED BY <2>5
<1>4. ASSUME NEW n \in T PROVE n + 1 \in T
  <2> HIDE DEF Well
  <2> SUFFICES ASSUME n + 1 <= N PROVE Well(n + 1)
    OBVIOUS
  <2>1. Well(n) /\ n \in Nat /\ n + 1 \in 1 .. N
    BY <1>1
  <2> HIDE DEF T
  <2> USE DEF Well
  <2>2. PICK t \in Speech : t = turns[n + 1]
    BY <1>1, <2>1
  <2>3. PICK s \in Round : s = f[n]
    BY <2>1
  <2>4. f[n + 1] = Heard(s, t)
    <3>1. (n + 1) - 1 = n
      BY <2>1
    <3> QED BY <1>1, <1>2, <2>1, <2>2, <2>3, <3>1 DEF HeardGoes
  <2>5. IsAnswer(turns, n + 1) <=> t.speaker = "agent" /\ Awaits(n)
    <3>1. (n + 1) - 1 = n
      BY <2>1
    <3> QED BY <2>2, <3>1 DEF IsAnswer
  <2>6. \A i : i \in 1 .. n + 1 <=> i \in 1 .. n \/ i = n + 1
    BY <2>1
  <2>7. n + 1 \notin 1 .. n
    BY <2>1
  <2>8. t.speaker = "customer" => Awaits(n + 1)
    <3>1. \A l \in (n + 1) + 1 .. n + 1 : FALSE
      BY <2>1
    <3>2. n + 1 \in 1 .. n + 1
      BY <2>1
    <3> QED BY <2>2, <3>1, <3>2
  <2>9. t.speaker = "agent" => ~Awaits(n + 1)
    <3> SUFFICES ASSUME t.speaker = "agent",
                        NEW k \in 1 .. n + 1, turns[k].speaker = "customer",
                        \A l \in k + 1 .. n + 1 : turns[l].speaker # "agent"
                 PROVE  FALSE
      OBVIOUS
    <3>1. k # n + 1
      BY <2>2
    <3>2. n + 1 \in k + 1 .. n + 1
      BY <2>1, <3>1
    <3> QED BY <2>2, <3>2
  <2>10. t.speaker = "robot" => (Awaits(n + 1) <=> Awaits(n))
    <3> SUFFICES ASSUME t.speaker = "robot" PROVE Awaits(n + 1) <=> Awaits(n)
      OBVIOUS
    <3>1. ASSUME NEW k \in 1 .. n + 1, turns[k].speaker = "customer",
                 \A l \in k + 1 .. n + 1 : turns[l].speaker # "agent"
          PROVE  Awaits(n)
      <4>1. k \in 1 .. n
        BY <2>2, <2>6, <3>1
      <4>2. \A l \in k + 1 .. n : l \in k + 1 .. n + 1
        BY <2>1, <4>1
      <4> QED BY <3>1, <4>1, <4>2
    <3>2. ASSUME NEW k \in 1 .. n, turns[k].speaker = "customer",
                 \A l \in k + 1 .. n : turns[l].speaker # "agent"
          PROVE  Awaits(n + 1)
      <4>1. k \in 1 .. n + 1
        BY <2>6
      <4>2. \A l \in k + 1 .. n + 1 : l \in k + 1 .. n \/ l = n + 1
        BY <2>1, <4>1
      <4>3. \A l \in k + 1 .. n + 1 : turns[l].speaker # "agent"
        BY <2>2, <3>2, <4>2
      <4> QED BY <3>2, <4>1, <4>3
    <3> QED BY <3>1, <3>2
  <2>11. Replies(n + 1) = IF IsAnswer(turns, n + 1) THEN Replies(n) \cup {n + 1} ELSE Replies(n)
    BY <2>6
  <2>12. n + 1 \notin Replies(n)
    BY <2>7
  <2>13. (s.waiting <=> Awaits(n)) /\ IsFiniteSet(Replies(n)) /\ s.n = Cardinality(Replies(n)) /\ s.n \in Nat
    BY <2>1, <2>3 DEF Round
  <2> HIDE DEF Awaits, Replies
  <2>14. /\ IsFiniteSet(Replies(n + 1))
         /\ Cardinality(Replies(n + 1)) = IF IsAnswer(turns, n + 1) THEN s.n + 1 ELSE s.n
    BY <2>11, <2>12, <2>13, FS_AddElement
  <2>15. t.speaker \in {"customer", "agent", "robot"}
    BY DEF Speech
  <2>16. f[n + 1] \in Round /\ f[n + 1].waiting \in BOOLEAN
    BY <2>4, HeardIs DEF Round
  <2>17. f[n + 1].waiting <=> Awaits(n + 1)
    <3>1. CASE t.speaker = "customer"
      BY <3>1, <2>4, <2>8, HeardIs
    <3>2. CASE t.speaker = "agent"
      BY <3>2, <2>4, <2>9, HeardIs
    <3>3. CASE t.speaker = "robot"
      <4>1. f[n + 1].waiting <=> s.waiting
        BY <3>3, <2>4, HeardIs
      <4> QED BY <3>3, <4>1, <2>10, <2>13
    <3> QED BY <3>1, <3>2, <3>3, <2>15
  <2>18. f[n + 1].n = Cardinality(Replies(n + 1))
    <3>1. CASE t.speaker = "agent" /\ s.waiting
      BY <3>1, <2>4, <2>5, <2>13, <2>14, HeardIs
    <3>2. CASE t.speaker = "agent" /\ ~s.waiting
      BY <3>2, <2>4, <2>5, <2>13, <2>14, HeardIs
    <3>3. CASE t.speaker # "agent"
      <4>1. f[n + 1].n = s.n
        BY <3>3, <2>4, <2>15, HeardIs
      <4> QED BY <3>3, <4>1, <2>5, <2>14
    <3> QED BY <3>1, <3>2, <3>3
  <2> QED BY <2>14, <2>16, <2>17, <2>18
<1> HIDE DEF Well
<1>5. T \in SUBSET Nat
  OBVIOUS
<1> HIDE DEF T
<1>6. T = Nat
  BY <1>3, <1>4, <1>5, AllNumbers
<1>7. Well(N)
  BY <1>6 DEF T
<1>8. Rounds(turns) = f[N].n
  BY <1>1, <1>2 DEF HeardGoes
<1> QED BY <1>1, <1>7, <1>8 DEF Well

(* The start of a conversation. *)

\* The first of some times is one of them, and none is before it.
LEMMA FirstIs ==
  ASSUME NEW times \in SUBSET Moment, times # {}
  PROVE  First(times) \in times /\ \A t \in times : ~Before(t, First(times))
<1>1. \A t \in times : t.day \in Nat /\ t.clock \in Nat
  BY DEF Moment
<1>2. PICK d \in {t.day : t \in times} : \A e \in {t.day : t \in times} : d <= e
  <2>1. {t.day : t \in times} \in SUBSET Nat /\ {t.day : t \in times} # {}
    BY <1>1
  <2> QED BY <2>1, LeastOf
<1>3. PICK u \in times : u.day = d
  BY <1>2
<1>4. PICK dawn : dawn = {t \in times : t.day = d}
  OBVIOUS
<1>5. PICK c \in {t.clock : t \in dawn} : \A e \in {t.clock : t \in dawn} : c <= e
  <2>1. {t.clock : t \in dawn} \in SUBSET Nat /\ {t.clock : t \in dawn} # {}
    BY <1>1, <1>3, <1>4
  <2> QED BY <2>1, LeastOf
<1>6. PICK s \in dawn : s.clock = c
  BY <1>5
<1>7. s \in times /\ s.day = d /\ s.day \in Nat /\ s.clock \in Nat
  BY <1>1, <1>4, <1>6
<1>8. ASSUME NEW t \in times PROVE ~Before(t, s)
  <2>1. s.day <= t.day /\ t.day \in Nat /\ t.clock \in Nat
    BY <1>1, <1>2, <1>7
  <2>2. t.day = s.day => s.clock <= t.clock
    BY <1>4, <1>5, <1>6, <1>7
  <2> QED BY <1>7, <2>1, <2>2 DEF Before
<1> QED BY <1>7, <1>8 DEF First

\* A start taken from the chat is said in it and nothing contradicts it.
LEMMA StartRead ==
  ASSUME NEW turns \in Seq(Speech), NEW sheet \in BOOLEAN, NEW day
  PROVE  StartIsRead(turns, sheet, day, StartOf(turns, sheet, day))
<1>1. PICK s : s = StartOf(turns, sheet, day)
  OBVIOUS
<1>2. \A i \in DOMAIN turns : turns[i].time # Unknown => turns[i].time \in Moment
  <2>1. \A i \in DOMAIN turns : turns[i] \in Speech
    OBVIOUS
  <2> QED BY <2>1 DEF Speech
<1>3. \A full \in BOOLEAN : Times(turns, full) \in SUBSET Moment
  BY <1>2 DEF Times
<1>4. \A full \in BOOLEAN : \A t \in Times(turns, full) : \E i \in DOMAIN turns : turns[i].time = t
  BY DEF Times
<1>5. \A full \in BOOLEAN : \A i \in DOMAIN turns :
        turns[i].time # Unknown /\ turns[i].time.full = full => turns[i].time \in Times(turns, full)
  BY DEF Times
<1>6. \A i \in DOMAIN turns : turns[i].time # Unknown => turns[i].time.full \in BOOLEAN
  BY <1>2 DEF Moment
<1>7. CASE sheet
  <2>1. s = [from |-> "sheet"]
    BY <1>1, <1>7 DEF StartOf
  <2>2. s.from = "sheet" /\ s.from \notin {"chat", "completed"}
    BY <2>1
  <2> QED BY <1>1, <1>7, <2>2 DEF StartIsRead
<1>8. CASE ~sheet /\ Times(turns, TRUE) # {}
  <2>1. PICK e : e = First(Times(turns, TRUE))
    OBVIOUS
  <2>2. s = [from |-> "chat", at |-> e]
    BY <1>1, <1>8, <2>1 DEF StartOf
  <2>3. e \in Times(turns, TRUE) /\ \A t \in Times(turns, TRUE) : ~Before(t, e)
    BY <1>3, <1>8, <2>1, FirstIs
  <2>4. \E i \in DOMAIN turns : turns[i].time = e
    BY <1>4, <2>3
  <2>5. \A i \in DOMAIN turns : turns[i].time # Unknown /\ turns[i].time.full => ~Before(turns[i].time, e)
    BY <1>5, <1>6, <2>3
  <2> QED BY <1>1, <1>8, <2>2, <2>4, <2>5 DEF StartIsRead
<1>9. CASE /\ ~sheet /\ Times(turns, TRUE) = {} /\ day # Unknown /\ Times(turns, FALSE) # {}
           /\ \A t \in Times(turns, FALSE) : t.day = day
  <2>1. PICK e : e = First(Times(turns, FALSE))
    OBVIOUS
  <2>2. s = [from |-> "completed", at |-> e]
    BY <1>1, <1>9, <2>1 DEF StartOf
  <2>3. e \in Times(turns, FALSE) /\ \A t \in Times(turns, FALSE) : ~Before(t, e)
    BY <1>3, <1>9, <2>1, FirstIs
  <2>4. \E i \in DOMAIN turns : turns[i].time = e
    BY <1>4, <2>3
  <2>5. \A i \in DOMAIN turns : turns[i].time # Unknown => ~turns[i].time.full
    BY <1>5, <1>6, <1>9
  <2>6. \A i \in DOMAIN turns : turns[i].time # Unknown => turns[i].time \in Times(turns, FALSE)
    BY <1>5, <1>6, <2>5
  <2>7. \A i \in DOMAIN turns : turns[i].time # Unknown =>
          ~turns[i].time.full /\ turns[i].time.day = day /\ ~Before(turns[i].time, e)
    BY <1>9, <2>3, <2>5, <2>6
  <2> QED BY <1>1, <1>9, <2>2, <2>4, <2>7 DEF StartIsRead
<1>10. CASE ~(sheet \/ (~sheet /\ Times(turns, TRUE) # {})
              \/ /\ ~sheet /\ Times(turns, TRUE) = {} /\ day # Unknown /\ Times(turns, FALSE) # {}
                 /\ \A t \in Times(turns, FALSE) : t.day = day)
  <2>1. s = [from |-> "nowhere"]
    BY <1>1, <1>10 DEF StartOf
  <2>2. s.from # "sheet" /\ s.from \notin {"chat", "completed"}
    BY <2>1
  <2>3. ~sheet
    BY <1>10
  <2> QED BY <1>1, <2>2, <2>3 DEF StartIsRead
<1> QED BY <1>7, <1>8, <1>9, <1>10

(* Deductions and grades. *)

\* The function Total is defined by, and the equation that defines it.
TotalRec(points) ==
  CHOOSE f : f = [n \in 0 .. Len(points) |-> IF n = 0 THEN 0 ELSE f[n - 1] + points[n]]
TotalBody(points, f) ==
  f = [n \in 0 .. Len(points) |-> IF n = 0 THEN 0 ELSE f[n - 1] + points[n]]

\* A total is a number.
LEMMA TotalIs ==
  ASSUME NEW points \in Seq(Nat)
  PROVE  Total(points) \in Nat /\ (Len(points) = 0 => Total(points) = 0)
<1>1. PICK N \in Nat : N = Len(points) /\ \A n \in 1 .. N : points[n] \in Nat
  OBVIOUS
<1>2. PICK G : G = [x \in (1 .. N) \X Nat |-> x[2] + points[x[1]]]
  OBVIOUS
<1>3. G \in [(1 .. N) \X Nat -> Nat]
  BY <1>1, <1>2
<1>5. PICK f \in [0 .. N -> Nat] : GoesOn(N, 0, G, f)
  <2>1. 0 \in Nat
    OBVIOUS
  <2> QED BY <1>3, <2>1, Recursion
<1>6. TotalBody(points, f)
  <2>1. ASSUME NEW n \in 0 .. N, n # 0
        PROVE  G[<<n, f[n - 1]>>] = f[n - 1] + points[n]
    <3>1. n \in 1 .. N /\ n - 1 \in 0 .. N
      BY <1>1, <2>1
    <3> QED BY <3>1, <1>2
  <2> QED BY <1>1, <1>5, <2>1 DEF GoesOn, TotalBody
<1> DEFINE g == TotalRec(points)
<1>8. Total(points) = g[Len(points)]
  BY DEF Total, TotalRec
<1>9. TotalBody(points, g)
  <2>1. g = CHOOSE h : TotalBody(points, h)
    BY DEF TotalRec, TotalBody
  <2> HIDE DEF g
  <2> QED BY <2>1, <1>6
<1> HIDE DEF g
<1>10. g[0] = 0 /\ \A n \in 1 .. N : g[n] = g[n - 1] + points[n]
  BY <1>1, <1>9 DEF TotalBody
<1> DEFINE T == {n \in Nat : n <= N => g[n] \in Nat}
<1>11. 0 \in T
  BY <1>10
<1>12. ASSUME NEW n \in T PROVE n + 1 \in T
  <2> SUFFICES ASSUME n + 1 <= N PROVE g[n + 1] \in Nat
    OBVIOUS
  <2>1. g[n] \in Nat /\ n \in Nat /\ n + 1 \in 1 .. N /\ (n + 1) - 1 = n
    BY <1>1
  <2> QED BY <1>1, <1>10, <2>1
<1>13. T \in SUBSET Nat
  OBVIOUS
<1> HIDE DEF T
<1>14. T = Nat
  BY <1>11, <1>12, <1>13, AllNumbers
<1>15. g[N] \in Nat
  BY <1>14 DEF T
<1> QED BY <1>1, <1>8, <1>10, <1>15

\* Deductions of rules add up to a number, which is zero where there are none.
LEMMA SumIs ==
  ASSUME NEW rules \in Ruled
  PROVE  Sum(rules) \in Nat /\ (rules = <<>> => Sum(rules) = 0)
<1>1. PICK points : points = [i \in DOMAIN rules |-> PointsOf[rules[i]]]
  OBVIOUS
<1>2. PICK N \in Nat : N = Len(rules) /\ DOMAIN rules = 1 .. N
  BY DEF Ruled
<1>3. \A i \in 1 .. N : PointsOf[rules[i]] \in Nat
  BY <1>2, ReportAssumption DEF Ruled
<1>4. points \in [1 .. N -> Nat]
  BY <1>1, <1>2, <1>3
<1>5. points \in Seq(Nat) /\ Len(points) = N
  BY <1>4
<1>6. Total(points) \in Nat /\ (Len(points) = 0 => Total(points) = 0)
  BY <1>5, TotalIs
<1>7. rules = <<>> => N = 0
  BY <1>2
<1> QED BY <1>1, <1>5, <1>6, <1>7 DEF Sum

\* The grade is the best one the score reaches, and A for the whole score if the
\* thresholds say so.
LEMMA GradeIs ==
  ASSUME NEW total \in Nat
  PROVE  /\ GradeOf(total, TRUE) = "D"
         /\ GradeOf(total, FALSE) \in Grades
         /\ \A g \in Grades : ScoreOf(total) >= AtLeast[g] => AtLeast[g] <= AtLeast[GradeOf(total, FALSE)]
         /\ TopIsA /\ total = 0 => GradeOf(total, FALSE) = "A"
<1>1. PICK score \in Nat : score = ScoreOf(total) /\ (total = 0 => score = TopScore)
  <2>1. TopScore \in Nat
    BY ReportAssumption
  <2>2. CASE total < TopScore
    BY <2>1, <2>2 DEF ScoreOf
  <2>3. CASE ~(total < TopScore)
    <3>1. ScoreOf(total) = 0 /\ (total = 0 => TopScore = 0)
      BY <2>1, <2>3 DEF ScoreOf
    <3> QED BY <3>1
  <2> QED BY <2>2, <2>3
<1>2. \A g \in Grades : AtLeast[g] \in Nat /\ RankOf[g] \in Nat
  BY ReportAssumption
<1>3. TopScore \in Nat
  BY ReportAssumption
<1>4. PICK met : met = {g \in Grades : AtLeast[g] <= score}
  OBVIOUS
<1>5. met # {} => \E g \in met : \A h \in met : AtLeast[h] <= AtLeast[g]
  <2> SUFFICES ASSUME met # {} PROVE \E g \in met : \A h \in met : AtLeast[h] <= AtLeast[g]
    OBVIOUS
  <2>1. PICK gaps : gaps = {score - AtLeast[g] : g \in met}
    OBVIOUS
  <2>2. gaps \in SUBSET Nat /\ gaps # {}
    <3>1. \A g \in met : AtLeast[g] \in Nat /\ score - AtLeast[g] \in Nat
      BY <1>2, <1>4
    <3> QED BY <2>1, <3>1
  <2>3. PICK m \in gaps : \A k \in gaps : m <= k
    BY <2>2, LeastOf
  <2>4. PICK g \in met : m = score - AtLeast[g]
    BY <2>1
  <2>5. ASSUME NEW h \in met PROVE AtLeast[h] <= AtLeast[g]
    <3>1. score - AtLeast[g] <= score - AtLeast[h]
      BY <2>1, <2>3, <2>4
    <3> QED BY <1>2, <1>4, <2>4, <3>1
  <2> QED BY <2>5
<1>60. PICK highest : highest = {g \in met : \A h \in met : AtLeast[h] <= AtLeast[g]}
  OBVIOUS
<1>61. met # {} => \E g \in highest : \A h \in highest : RankOf[g] <= RankOf[h]
  <2> SUFFICES ASSUME met # {} PROVE \E g \in highest : \A h \in highest : RankOf[g] <= RankOf[h]
    OBVIOUS
  <2>1. PICK ranks : ranks = {RankOf[g] : g \in highest}
    OBVIOUS
  <2>2. ranks \in SUBSET Nat /\ ranks # {}
    BY <1>2, <1>4, <1>5, <1>60, <2>1
  <2>3. PICK m \in ranks : \A k \in ranks : m <= k
    BY <2>2, LeastOf
  <2> QED BY <2>1, <2>3
<1>6. PICK best : best = CHOOSE g \in highest : \A h \in highest : RankOf[g] <= RankOf[h]
  OBVIOUS
<1>7. met # {} => best \in met /\ \A h \in met : AtLeast[h] <= AtLeast[best]
  <2>1. met # {} => best \in highest
    BY <1>61, <1>6
  <2> QED BY <2>1, <1>60
<1>8. GradeOf(total, TRUE) = "D"
  BY DEF GradeOf
<1>9. GradeOf(total, FALSE) = IF met = {} THEN "D" ELSE best
  BY <1>1, <1>4, <1>60, <1>6 DEF GradeOf
<1>10. "D" \in Grades /\ "A" \in Grades
  BY DEF Grades
<1>11. GradeOf(total, FALSE) \in Grades
  BY <1>4, <1>7, <1>9, <1>10
<1>12. ASSUME NEW g \in Grades, score >= AtLeast[g] PROVE AtLeast[g] <= AtLeast[GradeOf(total, FALSE)]
  <2>1. g \in met
    BY <1>2, <1>4, <1>12
  <2> QED BY <2>1, <1>7, <1>9
<1>13. ASSUME TopIsA, total = 0 PROVE GradeOf(total, FALSE) = "A"
  <2>0. score = TopScore
    BY <1>1, <1>13
  <2>1. "A" \in met
    BY <1>4, <1>10, <1>13, <2>0 DEF TopIsA
  <2>2. best \in Grades /\ AtLeast["A"] <= AtLeast[best] /\ AtLeast[best] <= TopScore
    BY <1>4, <1>7, <2>0, <2>1
  <2>3. best # "A" => AtLeast[best] < AtLeast["A"]
    BY <1>13, <2>2 DEF TopIsA
  <2>4. AtLeast[best] \in Nat /\ AtLeast["A"] \in Nat
    BY <1>2, <1>10, <2>2
  <2>6. best = "A"
    BY <2>2, <2>3, <2>4
  <2> QED BY <1>9, <2>1, <2>6
<1> QED BY <1>1, <1>8, <1>11, <1>12, <1>13

(* The judgement. *)

\* What a model finds is some rules, each once.
LEMMA FoundIs ==
  ASSUME NEW R \in SUBSET AllRules, NEW s \in Findable(R)
  PROVE  s \in Ruled /\ IsInjective(s) /\ Range(s) \subseteq R
<1>1. PICK n \in Nat : s \in Injection(1 .. n, R)
  <2>1. PICK n \in 0 .. Cardinality(R) : s \in Injection(1 .. n, R)
    BY DEF Findable
  <2> QED BY <2>1
<1>2. s \in [1 .. n -> R] /\ IsInjective(s)
  BY <1>1 DEF Injection
<1>3. s \in Ruled
  BY <1>2 DEF Ruled
<1>4. \A i \in DOMAIN s : s[i] \in R
  BY <1>2
<1> QED BY <1>2, <1>3, <1>4, RangeIs

\* The issues a judgement may hold.
Apart(pre, after) ==
  /\ pre \in Ruled /\ after \in Ruled /\ IsInjective(pre) /\ IsInjective(after)
  /\ Range(pre) \cap Range(after) = {}

\* What is inductive of a stored judgement: it was made of such issues, and what
\* no person looks at has a start and was asked with all it answers for.
StoredAs(u, protocol, pre, after, unsure, f) ==
  /\ protocol \in {"legacy", "strict", "v2"} /\ unsure \in BOOLEAN /\ Apart(pre, after)
  /\ u.stored = Judgement(protocol, pre, after, unsure, f)
  /\ ~unsure /\ protocol # "legacy" => f.start.from # "nowhere" /\ u.informed
Stored(u) == \E protocol, pre, after, unsure, f : StoredAs(u, protocol, pre, after, unsure, f)

\* The cells a judgement is shown in.
Cells(q) == [names |-> q.names, points |-> q.points, total |-> q.total, grade |-> q.grade,
             level |-> LevelCell(q, q.forced), start |-> q.start, rounds |-> q.rounds,
             review |-> q.review \/ Misaligned(q, q.pre \o q.after)]

\* A rule has one heading.
LEMMA HeadsApart ==
  ASSUME NEW a, NEW b, a \subseteq Under("preSale"), b \subseteq Under("afterSale")
  PROVE  a \cap b = {}
BY DEF Under

\* Each protocol stores such a judgement.
LEMMA JudgeGives ==
  ASSUME NEW f, NEW protocol \in {"legacy", "strict", "v2"}, NEW scene, NEW doubts \in BOOLEAN, NEW whole \in BOOLEAN,
         NEW pre \in Findable(Under("preSale") \cap Shown(protocol, f.hints)),
         NEW after \in Findable(Under("afterSale") \cap Shown(protocol, f.hints)),
         NEW listed,
         protocol # "legacy" => listed \in {Due(scene) \cap Shown(protocol, f.hints), {}},
         NEW a, a = [scene |-> scene, doubts |-> doubts, pre |-> pre, after |-> after,
                     listed |-> listed, whole |-> whole],
         NEW u, u = [stored |-> JudgeBy(protocol, a, f), informed |-> Informed(protocol, a, f)]
  PROVE  Stored(u)
<1>1. /\ Under("preSale") \cap Shown(protocol, f.hints) \in SUBSET AllRules
      /\ Under("afterSale") \cap Shown(protocol, f.hints) \in SUBSET AllRules
  BY DEF Under
<1>2. /\ pre \in Ruled /\ IsInjective(pre) /\ Range(pre) \subseteq Under("preSale")
      /\ after \in Ruled /\ IsInjective(after) /\ Range(after) \subseteq Under("afterSale")
  BY <1>1, FoundIs
<1>3. Apart(pre, after)
  BY <1>2, HeadsApart DEF Apart
<1>4. /\ a.scene = scene /\ a.doubts = doubts /\ a.pre = pre /\ a.after = after /\ a.listed = listed
      /\ a.whole = whole /\ u.stored = JudgeBy(protocol, a, f) /\ u.informed = Informed(protocol, a, f)
  OBVIOUS
<1>5. CASE protocol = "legacy"
  <2>1. PICK unsure \in BOOLEAN : unsure <=> \/ a.scene = "unclear" \/ a.doubts \/ Misplaced(a.scene, a.pre, a.after)
                                             \/ a.listed # Unknown /\ ~(Due(a.scene) \subseteq a.listed)
    OBVIOUS
  <2>2. u.stored = Judgement("legacy", pre, after, unsure, f)
    BY <1>4, <1>5, <2>1 DEF JudgeBy, JudgeLegacy
  <2>3. StoredAs(u, "legacy", pre, after, unsure, f)
    BY <1>3, <2>2 DEF StoredAs
  <2> QED BY <2>3 DEF Stored
<1>6. CASE protocol = "strict"
  <2>1. PICK unsure \in BOOLEAN : unsure <=> \/ a.scene = "unclear" \/ a.doubts \/ Misplaced(a.scene, a.pre, a.after)
                                             \/ a.listed # Due(a.scene) \/ f.start.from = "nowhere"
    OBVIOUS
  <2>2. u.stored = Judgement("strict", pre, after, unsure, f)
    BY <1>4, <1>6, <2>1 DEF JudgeBy, JudgeStrict
  <2>3. ~unsure => f.start.from # "nowhere" /\ listed = Due(scene)
    BY <1>4, <2>1
  <2>4. ~unsure => u.informed
    BY <1>4, <1>6, <2>3 DEF Informed
  <2>5. StoredAs(u, "strict", pre, after, unsure, f)
    BY <1>3, <2>2, <2>3, <2>4 DEF StoredAs
  <2> QED BY <2>5 DEF Stored
<1>7. CASE protocol = "v2"
  <2>1. PICK unsure \in BOOLEAN : unsure <=> \/ a.scene = "unclear" \/ a.doubts \/ Misplaced(a.scene, a.pre, a.after)
                                             \/ a.listed # Due(a.scene) \/ f.start.from = "nowhere" \/ ~a.whole
    OBVIOUS
  <2>2. PICK kept : kept = {r \in (Range(a.pre) \cup Range(a.after)) \cap Due(a.scene) : a.listed = Due(a.scene)}
    OBVIOUS
  <2>3. PICK ordered : ordered = InOrder(Only(Catalogue, kept))
    OBVIOUS
  <2>4. PICK first : first = Only(ordered, Under("preSale"))
    OBVIOUS
  <2>5. PICK then : then = Only(ordered, Under("afterSale"))
    OBVIOUS
  <2>6. u.stored = Judgement("v2", first, then, unsure, f)
    BY <1>4, <1>7, <2>1, <2>2, <2>3, <2>4, <2>5 DEF JudgeBy, JudgeV2
  <2>7. Only(Catalogue, kept) \in Ruled /\ IsInjective(Only(Catalogue, kept))
    BY OnlyHas, ReportAssumption DEF Ruled
  <2>8. ordered \in Ruled /\ IsInjective(ordered)
    BY <2>3, <2>7, OrderHas
  <2>9. /\ first \in Ruled /\ IsInjective(first) /\ Range(first) \subseteq Under("preSale")
        /\ then \in Ruled /\ IsInjective(then) /\ Range(then) \subseteq Under("afterSale")
    BY <2>4, <2>5, <2>8, OnlyHas
  <2>10. Apart(first, then)
    BY <2>9, HeadsApart DEF Apart
  <2>11. ~unsure => f.start.from # "nowhere" /\ whole
    BY <1>4, <2>1
  <2>12. ~unsure => u.informed
    BY <1>4, <1>7, <2>11 DEF Informed, Shown, Due
  <2>13. StoredAs(u, "v2", first, then, unsure, f)
    BY <2>6, <2>10, <2>11, <2>12 DEF StoredAs
  <2> QED BY <2>13 DEF Stored
<1> QED BY <1>5, <1>6, <1>7

(* The row. *)

\* What is stored of the issues of a judgement: all of them in their order, those
\* that are told, and what follows from them.
Holds(q, protocol, pre, after, unsure, f, all, told, forced) ==
  /\ all \in Ruled /\ all = InOrder(pre \o after) /\ IsInjective(all) /\ Sorted(all)
  /\ Range(all) = Range(pre) \cup Range(after) /\ Len(all) = Len(pre) + Len(after)
  /\ told \in Ruled /\ IsInjective(told) /\ (Len(told) = Len(all) => told = all)
  /\ forced \in BOOLEAN /\ (forced <=> \E i \in DOMAIN all : all[i] \in ForcesD)
  /\ q.pre = pre /\ q.after = after /\ q.protocol = protocol /\ q.review = unsure
  /\ q.names = told /\ q.points = [i \in DOMAIN told |-> PointsOf[told[i]]]
  /\ q.total = Sum(all) /\ q.forced = forced /\ q.grade = GradeOf(Sum(all), forced)
  /\ protocol # "legacy" => q.start = f.start

LEMMA StoredIs ==
  ASSUME NEW protocol, NEW pre \in Ruled, NEW after \in Ruled, NEW unsure \in BOOLEAN, NEW f, Apart(pre, after),
         NEW q, q = Judgement(protocol, pre, after, unsure, f)
  PROVE  \E all, told, forced : Holds(q, protocol, pre, after, unsure, f, all, told, forced)
<1>1. PICK both : both = pre \o after
  OBVIOUS
<1>2. /\ both \in Ruled /\ IsInjective(both) /\ Range(both) = Range(pre) \cup Range(after)
      /\ Len(both) = Len(pre) + Len(after)
  BY <1>1, Joined DEF Apart
<1>3. PICK all : all = InOrder(both)
  OBVIOUS
<1>4. /\ all \in Ruled /\ IsInjective(all) /\ Sorted(all) /\ Range(all) = Range(both)
      /\ Len(all) = Len(both)
  BY <1>2, <1>3, OrderHas
<1>5. PICK forced \in BOOLEAN : forced <=> \E i \in DOMAIN all : all[i] \in ForcesD
  OBVIOUS
<1>6. PICK N \in Nat : N = Len(all) /\ DOMAIN all = 1 .. N /\ \A i \in 1 .. N : all[i] \in AllRules
  BY <1>4 DEF Ruled
<1>7. PICK k : k = Least({Len(all), MaxShown})
  OBVIOUS
<1>8. k \in Nat /\ k <= N
  <2>1. {Len(all), MaxShown} \in SUBSET Nat /\ {Len(all), MaxShown} # {}
    BY <1>6 DEF MaxShown
  <2>2. k \in {Len(all), MaxShown} /\ \A x \in {Len(all), MaxShown} : k <= x
    BY <1>7, <2>1, LeastIs
  <2> QED BY <1>6, <2>1, <2>2
<1>9. PICK front : front = SubSeq(all, 1, k)
  OBVIOUS
<1>10. front \in Ruled /\ Len(front) = k /\ DOMAIN front = 1 .. k /\ \A i \in 1 .. k : front[i] = all[i]
  <2>1. all \in Seq(AllRules) /\ 1 \in 1 .. N + 1 /\ k \in 0 .. N
    BY <1>4, <1>6, <1>8 DEF Ruled
  <2>2. front = [i \in 1 .. k |-> all[i]]
    BY <1>6, <1>8, <1>9, <2>1
  <2>3. front \in [1 .. k -> AllRules]
    BY <1>6, <1>8, <2>2
  <2> QED BY <1>8, <2>2, <2>3 DEF Ruled
<1>11. IsInjective(front)
  <2>1. \A i \in 1 .. k : i \in DOMAIN all
    BY <1>6, <1>8
  <2> QED BY <1>4, <1>10, <2>1 DEF IsInjective
<1>12. Len(front) = Len(all) => front = all
  <2> SUFFICES ASSUME k = N PROVE front = all
    BY <1>6, <1>10
  <2>1. front \in Seq(AllRules) /\ all \in Seq(AllRules) /\ Len(front) = N /\ Len(all) = N
    BY <1>4, <1>6, <1>10 DEF Ruled
  <2>2. \A i \in 1 .. N : front[i] = all[i]
    BY <1>10
  <2> QED BY <2>1, <2>2
<1>13. PICK told : told = IF protocol = "legacy" THEN front ELSE all
  OBVIOUS
<1>14. told \in Ruled /\ IsInjective(told) /\ (Len(told) = Len(all) => told = all)
  BY <1>4, <1>10, <1>11, <1>12, <1>13
<1>15. q = [protocol |-> protocol, pre |-> pre, after |-> after, review |-> unsure,
            names |-> told, points |-> [i \in DOMAIN told |-> PointsOf[told[i]]],
            total |-> Sum(all), forced |-> forced, grade |-> GradeOf(Sum(all), forced),
            start |-> IF protocol = "legacy" THEN [from |-> "nowhere"] ELSE f.start,
            rounds |-> IF protocol = "legacy" THEN 0 ELSE f.rounds]
  BY <1>1, <1>3, <1>5, <1>7, <1>9, <1>13 DEF Judgement
<1>16. /\ q.pre = pre /\ q.after = after /\ q.protocol = protocol /\ q.review = unsure
       /\ q.names = told /\ q.points = [i \in DOMAIN told |-> PointsOf[told[i]]]
       /\ q.total = Sum(all) /\ q.forced = forced /\ q.grade = GradeOf(Sum(all), forced)
       /\ protocol # "legacy" => q.start = f.start
  BY <1>15
<1>17. all = InOrder(pre \o after)
  BY <1>1, <1>3
<1>18. Range(all) = Range(pre) \cup Range(after) /\ Len(all) = Len(pre) + Len(after)
  BY <1>2, <1>4
<1>19. Holds(q, protocol, pre, after, unsure, f, all, told, forced)
  BY <1>4, <1>5, <1>14, <1>16, <1>17, <1>18 DEF Holds
<1> QED BY <1>19

\* The export, which counts again, says what the screen says, but for an A that it
\* gives without counting.
LEMMA CellsStand ==
  ASSUME NEW u, Stored(u)
  PROVE  ExportRow(u.stored) = IF TopIsA \/ ~Spotless(u.stored) THEN Cells(u.stored)
                               ELSE [Cells(u.stored) EXCEPT !.grade = "A"]
<1>0. PICK protocol, pre, after, unsure, f : StoredAs(u, protocol, pre, after, unsure, f)
  BY DEF Stored
<1>1. /\ Apart(pre, after) /\ u.stored = Judgement(protocol, pre, after, unsure, f)
      /\ pre \in Ruled /\ after \in Ruled /\ unsure \in BOOLEAN
  BY <1>0 DEF StoredAs, Apart
<1>2. PICK q : q = u.stored
  OBVIOUS
<1>20. PICK all, told, forced : Holds(q, protocol, pre, after, unsure, f, all, told, forced)
  BY <1>1, <1>2, StoredIs
<1>3. /\ all \in Ruled /\ all = InOrder(pre \o after) /\ IsInjective(all)
      /\ Range(all) = Range(pre) \cup Range(after)
      /\ told \in Ruled /\ IsInjective(told)
      /\ forced \in BOOLEAN /\ (forced <=> \E i \in DOMAIN all : all[i] \in ForcesD)
      /\ q.pre = pre /\ q.after = after /\ q.review = unsure
      /\ q.names = told /\ q.points = [i \in DOMAIN told |-> PointsOf[told[i]]]
      /\ q.total = Sum(all) /\ q.forced = forced /\ q.grade = GradeOf(Sum(all), forced)
  BY <1>20 DEF Holds
<1>4. PICK both : both = pre \o after
  OBVIOUS
<1>5. both \in Ruled /\ IsInjective(both) /\ Range(both) = Range(pre) \cup Range(after)
  BY <1>1, <1>4, Joined DEF Apart
<1>6. PICK first : first = Only(all, Under("preSale"))
  OBVIOUS
<1>7. PICK then : then = Only(all, Under("afterSale"))
  OBVIOUS
<1>8. PICK byHead : byHead = first \o then
  OBVIOUS
<1>9. /\ first \in Ruled /\ IsInjective(first) /\ Range(first) = Range(all) \cap Under("preSale")
      /\ then \in Ruled /\ IsInjective(then) /\ Range(then) = Range(all) \cap Under("afterSale")
  BY <1>3, <1>6, <1>7, OnlyHas
<1>10. /\ byHead \in Ruled /\ IsInjective(byHead) /\ Range(byHead) = Range(first) \cup Range(then)
  BY <1>8, <1>9, HeadsApart, Joined
<1>11. Range(all) \subseteq AllRules
  BY <1>3, RangeIs DEF Ruled
<1>12. \A r \in AllRules : r \in Under("preSale") \/ r \in Under("afterSale")
  BY ReportAssumption DEF Under, Heading
<1>13. Range(byHead) = Range(both)
  BY <1>3, <1>5, <1>9, <1>10, <1>11, <1>12
<1>14. Misaligned(q, both) <=> Misaligned(q, byHead)
  BY <1>3, <1>5, <1>10, <1>13, AlignedIf
<1>15. (q.review \/ Misaligned(q, both)) = (q.review \/ Misaligned(q, byHead))
  BY <1>14
<1>16. PICK grade : grade = IF all = <<>> /\ ~q.review THEN "A" ELSE GradeOf(Sum(all), forced)
  OBVIOUS
<1>170. all = <<>> <=> both = <<>>
  <2>1. PICK N \in Nat : N = Len(all) /\ DOMAIN all = 1 .. N
    BY <1>3 DEF Ruled
  <2>2. PICK M \in Nat : M = Len(both) /\ DOMAIN both = 1 .. M
    BY <1>5 DEF Ruled
  <2>3. Range(all) = Range(both)
    BY <1>3, <1>5
  <2>4. ASSUME all = <<>> PROVE both = <<>>
    <3>1. Range(both) = {}
      BY <2>3, <2>4, RangeIs
    <3>2. \A i \in 1 .. M : FALSE
      BY <2>2, <3>1, RangeIs
    <3>3. M = 0
      BY <3>2
    <3> QED BY <1>5, <2>2, <3>3 DEF Ruled
  <2>5. ASSUME both = <<>> PROVE all = <<>>
    <3>1. Range(all) = {}
      BY <2>3, <2>5, RangeIs
    <3>2. \A i \in 1 .. N : FALSE
      BY <2>1, <3>1, RangeIs
    <3>3. N = 0
      BY <3>2
    <3> QED BY <1>3, <2>1, <3>3 DEF Ruled
  <2> QED BY <2>4, <2>5
<1>171. Spotless(q) <=> all = <<>> /\ ~q.review
  BY <1>3, <1>4, <1>170 DEF Spotless
<1>172. Spotless(q) => grade = "A"
  BY <1>16, <1>171
<1>17. TopIsA \/ ~Spotless(q) => grade = q.grade
  <2>0. SUFFICES ASSUME TopIsA \/ ~Spotless(q) PROVE grade = q.grade
    OBVIOUS
  <2>1. CASE all = <<>> /\ ~q.review
    <3>0. TopIsA
      BY <1>171, <2>0, <2>1
    <3>1. \A i \in DOMAIN all : FALSE
      BY <2>1
    <3>2. forced = FALSE /\ Sum(all) = 0
      BY <1>3, <2>1, <3>1, SumIs
    <3>3. GradeOf(0, FALSE) = "A"
      <4>1. 0 \in Nat
        OBVIOUS
      <4> QED BY <3>0, <4>1, GradeIs
    <3> QED BY <1>3, <1>16, <2>1, <3>2, <3>3
  <2> QED BY <1>3, <1>16, <2>1
<1>18. ExportRow(q) = [names |-> q.names, points |-> q.points, total |-> Sum(all), grade |-> grade,
                       level |-> LevelCell(q, forced), start |-> q.start, rounds |-> q.rounds,
                       review |-> q.review \/ Misaligned(q, byHead)]
  BY <1>3, <1>6, <1>7, <1>8, <1>16 DEF ExportRow
<1>19. Cells(q) = [names |-> q.names, points |-> q.points, total |-> q.total, grade |-> q.grade,
                   level |-> LevelCell(q, q.forced), start |-> q.start, rounds |-> q.rounds,
                   review |-> q.review \/ Misaligned(q, both)]
  BY <1>3, <1>4 DEF Cells
<1>20b. CASE TopIsA \/ ~Spotless(q)
  BY <1>2, <1>3, <1>15, <1>17, <1>18, <1>19, <1>20b
<1>21. CASE ~(TopIsA \/ ~Spotless(q))
  <2>1. grade = "A"
    BY <1>172, <1>21
  <2> QED BY <1>2, <1>3, <1>15, <1>18, <1>19, <1>21, <2>1
<1> QED BY <1>20b, <1>21

\* Cells without review add up.
LEMMA RowAddsUp ==
  ASSUME Stored(quality), NEW r, r = Cells(quality.stored), ~r.review
  PROVE  AddsUp(r, quality.stored)
<1>0. PICK protocol, pre, after, unsure, f : StoredAs(quality, protocol, pre, after, unsure, f)
  BY DEF Stored
<1>1. /\ Apart(pre, after) /\ quality.stored = Judgement(protocol, pre, after, unsure, f)
      /\ pre \in Ruled /\ after \in Ruled /\ unsure \in BOOLEAN
      /\ ~unsure /\ protocol # "legacy" => f.start.from # "nowhere" /\ quality.informed
  BY <1>0 DEF StoredAs, Apart
<1>2. PICK q : q = quality.stored
  OBVIOUS
<1>20. PICK all, told, forced : Holds(q, protocol, pre, after, unsure, f, all, told, forced)
  BY <1>1, <1>2, StoredIs
<1>3. /\ all \in Ruled /\ IsInjective(all) /\ Sorted(all)
      /\ Range(all) = Range(pre) \cup Range(after) /\ Len(all) = Len(pre) + Len(after)
      /\ told \in Ruled /\ IsInjective(told) /\ (Len(told) = Len(all) => told = all)
      /\ forced \in BOOLEAN /\ (forced <=> \E i \in DOMAIN all : all[i] \in ForcesD)
      /\ q.pre = pre /\ q.after = after /\ q.protocol = protocol /\ q.review = unsure
      /\ q.names = told /\ q.points = [i \in DOMAIN told |-> PointsOf[told[i]]]
      /\ q.total = Sum(all) /\ q.forced = forced /\ q.grade = GradeOf(Sum(all), forced)
      /\ protocol # "legacy" => q.start = f.start
  BY <1>20 DEF Holds
<1>4. PICK both : both = pre \o after
  OBVIOUS
<1>5. both \in Ruled /\ IsInjective(both) /\ Range(both) = Range(pre) \cup Range(after)
  BY <1>1, <1>4, Joined DEF Apart
<1>6. /\ r.names = q.names /\ r.points = q.points /\ r.total = q.total /\ r.grade = q.grade
      /\ r.level = LevelCell(q, q.forced) /\ r.start = q.start
      /\ ~q.review /\ ~Misaligned(q, both)
  BY <1>2, <1>3, <1>4 DEF Cells
<1>7. Range(told) = Range(both)
  BY <1>3, <1>5, <1>6, AlignedIf
<1>8. Len(told) = Len(all)
  BY <1>3, <1>5, <1>7, AsLong
<1>9. told = all
  BY <1>3, <1>8
<1>10. Len(r.names) = Len(q.pre) + Len(q.after) /\ Range(r.names) = Range(q.pre) \cup Range(q.after)
  BY <1>3, <1>6, <1>9
<1>11. \A i, j \in DOMAIN r.names : i < j => PriorityOf[r.names[i]] <= PriorityOf[r.names[j]]
  BY <1>3, <1>6, <1>9 DEF Sorted
<1>12. r.total = Total(r.points)
  BY <1>3, <1>6, <1>9 DEF Sum
<1>13. Sum(all) \in Nat
  BY <1>3, SumIs
<1>14. IF r.level = TRUE THEN r.grade = "D"
       ELSE \A g \in Grades : ScoreOf(r.total) >= AtLeast[g] => AtLeast[g] <= AtLeast[r.grade]
  <2>1. r.level = IF all = <<>> THEN Unknown ELSE forced
    BY <1>3, <1>6, <1>9 DEF LevelCell
  <2>2. Unknown # TRUE
    BY ReportAssumption
  <2>3. CASE forced = TRUE
    <3>1. all # <<>>
      <4> SUFFICES ASSUME all = <<>> PROVE FALSE
        OBVIOUS
      <4>1. \A i \in DOMAIN all : FALSE
        OBVIOUS
      <4> QED BY <1>3, <2>3, <4>1
    <3>2. r.level = TRUE
      BY <2>1, <2>3, <3>1
    <3> QED BY <1>3, <1>6, <1>13, <2>3, <3>2, GradeIs
  <2>4. CASE forced = FALSE
    <3>1. r.level # TRUE
      BY <2>1, <2>2, <2>4
    <3> QED BY <1>3, <1>6, <1>13, <2>4, <3>1, GradeIs
  <2> QED BY <1>3, <2>3, <2>4
<1>15. q.protocol # "legacy" => r.start.from # "nowhere" /\ quality.informed
  BY <1>1, <1>3, <1>6
<1> QED BY <1>2, <1>10, <1>11, <1>12, <1>14, <1>15 DEF AddsUp

(* The invariant. *)

\* The dialogue on its way, the stored judgement and the cells made of it.
Talk == [turns : Dialogue, sheet : BOOLEAN, day : {1, Unknown}, hints : SUBSET Heading]

ReportInv ==
  /\ talk # Unknown => talk \in Talk
  /\ quality # Unknown => Stored(quality)
  /\ screen # Unknown => quality # Unknown /\ screen = Cells(quality.stored)

LEMMA ReportInvariant == ReportSpec => []ReportInv
<1>1. ReportInit => ReportInv
  BY DEF ReportInit, ReportInv
<1>2. ASSUME ReportInv, [ReportNext]_reportVars PROVE ReportInv'
  <2>1. CASE Upload
    <3>1. talk' \in Talk
      BY <2>1 DEF Upload, Talk
    <3> QED BY <1>2, <2>1, <3>1 DEF Upload, ReportInv
  <2>2. CASE Extract
    BY <1>2, <2>2 DEF Extract, ReportInv
  <2>3. CASE Judge
    <3>0. PICK protocol \in {"legacy", "strict", "v2"}, scene \in SceneOf, doubts \in BOOLEAN, s \in Snapshot :
            \E pre \in Findable(Under("preSale") \cap Shown(protocol, facts.hints)),
               after \in Findable(Under("afterSale") \cap Shown(protocol, facts.hints)),
               listed \in {Due(scene) \cap Shown(protocol, facts.hints), {}}
                            \cup (IF protocol = "legacy" THEN {Unknown} ELSE {}) :
            LET a == [scene |-> scene, doubts |-> doubts, pre |-> pre, after |-> after,
                      listed |-> listed, whole |-> Whole(s)]
            IN quality' = [stored |-> JudgeBy(protocol, a, facts), informed |-> Informed(protocol, a, facts)]
      BY <2>3, Zenon DEF Judge
    <3>1. PICK pre \in Findable(Under("preSale") \cap Shown(protocol, facts.hints)),
               after \in Findable(Under("afterSale") \cap Shown(protocol, facts.hints)),
               listed \in {Due(scene) \cap Shown(protocol, facts.hints), {}}
                            \cup (IF protocol = "legacy" THEN {Unknown} ELSE {}) :
            LET a == [scene |-> scene, doubts |-> doubts, pre |-> pre, after |-> after,
                      listed |-> listed, whole |-> Whole(s)]
            IN quality' = [stored |-> JudgeBy(protocol, a, facts), informed |-> Informed(protocol, a, facts)]
      BY <3>0, Zenon
    <3>2. PICK whole \in BOOLEAN : whole = Whole(s)
      BY DEF Whole
    <3>3. PICK a : a = [scene |-> scene, doubts |-> doubts, pre |-> pre, after |-> after,
                        listed |-> listed, whole |-> whole]
      OBVIOUS
    <3>4. quality' = [stored |-> JudgeBy(protocol, a, facts), informed |-> Informed(protocol, a, facts)]
      BY <3>1, <3>2, <3>3
    <3>5. Stored(quality')
      <4>1. protocol # "legacy" => listed \in {Due(scene) \cap Shown(protocol, facts.hints), {}}
        OBVIOUS
      <4> QED BY <3>3, <3>4, <4>1, JudgeGives
    <3> QED BY <1>2, <2>3, <3>5 DEF Judge, ReportInv
  <2>4. CASE DeriveCells
    <3>1. screen' = Cells(quality.stored)
      BY <2>4 DEF DeriveCells, Cells
    <3> QED BY <1>2, <2>4, <3>1 DEF DeriveCells, ReportInv
  <2>5. CASE ExportReport
    BY <1>2, <2>5 DEF ExportReport, ReportInv
  <2>6. CASE UNCHANGED reportVars
    BY <1>2, <2>6 DEF reportVars, ReportInv
  <2> QED BY <1>2, <2>1, <2>2, <2>3, <2>4, <2>5, <2>6 DEF ReportNext
<1> QED BY <1>1, <1>2, PTL DEF ReportSpec

\* What is said of a conversation is read from it (reception-facts.ts); the
\* workbook says of it what the screen says, though the export counts again
\* (excel-export-service.ts), but for the A it writes of a spotless conversation
\* where the thresholds give the whole score another grade; and what stands
\* without a person names every issue once and in order, adds up, and was found by
\* a model shown all it answered for: for any rules, thresholds, dialogues,
\* priorities, deductions and knowledge.
THEOREM ReportsStand == ReportSpec => ReportStands
<1> DEFINE Stands == /\ (facts' # facts) =>
                          /\ facts'.rounds = Cardinality({i \in DOMAIN talk.turns : IsAnswer(talk.turns, i)})
                          /\ StartIsRead(talk.turns, talk.sheet, talk.day, facts'.start)
                     /\ (row' # row) =>
                          /\ row' = IF TopIsA \/ ~Spotless(quality.stored) THEN screen
                                    ELSE [screen EXCEPT !.grade = "A"]
                          /\ ~screen.review => AddsUp(screen, quality.stored)
<1>1. ASSUME ReportInv, [ReportNext]_reportVars PROVE [Stands]_reportVars
  <2>1. CASE Extract
    <3>1. talk \in Talk
      BY <1>1, <2>1 DEF Extract, ReportInv
    <3>2. talk.turns \in Seq(Speech) /\ talk.sheet \in BOOLEAN
      <4>1. talk.turns \in Dialogue /\ talk.sheet \in BOOLEAN
        BY <3>1 DEF Talk
      <4> QED BY <4>1, ReportAssumption
    <3>3. /\ facts'.rounds = Rounds(talk.turns)
          /\ facts'.start = StartOf(talk.turns, talk.sheet, talk.day)
      BY <2>1 DEF Extract
    <3>4. facts'.rounds = Cardinality({i \in DOMAIN talk.turns : IsAnswer(talk.turns, i)})
      BY <3>2, <3>3, RoundsAre
    <3>5. StartIsRead(talk.turns, talk.sheet, talk.day, facts'.start)
      BY <3>2, <3>3, StartRead
    <3> QED BY <2>1, <3>4, <3>5 DEF Extract
  <2>2. CASE ExportReport
    <3>1. quality # Unknown /\ screen = Cells(quality.stored) /\ Stored(quality)
      BY <1>1, <2>2 DEF ExportReport, ReportInv
    <3>2. row' = IF TopIsA \/ ~Spotless(quality.stored) THEN screen ELSE [screen EXCEPT !.grade = "A"]
      BY <2>2, <3>1, CellsStand DEF ExportReport
    <3>3. ~screen.review => AddsUp(screen, quality.stored)
      BY <3>1, RowAddsUp
    <3> QED BY <2>2, <3>2, <3>3 DEF ExportReport
  <2>3. CASE facts' = facts /\ row' = row
    BY <2>3
  <2> QED BY <1>1, <2>1, <2>2, <2>3
        DEF ReportNext, reportVars, Upload, Judge, DeriveCells
<1> QED BY <1>1, ReportInvariant, PTL DEF ReportSpec, ReportStands

----------------------------------------------------------------------------
(* The attribution of lost deals. *)

Texts == Summary \cup {"none"}
Listed == {<<>>} \cup {Reasons(raws, allowed, text) :
            raws \in {a.customer : a \in RawAnswer} \cup {a.service : a \in RawAnswer},
            allowed \in (SUBSET CustomerReason) \cup (SUBSET ServiceReason), text \in Texts}
RunOf == [st : {"completed", "needs_review", "failed"}, text : Texts, customer : Listed, service : Listed]

DealTyped ==
  /\ settings \in [customer : SUBSET CustomerReason, service : SUBSET ServiceReason,
                   padded : SUBSET CustomerReason, sync : BOOLEAN]
  /\ attempt \in [Attribution -> [at : {"idle", "asked", "ended"}, text : Texts]]
  /\ runs \in [Deal -> Seq(RunOf)]
  /\ DOMAIN links = Deal /\ DOMAIN derived = Deal

\* What an answer without a doubt says: each reason has its evidence, and the
\* name of an item that was offered or that of what is left to a person.
Certain(raws, allowed, text) ==
  \A e \in Elements(raws) :
    /\ e.ev # "" /\ Grounded(text, e.ev)
    /\ \/ e.item = NoReason /\ e.name = "review"
       \/ e.item # NoReason /\ e.item \in allowed /\ e.name = e.item

RunsAreCertain ==
  \A d \in Deal : \A n \in DOMAIN runs[d] : runs[d][n].st = "completed" =>
    /\ Certain(runs[d][n].customer, settings.customer, runs[d][n].text)
    /\ Certain(runs[d][n].service, settings.service, runs[d][n].text)

Newest(d, n) == n \in Standing(d) /\ \A k \in Standing(d) : k <= n

\* The links are those of the newest run that did not fail, which had no conflict.
LinksFollow ==
  \A d \in Deal :
    /\ Standing(d) = {} => links[d] = {}
    /\ \A n \in DOMAIN runs[d] : Newest(d, n) =>
         IF Captures(runs[d][n]) THEN links[d] = LinksOf(runs[d][n]) /\ ~Conflicts(runs[d][n])
                                 ELSE links[d] = {}

\* What is derived is the advice on a run there is, and no run is replaced.
DerivedFollow ==
  \A d \in Deal :
    /\ derived[d].from \in 0 .. Len(runs[d])
    /\ derived[d].from \in DOMAIN runs[d] =>
         derived[d].advised = (NamesIn(runs[d][derived[d].from].customer)
                               \cup NamesIn(runs[d][derived[d].from].service)) \ {"review"}

DealInv == DealTypeOK /\ DealTyped /\ RunsAreCertain /\ LinksFollow /\ DerivedFollow

LEMMA DealInitially == DealInit => DealInv
<1> SUFFICES ASSUME DealInit PROVE DealInv
  OBVIOUS
<1>1. DealTypeOK /\ DealTyped
  BY DealAssumption DEF DealInit, DealTypeOK, DealTyped, Attribution, Texts
<1>2. \A d \in Deal : runs[d] = <<>> /\ links[d] = {} /\ derived[d].from = 0
  BY DEF DealInit
<1>3. \A d \in Deal : DOMAIN runs[d] = {} /\ Len(runs[d]) = 0
  BY <1>2
<1> QED BY <1>1, <1>2, <1>3 DEF DealInv, RunsAreCertain, LinksFollow, DerivedFollow, Standing, Newest

\* What is found of a raw reason was offered.
LEMMA SelectedIsOffered ==
  ASSUME NEW raw, NEW allowed
  PROVE  Selected(raw, allowed) \in allowed \cup {NoReason}
BY DEF Selected

LEMMA ReasonsAreCertain ==
  ASSUME NEW raws, NEW allowed, NEW text, \A raw \in Elements(raws) : ~Doubtful(raw, allowed, text)
  PROVE  Certain(Reasons(raws, allowed, text), allowed, text)
<1> SUFFICES ASSUME NEW i \in DOMAIN raws
             PROVE  /\ Reasons(raws, allowed, text)[i].ev # "" /\ Grounded(text, Reasons(raws, allowed, text)[i].ev)
                    /\ \/ Reasons(raws, allowed, text)[i].item = NoReason /\ Reasons(raws, allowed, text)[i].name = "review"
                       \/ /\ Reasons(raws, allowed, text)[i].item # NoReason
                          /\ Reasons(raws, allowed, text)[i].item \in allowed
                          /\ Reasons(raws, allowed, text)[i].name = Reasons(raws, allowed, text)[i].item
  BY DEF Certain, Elements, Reasons
<1> DEFINE raw == raws[i]
<1>1. ~Doubtful(raw, allowed, text)
  BY DEF Elements
<1>2. Proven(raw, text)
  BY <1>1 DEF Doubtful
<1>3. Reasons(raws, allowed, text)[i] = ReasonOf(raw, allowed, text)
  BY DEF Reasons
<1>4. Selected(raw, allowed) \in allowed \cup {NoReason}
  BY SelectedIsOffered
<1> HIDE DEF raw
<1>5. /\ ReasonOf(raw, allowed, text).ev = raw.ev
      /\ ReasonOf(raw, allowed, text).item = Selected(raw, allowed)
      /\ ReasonOf(raw, allowed, text).name = IF Selected(raw, allowed) # NoReason THEN Selected(raw, allowed) ELSE "review"
  BY <1>2 DEF ReasonOf
<1>6. raw.ev # "" /\ Grounded(text, raw.ev)
  BY <1>2 DEF Proven
<1> QED BY <1>3, <1>4, <1>5, <1>6

\* What is captured of a certain raws: the items there are, with their evidence.
LEMMA CapturedIsNamed ==
  ASSUME NEW raws, NEW allowed, NEW text, NEW type, Certain(raws, allowed, text)
  PROVE  /\ {l.reason : l \in Captured(raws, type)} = {e.item : e \in Elements(raws)} \ {NoReason, "review"}
         /\ {l.reason : l \in Captured(raws, type)} = NamesIn(raws) \ {"review"}
         /\ \A l \in Captured(raws, type) : l.type = type /\ l.reason \in allowed /\ Grounded(text, l.ev)
<1>1. \A e \in Elements(raws) : Linkable(e) <=> e.item \notin {NoReason, "review"}
  BY DEF Certain, Linkable
<1>2. {l.reason : l \in Captured(raws, type)} = {e.item : e \in {f \in Elements(raws) : Linkable(f)}}
  <2>1. ASSUME NEW e \in Elements(raws), Linkable(e) PROVE \E l \in Captured(raws, type) : l.reason = e.item
    <3> DEFINE new == [reason |-> e.item, type |-> type, ev |-> e.ev]
    <3>1. new \in Captured(raws, type) /\ new.reason = e.item
      BY <2>1 DEF Captured
    <3> QED BY <3>1
  <2>2. ASSUME NEW l \in Captured(raws, type) PROVE \E e \in Elements(raws) : Linkable(e) /\ l.reason = e.item
    BY DEF Captured
  <2> QED BY <2>1, <2>2
<1>3. {e.item : e \in {f \in Elements(raws) : Linkable(f)}} = {e.item : e \in Elements(raws)} \ {NoReason, "review"}
  BY <1>1
<1>4. {e.item : e \in {f \in Elements(raws) : Linkable(f)}} = NamesIn(raws) \ {"review"}
  BY DEF Certain, Linkable, NamesIn
<1>5. \A l \in Captured(raws, type) : l.type = type /\ l.reason \in allowed /\ Grounded(text, l.ev)
  <2> SUFFICES ASSUME NEW l \in Captured(raws, type)
               PROVE  l.type = type /\ l.reason \in allowed /\ Grounded(text, l.ev)
    OBVIOUS
  <2>1. PICK e \in Elements(raws) : Linkable(e) /\ l = [reason |-> e.item, type |-> type, ev |-> e.ev]
    BY DEF Captured
  <2>2. l.type = type /\ l.reason = e.item /\ l.ev = e.ev
    BY <2>1
  <2> QED BY <2>1, <2>2 DEF Certain, Linkable
<1> QED BY <1>2, <1>3, <1>4, <1>5

\* A entry is added to a record's runs, and the runs before it stand.
LEMMA RunIsAdded ==
  ASSUME DealTyped, NEW d \in Deal, NEW entry \in RunOf, Writes(d, entry)
  PROVE  /\ runs' \in [Deal -> Seq(RunOf)]
         /\ \A c \in Deal \ {d} : runs'[c] = runs[c]
         /\ Len(runs[d]) \in Nat /\ Len(runs'[d]) = Len(runs[d]) + 1
         /\ DOMAIN runs'[d] = DOMAIN runs[d] \cup {Len(runs[d]) + 1}
         /\ DOMAIN runs[d] = 1 .. Len(runs[d])
         /\ runs'[d][Len(runs[d]) + 1] = entry
         /\ \A n \in DOMAIN runs[d] : runs'[d][n] = runs[d][n]
<1>1. runs[d] \in Seq(RunOf) /\ runs'[d] = Append(runs[d], entry) /\ \A c \in Deal \ {d} : runs'[c] = runs[c]
  BY DEF DealTyped, Writes
<1>2. Append(runs[d], entry) \in Seq(RunOf) /\ runs' = [runs EXCEPT ![d] = Append(runs[d], entry)]
  BY <1>1 DEF Writes
<1>3. runs' \in [Deal -> Seq(RunOf)]
  BY <1>2 DEF DealTyped
<1>4. /\ Len(runs[d]) \in Nat /\ DOMAIN runs[d] = 1 .. Len(runs[d])
      /\ Len(runs'[d]) = Len(runs[d]) + 1 /\ DOMAIN runs'[d] = 1 .. (Len(runs[d]) + 1)
  BY <1>1, <1>2
<1>5. /\ runs'[d][Len(runs[d]) + 1] = entry
      /\ \A n \in 1 .. Len(runs[d]) : runs'[d][n] = runs[d][n]
  BY <1>1, <1>4
<1> QED BY <1>1, <1>3, <1>4, <1>5

\* A run that fails changes no link.
LEMMA FailedStep ==
  ASSUME DealInv, NEW d \in Deal, NEW text \in Texts, Writes(d, FailedRun(text)),
         UNCHANGED <<settings, summary, stopped, links, derived>>,
         begun' \in [Deal -> 0 .. MaxAttributions],
         attempt' \in [Attribution -> [at : {"idle", "asked", "ended"}, text : Texts]]
  PROVE  DealInv'
<1> DEFINE entry == FailedRun(text)
<1>0. DealTypeOK /\ DealTyped /\ RunsAreCertain /\ LinksFollow /\ DerivedFollow
  BY DEF DealInv
<1>1. entry \in RunOf /\ entry.st = "failed"
  BY DEF RunOf, FailedRun, Listed
<1> HIDE DEF entry
<1>2. /\ runs' \in [Deal -> Seq(RunOf)]
      /\ \A c \in Deal \ {d} : runs'[c] = runs[c]
      /\ Len(runs[d]) \in Nat /\ Len(runs'[d]) = Len(runs[d]) + 1
      /\ DOMAIN runs'[d] = DOMAIN runs[d] \cup {Len(runs[d]) + 1}
      /\ DOMAIN runs[d] = 1 .. Len(runs[d])
      /\ runs'[d][Len(runs[d]) + 1] = entry
      /\ \A n \in DOMAIN runs[d] : runs'[d][n] = runs[d][n]
  BY <1>0, <1>1, RunIsAdded DEF entry
<1>3. DealTypeOK'
  BY <1>0 DEF DealTypeOK, Attribution
<1>4. DealTyped'
  BY <1>0, <1>2 DEF DealTyped, Attribution
<1>5. ASSUME NEW c \in Deal
      PROVE  Standing(c)' = Standing(c) /\ \A n \in Standing(c) : n \in DOMAIN runs[c] /\ runs'[c][n] = runs[c][n]
  <2>1. CASE c # d
    BY <2>1, <1>2 DEF Standing
  <2>2. CASE c = d
    <3>1. ~(Len(runs[d]) + 1 \in Standing(d)')
      BY <1>1, <1>2 DEF Standing
    <3>2. \A n \in DOMAIN runs[d] : n \in Standing(d)' <=> n \in Standing(d)
      BY <1>2 DEF Standing
    <3>3. Standing(d) \subseteq DOMAIN runs[d] /\ Standing(d)' \subseteq DOMAIN runs[d] \cup {Len(runs[d]) + 1}
      BY <1>2 DEF Standing
    <3> QED BY <2>2, <1>2, <3>1, <3>2, <3>3
  <2> QED BY <2>1, <2>2
<1>6. RunsAreCertain'
  BY <1>0, <1>1, <1>2 DEF RunsAreCertain
<1>7. LinksFollow'
  <2> SUFFICES ASSUME NEW c \in Deal, NEW n \in DOMAIN runs'[c], Newest(c, n)'
               PROVE  IF Captures(runs[c][n]) THEN links[c] = LinksOf(runs[c][n]) /\ ~Conflicts(runs[c][n])
                                              ELSE links[c] = {}
    <3>1. \A c \in Deal : Standing(c)' = {} => links'[c] = {}
      BY <1>0, <1>5 DEF LinksFollow
    <3>2. \A c \in Deal : \A n \in DOMAIN runs'[c] : Newest(c, n)' => runs'[c][n] = runs[c][n]
      BY <1>5 DEF Newest
    <3> QED BY <3>1, <3>2 DEF LinksFollow, Captures, Conflicts
  <2>1. n \in DOMAIN runs[c] /\ Newest(c, n)
    BY <1>5 DEF Newest
  <2> QED BY <2>1, <1>0 DEF LinksFollow
<1>8. DerivedFollow'
  <2> SUFFICES ASSUME NEW c \in Deal
               PROVE  /\ derived[c].from \in 0 .. Len(runs'[c])
                      /\ derived[c].from \in DOMAIN runs'[c] =>
                           derived[c].advised = (NamesIn(runs'[c][derived[c].from].customer)
                               \cup NamesIn(runs'[c][derived[c].from].service)) \ {"review"}
    BY DEF DerivedFollow
  <2>1. CASE c # d
    BY <2>1, <1>0, <1>2 DEF DerivedFollow
  <2>2. CASE c = d
    <3>1. /\ derived[d].from \in 0 .. Len(runs[d]) /\ derived[d].from # Len(runs[d]) + 1
          /\ derived[d].from \in 0 .. Len(runs'[d])
      BY <1>0, <1>2 DEF DerivedFollow
    <3>2. derived[d].from \in DOMAIN runs'[d] =>
            derived[d].from \in DOMAIN runs[d] /\ runs'[d][derived[d].from] = runs[d][derived[d].from]
      BY <1>2, <3>1
    <3> QED BY <2>2, <3>1, <3>2, <1>0 DEF DerivedFollow
  <2> QED BY <2>1, <2>2
<1> QED BY <1>3, <1>4, <1>6, <1>7, <1>8 DEF DealInv

\* What an answer that parses makes of the runs and of the links.
LEMMA AttributedRun ==
  ASSUME DealInv, NEW a \in RawAnswer, NEW text \in Texts
  PROVE  /\ Attributed(a, text) \in RunOf /\ Attributed(a, text).st # "failed"
         /\ Attributed(a, text).st = "completed" =>
              /\ Certain(Attributed(a, text).customer, settings.customer, Attributed(a, text).text)
              /\ Certain(Attributed(a, text).service, settings.service, Attributed(a, text).text)
<1>1. settings.customer \in SUBSET CustomerReason /\ settings.service \in SUBSET ServiceReason
  BY DEF DealInv, DealTyped
<1>2. /\ Reasons(a.customer, settings.customer, text) \in Listed
      /\ Reasons(a.service, settings.service, text) \in Listed
  <2>1. /\ a.customer \in {b.customer : b \in RawAnswer} \cup {b.service : b \in RawAnswer}
        /\ a.service \in {b.customer : b \in RawAnswer} \cup {b.service : b \in RawAnswer}
    OBVIOUS
  <2>2. /\ settings.customer \in (SUBSET CustomerReason) \cup (SUBSET ServiceReason)
        /\ settings.service \in (SUBSET CustomerReason) \cup (SUBSET ServiceReason)
    BY <1>1
  <2> QED BY <2>1, <2>2 DEF Listed
<1>3. Attributed(a, text) \in RunOf /\ Attributed(a, text).st # "failed"
  BY <1>2 DEF Attributed, RunOf
<1>4. /\ Attributed(a, text).customer = Reasons(a.customer, settings.customer, text)
      /\ Attributed(a, text).service = Reasons(a.service, settings.service, text)
      /\ Attributed(a, text).text = text
      /\ Attributed(a, text).st = "completed" => ~Review(a, text)
  BY DEF Attributed
<1>5. ASSUME ~Review(a, text)
      PROVE  /\ Certain(Reasons(a.customer, settings.customer, text), settings.customer, text)
             /\ Certain(Reasons(a.service, settings.service, text), settings.service, text)
  BY <1>5, ReasonsAreCertain DEF Review
<1> QED BY <1>3, <1>4, <1>5

\* An answer's run is written with its links, in one transaction.
LEMMA AttributedStep ==
  ASSUME DealInv, NEW d \in Deal, NEW entry \in RunOf, entry.st # "failed", Writes(d, entry),
         entry.st = "completed" => /\ Certain(entry.customer, settings.customer, entry.text)
                                 /\ Certain(entry.service, settings.service, entry.text),
         ~(Captures(entry) /\ Conflicts(entry)),
         links' = [links EXCEPT ![d] = IF Captures(entry) THEN LinksOf(entry) ELSE {}],
         UNCHANGED <<settings, summary, begun, stopped, derived>>,
         attempt' \in [Attribution -> [at : {"idle", "asked", "ended"}, text : Texts]]
  PROVE  DealInv'
<1>0. DealTypeOK /\ DealTyped /\ RunsAreCertain /\ LinksFollow /\ DerivedFollow
  BY DEF DealInv
<1>2. /\ runs' \in [Deal -> Seq(RunOf)]
      /\ \A c \in Deal \ {d} : runs'[c] = runs[c]
      /\ Len(runs[d]) \in Nat /\ Len(runs'[d]) = Len(runs[d]) + 1
      /\ DOMAIN runs'[d] = DOMAIN runs[d] \cup {Len(runs[d]) + 1}
      /\ DOMAIN runs[d] = 1 .. Len(runs[d])
      /\ runs'[d][Len(runs[d]) + 1] = entry
      /\ \A n \in DOMAIN runs[d] : runs'[d][n] = runs[d][n]
  BY <1>0, RunIsAdded
<1> DEFINE next == Len(runs[d]) + 1
<1>3. /\ DOMAIN links' = Deal /\ links'[d] = (IF Captures(entry) THEN LinksOf(entry) ELSE {})
      /\ \A c \in Deal \ {d} : links'[c] = links[c]
  BY <1>0 DEF DealTyped
<1>4. DealTypeOK'
  <2>1. ASSUME Captures(entry), NEW l \in LinksOf(entry) PROVE l.reason \in Reason
    <3>1. /\ Certain(entry.customer, settings.customer, entry.text)
          /\ Certain(entry.service, settings.service, entry.text)
      BY <2>1 DEF Captures
    <3>2. /\ \A k \in Captured(entry.customer, "customer") : k.reason \in settings.customer
          /\ \A k \in Captured(entry.service, "service") : k.reason \in settings.service
      BY <3>1, CapturedIsNamed
    <3> QED BY <1>0, <2>1, <3>2 DEF LinksOf, Reason, DealTyped
  <2>2. \A c \in Deal : \A l \in links'[c] : l.reason \in Reason
    BY <1>0, <1>3, <2>1 DEF DealTypeOK
  <2> QED BY <1>0, <2>2 DEF DealTypeOK, Attribution
<1>5. DealTyped'
  BY <1>0, <1>2, <1>3 DEF DealTyped, Attribution
<1>6. RunsAreCertain'
  <2> SUFFICES ASSUME NEW c \in Deal, NEW n \in DOMAIN runs'[c], runs'[c][n].st = "completed"
               PROVE  /\ Certain(runs'[c][n].customer, settings.customer, runs'[c][n].text)
                      /\ Certain(runs'[c][n].service, settings.service, runs'[c][n].text)
    BY DEF RunsAreCertain
  <2>1. CASE c # d
    BY <2>1, <1>0, <1>2 DEF RunsAreCertain
  <2>2. CASE c = d /\ n = next
    BY <2>2, <1>2
  <2>3. CASE c = d /\ n \in DOMAIN runs[d]
    BY <2>3, <1>0, <1>2 DEF RunsAreCertain
  <2> QED BY <1>2, <2>1, <2>2, <2>3
<1>7. LinksFollow'
  <2>1. \A c \in Deal \ {d} : Standing(c)' = Standing(c)
    BY <1>2 DEF Standing
  <2>2. Standing(d)' = Standing(d) \cup {next} /\ next \notin DOMAIN runs[d] /\ \A k \in Standing(d) : k <= next /\ k # next
    BY <1>2 DEF Standing
  <2> SUFFICES ASSUME NEW c \in Deal
               PROVE  /\ Standing(c)' = {} => links'[c] = {}
                      /\ \A n \in DOMAIN runs'[c] : Newest(c, n)' =>
                           IF Captures(runs'[c][n]) THEN links'[c] = LinksOf(runs'[c][n]) /\ ~Conflicts(runs'[c][n])
                                                    ELSE links'[c] = {}
    BY DEF LinksFollow, Captures, Conflicts
  <2>3. CASE c # d
    <3>1. \A n \in DOMAIN runs[c] : Newest(c, n)' => Newest(c, n)
      BY <2>1, <2>3 DEF Newest
    <3>2. runs'[c] = runs[c] /\ links'[c] = links[c]
      BY <2>3, <1>2, <1>3
    <3>3. /\ Standing(c) = {} => links[c] = {}
          /\ \A n \in DOMAIN runs[c] : Newest(c, n) =>
               IF Captures(runs[c][n]) THEN links[c] = LinksOf(runs[c][n]) /\ ~Conflicts(runs[c][n])
                                       ELSE links[c] = {}
      BY <1>0 DEF LinksFollow
    <3>4. Standing(c)' = Standing(c)
      BY <2>1, <2>3
    <3> QED BY <3>1, <3>2, <3>3, <3>4
  <2>4. CASE c = d
    <3>1. \A n \in DOMAIN runs'[d] : Newest(d, n)' => n = next
      <4> SUFFICES ASSUME NEW n \in DOMAIN runs'[d], Newest(d, n)' PROVE n = next
        OBVIOUS
      <4>1. next <= n /\ n \in Standing(d) \cup {next}
        BY <2>2 DEF Newest
      <4>2. \A k \in Standing(d) : k \in Nat
        BY <1>2 DEF Standing
      <4> QED BY <4>1, <4>2, <2>2, <1>2
    <3> QED BY <2>2, <2>4, <3>1, <1>2, <1>3
  <2> QED BY <2>3, <2>4
<1>8. DerivedFollow'
  <2> SUFFICES ASSUME NEW c \in Deal
               PROVE  /\ derived[c].from \in 0 .. Len(runs'[c])
                      /\ derived[c].from \in DOMAIN runs'[c] =>
                           derived[c].advised = (NamesIn(runs'[c][derived[c].from].customer)
                               \cup NamesIn(runs'[c][derived[c].from].service)) \ {"review"}
    BY DEF DerivedFollow
  <2>1. CASE c # d
    BY <2>1, <1>0, <1>2 DEF DerivedFollow
  <2>2. CASE c = d
    <3>1. /\ derived[d].from \in 0 .. Len(runs[d]) /\ derived[d].from # Len(runs[d]) + 1
          /\ derived[d].from \in 0 .. Len(runs'[d])
      BY <1>0, <1>2 DEF DerivedFollow
    <3>2. derived[d].from \in DOMAIN runs'[d] =>
            derived[d].from \in DOMAIN runs[d] /\ runs'[d][derived[d].from] = runs[d][derived[d].from]
      BY <1>2, <3>1
    <3> QED BY <2>2, <3>1, <3>2, <1>0 DEF DerivedFollow
  <2> QED BY <2>1, <2>2
<1> QED BY <1>4, <1>5, <1>6, <1>7, <1>8 DEF DealInv

\* What changes neither runs nor links nor what was derived.
LEMMA CalmStep ==
  ASSUME DealInv, UNCHANGED <<settings, runs, links, derived>>,
         summary' \in [Deal -> Texts], begun' \in [Deal -> 0 .. MaxAttributions], stopped' \subseteq Attribution,
         attempt' \in [Attribution -> [at : {"idle", "asked", "ended"}, text : Texts]]
  PROVE  DealInv'
<1>0. DealTypeOK /\ DealTyped /\ RunsAreCertain /\ LinksFollow /\ DerivedFollow
  BY DEF DealInv
<1>1. DealTypeOK' /\ DealTyped'
  BY <1>0 DEF DealTypeOK, DealTyped, Attribution, Texts
<1>2. RunsAreCertain' /\ DerivedFollow'
  BY <1>0 DEF RunsAreCertain, DerivedFollow
<1>3. LinksFollow'
  BY <1>0 DEF LinksFollow, Newest, Standing, Captures, Conflicts
<1> QED BY <1>1, <1>2, <1>3 DEF DealInv

LEMMA DealSteps == DealInv /\ [DealNext]_dealVars => DealInv'
<1> SUFFICES ASSUME DealInv, [DealNext]_dealVars PROVE DealInv'
  OBVIOUS
<1>0. /\ DealTypeOK /\ DealTyped
      /\ summary \in [Deal -> Texts] /\ begun \in [Deal -> 0 .. MaxAttributions] /\ stopped \subseteq Attribution
      /\ attempt \in [Attribution -> [at : {"idle", "asked", "ended"}, text : Texts]]
  BY DEF DealInv, DealTypeOK, DealTyped, Texts
<1>1. ASSUME NEW d \in Deal, Summarise(d) PROVE DealInv'
  <2>1. summary' \in [Deal -> Texts]
    BY <1>0, <1>1 DEF Summarise, Texts
  <2> QED BY <1>0, <1>1, <2>1, CalmStep DEF Summarise
<1>2. ASSUME NEW d \in Deal, BeginAttribution(d) PROVE DealInv'
  <2>1. begun[d] \in 0 .. MaxAttributions /\ begun[d] < MaxAttributions /\ MaxAttributions \in Nat /\ summary[d] \in Texts
    BY <1>0, <1>2, DealAssumption DEF BeginAttribution
  <2>2. begun' \in [Deal -> 0 .. MaxAttributions] /\ begun'[d] = begun[d] + 1 /\ begun'[d] \in 1 .. MaxAttributions
    BY <1>0, <1>2, <2>1 DEF BeginAttribution
  <2>3. CASE settings.customer = {} \/ settings.service = {}
    <3>1. Writes(d, FailedRun(summary[d])) /\ UNCHANGED <<settings, summary, stopped, links, derived, attempt>>
      BY <1>2, <2>3 DEF BeginAttribution
    <3> QED BY <1>0, <2>1, <2>2, <3>1, FailedStep
  <2>4. CASE ~(settings.customer = {} \/ settings.service = {})
    <3>1. /\ attempt' = [attempt EXCEPT ![<<d, begun'[d]>>] = [at |-> "asked", text |-> summary[d]]]
          /\ UNCHANGED <<settings, summary, stopped, runs, links, derived>>
      BY <1>2, <2>4 DEF BeginAttribution
    <3>2. attempt' \in [Attribution -> [at : {"idle", "asked", "ended"}, text : Texts]]
      BY <1>0, <2>1, <3>1
    <3> QED BY <1>0, <2>2, <3>1, <3>2, CalmStep
  <2> QED BY <2>3, <2>4
<1>3. ASSUME NEW d \in Deal, Derive(d) PROVE DealInv'
  <2> DEFINE own == Len(runs[d])
             names == NamesIn(runs[d][own].customer) \cup NamesIn(runs[d][own].service)
  <2>1. /\ derived' = [derived EXCEPT ![d] = [from |-> own, names |-> names, advised |-> names \ {"review"}]]
        /\ UNCHANGED <<settings, summary, attempt, begun, stopped, runs, links>>
    BY <1>3 DEF Derive
  <2> HIDE DEF names
  <2>2. /\ DOMAIN derived' = Deal /\ derived'[d].from = own /\ derived'[d].advised = names \ {"review"}
        /\ \A c \in Deal \ {d} : derived'[c] = derived[c]
    BY <1>0, <2>1 DEF DealTyped
  <2>3. own \in Nat
    BY <1>0 DEF DealTyped
  <2>4. DerivedFollow'
    BY <2>1, <2>2, <2>3 DEF DealInv, DerivedFollow, names
  <2>5. DealTypeOK' /\ DealTyped'
    BY <1>0, <2>1, <2>2 DEF DealTypeOK, DealTyped, Attribution
  <2>6. RunsAreCertain'
    BY <2>1 DEF DealInv, RunsAreCertain
  <2>7. LinksFollow'
    BY <2>1 DEF DealInv, LinksFollow, Newest, Standing, Captures, Conflicts
  <2> QED BY <2>4, <2>5, <2>6, <2>7 DEF DealInv
<1>4. ASSUME NEW t \in Attribution
      PROVE  /\ t[1] \in Deal /\ attempt[t].text \in Texts
             /\ EndsAttempt(t) => attempt' \in [Attribution -> [at : {"idle", "asked", "ended"}, text : Texts]]
  BY <1>0 DEF Attribution, EndsAttempt
<1>5. ASSUME NEW t \in Attribution, AttributionFails(t) PROVE DealInv'
  BY <1>0, <1>4, <1>5, FailedStep DEF AttributionFails
<1>6. ASSUME NEW t \in Attribution, StopAttribution(t) \/ LateAttribution(t) PROVE DealInv'
  BY <1>0, <1>4, <1>6, CalmStep DEF StopAttribution, LateAttribution
<1>7. ASSUME NEW t \in Attribution, NEW a \in RawAnswer, Attribute(t, a) PROVE DealInv'
  <2> DEFINE entry == Attributed(a, attempt[t].text)
  <2>1. /\ EndsAttempt(t) /\ UNCHANGED <<settings, summary, begun, stopped, derived>>
        /\ IF Captures(entry) /\ Conflicts(entry)
             THEN Writes(t[1], FailedRun(attempt[t].text)) /\ UNCHANGED links
             ELSE /\ Writes(t[1], entry)
                  /\ links' = [links EXCEPT ![t[1]] = IF Captures(entry) THEN LinksOf(entry) ELSE {}]
    BY <1>7 DEF Attribute, RolledBack
  <2>2. /\ entry \in RunOf /\ entry.st # "failed"
        /\ entry.st = "completed" => /\ Certain(entry.customer, settings.customer, entry.text)
                                   /\ Certain(entry.service, settings.service, entry.text)
    BY <1>4, AttributedRun
  <2> HIDE DEF entry
  <2>3. CASE Captures(entry) /\ Conflicts(entry)
    BY <1>0, <1>4, <2>1, <2>3, FailedStep
  <2>4. CASE ~(Captures(entry) /\ Conflicts(entry))
    BY <1>0, <1>4, <2>1, <2>2, <2>4, AttributedStep
  <2> QED BY <2>3, <2>4
<1>8. CASE UNCHANGED dealVars
  BY <1>0, <1>8, CalmStep DEF dealVars
<1> QED BY <1>1, <1>2, <1>3, <1>5, <1>6, <1>7, <1>8 DEF DealNext

LEMMA DealInvHolds == DealInv => LinksStand
<1> SUFFICES ASSUME DealInv PROVE LinksStand
  OBVIOUS
<1>0. DealTypeOK /\ DealTyped /\ RunsAreCertain /\ LinksFollow /\ DerivedFollow
  BY DEF DealInv
<1>1. ASSUME NEW d \in Deal, Standing(d) = {} PROVE links[d] = {}
  BY <1>0, <1>1 DEF LinksFollow
<1>2. ASSUME NEW d \in Deal, NEW n \in Standing(d), \A k \in Standing(d) : k <= n
      PROVE  /\ (links[d] # {}) => runs[d][n].st = "completed"
             /\ runs[d][n].st = "completed" /\ settings.sync =>
                  {l.reason : l \in links[d]} =
                    {e.item : e \in Elements(runs[d][n].customer) \cup Elements(runs[d][n].service)} \ {NoReason, "review"}
             /\ \A l \in links[d] :
                  /\ l.reason \in settings[l.type] \ settings.padded
                  /\ Grounded(runs[d][n].text, l.ev)
             /\ derived[d].from = n /\ runs[d][n].st = "completed" /\ settings.sync =>
                  derived[d].advised = {l.reason : l \in links[d]}
  <2> DEFINE entry == runs[d][n]
  <2>1. n \in DOMAIN runs[d] /\ Newest(d, n)
    BY <1>2 DEF Standing, Newest
  <2>2. IF Captures(entry) THEN links[d] = LinksOf(entry) /\ ~Conflicts(entry) ELSE links[d] = {}
    BY <1>0, <2>1 DEF LinksFollow
  <2>3. derived[d].from = n => derived[d].advised = (NamesIn(entry.customer) \cup NamesIn(entry.service)) \ {"review"}
    BY <1>0, <2>1 DEF DerivedFollow
  <2>4. Captures(entry) <=> settings.sync /\ entry.st = "completed"
    BY DEF Captures
  <2>5. entry.st = "completed" => /\ Certain(entry.customer, settings.customer, entry.text)
                                /\ Certain(entry.service, settings.service, entry.text)
    BY <1>0, <2>1 DEF RunsAreCertain
  <2> HIDE DEF entry
  <2>6. CASE Captures(entry)
    <3> DEFINE cs == Captured(entry.customer, "customer")
               ss == Captured(entry.service, "service")
    <3>1. links[d] = cs \cup ss /\ ~Conflicts(entry)
      BY <2>2, <2>6 DEF LinksOf
    <3>2. /\ Certain(entry.customer, settings.customer, entry.text)
          /\ Certain(entry.service, settings.service, entry.text)
      BY <2>4, <2>5, <2>6
    <3>3. /\ {l.reason : l \in cs} = {e.item : e \in Elements(entry.customer)} \ {NoReason, "review"}
          /\ {l.reason : l \in cs} = NamesIn(entry.customer) \ {"review"}
          /\ \A l \in cs : l.type = "customer" /\ l.reason \in settings.customer /\ Grounded(entry.text, l.ev)
      BY <3>2, CapturedIsNamed
    <3>4. /\ {l.reason : l \in ss} = {e.item : e \in Elements(entry.service)} \ {NoReason, "review"}
          /\ {l.reason : l \in ss} = NamesIn(entry.service) \ {"review"}
          /\ \A l \in ss : l.type = "service" /\ l.reason \in settings.service /\ Grounded(entry.text, l.ev)
      BY <3>2, CapturedIsNamed
    <3>5. \A l \in cs \cup ss : l.reason \notin settings.padded
      BY <3>1 DEF Conflicts, LinksOf
    <3> HIDE DEF cs, ss
    <3>6. {l.reason : l \in links[d]} = {l.reason : l \in cs} \cup {l.reason : l \in ss}
      BY <3>1
    <3>7. {l.reason : l \in links[d]} =
            {e.item : e \in Elements(entry.customer) \cup Elements(entry.service)} \ {NoReason, "review"}
      <4>1. {e.item : e \in Elements(entry.customer) \cup Elements(entry.service)} =
              {e.item : e \in Elements(entry.customer)} \cup {e.item : e \in Elements(entry.service)}
        OBVIOUS
      <4> HIDE DEF cs, ss
      <4> QED BY <3>3, <3>4, <3>6, <4>1
    <3>8. {l.reason : l \in links[d]} = (NamesIn(entry.customer) \cup NamesIn(entry.service)) \ {"review"}
      BY <3>3, <3>4, <3>6
    <3>9. settings["customer"] = settings.customer /\ settings["service"] = settings.service
      OBVIOUS
    <3>10. \A l \in links[d] : l.reason \in settings[l.type] \ settings.padded /\ Grounded(entry.text, l.ev)
      BY <3>1, <3>3, <3>4, <3>5, <3>9
    <3> QED BY <2>3, <2>4, <2>6, <3>7, <3>8, <3>10 DEF entry
  <2>7. CASE ~Captures(entry)
    BY <2>2, <2>4, <2>7 DEF entry
  <2> QED BY <2>6, <2>7
<1> QED BY <1>0, <1>1, <1>2 DEF LinksStand

\* However analyses are repeated, cancelled or fail, a record's links and its
\* derived advice are those of its newest attribution that did not fail
\* (lost-deal-capture.ts), for any records, reasons and answers.
THEOREM LinksFollowTheRun == DealSpec => []LinksStand
<1>1. DealSpec => []DealInv
  BY DealInitially, DealSteps, PTL DEF DealSpec
<1> QED BY <1>1, DealInvHolds, PTL
=============================================================================
