------------------------------ MODULE Identity ------------------------------
(***************************************************************************)
(* Accounts, passwords and sessions.  Each request resolves its session    *)
(* cookie to the account as it is now, and changes of accounts are written *)
(* in the same turn.  The two host commands (first administrator, password *)
(* of an administrator) take the instance lock: they run while the server  *)
(* is down.                                                                *)
(*                                                                         *)
(* The n-th password of an account is the number n; a session remembers,   *)
(* for the properties, the number it was opened with.                      *)
(***************************************************************************)
EXTENDS Naturals, FiniteSets

CONSTANTS User,         \* account ids
          Role,         \* "admin" and others
          Session,      \* session rows
          MaxPassword,  \* bound on the passwords of an account
          NoAccount

ASSUME IdentityAssumption == /\ "admin" \in Role
                             /\ MaxPassword \in Nat \ {0}
                             /\ NoAccount \notin [role : Role, on : BOOLEAN,
                                                  pw : Nat, change : BOOLEAN]

VARIABLES
  running,  \* the server holds the instance lock and answers
  account,  \* account[u]: the row of users
  session,  \* session[s]: the row of user_sessions, [st, user, pw]
  audit     \* the newest audit event, [by, did, to, outcome]

idVars == <<running, account, session, audit>>

NoSession == [st |-> "unused", user |-> NoAccount, pw |-> 0]

HasAccount(u) == account[u] # NoAccount
HasAnyUser == \E u \in User : HasAccount(u)
Admin(u) == HasAccount(u) /\ account[u].role = "admin" /\ account[u].on

Event(by, did, to, outcome) ==
  audit' = [by |-> by, did |-> did, to |-> to, outcome |-> outcome]

IdInit == /\ running = FALSE
          /\ account = [u \in User |-> NoAccount]
          /\ session = [s \in Session |-> NoSession]
          /\ audit = [by |-> NoAccount, did |-> "none", to |-> NoAccount, outcome |-> "none"]

StartServer == /\ ~running /\ running' = TRUE /\ UNCHANGED <<account, session, audit>>
StopServer == /\ running /\ running' = FALSE /\ UNCHANGED <<account, session, audit>>

\* The environment of a start, before the server answers, or the host command,
\* which takes the lock of a stopped server; either works once.
Bootstrap(u) ==
  /\ ~running /\ ~HasAnyUser
  /\ account' = [account EXCEPT ![u] =
                   [role |-> "admin", on |-> TRUE, pw |-> 1, change |-> FALSE]]
  /\ Event(NoAccount, "bootstrap_admin", u, "success")
  /\ UNCHANGED <<running, session>>

----------------------------------------------------------------------------
(* Sessions. *)

\* The cookie of a session that is neither revoked nor expired stands for an
\* account that is enabled.
Resolves(s) == session[s].st = "live" /\ account[session[s].user].on

RevokeAllSessions(u) ==
  [s \in Session |-> IF session[s].user = u /\ session[s].st = "live"
                       THEN [session[s] EXCEPT !.st = "revoked"] ELSE session[s]]

Login(u, pw, s) ==
  /\ running /\ HasAccount(u) /\ account[u].on /\ account[u].pw = pw
  /\ session[s] = NoSession
  /\ session' = [session EXCEPT ![s] = [st |-> "live", user |-> u, pw |-> pw]]
  /\ Event(u, "login", u, "success")
  /\ UNCHANGED <<running, account>>

LoginFails(u, pw) ==
  /\ running /\ HasAnyUser
  /\ \/ ~HasAccount(u) /\ Event(NoAccount, "login_failed", NoAccount, "failure")
     \/ HasAccount(u) /\ ~account[u].on /\ Event(u, "login_blocked", u, "failure")
     \/ /\ HasAccount(u) /\ account[u].on /\ account[u].pw # pw
        /\ Event(u, "login_failed", u, "failure")
  /\ UNCHANGED <<running, account, session>>

Logout(s) ==
  /\ running /\ Resolves(s)
  /\ session' = [session EXCEPT ![s].st = "revoked"]
  /\ Event(session[s].user, "logout", session[s].user, "success")
  /\ UNCHANGED <<running, account>>

\* The time of a session is over; the next request marks its row.
Expire(s) ==
  /\ session[s].st = "live"
  /\ session' = [session EXCEPT ![s].st = "revoked"]
  /\ UNCHANGED <<running, account, audit>>

----------------------------------------------------------------------------
(* The administration of accounts, by the holder of session s. *)

ByAdmin(s) == running /\ Resolves(s) /\ account[session[s].user].role = "admin"

Denied(s) == /\ running /\ Resolves(s) /\ account[session[s].user].role # "admin"
             /\ Event(session[s].user, "manage", NoAccount, "failure")
             /\ UNCHANGED <<running, account, session>>

CreateUser(s, u, role) ==
  /\ ByAdmin(s) /\ ~HasAccount(u)
  /\ account' = [account EXCEPT ![u] =
                   [role |-> role, on |-> TRUE, pw |-> 1, change |-> TRUE]]
  /\ Event(session[s].user, "create_user", u, "success")
  /\ UNCHANGED <<running, session>>

\* (mutant) only disabling an account is looked at
ContinuityOfEnabled(u, role, on) ==
  (Admin(u) /\ ~on) => \E v \in User \ {u} : Admin(v)
AdminContinuity(u, role, on) ==
  (Admin(u) /\ ~(on /\ role = "admin")) => \E v \in User \ {u} : Admin(v)

UpdateUser(s, u, role, on) ==
  /\ ByAdmin(s) /\ HasAccount(u)
  /\ AdminContinuity(u, role, on)
  /\ <<role, on>> # <<account[u].role, account[u].on>>
  /\ account' = [account EXCEPT ![u].role = role, ![u].on = on]
  /\ session' = IF on THEN session ELSE RevokeAllSessions(u)
  /\ Event(session[s].user, "update_user", u, "success")
  /\ UNCHANGED running

NewPassword(u) ==
  /\ account[u].pw < MaxPassword
  /\ account' = [account EXCEPT ![u].pw = @ + 1, ![u].change = TRUE]
  /\ session' = RevokeAllSessions(u)
  /\ UNCHANGED running

ResetPassword(s, u) ==
  /\ ByAdmin(s) /\ HasAccount(u)
  /\ NewPassword(u)
  /\ Event(session[s].user, "reset_password", u, "success")

\* The host command resets administrators, enabled or not.
ToolReset(u) ==
  /\ ~running /\ HasAccount(u) /\ account[u].role = "admin"
  /\ NewPassword(u)
  /\ Event(NoAccount, "reset_password", u, "success")

IdNext ==
  \/ StartServer \/ StopServer
  \/ \E u \in User : Bootstrap(u) \/ ToolReset(u)
  \/ \E u \in User, pw \in 1 .. MaxPassword :
       LoginFails(u, pw) \/ \E s \in Session : Login(u, pw, s)
  \/ \E s \in Session : Logout(s) \/ Expire(s) \/ Denied(s)
  \/ \E s \in Session, u \in User :
       \/ ResetPassword(s, u)
       \/ \E role \in Role : \/ CreateUser(s, u, role)
                             \/ \E on \in BOOLEAN : UpdateUser(s, u, role, on)

IdSpec == IdInit /\ [][IdNext]_idVars

----------------------------------------------------------------------------

IdTypeOK ==
  /\ running \in BOOLEAN
  /\ account \in [User -> {NoAccount} \cup
                    [role : Role, on : BOOLEAN, pw : 1 .. MaxPassword, change : BOOLEAN]]
  /\ session \in [Session -> [st : {"unused", "live", "revoked"},
                              user : User \cup {NoAccount}, pw : 0 .. MaxPassword]]

\* Once there is an account there is an administrator who can sign in,
\* whatever the administrators do to one another's accounts.
AdminRemains == IdTypeOK /\ (HasAnyUser => \E u \in User : Admin(u))

\* A session that still counts belongs to an enabled account and was opened
\* with the password the account has now: disabling an account and replacing
\* its password end every session of it, wherever it was opened.
SessionsAreCurrent ==
  \A s \in Session : session[s].st = "live" =>
    LET a == account[session[s].user] IN a # NoAccount /\ a.on /\ a.pw = session[s].pw

\* Who may do what is never out of date: neither lost with the last account
\* that could grant it, nor left with a session its account would not open now
\* (assertAdminContinuity, revokeAllSessions).
AccessHolds == AdminRemains /\ SessionsAreCurrent
=============================================================================
