----------------------------- MODULE Sessions -----------------------------
(***************************************************************************)
(* Dashboard accounts and sessions: server/src/store/auth.rs and the       *)
(* handlers of web/src/routes/auth.rs and settings.rs that use it.  A      *)
(* password is the number of changes it has seen; hashing, cookies and     *)
(* CSRF tokens are left out, since nothing below depends on their text.    *)
(* Every statement is a step of its own, as it is for SQLite: the handlers *)
(* hold no transaction.                                                    *)
(***************************************************************************)
EXTENDS Integers, FiniteSets

CONSTANTS
    Email,       \* the addresses people sign up with
    Request,     \* the requests that reach the dashboard
    MaxPassword  \* how many passwords an account may have had: a bound

ASSUME SessionsAssumption == MaxPassword \in Nat \ {0}

VARIABLES
    password,   \* users: the current password of an account, 0 for none
    purged,     \* history: how often an account's sessions were purged
    req,        \* the handlers
    sessions,   \* the sessions table: each row is named by its handler
    expired     \* the rows whose expires_at has passed

sessionsVars == <<password, purged, req, sessions, expired>>

Kind == {"setup", "login", "change"}
NewRequest(kind, email, typed) ==
    [kind |-> kind, email |-> email, pc |-> "begin", typed |-> typed,
     accounts |-> {e \in Email : password[e] # 0}, verified |-> 0]
NoRequest == [kind |-> "none", pc |-> "none"]

HasUsers == \E e \in Email : password[e] # 0

SessionsInit ==
    /\ password = [e \in Email |-> 0]
    /\ purged = [e \in Email |-> 0]
    /\ req = [r \in Request |-> NoRequest]
    /\ sessions = {}
    /\ expired = {}

Move(r, pc) == req' = [req EXCEPT ![r].pc = pc]
On(r, kind, pc) == req[r].kind = kind /\ req[r].pc = pc

(* CurrentUser: a cookie resolves to a session whose row is there and not  *)
(* expired.                                                                *)
SignedIn(s) == s \in sessions /\ s \notin expired

(* A request comes in.  What people type may be an old password.  A change *)
(* needs a session of the account.                                         *)
Accept(r) ==
    /\ req[r] = NoRequest
    /\ \E kind \in Kind, e \in Email, typed \in 1 .. MaxPassword :
          /\ kind = "setup" => typed = 1
          /\ kind = "change" => \E s \in sessions : SignedIn(s) /\ req[s].email = e
          /\ req' = [req EXCEPT ![r] = NewRequest(kind, e, typed)]
    /\ UNCHANGED <<password, purged, sessions, expired>>

(* setup: closed once an account exists. *)
SetupCheck(r) ==
    /\ On(r, "setup", "begin")
    /\ Move(r, IF HasUsers THEN "done" ELSE "create")
    /\ UNCHANGED <<password, purged, sessions, expired>>

(* create_user: the address is unique. *)
SetupCreate(r) ==
    /\ On(r, "setup", "create")
    /\ IF password[req[r].email] = 0
         THEN /\ password' = [password EXCEPT ![req[r].email] = 1]
              /\ req' = [req EXCEPT ![r].pc = "session",
                                    ![r].verified = purged[req[r].email]]
         ELSE Move(r, "done") /\ UNCHANGED password
    /\ UNCHANGED <<purged, sessions, expired>>

(* authenticate. *)
Authenticate(r) ==
    /\ On(r, "login", "begin")
    /\ IF req[r].typed = password[req[r].email]
         THEN req' = [req EXCEPT ![r].pc = "session",
                                 ![r].verified = purged[req[r].email]]
         ELSE Move(r, "done")
    /\ UNCHANGED <<password, purged, sessions, expired>>

(* create_session. *)
CreateSession(r) ==
    /\ req[r].pc = "session"
    /\ sessions' = sessions \cup {r}
    /\ Move(r, "done")
    /\ UNCHANGED <<password, purged, expired>>

(* change_password, up to the check of the current password. *)
ChangeVerify(r) ==
    /\ On(r, "change", "begin")
    /\ Move(r, IF req[r].typed = password[req[r].email]
                    /\ password[req[r].email] < MaxPassword
                 THEN "update" ELSE "done")
    /\ UNCHANGED <<password, purged, sessions, expired>>

Own(e) == {s \in sessions : req[s].email = e}

\* Variants of ChangeUpdate and ChangePurge: the sessions end first.
PurgeFirst(r) ==
    /\ On(r, "change", "update")
    /\ sessions' = sessions \ Own(req[r].email)
    /\ purged' = [purged EXCEPT ![req[r].email] = @ + 1]
    /\ Move(r, "purge")
    /\ UNCHANGED <<password, expired>>

UpdateLast(r) ==
    /\ On(r, "change", "purge")
    /\ password[req[r].email] < MaxPassword
    /\ password' = [password EXCEPT ![req[r].email] = @ + 1]
    /\ Move(r, "done")
    /\ UNCHANGED <<purged, sessions, expired>>

ChangeUpdate(r) ==
    /\ On(r, "change", "update")
    /\ password[req[r].email] < MaxPassword
    /\ password' = [password EXCEPT ![req[r].email] = @ + 1]
    /\ Move(r, "purge")
    /\ UNCHANGED <<purged, sessions, expired>>

ChangePurge(r) ==
    /\ On(r, "change", "purge")
    /\ sessions' = sessions \ Own(req[r].email)
    /\ purged' = [purged EXCEPT ![req[r].email] = @ + 1]
    /\ Move(r, "done")
    /\ UNCHANGED <<password, expired>>

\* Variant of ChangeSteps: the sessions end before the password changes.
ChangeStepsReversed(r) == PurgeFirst(r) \/ UpdateLast(r)

ChangeSteps(r) == ChangeUpdate(r) \/ ChangePurge(r)

Expire(s) ==
    /\ s \in sessions \ expired
    /\ expired' = expired \cup {s}
    /\ UNCHANGED <<password, purged, req, sessions>>

(* lookup_session removes an expired row it meets; logout removes its own. *)
EndSession(s) ==
    /\ s \in sessions
    /\ sessions' = sessions \ {s}
    /\ UNCHANGED <<password, purged, req, expired>>

SessionsNext ==
    \E r \in Request :
        \/ Accept(r)
        \/ SetupCheck(r) \/ SetupCreate(r)
        \/ Authenticate(r) \/ CreateSession(r)
        \/ ChangeVerify(r) \/ ChangeSteps(r)
        \/ Expire(r) \/ EndSession(r)

Changing(e) == \E r \in Request : On(r, "change", "purge") /\ req[r].email = e

(* Property.  "A password change is how someone responds to a suspected    *)
(* compromise" (store/auth.rs:182-183): once a change is over, a session   *)
(* opened with a password since replaced belongs to a sign-in that had     *)
(* already passed its check when the sessions ended, never to a later one. *)
StaleSessionsWereUnderWay ==
    \A s \in sessions :
        LET e == req[s].email IN
        req[s].kind = "login" /\ req[s].typed # password[e] /\ ~Changing(e)
          => req[s].verified < purged[e]

=============================================================================
