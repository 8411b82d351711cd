------------------------------- MODULE Sessions --------------------------------
(***************************************************************************)
(* One account, its row in PostgreSQL, the sessions Redis keeps for it,    *)
(* the requests that arrive with them, and the counters of attempts.       *)
(*                                                                         *)
(* Redis and PostgreSQL change apart: a session carries the session        *)
(* version its opener has read, and every request compares it with the     *)
(* row.  A token is random and used once, so it also names the login or    *)
(* the registration that opens it.  CSRF tokens and origins are left out.  *)
(***************************************************************************)
EXTENDS Naturals

CONSTANTS
  Token,        \* sessions, and the logins that open them
  Request,      \* authenticated requests in progress at a time
  None,
  Limit,        \* the 5 of allowLogin
  Window,       \* ticks until a counter expires
  MaxChanges    \* bound: changes of the account

ASSUME SessionsAssumption ==
  /\ None \notin Token
  /\ Limit \in Nat \ {0} /\ Window \in Nat \ {0} /\ MaxChanges \in Nat

VARIABLES
  user,      \* the row; passwords are numbered in the order they are set
  at,        \* token: where its login or session is
  seen,      \* token: the version in the session, and the password it was opened with
  req,       \* request: its token, and what it has to do next
  limit,     \* the counter of attempts for an address and the user, and the
             \* ticks it has left; the one for the address alone is like it
  revoked,   \* history: opened, or verified, before a change of the account
  changes

vars == <<user, at, seen, req, limit, revoked, changes>>

Fresh == [count |-> 0, left |-> 0]
NoRequest == [at |-> "none", token |-> None]

Init ==
  /\ user = [status |-> "none", version |-> 0, password |-> 0, must |-> FALSE]
  /\ at = [t \in Token |-> "none"]
  /\ seen = [t \in Token |-> [version |-> 0, password |-> 0, by |-> "login"]]
  /\ req = [r \in Request |-> NoRequest]
  /\ limit = Fresh
  /\ revoked = {} /\ changes = 0

\* Every statement that changes the row increments its session version.
\* What is open or verified by then ends with it.
Change(row) ==
  /\ changes < MaxChanges /\ changes' = changes + 1
  /\ user' = [row EXCEPT !.version = @ + 1]
  /\ revoked' = revoked \cup {t \in Token : at[t] \in {"verified", "open"}}

-----------------------------------------------------------------------------
(* Registration: createUser, findUserByID, create.                         *)

Register(t) ==
  /\ user.status = "none" /\ at[t] = "none"
  /\ user' = [status |-> "active", version |-> 1, password |-> 1, must |-> FALSE]
  /\ at' = [at EXCEPT ![t] = "registered"]
  /\ UNCHANGED <<seen, req, limit, revoked, changes>>

\* The row is read again, and may have been changed.
ReadBack(t) ==
  /\ at[t] = "registered"
  /\ at' = [at EXCEPT ![t] = "verified"]
  /\ seen' = [seen EXCEPT ![t] = [version |-> user.version, password |-> 1, by |-> "registration"]]
  /\ UNCHANGED <<user, req, limit, revoked, changes>>

-----------------------------------------------------------------------------
(* Login: allowLogin, findUser with verifyPassword, create,                *)
(* clearLoginLimit.                                                        *)

\* INCR, and EXPIRE for the first; counts beyond the limit are alike.
Incremented == IF limit.count > Limit THEN limit.count ELSE limit.count + 1

\* Mutant: EXPIRE for every attempt.
CountedAgain == [count |-> Incremented, left |-> Window]
Counted == [count |-> Incremented, left |-> IF limit.count = 0 THEN Window ELSE limit.left]

Attempt ==
  /\ limit' = Counted
  /\ UNCHANGED <<user, seen, req, revoked, changes>>

\* Refused by the limit, or the wrong password.
LoginFails == Attempt /\ UNCHANGED at

LoginAdmitted(t) ==
  /\ Attempt /\ limit'.count <= Limit
  /\ at[t] = "none" /\ at' = [at EXCEPT ![t] = "admitted"]

\* findUser: status, hash and version are read by one statement.
Verify(t) ==
  /\ at[t] = "admitted" /\ user.status = "active"
  /\ at' = [at EXCEPT ![t] = "verified"]
  /\ seen' = [seen EXCEPT ![t] = [version |-> user.version, password |-> user.password, by |-> "login"]]
  /\ UNCHANGED <<user, req, limit, revoked, changes>>

\* A login clears the counter of its user, a registration does not, and the
\* error of clearing it is dropped.
Cleared == limit' \in {limit, Fresh}

\* Mutant: the session carries the version the row has by now.
OpenCurrent(t) ==
  /\ at[t] = "verified"
  /\ at' = [at EXCEPT ![t] = "open"] /\ Cleared
  /\ seen' = [seen EXCEPT ![t].version = user.version]
  /\ UNCHANGED <<user, req, revoked, changes>>

Open(t) ==
  /\ at[t] = "verified"
  /\ at' = [at EXCEPT ![t] = "open"] /\ Cleared
  /\ UNCHANGED <<user, seen, req, revoked, changes>>

\* The client is gone, a statement fails, or the controller stops.
Abandon(t) ==
  /\ at[t] \in {"registered", "admitted", "verified"}
  /\ at' = [at EXCEPT ![t] = "over"]
  /\ UNCHANGED <<user, seen, req, limit, revoked, changes>>

\* The keys of Redis expire.
ExpireSession(t) ==
  /\ at[t] = "open"
  /\ at' = [at EXCEPT ![t] = "over"]
  /\ UNCHANGED <<user, seen, req, limit, revoked, changes>>

Tick ==
  /\ limit.left > 0
  /\ limit' = IF limit.left = 1 THEN Fresh ELSE [limit EXCEPT !.left = @ - 1]
  /\ UNCHANGED <<user, at, seen, req, revoked, changes>>

-----------------------------------------------------------------------------
(* A request: auth reads the session, then the row, then runs the handler. *)

To(r, label) == req' = [req EXCEPT ![r].at = label]
Done(r) == req' = [req EXCEPT ![r] = NoRequest]
Delete(t) == at' = [at EXCEPT ![t] = "over"]

Load(r, t) ==
  /\ req[r] = NoRequest /\ at[t] = "open"
  /\ req' = [req EXCEPT ![r] = [at |-> "loaded", token |-> t]]
  /\ UNCHANGED <<user, at, seen, limit, revoked, changes>>

\* Mutant: only the status is looked at.
AcceptedActive(t) == user.status = "active"

Accepted(t) == user.status = "active" /\ user.version = seen[t].version

\* What is not accepted is deleted from Redis as well.
Refuse(r) ==
  /\ req[r].at = "loaded" /\ ~Accepted(req[r].token)
  /\ Done(r) /\ Delete(req[r].token)
  /\ UNCHANGED <<user, seen, limit, revoked, changes>>

\* While the password must be changed only three handlers can be reached.
Serve(r) ==
  /\ req[r].at = "loaded" /\ Accepted(req[r].token)
  /\ \/ To(r, "logout") \/ To(r, "change")
     \/ ~user.must /\ To(r, "serving")
  /\ UNCHANGED <<user, at, seen, limit, revoked, changes>>

\* The handler's own work, or its failure at any point.
Finish(r) ==
  /\ req[r].at # "none"
  /\ Done(r)
  /\ UNCHANGED <<user, at, seen, limit, revoked, changes>>

Logout(r) ==
  /\ req[r].at = "logout"
  /\ Done(r) /\ Delete(req[r].token)
  /\ UNCHANGED <<user, seen, limit, revoked, changes>>

\* changePassword: the hash is read and verified, and later replaced
\* whatever the row has become; then the request's own session is deleted.
VerifyCurrent(r) ==
  /\ req[r].at = "change"
  /\ To(r, "replace")
  /\ UNCHANGED <<user, at, seen, limit, revoked, changes>>

Replace(r) ==
  /\ req[r].at = "replace"
  /\ Change([user EXCEPT !.password = @ + 1, !.must = FALSE])
  /\ To(r, "logout")
  /\ UNCHANGED <<at, seen, limit>>

-----------------------------------------------------------------------------
SetStatus(status) ==
  /\ user.status # "none"
  /\ Change([user EXCEPT !.status = status])
  /\ UNCHANGED <<at, seen, req, limit>>

ResetPassword ==
  /\ user.status # "none"
  /\ Change([user EXCEPT !.password = @ + 1, !.must = TRUE])
  /\ UNCHANGED <<at, seen, req, limit>>

Next ==
  \/ \E t \in Token :
       \/ Register(t) \/ ReadBack(t) \/ LoginAdmitted(t) \/ Verify(t) \/ Open(t)
       \/ Abandon(t) \/ ExpireSession(t)
       \/ \E r \in Request : Load(r, t)
  \/ \E r \in Request :
       \/ Refuse(r) \/ Serve(r) \/ Finish(r) \/ Logout(r) \/ VerifyCurrent(r) \/ Replace(r)
  \/ \E status \in {"active", "suspended"} : SetStatus(status)
  \/ ResetPassword \/ LoginFails \/ Tick

\* Time passes, and that is all: nobody has to log in or to go on.
Spec == Init /\ [][Next]_vars /\ WF_vars(Tick)
-----------------------------------------------------------------------------
TypeOK ==
  /\ user \in [status : {"none", "active", "suspended"}, version : 0..MaxChanges + 1,
               password : 0..MaxChanges + 1, must : BOOLEAN]
  /\ at \in [Token -> {"none", "registered", "admitted", "verified", "open", "over"}]
  /\ seen \in [Token -> [version : 0..MaxChanges + 1, password : 0..MaxChanges + 1,
                          by : {"login", "registration"}]]
  /\ req \in [Request -> [at : {"none", "loaded", "serving", "logout", "change", "replace"},
                          token : Token \cup {None}]]
  /\ limit \in [count : 0..Limit + 1, left : 0..Window]
  /\ revoked \subseteq Token /\ changes \in 0..MaxChanges

Valid(t) == at[t] = "open" /\ Accepted(t)

\* docs/api.md:26, all active old sessions are invalidated: a session, or a
\* login whose password had been verified, does not outlive a change of the
\* account, and no later change revives it.
RevokedStaysRevoked == \A t \in Token : Valid(t) => t \notin revoked

\* An accepted session was opened with the password in force, however the
\* statements of its login, of changes and of resets were interleaved; the
\* session of a registration that read its row back after a change is the
\* one exception.
PasswordIsInForce ==
  \A t \in Token : Valid(t) => seen[t].password = user.password \/ seen[t].by = "registration"

\* A session that is refused once is never accepted again, even if it could
\* not be deleted.
RefusedForGood ==
  [][ \A t \in Token : at[t] = "open" /\ ~Accepted(t) => ~(at'[t] = "open" /\ Accepted(t)') ]_vars

\* The limit is one of a window: whoever goes on trying is let in again.
LimitIsLifted == limit.count > Limit ~> limit.count <= Limit
===============================================================================
