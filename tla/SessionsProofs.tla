---------------------------- MODULE SessionsProofs ----------------------------
(***************************************************************************)
(* Why comparing one number is enough: for any number of sessions, requests*)
(* and changes, no session that was opened or verified before a change of  *)
(* the account is accepted after it, none that is accepted was opened with *)
(* an older password, and none that is refused comes back.                 *)
(*                                                                         *)
(* The argument: a session never carries a version ahead of the row's, the *)
(* row's never falls, and it rises with everything a session depends on.   *)
(***************************************************************************)
EXTENDS Sessions, TLAPS

\* The type invariant by parts, so that a step has to speak of those it
\* changes only.
Version == 0..MaxChanges + 1
UserType ==
  user \in [status : {"none", "active", "suspended"}, version : Version, password : Version,
            must : BOOLEAN]
AtType == at \in [Token -> {"none", "registered", "admitted", "verified", "open", "over"}]
SeenType ==
  seen \in [Token -> [version : Version, password : Version, by : {"login", "registration"}]]
ReqType ==
  req \in [Request -> [at : {"none", "loaded", "serving", "logout", "change", "replace"},
                       token : Token \cup {None}]]
LimitType == limit \in [count : 0..Limit + 1, left : 0..Window]
HistoryType == revoked \subseteq Token /\ changes \in 0..MaxChanges

\* The row counts its changes from its creation on.
RowCounts ==
  IF user.status = "none" THEN user.version = 0 /\ user.password = 0 /\ changes = 0
  ELSE user.version = changes + 1 /\ user.password \in 1..user.version

\* Sessions and requests come after the account.
AccountExists ==
  user.status = "none" =>
    /\ \A t \in Token : at[t] \in {"none", "admitted", "over"}
    /\ \A r \in Request : req[r].at = "none"

\* What a login that has verified a password, or a session, says of the row.
IsCurrent(t) ==
  at[t] \in {"verified", "open"} =>
    /\ seen[t].version <= user.version
    /\ t \in revoked => seen[t].version < user.version
    /\ seen[t].by = "login" /\ seen[t].version = user.version => seen[t].password = user.password

\* Nothing is revoked before it could be used.
RevokedLater(t) == t \in revoked => at[t] \in {"verified", "open", "over"}

TokensInv == \A t \in Token : IsCurrent(t) /\ RevokedLater(t)

\* The inductive invariant.
SessionInv ==
  /\ UserType /\ AtType /\ SeenType /\ ReqType /\ LimitType /\ HistoryType
  /\ RowCounts /\ AccountExists /\ TokensInv

\* The parts are the type invariant.
LEMMA SessionTypeParts == SessionInv => TypeOK
  BY DEF SessionInv, TypeOK, UserType, AtType, SeenType, ReqType, LimitType, HistoryType, Version

\* Before the registration there is nothing.
LEMMA InitSessionInv == Init => SessionInv
<1> SUFFICES ASSUME Init
             PROVE  SessionInv
  OBVIOUS
<1> USE SessionsAssumption DEF Init
<1>1. UserType /\ SeenType /\ HistoryType
  BY DEF UserType, SeenType, HistoryType, Version
<1>2. AtType /\ ReqType
  BY DEF AtType, ReqType, NoRequest
<1>3. LimitType
  BY DEF LimitType, Fresh
<1>4. RowCounts /\ AccountExists /\ TokensInv
  BY DEF RowCounts, AccountExists, TokensInv, IsCurrent, RevokedLater, NoRequest
<1> QED BY <1>1, <1>2, <1>3, <1>4 DEF SessionInv

\* A counter that is counted, cleared or ticked stays one.
LEMMA LimitStep ==
  ASSUME LimitType, Attempt \/ Cleared \/ Tick \/ UNCHANGED limit
  PROVE  LimitType'
<1> USE SessionsAssumption DEF LimitType
<1>1. CASE Attempt
  <2>1. Incremented \in 0..Limit + 1
    BY DEF Incremented
  <2> QED BY <1>1, <2>1 DEF Attempt, Counted
<1>2. CASE Cleared
  BY <1>2 DEF Cleared, Fresh
<1>3. CASE Tick
  BY <1>3 DEF Tick, Fresh
<1> QED BY <1>1, <1>2, <1>3

\* A step that leaves the row and the sessions' contents alone and moves at
\* most one session or login, to where nothing new is claimed of it.
Settles(t) ==
  at' = [at EXCEPT ![t] = "over"] \/ (at[t] = "verified" /\ at' = [at EXCEPT ![t] = "open"])
    \/ (at[t] = "none" /\ at' = [at EXCEPT ![t] = "admitted"]) \/ at' = at

LEMMA SettleKeepsTokens ==
  ASSUME SessionInv, NEW t, Settles(t), UNCHANGED <<user, seen, revoked, changes>>
  PROVE  /\ UserType' /\ AtType' /\ SeenType' /\ HistoryType' /\ RowCounts' /\ TokensInv'
         /\ user.status = "none" => \A q \in Token : at'[q] \in {"none", "admitted", "over"}
<1> USE DEF SessionInv
<1>1. UserType' /\ SeenType' /\ HistoryType' /\ RowCounts'
  BY DEF UserType, SeenType, HistoryType, RowCounts
<1>2. AtType'
  BY DEF AtType, Settles
<1>3. ASSUME NEW q \in Token
      PROVE  /\ IsCurrent(q)' /\ RevokedLater(q)'
             /\ user.status = "none" => at'[q] \in {"none", "admitted", "over"}
  <2>1. \/ at'[q] = at[q] \/ at'[q] = "over"
        \/ at[q] = "verified" /\ at'[q] = "open"
        \/ at[q] = "none" /\ at'[q] = "admitted"
    BY <1>3 DEF Settles, AtType
  <2>2. IsCurrent(q) /\ RevokedLater(q)
    BY <1>3 DEF TokensInv
  <2> QED BY <1>3, <2>1, <2>2 DEF IsCurrent, RevokedLater, AccountExists
<1> QED BY <1>1, <1>2, <1>3 DEF TokensInv

\* Logins, requests and the clock.
LEMMA QuietKeepsInv ==
  ASSUME SessionInv,
         \/ \E t \in Token : \/ LoginAdmitted(t) \/ Open(t) \/ Abandon(t) \/ ExpireSession(t)
         \/ LoginFails \/ Tick
  PROVE  SessionInv'
<1>1. ReqType'
  BY DEF SessionInv, ReqType, LoginAdmitted, Open, Abandon, ExpireSession, LoginFails, Attempt, Tick
<1>2. LimitType'
  BY LimitStep DEF SessionInv, LoginAdmitted, Open, Abandon, ExpireSession, LoginFails
<1>3. \E t : Settles(t) /\ UNCHANGED <<user, seen, revoked, changes, req>>
  BY DEF Settles, LoginAdmitted, Open, Abandon, ExpireSession, LoginFails, Attempt, Tick
<1>4. UserType' /\ AtType' /\ SeenType' /\ HistoryType' /\ RowCounts' /\ TokensInv'
  BY <1>3, SettleKeepsTokens
<1>5. AccountExists'
  BY <1>3, SettleKeepsTokens DEF AccountExists, SessionInv
<1> QED BY <1>1, <1>2, <1>4, <1>5 DEF SessionInv

\* Requests that only read the row.
LEMMA RequestKeepsInv ==
  ASSUME SessionInv, NEW r \in Request,
         \/ \E t \in Token : Load(r, t)
         \/ Refuse(r) \/ Serve(r) \/ Finish(r) \/ Logout(r) \/ VerifyCurrent(r)
  PROVE  SessionInv'
<1>1. LimitType'
  BY DEF SessionInv, LimitType, Load, Refuse, Serve, Finish, Logout, VerifyCurrent
<1>2. ReqType'
  BY DEF SessionInv, ReqType, Load, Refuse, Serve, Finish, Logout, VerifyCurrent, To, Done,
         NoRequest
<1>3. \E t : Settles(t) /\ UNCHANGED <<user, seen, revoked, changes>>
  BY DEF Settles, Load, Refuse, Serve, Finish, Logout, VerifyCurrent, Delete
<1>4. UserType' /\ AtType' /\ SeenType' /\ HistoryType' /\ RowCounts' /\ TokensInv'
  BY <1>3, SettleKeepsTokens
<1>5. user.status # "none"
  <2>1. CASE \E t \in Token : Load(r, t)
    BY <2>1 DEF Load, SessionInv, AccountExists
  <2>2. CASE Refuse(r) \/ Serve(r) \/ Finish(r) \/ Logout(r) \/ VerifyCurrent(r)
    BY <2>2 DEF Refuse, Serve, Finish, Logout, VerifyCurrent, SessionInv, AccountExists
  <2> QED BY <2>1, <2>2
<1>6. AccountExists'
  BY <1>3, <1>5 DEF AccountExists
<1> QED BY <1>1, <1>2, <1>4, <1>6 DEF SessionInv

\* What is read from the row is what the row is.
LEMMA ReadKeepsInv ==
  ASSUME SessionInv, NEW t \in Token, Verify(t) \/ ReadBack(t)
  PROVE  SessionInv'
<1> USE DEF SessionInv
<1>1. UserType' /\ ReqType' /\ LimitType' /\ HistoryType' /\ RowCounts'
  BY DEF Verify, ReadBack, UserType, ReqType, LimitType, HistoryType, RowCounts
<1>2. AtType'
  BY DEF Verify, ReadBack, AtType
<1>3. user.status # "none"
  BY DEF Verify, ReadBack, AccountExists
<1>4. user.version \in Version /\ user.password \in Version /\ 1 \in Version
  BY SessionsAssumption DEF UserType, Version
<1>5. SeenType'
  BY <1>4 DEF Verify, ReadBack, SeenType
<1>6. AccountExists'
  BY <1>3 DEF Verify, ReadBack, AccountExists
<1>7. ASSUME NEW q \in Token
      PROVE  IsCurrent(q)' /\ RevokedLater(q)'
  <2>1. IsCurrent(q) /\ RevokedLater(q)
    BY <1>7 DEF TokensInv
  <2>2. CASE q = t
    <3>1. t \notin revoked
      BY <2>1, <2>2 DEF RevokedLater, Verify, ReadBack
    <3>2. seen'[t].version = user.version /\ at'[t] = "verified"
      BY DEF Verify, ReadBack, SeenType, AtType
    <3>3. seen'[t].by = "login" => seen'[t].password = user.password
      BY DEF Verify, ReadBack, SeenType
    <3>4. user' = user /\ revoked' = revoked
      BY DEF Verify, ReadBack
    <3> QED BY <1>4, <2>2, <3>1, <3>2, <3>3, <3>4 DEF IsCurrent, RevokedLater, Version
  <2>3. CASE q # t
    <3>1. at'[q] = at[q] /\ seen'[q] = seen[q] /\ user' = user /\ revoked' = revoked
      BY <1>7, <2>3 DEF Verify, ReadBack, SeenType, AtType
    <3> QED BY <2>1, <3>1 DEF IsCurrent, RevokedLater
  <2> QED BY <2>2, <2>3
<1> QED BY <1>1, <1>2, <1>5, <1>6, <1>7 DEF TokensInv

LEMMA RegisterKeepsInv ==
  ASSUME SessionInv, NEW t \in Token, Register(t)
  PROVE  SessionInv'
<1> USE SessionsAssumption DEF SessionInv, Register
<1>1. UserType' /\ SeenType' /\ ReqType' /\ LimitType' /\ HistoryType'
  BY DEF UserType, SeenType, ReqType, LimitType, HistoryType, Version
<1>2. AtType'
  BY DEF AtType
<1>3. AccountExists'
  BY DEF AccountExists
<1>4. RowCounts'
  BY DEF RowCounts
<1>5. TokensInv'
  BY DEF TokensInv, IsCurrent, RevokedLater, AccountExists, AtType
<1> QED BY <1>1, <1>2, <1>3, <1>4, <1>5

\* A change of the row: its version leaves every session behind.
LEMMA ChangeKeepsInv ==
  ASSUME SessionInv, NEW row, Change(row), user.status # "none",
         row \in [status : {"active", "suspended"}, version : {user.version},
                  password : {user.password, user.password + 1}, must : BOOLEAN],
         UNCHANGED <<at, seen, limit>>, ReqType'
  PROVE  SessionInv'
<1> USE SessionsAssumption DEF SessionInv, Change
<1>1. user.version = changes + 1 /\ user.password \in 1..user.version /\ changes \in 0..MaxChanges
  BY DEF RowCounts, HistoryType
<1>2. /\ user'.version = user.version + 1 /\ user'.status = row.status
      /\ user'.password = row.password /\ user'.must = row.must
      /\ user' = [row EXCEPT !.version = user.version + 1]
  OBVIOUS
<1>3. UserType'
  BY <1>1, <1>2 DEF UserType, Version
<1>4. AtType' /\ SeenType' /\ LimitType'
  BY DEF AtType, SeenType, LimitType
<1>5. HistoryType'
  BY <1>1 DEF HistoryType
<1>6. RowCounts' /\ AccountExists'
  BY <1>1, <1>2 DEF RowCounts, AccountExists
<1>7. ASSUME NEW q \in Token
      PROVE  IsCurrent(q)' /\ RevokedLater(q)'
  <2>1. IsCurrent(q) /\ RevokedLater(q)
    BY <1>7 DEF TokensInv
  <2>2. at[q] \in {"verified", "open"} => seen[q].version < user'.version
    <3>1. seen[q].version \in Nat /\ user.version \in Nat
      BY <1>1, <1>7 DEF SeenType, Version
    <3> QED BY <1>2, <2>1, <3>1 DEF IsCurrent
  <2>3. seen[q].version \in Nat /\ user'.version \in Nat
    BY <1>1, <1>2, <1>7 DEF SeenType, Version
  <2> QED BY <1>7, <2>1, <2>2, <2>3 DEF IsCurrent, RevokedLater
<1> QED BY <1>3, <1>4, <1>5, <1>6, <1>7 DEF TokensInv

\* The three changes: password, status, and password by the owner.
LEMMA ChangesKeepInv ==
  ASSUME SessionInv,
         \/ \E r \in Request : Replace(r)
         \/ \E status \in {"active", "suspended"} : SetStatus(status)
         \/ ResetPassword
  PROVE  SessionInv'
<1> DEFINE Rows == [status : {"active", "suspended"}, version : {user.version},
                    password : {user.password, user.password + 1}, must : BOOLEAN]
<1>1. user \in [status : {"none", "active", "suspended"}, version : Version, password : Version,
                must : BOOLEAN]
  BY DEF SessionInv, UserType
<1>2. ASSUME NEW r \in Request, Replace(r)
      PROVE  SessionInv'
  <2>1. user.status # "none"
    BY <1>2 DEF Replace, SessionInv, AccountExists
  <2>2. [user EXCEPT !.password = @ + 1, !.must = FALSE] \in Rows
    BY <1>1, <2>1
  <2>3. ReqType'
    BY <1>2 DEF Replace, To, SessionInv, ReqType
  <2> QED BY <1>2, <2>1, <2>2, <2>3, ChangeKeepsInv DEF Replace
<1>3. ASSUME NEW status \in {"active", "suspended"}, SetStatus(status)
      PROVE  SessionInv'
  <2>1. [user EXCEPT !.status = status] \in Rows
    BY <1>1, <1>3
  <2>2. ReqType'
    BY <1>3 DEF SetStatus, SessionInv, ReqType
  <2> QED BY <1>3, <2>1, <2>2, ChangeKeepsInv DEF SetStatus
<1>4. CASE ResetPassword
  <2>1. [user EXCEPT !.password = @ + 1, !.must = TRUE] \in Rows
    BY <1>1, <1>4 DEF ResetPassword
  <2>2. ReqType'
    BY <1>4 DEF ResetPassword, SessionInv, ReqType
  <2> QED BY <1>4, <2>1, <2>2, ChangeKeepsInv DEF ResetPassword
<1> QED BY <1>2, <1>3, <1>4

\* The inductive step, one case per kind of action.
LEMMA NextSessionInv == SessionInv /\ [Next]_vars => SessionInv'
<1> SUFFICES ASSUME SessionInv, [Next]_vars
             PROVE  SessionInv'
  OBVIOUS
<1>1. CASE \E t \in Token : \/ LoginAdmitted(t) \/ Open(t) \/ Abandon(t) \/ ExpireSession(t)
  BY <1>1, QuietKeepsInv
<1>2. CASE LoginFails \/ Tick
  BY <1>2, QuietKeepsInv
<1>3. CASE \E t \in Token : Register(t) \/ ReadBack(t) \/ Verify(t)
  BY <1>3, RegisterKeepsInv, ReadKeepsInv
<1>4. CASE \E t \in Token : \E r \in Request : Load(r, t)
  BY <1>4, RequestKeepsInv
<1>5. CASE \E r \in Request :
             Refuse(r) \/ Serve(r) \/ Finish(r) \/ Logout(r) \/ VerifyCurrent(r)
  BY <1>5, RequestKeepsInv
<1>6. CASE \/ \E r \in Request : Replace(r)
           \/ \E status \in {"active", "suspended"} : SetStatus(status)
           \/ ResetPassword
  BY <1>6, ChangesKeepInv
<1>7. CASE UNCHANGED vars
  BY <1>7 DEF vars, SessionInv, UserType, AtType, SeenType, ReqType, LimitType, HistoryType,
              RowCounts, AccountExists, TokensInv, IsCurrent, RevokedLater
<1> QED BY <1>1, <1>2, <1>3, <1>4, <1>5, <1>6, <1>7 DEF Next

\* Every reachable state satisfies the invariant (auth.go, accounts.go).
THEOREM SessionInvariant == Spec => []SessionInv
  BY InitSessionInv, NextSessionInv, PTL DEF Spec

\* The row, the sessions, the requests and the counter keep their types.
THEOREM SessionTypeCorrect == Spec => []TypeOK
  BY SessionInvariant, SessionTypeParts, PTL

\* auth compares the version of the session with the row's, and every change
\* increments it: what was opened, or verified, before a change is refused.
THEOREM RevocationHolds == Spec => []RevokedStaysRevoked
<1>1. SessionInv => RevokedStaysRevoked
  BY DEF SessionInv, RevokedStaysRevoked, Valid, Accepted, TokensInv, IsCurrent, UserType,
         SeenType, Version
<1> QED BY <1>1, SessionInvariant, PTL

\* login takes hash and version from one row (findUser): an accepted session
\* was opened with the password in force.
THEOREM PasswordHolds == Spec => []PasswordIsInForce
<1>1. SessionInv => PasswordIsInForce
  BY DEF SessionInv, PasswordIsInForce, Valid, Accepted, TokensInv, IsCurrent, SeenType
<1> QED BY <1>1, SessionInvariant, PTL

\* One step changes the row and raises its version, or changes neither.
LEMMA RowStep ==
  ASSUME SessionInv, [Next]_vars, user.status # "none"
  PROVE  user' = user \/ user'.version = user.version + 1
<1>0. UserType
  BY DEF SessionInv
<1>1. CASE \E r \in Request : Replace(r)
  <2>1. user' = [[user EXCEPT !.password = @ + 1, !.must = FALSE] EXCEPT !.version = @ + 1]
    BY <1>1 DEF Replace, Change
  <2> QED BY <1>0, <2>1 DEF UserType
<1>2. CASE ResetPassword
  <2>1. user' = [[user EXCEPT !.password = @ + 1, !.must = TRUE] EXCEPT !.version = @ + 1]
    BY <1>2 DEF ResetPassword, Change
  <2> QED BY <1>0, <2>1 DEF UserType
<1>3. ASSUME NEW status \in {"active", "suspended"}, SetStatus(status)
      PROVE  user'.version = user.version + 1
  <2>1. user' = [[user EXCEPT !.status = status] EXCEPT !.version = @ + 1]
    BY <1>3 DEF SetStatus, Change
  <2> QED BY <1>0, <2>1 DEF UserType
<1>4. CASE \E t \in Token : \/ Register(t) \/ ReadBack(t) \/ LoginAdmitted(t) \/ Verify(t) \/ Open(t)
                             \/ Abandon(t) \/ ExpireSession(t) \/ \E r \in Request : Load(r, t)
  BY <1>4 DEF Register, ReadBack, LoginAdmitted, Attempt, Verify, Open, Abandon, ExpireSession, Load
<1>5. CASE \E r \in Request :
             Refuse(r) \/ Serve(r) \/ Finish(r) \/ Logout(r) \/ VerifyCurrent(r)
  BY <1>5 DEF Refuse, Serve, Finish, Logout, VerifyCurrent
<1>6. CASE LoginFails \/ Tick \/ UNCHANGED vars
  BY <1>6 DEF LoginFails, Attempt, Tick, vars
<1> QED BY <1>1, <1>2, <1>3, <1>4, <1>5, <1>6 DEF Next

\* What an open session carries does not change while it is open.
LEMMA SeenStep ==
  ASSUME SessionInv, [Next]_vars, NEW t \in Token, at[t] = "open"
  PROVE  seen'[t] = seen[t]
<1>1. seen \in [Token -> [version : Version, password : Version, by : {"login", "registration"}]]
  BY DEF SessionInv, SeenType
<1>2. ASSUME NEW q \in Token, ReadBack(q) \/ Verify(q)
      PROVE  seen'[t] = seen[t]
  <2>1. q # t
    BY <1>2 DEF ReadBack, Verify
  <2> QED BY <1>1, <1>2, <2>1 DEF ReadBack, Verify
<1>3. CASE \E q \in Token : \/ Register(q) \/ LoginAdmitted(q) \/ Open(q) \/ Abandon(q)
                             \/ ExpireSession(q) \/ \E r \in Request : Load(r, q)
  BY <1>3 DEF Register, LoginAdmitted, Attempt, Open, Abandon, ExpireSession, Load
<1>4. CASE \E r \in Request : \/ Refuse(r) \/ Serve(r) \/ Finish(r) \/ Logout(r)
                               \/ VerifyCurrent(r) \/ Replace(r)
  BY <1>4 DEF Refuse, Serve, Finish, Logout, VerifyCurrent, Replace
<1>5. CASE \/ \E status \in {"active", "suspended"} : SetStatus(status)
           \/ ResetPassword \/ LoginFails \/ Tick \/ UNCHANGED vars
  BY <1>5 DEF SetStatus, ResetPassword, LoginFails, Attempt, Tick, vars
<1> QED BY <1>2, <1>3, <1>4, <1>5 DEF Next

\* Suspended and activated again, or with a version behind: a session that
\* auth refuses is never accepted later, also when Redis did not delete it.
THEOREM RefusalIsFinal == Spec => RefusedForGood
<1>1. ASSUME SessionInv, [Next]_vars, NEW t \in Token, at[t] = "open", ~Accepted(t)
      PROVE  ~Accepted(t)'
  <2>1. user.status # "none"
    BY <1>1 DEF SessionInv, AccountExists
  <2>2. user' = user \/ user'.version = user.version + 1
    BY <1>1, <2>1, RowStep
  <2>3. seen'[t] = seen[t]
    BY <1>1, SeenStep
  <2>4. seen[t].version <= user.version
    BY <1>1 DEF SessionInv, TokensInv, IsCurrent
  <2>5. seen[t].version \in Nat /\ user.version \in Nat
    BY <1>1 DEF SessionInv, SeenType, UserType, Version
  <2> QED BY <1>1, <2>2, <2>3, <2>4, <2>5 DEF Accepted
<1>2. SessionInv /\ [Next]_vars
        => [\A t \in Token : at[t] = "open" /\ ~Accepted(t) => ~(at'[t] = "open" /\ Accepted(t)')]_vars
  BY <1>1
<1> QED BY <1>2, SessionInvariant, PTL DEF Spec, RefusedForGood
===============================================================================
