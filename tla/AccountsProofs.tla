---------------------------- MODULE AccountsProofs ----------------------------
(* Theorems about Accounts, for any number of users, requests and codes.     *)
EXTENDS Accounts, FiniteSetTheorems, TLAPS

USE DEF accountVars, teamVars, loginVars

\* The steps of a handler that needs no caller, and those that name a target account.
Callerless == {"new", "done", "setup_insert", "setup_consume"} \cup Anonymous
Targeted == {"setup", "setup_insert", "login", "npm_login", "accept", "invite", "update", "remove",
             "change_role", "add_member", "add_insert", "update_member", "remove_member"}

\* The steps of the handlers; a handler starts at a step with its own name.
Steps == Callerless \cup Targeted \cup OnSession
         \cup {"none", "mint", "factor", "persist", "change_password", "two_fa_enable", "two_fa_verify",
               "two_fa_disable", "two_fa_off", "create_token", "revoke_token", "authorize",
               "create_project", "delete_project"}
Values == GlobalRoles \cup MemberRoles \cup {"yes", "no", "totp"} \cup Codes \cup {NULL}

ReqRow == [op : Steps, pc : Steps, a : Users \cup {NULL}, role : GlobalRoles,
           sid : Origins \cup {NULL}, t : Users \cup {NULL}, x : Values,
           list : SUBSET Codes]

\* What a request carries at each step of its handler.
ShapeOf(q) ==
  /\ q.pc \notin Callerless => q.a \in Users
  /\ q.pc \in Targeted => q.t \in Users
  /\ q.pc = "invite" => q.x \in {"user", "admin"}
  /\ q.pc = "change_role" => q.x \in GlobalRoles
  /\ q.pc \in {"add_member", "add_insert", "update_member"} => q.x \in MemberRoles
  /\ q.pc = "update_member" => q.op = "update_member"
  /\ q.pc = "remove_member" => q.op = "remove_member"

ReqOK == req \in [Requests -> ReqRow] /\ \A r \in Requests : ShapeOf(req[r])

\* The inductive form of AccountsTypeOK.
TypeInv == AccountsTypeOK /\ ReqOK

\* A step that changes one request keeps the shape of all of them.
LEMMA OneRequest ==
  ASSUME ReqOK, NEW r \in Requests, NEW q \in ReqRow, ShapeOf(q), req' = [req EXCEPT ![r] = q]
  PROVE  ReqOK'
BY DEF ReqOK

LEMMA IdleRow == Idle \in ReqRow /\ Idle.pc = "new"
BY DEF Idle, ReqRow, GlobalRoles, Steps, Values, Callerless

LEMMA Ending ==
  ASSUME ReqOK, NEW r \in Requests, End(r)
  PROVE  ReqOK'
<1>1. Done \in ReqRow /\ Done.pc = "done"
  BY IdleRow DEF Done, ReqRow, Steps, Callerless
<1>2. ShapeOf(Done)
  BY <1>1 DEF ShapeOf, Callerless, Targeted, Anonymous
<1> QED BY <1>1, <1>2, OneRequest DEF End

\* A request that goes on takes its variables along.
LEMMA GoingOn ==
  ASSUME ReqOK, NEW r \in Requests, NEW pc \in Steps, Goto(r, pc), ShapeOf([req[r] EXCEPT !.pc = pc])
  PROVE  ReqOK'
<1>1. [req[r] EXCEPT !.pc = pc] \in ReqRow
  BY DEF ReqOK, ReqRow
<1>2. req' = [req EXCEPT ![r] = [req[r] EXCEPT !.pc = pc]]
  BY DEF Goto
<1> QED BY <1>1, <1>2, OneRequest

LEMMA CallFields ==
  ASSUME NEW c \in Calls
  PROVE  /\ c.op \in Steps /\ c.t \in Users \cup {NULL} /\ c.x \in Values
         /\ c.op \in Targeted => c.t \in Users
         /\ c.op = "invite" => c.x \in {"user", "admin"}
         /\ c.op = "change_role" => c.x \in GlobalRoles
         /\ c.op \in {"add_member", "update_member"} => c.x \in MemberRoles
         /\ c.op # "add_insert"
<1> DEFINE K(ops, T, X) == c \in [op : ops \cap Ops, t : T, x : X]
<1>1. CASE K({"login", "npm_login", "remove", "accept", "remove_member"}, Users, {NULL})
  BY <1>1 DEF Targeted, Steps, Values, Callerless, Anonymous, OnSession
<1>2. CASE K({"invite"}, Users, {"user", "admin"})
  BY <1>2 DEF Targeted, Steps, Values, Callerless, Anonymous, OnSession, GlobalRoles
<1>3. CASE K({"change_role"}, Users, GlobalRoles)
  BY <1>3 DEF Targeted, Steps, Values, Callerless, Anonymous, OnSession, GlobalRoles
<1>4. CASE K({"add_member", "update_member"}, Users, MemberRoles)
  BY <1>4 DEF Targeted, Steps, Values, Callerless, Anonymous, OnSession, MemberRoles
<1>5. CASE K({"update", "setup"}, Users, {"yes", "no"})
  BY <1>5 DEF Targeted, Steps, Values, Callerless, Anonymous, OnSession
<1>6. CASE K({"login_2fa", "two_fa_disable"}, {NULL}, Codes \cup {"totp"})
  BY <1>6 DEF Targeted, Steps, Values, Callerless, Anonymous, OnSession
<1>7. CASE K(OnSession \cup {"begin_login", "poll_done", "change_password", "two_fa_enable",
               "create_token", "revoke_token", "authorize", "create_project", "delete_project"},
             {NULL}, {NULL})
  BY <1>7 DEF Targeted, Steps, Values, Callerless, Anonymous, OnSession
<1> QED BY <1>1, <1>2, <1>3, <1>4, <1>5, <1>6, <1>7 DEF Calls, Call

\* The requests after a step of a handler.
LEMMA StepReq ==
  ASSUME TypeInv, NEW r \in Requests, Step(r)
  PROVE  ReqOK'
<1>1. ReqOK /\ req[r] \in ReqRow /\ ShapeOf(req[r])
  BY DEF TypeInv, ReqOK
<1>2. CASE End(r)
  BY <1>1, <1>2, Ending
<1>3. ASSUME NEW pc \in {"setup_insert", "setup_consume", "mint", "two_fa_verify", "two_fa_off", "add_insert"},
             Goto(r, pc),
             pc \in {"setup_insert", "add_insert"} => req[r].t \in Users,
             pc = "add_insert" => req[r].x \in MemberRoles,
             pc \notin {"setup_insert", "setup_consume"} => req[r].a \in Users
      PROVE  ReqOK'
  <2>1. pc \in Steps
    BY <1>3 DEF Steps, Callerless, Targeted
  <2>2. ShapeOf([req[r] EXCEPT !.pc = pc])
    BY <1>1, <1>3 DEF ShapeOf, ReqRow, Callerless, Targeted, Anonymous
  <2> QED BY <1>1, <1>3, <2>1, <2>2, GoingOn
<1>4. CASE SetupGate(r)
  BY <1>1, <1>2, <1>3, <1>4 DEF SetupGate, ShapeOf, Callerless, Targeted, Anonymous
<1>5. CASE SetupInsert(r)
  BY <1>1, <1>2, <1>3, <1>5 DEF SetupInsert, ShapeOf, Callerless, Targeted, Anonymous
<1>6. CASE change_password(r)
  BY <1>1, <1>2, <1>3, <1>6 DEF change_password, ShapeOf, Callerless, Targeted, Anonymous
<1>7. CASE two_fa_setup(r)
  BY <1>1, <1>2, <1>3, <1>7 DEF two_fa_setup, ShapeOf, Callerless, Targeted, Anonymous
<1>8. CASE TwoFaProve(r)
  BY <1>1, <1>2, <1>3, <1>8 DEF TwoFaProve, ShapeOf, Callerless, Targeted, Anonymous
<1>9. CASE AddMemberCheck(r)
  BY <1>1, <1>2, <1>3, <1>9 DEF AddMemberCheck, ShapeOf, Callerless, Targeted, Anonymous
<1>10. ASSUME NEW u \in Users, req' = [req EXCEPT ![r].pc = "mint", ![r].a = u]
       PROVE  ReqOK'
  <2> DEFINE q == [req[r] EXCEPT !.pc = "mint", !.a = u]
  <2>1. req' = [req EXCEPT ![r] = q]
    BY <1>1, <1>10 DEF ReqOK, ReqRow
  <2>2. q \in ReqRow
    BY <1>1 DEF ReqRow, Steps
  <2>3. ShapeOf(q)
    BY <1>1 DEF ShapeOf, ReqRow, Callerless, Targeted, Anonymous
  <2> HIDE DEF q
  <2> QED BY <1>1, <2>1, <2>2, <2>3, OneRequest
<1>11. CASE Login(r)
  <2>1. req[r].t \in Users
    BY <1>1, <1>11 DEF Login, ShapeOf, Targeted
  <2> QED BY <1>2, <1>10, <1>11, <2>1 DEF Login
<1>12. ASSUME NEW p \in partials, ConsumePartial(r, p)
       PROVE  ReqOK'
  <2> DEFINE q == [req[r] EXCEPT !.pc = "factor", !.a = p.user]
  <2>0. p.user \in Users
    BY DEF TypeInv, AccountsTypeOK
  <2>1. req' = [req EXCEPT ![r] = q]
    BY <1>1, <1>12 DEF ReqOK, ReqRow, ConsumePartial
  <2>2. q \in ReqRow
    BY <1>1, <2>0 DEF ReqRow, Steps
  <2>3. ShapeOf(q)
    BY <1>1, <2>0 DEF ShapeOf, ReqRow, Callerless, Targeted, Anonymous
  <2> HIDE DEF q
  <2> QED BY <1>1, <2>1, <2>2, <2>3, OneRequest
<1>13. CASE CheckFactor(r)
  <2>1. req[r].pc = "factor" /\ req[r].a \in Users
    BY <1>1, <1>13 DEF CheckFactor, ShapeOf, Callerless, Anonymous
  <2>2. CASE req' = [req EXCEPT ![r].pc = "persist", ![r].list = users[Caller(r)].codes \ {req[r].x}]
             /\ Active(Caller(r))
    <3> DEFINE q == [req[r] EXCEPT !.pc = "persist", !.list = users[Caller(r)].codes \ {req[r].x}]
    <3>1. users[Caller(r)].codes \subseteq Codes
      BY <2>1, <2>2 DEF TypeInv, AccountsTypeOK, Active, Caller, UserRow
    <3>2. req' = [req EXCEPT ![r] = q]
      BY <1>1, <2>2 DEF ReqOK, ReqRow
    <3>3. q \in ReqRow
      BY <1>1, <3>1 DEF ReqRow, Steps
    <3>4. ShapeOf(q)
      BY <1>1, <2>1, <3>1 DEF ShapeOf, ReqRow, Callerless, Targeted, Anonymous
    <3> HIDE DEF q
    <3> QED BY <1>1, <3>2, <3>3, <3>4, OneRequest
  <2>3. CASE Goto(r, "mint")
    BY <1>3, <2>1, <2>3
  <2> QED BY <1>2, <1>13, <2>2, <2>3 DEF CheckFactor
<1>14. CASE PersistCodes(r)
  <2> DEFINE q == [req[r] EXCEPT !.pc = "mint", !.list = {}]
  <2>1. req' = [req EXCEPT ![r] = q] /\ req[r].pc = "persist"
    BY <1>1, <1>14 DEF ReqOK, ReqRow, PersistCodes
  <2>2. q \in ReqRow
    BY <1>1 DEF ReqRow, Steps
  <2>3. ShapeOf(q)
    BY <1>1, <2>1 DEF ShapeOf, ReqRow, Callerless, Targeted, Anonymous
  <2> HIDE DEF q
  <2> QED BY <1>1, <2>1, <2>2, <2>3, OneRequest
<1>15. CASE logout(r)
  BY <1>2, <1>15 DEF logout
<1>16. CASE revoke_other_sessions(r)
  BY <1>2, <1>16 DEF revoke_other_sessions
<1>17. CASE two_fa_verify(r)
  BY <1>2, <1>17 DEF two_fa_verify
<1>18. CASE two_fa_disable(r)
  BY <1>2, <1>18 DEF two_fa_disable
<1>19. CASE CreateToken(r)
  BY <1>2, <1>19 DEF CreateToken
<1>20. CASE NpmLogin(r)
  BY <1>2, <1>20 DEF NpmLogin
<1>21. CASE begin_login(r)
  BY <1>2, <1>21 DEF begin_login
<1>22. CASE authorize_session(r)
  BY <1>2, <1>22 DEF authorize_session
<1>23. CASE poll_done(r)
  BY <1>2, <1>23 DEF poll_done
<1>24. CASE invite(r)
  BY <1>2, <1>24 DEF invite
<1>25. CASE UpdateUser(r)
  BY <1>2, <1>25 DEF UpdateUser
<1>26. CASE RemoveUser(r)
  BY <1>2, <1>26 DEF RemoveUser
<1>27. CASE change_role(r)
  BY <1>2, <1>27 DEF change_role
<1>28. CASE AddMemberInsert(r)
  BY <1>2, <1>28 DEF AddMemberInsert
<1>29. CASE UpdateMember(r)
  BY <1>2, <1>29 DEF UpdateMember
<1>30. CASE CreateProject(r)
  BY <1>2, <1>30 DEF CreateProject
<1>31. CASE DeleteProject(r)
  BY <1>2, <1>31 DEF DeleteProject
<1>32. CASE SetupConsume(r)
  BY <1>2, <1>32 DEF SetupConsume
<1>33. CASE issue_session(r)
  BY <1>2, <1>33 DEF issue_session
<1>34. ASSUME NEW s \in sessions, RevokeOne(r, s)
      PROVE  ReqOK'
  BY <1>2, <1>34 DEF RevokeOne
<1>35. ASSUME NEW k \in tokens, RevokeToken(r, k)
      PROVE  ReqOK'
  BY <1>2, <1>35 DEF RevokeToken
<1>36. ASSUME NEW torn \in BOOLEAN, accept(r, torn)
      PROVE  ReqOK'
  BY <1>2, <1>36 DEF accept
<1> QED
  BY <1>4, <1>5, <1>6, <1>7, <1>8, <1>9, <1>11, <1>12, <1>13, <1>14, <1>15, <1>16, <1>17, <1>18,
     <1>19, <1>20, <1>21, <1>22, <1>23, <1>24, <1>25, <1>26, <1>27, <1>28, <1>29, <1>30, <1>31,
     <1>32, <1>33, <1>34, <1>35, <1>36 DEF Step

-----------------------------------------------------------------------------
(* Which handlers write which table.                                         *)

WritesUsers(r) ==
  \/ SetupInsert(r) \/ PersistCodes(r) \/ two_fa_verify(r) \/ two_fa_disable(r)
  \/ (\E torn \in BOOLEAN : accept(r, torn)) \/ UpdateUser(r) \/ RemoveUser(r) \/ change_role(r)
WritesSessions(r) ==
  \/ issue_session(r) \/ logout(r) \/ change_password(r) \/ (\E s \in sessions : RevokeOne(r, s))
  \/ revoke_other_sessions(r) \/ UpdateUser(r) \/ RemoveUser(r)
WritesTokens(r) ==
  \/ CreateToken(r) \/ (\E k \in tokens : RevokeToken(r, k)) \/ NpmLogin(r) \/ authorize_session(r)
  \/ UpdateUser(r) \/ RemoveUser(r)
WritesPartials(r) == Login(r) \/ \E p \in partials : ConsumePartial(r, p)
WritesInvites(r) == invite(r) \/ \E torn \in BOOLEAN : accept(r, torn)
WritesProject(r) ==
  RemoveUser(r) \/ AddMemberInsert(r) \/ UpdateMember(r) \/ CreateProject(r) \/ DeleteProject(r)
WritesLogin(r) == begin_login(r) \/ authorize_session(r) \/ poll_done(r)

Frames(r) ==
  /\ users' = users \/ WritesUsers(r)
  /\ sessions' = sessions \/ WritesSessions(r)
  /\ tokens' = tokens \/ WritesTokens(r)
  /\ partials' = partials \/ WritesPartials(r)
  /\ invites' = invites \/ WritesInvites(r)
  /\ project' = project \/ WritesProject(r)
  /\ weblogin' = weblogin \/ WritesLogin(r)
  /\ setupToken' = setupToken \/ SetupConsume(r)
  /\ log' = log \/ SetupInsert(r) \/ poll_done(r)
  /\ events' = events

LEMMA StepFrames ==
  ASSUME NEW r \in Requests, Step(r)
  PROVE  Frames(r)
<1> USE DEF Frames, WritesUsers, WritesSessions, WritesTokens, WritesPartials, WritesInvites, WritesProject,
            WritesLogin
<1>1. CASE SetupGate(r)
  BY <1>1 DEF SetupGate
<1>2. CASE SetupInsert(r)
  BY <1>2 DEF SetupInsert
<1>3. CASE SetupConsume(r)
  BY <1>3 DEF SetupConsume
<1>4. CASE Login(r)
  BY <1>4 DEF Login
<1>5. CASE CheckFactor(r)
  BY <1>5 DEF CheckFactor
<1>6. CASE PersistCodes(r)
  BY <1>6 DEF PersistCodes
<1>7. CASE issue_session(r)
  BY <1>7 DEF issue_session
<1>8. CASE logout(r)
  BY <1>8 DEF logout
<1>9. CASE change_password(r)
  BY <1>9 DEF change_password
<1>10. CASE revoke_other_sessions(r)
  BY <1>10 DEF revoke_other_sessions
<1>11. CASE two_fa_setup(r)
  BY <1>11 DEF two_fa_setup
<1>12. CASE two_fa_verify(r)
  BY <1>12 DEF two_fa_verify
<1>13. CASE TwoFaProve(r)
  BY <1>13 DEF TwoFaProve
<1>14. CASE two_fa_disable(r)
  BY <1>14 DEF two_fa_disable
<1>15. CASE CreateToken(r)
  BY <1>15 DEF CreateToken
<1>16. CASE NpmLogin(r)
  BY <1>16 DEF NpmLogin
<1>17. CASE begin_login(r)
  BY <1>17 DEF begin_login
<1>18. CASE authorize_session(r)
  BY <1>18 DEF authorize_session
<1>19. CASE poll_done(r)
  BY <1>19 DEF poll_done
<1>20. CASE invite(r)
  BY <1>20 DEF invite
<1>21. CASE UpdateUser(r)
  BY <1>21 DEF UpdateUser
<1>22. CASE RemoveUser(r)
  BY <1>22 DEF RemoveUser
<1>23. CASE change_role(r)
  BY <1>23 DEF change_role
<1>24. CASE AddMemberCheck(r)
  BY <1>24 DEF AddMemberCheck
<1>25. CASE AddMemberInsert(r)
  BY <1>25 DEF AddMemberInsert
<1>26. CASE UpdateMember(r)
  BY <1>26 DEF UpdateMember
<1>27. CASE CreateProject(r)
  BY <1>27 DEF CreateProject
<1>28. CASE DeleteProject(r)
  BY <1>28 DEF DeleteProject
<1>29. ASSUME NEW p \in partials, ConsumePartial(r, p)
      PROVE  Frames(r)
  BY <1>29 DEF ConsumePartial
<1>30. ASSUME NEW s \in sessions, RevokeOne(r, s)
      PROVE  Frames(r)
  BY <1>30 DEF RevokeOne
<1>31. ASSUME NEW k \in tokens, RevokeToken(r, k)
      PROVE  Frames(r)
  BY <1>31 DEF RevokeToken
<1>32. ASSUME NEW torn \in BOOLEAN, accept(r, torn)
      PROVE  Frames(r)
  BY <1>32 DEF accept
<1> HIDE DEF Frames
<1> QED
  BY <1>1, <1>2, <1>3, <1>4, <1>5, <1>6, <1>7, <1>8, <1>9, <1>10, <1>11, <1>12, <1>13, <1>14, <1>15,
     <1>16, <1>17, <1>18, <1>19, <1>20, <1>21, <1>22, <1>23, <1>24, <1>25, <1>26, <1>27, <1>28,
     <1>29, <1>30, <1>31, <1>32 DEF Step

-----------------------------------------------------------------------------
(* What a handler may do to an account.                                      *)

Live == {u \in Users : Exists(u)}

AccountChange ==
  \E u \in Live, x \in UserRow :
    /\ users' = [users EXCEPT ![u] = x]
    /\ x.role = users[u].role \/ ~LastOwner(u)

AccountCreation ==
  \E u \in Users \ Live, x \in UserRow :
    /\ users' = [users EXCEPT ![u] = x]
    /\ \/ Live = {} /\ x.role = "owner" /\ log' = [log EXCEPT !.setups = @ + 1]
       \/ invites[u] # NULL /\ log' = log

AccountDeletion ==
  \E u \in Live :
    /\ ~LastOwner(u)
    /\ users' = [users EXCEPT ![u] = NULL]
    /\ sessions' = {s \in sessions : s.user # u}
    /\ tokens' = {k \in tokens : k.user # u}
    /\ project' = [project EXCEPT !.role[u] = "none"]

LEMMA RowOf ==
  ASSUME AccountsTypeOK, NEW u \in Users, Exists(u)
  PROVE  users[u] \in UserRow
BY DEF AccountsTypeOK, Exists

LEMMA AccountOf ==
  ASSUME NEW g \in GlobalRoles
  PROVE  Account(g) \in UserRow /\ Account(g).role = g
BY DEF Account, UserRow

LEMMA StepUsers ==
  ASSUME TypeInv, NEW r \in Requests, Step(r)
  PROVE  users' = users \/ AccountChange \/ AccountCreation \/ AccountDeletion
<1>1. AccountsTypeOK /\ req[r] \in ReqRow /\ ShapeOf(req[r])
  BY DEF TypeInv, ReqOK
<1>2. users' = users \/ WritesUsers(r)
  BY StepFrames DEF Frames
<1>3. CASE SetupInsert(r)
  <2>1. req[r].t \in Users
    BY <1>1, <1>3 DEF SetupInsert, ShapeOf, Targeted
  <2>2. Account("owner") \in UserRow /\ Account("owner").role = "owner"
    BY AccountOf DEF GlobalRoles
  <2>3. CASE NoUserYet(req[r].t)
    <3>1. Live = {}
      BY <2>3 DEF NoUserYet, Live, Exists
    <3> QED BY <1>3, <2>1, <2>2, <2>3, <3>1 DEF SetupInsert, AccountCreation
  <2> QED BY <1>3, <2>3 DEF SetupInsert
<1>4. CASE PersistCodes(r)
  <2>1. req[r].a \in Users /\ req[r].list \subseteq Codes
    BY <1>1, <1>4 DEF PersistCodes, ShapeOf, Callerless, Anonymous, ReqRow
  <2>2. CASE Exists(req[r].a)
    <3> DEFINE x == [users[req[r].a] EXCEPT !.codes = req[r].list]
    <3>1. x \in UserRow /\ x.role = users[req[r].a].role
      BY <1>1, <2>1, <2>2, RowOf DEF UserRow
    <3>2. users' = [users EXCEPT ![req[r].a] = x]
      BY <1>4, <2>2 DEF PersistCodes, Caller
    <3> HIDE DEF x
    <3> QED BY <2>1, <2>2, <3>1, <3>2 DEF AccountChange, Live
  <2> QED BY <1>4, <2>2 DEF PersistCodes, Caller
<1>5. CASE two_fa_verify(r)
  <2>1. req[r].a \in Users
    BY <1>1, <1>5 DEF two_fa_verify, ShapeOf, Callerless, Anonymous
  <2>2. CASE Exists(req[r].a) /\ users' = [users EXCEPT ![req[r].a].totp = TRUE, ![req[r].a].codes = Codes]
    <3> DEFINE x == [users[req[r].a] EXCEPT !.totp = TRUE, !.codes = Codes]
    <3>1. x \in UserRow /\ x.role = users[req[r].a].role
      BY <1>1, <2>1, <2>2, RowOf DEF UserRow
    <3>2. users' = [users EXCEPT ![req[r].a] = x]
      BY <1>1, <2>1, <2>2 DEF AccountsTypeOK
    <3> HIDE DEF x
    <3> QED BY <2>1, <2>2, <3>1, <3>2 DEF AccountChange, Live
  <2> QED BY <1>5, <2>2 DEF two_fa_verify, Caller
<1>6. CASE two_fa_disable(r)
  <2>1. req[r].a \in Users
    BY <1>1, <1>6 DEF two_fa_disable, ShapeOf, Callerless, Anonymous
  <2>2. CASE Exists(req[r].a)
    <3> DEFINE x == [users[req[r].a] EXCEPT !.totp = FALSE, !.codes = {}]
    <3>1. x \in UserRow /\ x.role = users[req[r].a].role
      BY <1>1, <2>1, <2>2, RowOf DEF UserRow
    <3>2. users' = [users EXCEPT ![req[r].a] = x]
      BY <1>1, <1>6, <2>1, <2>2 DEF AccountsTypeOK, two_fa_disable, Caller
    <3> HIDE DEF x
    <3> QED BY <2>1, <2>2, <3>1, <3>2 DEF AccountChange, Live
  <2> QED BY <1>6, <2>2 DEF two_fa_disable, Caller
<1>7. ASSUME NEW torn \in BOOLEAN, accept(r, torn)
      PROVE  users' = users \/ AccountCreation
  <2>1. req[r].t \in Users
    BY <1>1, <1>7 DEF accept, ShapeOf, Targeted
  <2>2. CASE invites[req[r].t] # NULL /\ ~Exists(req[r].t) /\ users' # users
    <3>1. invites[req[r].t].role \in GlobalRoles
      BY <1>1, <2>1, <2>2 DEF AccountsTypeOK
    <3>2. Account(InvitedAs(req[r].t)) \in UserRow
      BY <3>1, AccountOf DEF InvitedAs
    <3>3. users' = [users EXCEPT ![req[r].t] = Account(InvitedAs(req[r].t))] /\ log' = log
      BY <1>7, <2>2 DEF accept
    <3> QED BY <2>1, <2>2, <3>2, <3>3 DEF AccountCreation, Live
  <2> QED BY <1>7, <2>2 DEF accept
<1>8. CASE UpdateUser(r)
  <2>1. req[r].t \in Users
    BY <1>1, <1>8 DEF UpdateUser, ShapeOf, Targeted
  <2>2. CASE Exists(req[r].t) /\ users' # users
    <3> DEFINE x == [users[req[r].t] EXCEPT !.active = (req[r].x = "yes")]
    <3>1. x \in UserRow /\ x.role = users[req[r].t].role
      BY <1>1, <2>1, <2>2, RowOf DEF UserRow
    <3>2. users' = [users EXCEPT ![req[r].t] = x]
      BY <1>8, <2>2 DEF UpdateUser
    <3> HIDE DEF x
    <3> QED BY <2>1, <2>2, <3>1, <3>2 DEF AccountChange, Live
  <2> QED BY <1>8, <2>2 DEF UpdateUser
<1>9. CASE RemoveUser(r)
  <2>1. req[r].t \in Users
    BY <1>1, <1>9 DEF RemoveUser, ShapeOf, Targeted
  <2> QED BY <1>9, <2>1 DEF RemoveUser, MayDelete, AccountDeletion, Live
<1>10. CASE change_role(r)
  <2>1. req[r].t \in Users /\ req[r].x \in GlobalRoles
    BY <1>1, <1>10 DEF change_role, ShapeOf, Targeted
  <2>2. CASE Exists(req[r].t) /\ ~LastOwner(req[r].t) /\ users' # users
    <3> DEFINE x == [users[req[r].t] EXCEPT !.role = req[r].x]
    <3>1. x \in UserRow
      BY <1>1, <2>1, <2>2, RowOf DEF UserRow
    <3>2. users' = [users EXCEPT ![req[r].t] = x]
      BY <1>10, <2>2 DEF change_role
    <3> HIDE DEF x
    <3> QED BY <2>1, <2>2, <3>1, <3>2 DEF AccountChange, Live
  <2> QED BY <1>10, <2>2 DEF change_role
<1> QED
  BY <1>2, <1>3, <1>4, <1>5, <1>6, <1>7, <1>8, <1>9, <1>10 DEF WritesUsers

-----------------------------------------------------------------------------
(* Credentials and memberships.                                              *)

SessionsOf(L) == [user : L, by : Origins, live : BOOLEAN]
TokensOf(L) == [user : L, by : Origins, revoked : BOOLEAN]
ProjectOf(L, p) ==
  /\ p \in [exists : BOOLEAN, role : [Users -> ProjectRoles]]
  /\ \A u \in Users : p.role[u] # "none" => u \in L /\ p.exists

\* The rows that refer to an account refer to one that is there.
Referential == sessions \subseteq SessionsOf(Live) /\ tokens \subseteq TokensOf(Live) /\ ProjectOf(Live, project)

LEMMA StepSessions ==
  ASSUME TypeInv, Referential, NEW r \in Requests, Step(r)
  PROVE  sessions' \subseteq SessionsOf(Live)
<1>1. AccountsTypeOK /\ req[r] \in ReqRow /\ ShapeOf(req[r]) /\ sessions \subseteq SessionsOf(Live)
  BY DEF TypeInv, ReqOK, Referential
<1>2. sessions' = sessions \/ WritesSessions(r)
  BY StepFrames DEF Frames
<1>3. CASE issue_session(r)
  <2>1. req[r].a \in Users /\ r \in Origins
    BY <1>1, <1>3 DEF issue_session, ShapeOf, Callerless, Anonymous, Origins
  <2>2. CASE Exists(req[r].a)
    <3>1. [user |-> req[r].a, by |-> r, live |-> TRUE] \in SessionsOf(Live)
      BY <2>1, <2>2 DEF SessionsOf, Live
    <3> QED BY <1>1, <1>3, <2>2, <3>1 DEF issue_session, Caller, References
  <2> QED BY <1>1, <1>3, <2>2 DEF issue_session, Caller, References
<1>4. CASE sessions' \subseteq sessions
  BY <1>1, <1>4
<1>5. CASE logout(r) \/ change_password(r) \/ revoke_other_sessions(r)
  BY <1>4, <1>5 DEF logout, change_password, revoke_other_sessions
<1>6. CASE \E s \in sessions : RevokeOne(r, s)
  BY <1>4, <1>6 DEF RevokeOne
<1>7. CASE UpdateUser(r) \/ RemoveUser(r)
  BY <1>4, <1>7 DEF UpdateUser, RemoveUser
<1> QED BY <1>1, <1>2, <1>3, <1>5, <1>6, <1>7 DEF WritesSessions

LEMMA StepTokens ==
  ASSUME TypeInv, Referential, NEW r \in Requests, Step(r)
  PROVE  tokens' \subseteq TokensOf(Live)
<1>1. AccountsTypeOK /\ req[r] \in ReqRow /\ ShapeOf(req[r]) /\ tokens \subseteq TokensOf(Live)
  BY DEF TypeInv, ReqOK, Referential
<1>2. tokens' = tokens \/ WritesTokens(r)
  BY StepFrames DEF Frames
<1>3. ASSUME NEW u \in Users, Exists(u), tokens' = store(u, r)
      PROVE  tokens' \subseteq TokensOf(Live)
  <2>1. r \in Origins /\ u \in Live
    BY <1>3 DEF Origins, Live
  <2>2. [user |-> u, by |-> r, revoked |-> FALSE] \in TokensOf(Live)
    BY <2>1 DEF TokensOf
  <2> QED BY <1>1, <1>3, <2>2 DEF store
<1>4. CASE CreateToken(r)
  <2>1. req[r].a \in Users
    BY <1>1, <1>4 DEF CreateToken, ShapeOf, Callerless, Anonymous
  <2> QED BY <1>1, <1>3, <1>4, <2>1 DEF CreateToken, Caller, References
<1>5. CASE authorize_session(r)
  <2>1. req[r].a \in Users
    BY <1>1, <1>5 DEF authorize_session, ShapeOf, Callerless, Anonymous
  <2> QED BY <1>1, <1>3, <1>5, <2>1 DEF authorize_session, Caller, References
<1>6. CASE NpmLogin(r)
  <2>1. req[r].t \in Users
    BY <1>1, <1>6 DEF NpmLogin, ShapeOf, Targeted
  <2> QED BY <1>1, <1>3, <1>6, <2>1 DEF NpmLogin, Active, Exists
<1>7. ASSUME NEW k \in tokens PROVE [k EXCEPT !.revoked = TRUE] \in TokensOf(Live)
  BY <1>1 DEF TokensOf
<1>8. CASE \E k \in tokens : RevokeToken(r, k)
  BY <1>1, <1>7, <1>8 DEF RevokeToken
<1>9. CASE UpdateUser(r)
  BY <1>1, <1>7, <1>9 DEF UpdateUser
<1>10. CASE RemoveUser(r)
  BY <1>1, <1>10 DEF RemoveUser
<1> QED BY <1>1, <1>2, <1>4, <1>5, <1>6, <1>8, <1>9, <1>10 DEF WritesTokens

LEMMA StepProject ==
  ASSUME TypeInv, Referential, NEW r \in Requests, Step(r)
  PROVE  ProjectOf(Live, project')
<1>1. AccountsTypeOK /\ req[r] \in ReqRow /\ ShapeOf(req[r]) /\ ProjectOf(Live, project)
  BY DEF TypeInv, ReqOK, Referential
<1>2. project' = project \/ WritesProject(r)
  BY StepFrames DEF Frames
<1>3. ASSUME NEW u \in Users, NEW m \in ProjectRoles, m # "none" => u \in Live /\ project.exists,
             project' = [project EXCEPT !.role[u] = m]
      PROVE  ProjectOf(Live, project')
  BY <1>1, <1>3 DEF ProjectOf
<1>4. CASE RemoveUser(r)
  <2>1. req[r].t \in Users /\ "none" \in ProjectRoles
    BY <1>1, <1>4 DEF RemoveUser, ShapeOf, Targeted, ProjectRoles
  <2> QED BY <1>1, <1>3, <1>4, <2>1 DEF RemoveUser
<1>5. CASE AddMemberInsert(r)
  <2>1. req[r].t \in Users /\ req[r].x \in ProjectRoles
    BY <1>1, <1>5 DEF AddMemberInsert, ShapeOf, Targeted, ProjectRoles, MemberRoles
  <2> QED BY <1>1, <1>3, <1>5, <2>1 DEF AddMemberInsert, References, Live
<1>6. CASE UpdateMember(r)
  <2> DEFINE new == IF req[r].op = "remove_member" THEN "none" ELSE req[r].x
  <2>1. req[r].t \in Users /\ new \in ProjectRoles
    BY <1>1, <1>6 DEF UpdateMember, ShapeOf, Targeted, ProjectRoles, MemberRoles
  <2>2. CASE project.role[req[r].t] # "none" /\ project' = [project EXCEPT !.role[req[r].t] = new]
    <3>1. req[r].t \in Live /\ project.exists
      BY <1>1, <2>1, <2>2 DEF ProjectOf
    <3> HIDE DEF new
    <3> QED BY <1>3, <2>1, <2>2, <3>1
  <2> QED BY <1>1, <1>6, <2>2 DEF UpdateMember
<1>7. CASE CreateProject(r)
  BY <1>1, <1>7 DEF CreateProject, ProjectOf
<1>8. CASE DeleteProject(r)
  <2>1. ProjectOf(Live, [exists |-> FALSE, role |-> [u \in Users |-> "none"]])
    BY DEF ProjectOf, ProjectRoles
  <2> QED BY <1>1, <1>8, <2>1 DEF DeleteProject
<1> QED BY <1>1, <1>2, <1>4, <1>5, <1>6, <1>7, <1>8 DEF WritesProject

\* The accounts after a step of a handler.
LEMMA StepLive ==
  ASSUME TypeInv, NEW r \in Requests, Step(r)
  PROVE  /\ users' \in [Users -> UserRow \cup {NULL}]
         /\ Live \subseteq Live' \/ AccountDeletion
<1>1. users \in [Users -> UserRow \cup {NULL}]
  BY DEF TypeInv, AccountsTypeOK
<1>2. CASE users' = users
  BY <1>1, <1>2 DEF Live, Exists
<1>3. CASE AccountChange
  BY <1>1, <1>3, NoRowIsNull DEF AccountChange, Live, Exists
<1>4. CASE AccountCreation
  BY <1>1, <1>4, NoRowIsNull DEF AccountCreation, Live, Exists
<1>5. CASE AccountDeletion
  BY <1>1, <1>5 DEF AccountDeletion, Live
<1> QED BY <1>2, <1>3, <1>4, <1>5, StepUsers

LEMMA StepReferential ==
  ASSUME TypeInv, Referential, NEW r \in Requests, Step(r)
  PROVE  Referential'
<1>1. CASE Live \subseteq Live'
  <2>1. sessions' \subseteq SessionsOf(Live')
    BY <1>1, StepSessions DEF SessionsOf
  <2>2. tokens' \subseteq TokensOf(Live')
    BY <1>1, StepTokens DEF TokensOf
  <2>3. ProjectOf(Live', project')
    BY <1>1, StepProject DEF ProjectOf
  <2> QED BY <2>1, <2>2, <2>3 DEF Referential
<1>2. CASE AccountDeletion
  <2>1. PICK u \in Live :
          /\ users' = [users EXCEPT ![u] = NULL]
          /\ sessions' = {s \in sessions : s.user # u}
          /\ tokens' = {k \in tokens : k.user # u}
          /\ project' = [project EXCEPT !.role[u] = "none"]
    BY <1>2 DEF AccountDeletion
  <2>2. Live' = Live \ {u} /\ u \in Users
    BY <2>1 DEF TypeInv, AccountsTypeOK, Live, Exists
  <2>3. sessions' \subseteq SessionsOf(Live')
    BY <2>1, <2>2 DEF Referential, SessionsOf
  <2>4. tokens' \subseteq TokensOf(Live')
    BY <2>1, <2>2 DEF Referential, TokensOf
  <2>5. ProjectOf(Live', project')
    BY <2>1, <2>2 DEF Referential, ProjectOf, ProjectRoles
  <2> QED BY <2>3, <2>4, <2>5 DEF Referential
<1> QED BY <1>1, <1>2, StepLive

-----------------------------------------------------------------------------
(* The first account, and the owners.                                        *)

NoInvitation == \A q \in Requests : req[q].pc # "invite"

\* Without an account nobody is signed in, so nobody has been or is being invited.
Founding ==
  /\ log.setups \in {0, 1}
  /\ Live = {} => log.setups = 0 /\ (\A u \in Users : invites[u] = NULL) /\ NoInvitation

\* No step of a handler turns another request into an invitation.
LEMMA StepNoInvitation ==
  ASSUME TypeInv, NoInvitation, NEW r \in Requests, Step(r)
  PROVE  NoInvitation'
<1>1. req \in [Requests -> ReqRow] /\ req[r] \in ReqRow /\ NoInvitation
  BY DEF TypeInv, ReqOK
<1>2. CASE End(r)
  <2>1. Done.pc = "done"
    BY DEF Done, Idle
  <2> QED BY <1>1, <1>2, <2>1 DEF End, NoInvitation
<1>3. ASSUME NEW pc \in Steps \ {"invite"}, Goto(r, pc)
      PROVE  NoInvitation'
  BY <1>1, <1>3 DEF Goto, NoInvitation, ReqRow
<1> USE DEF Steps, Callerless, Targeted
<1>4. CASE SetupGate(r)
  BY <1>2, <1>3, <1>4 DEF SetupGate
<1>5. CASE SetupInsert(r)
  BY <1>2, <1>3, <1>5 DEF SetupInsert
<1>6. CASE SetupConsume(r)
  BY <1>2, <1>3, <1>6 DEF SetupConsume
<1>7. CASE Login(r)
  BY <1>1, <1>2, <1>3, <1>7 DEF Login, NoInvitation, ReqRow
<1>8. CASE CheckFactor(r)
  BY <1>1, <1>2, <1>3, <1>8 DEF CheckFactor, NoInvitation, ReqRow
<1>9. CASE PersistCodes(r)
  BY <1>1, <1>2, <1>3, <1>9 DEF PersistCodes, NoInvitation, ReqRow
<1>10. CASE issue_session(r)
  BY <1>2, <1>3, <1>10 DEF issue_session
<1>11. CASE logout(r)
  BY <1>2, <1>3, <1>11 DEF logout
<1>12. CASE change_password(r)
  BY <1>2, <1>3, <1>12 DEF change_password
<1>13. CASE revoke_other_sessions(r)
  BY <1>2, <1>3, <1>13 DEF revoke_other_sessions
<1>14. CASE two_fa_setup(r)
  BY <1>2, <1>3, <1>14 DEF two_fa_setup
<1>15. CASE two_fa_verify(r)
  BY <1>2, <1>3, <1>15 DEF two_fa_verify
<1>16. CASE TwoFaProve(r)
  BY <1>2, <1>3, <1>16 DEF TwoFaProve
<1>17. CASE two_fa_disable(r)
  BY <1>2, <1>3, <1>17 DEF two_fa_disable
<1>18. CASE CreateToken(r)
  BY <1>2, <1>3, <1>18 DEF CreateToken
<1>19. CASE NpmLogin(r)
  BY <1>2, <1>3, <1>19 DEF NpmLogin
<1>20. CASE begin_login(r)
  BY <1>2, <1>3, <1>20 DEF begin_login
<1>21. CASE authorize_session(r)
  BY <1>2, <1>3, <1>21 DEF authorize_session
<1>22. CASE poll_done(r)
  BY <1>2, <1>3, <1>22 DEF poll_done
<1>23. CASE invite(r)
  BY <1>2, <1>3, <1>23 DEF invite
<1>24. CASE UpdateUser(r)
  BY <1>2, <1>3, <1>24 DEF UpdateUser
<1>25. CASE RemoveUser(r)
  BY <1>2, <1>3, <1>25 DEF RemoveUser
<1>26. CASE change_role(r)
  BY <1>2, <1>3, <1>26 DEF change_role
<1>27. CASE AddMemberCheck(r)
  BY <1>2, <1>3, <1>27 DEF AddMemberCheck
<1>28. CASE AddMemberInsert(r)
  BY <1>2, <1>3, <1>28 DEF AddMemberInsert
<1>29. CASE UpdateMember(r)
  BY <1>2, <1>3, <1>29 DEF UpdateMember
<1>30. CASE CreateProject(r)
  BY <1>2, <1>3, <1>30 DEF CreateProject
<1>31. CASE DeleteProject(r)
  BY <1>2, <1>3, <1>31 DEF DeleteProject
<1>32. ASSUME NEW p \in partials, ConsumePartial(r, p)
      PROVE  NoInvitation'
  BY <1>1, <1>32 DEF ConsumePartial, NoInvitation, ReqRow
<1>33. ASSUME NEW s \in sessions, RevokeOne(r, s)
      PROVE  NoInvitation'
  BY <1>2, <1>33 DEF RevokeOne
<1>34. ASSUME NEW k \in tokens, RevokeToken(r, k)
      PROVE  NoInvitation'
  BY <1>2, <1>34 DEF RevokeToken
<1>35. ASSUME NEW torn \in BOOLEAN, accept(r, torn)
      PROVE  NoInvitation'
  BY <1>2, <1>35 DEF accept
<1> HIDE DEF NoInvitation
<1> QED
  BY <1>4, <1>5, <1>6, <1>7, <1>8, <1>9, <1>10, <1>11, <1>12, <1>13, <1>14, <1>15, <1>16, <1>17,
     <1>18, <1>19, <1>20, <1>21, <1>22, <1>23, <1>24, <1>25, <1>26, <1>27, <1>28, <1>29, <1>30,
     <1>31, <1>32, <1>33, <1>34, <1>35 DEF Step

\* An owner who is not the last one leaves another owner behind.
LEMMA AnotherOwner ==
  ASSUME NEW u \in Live, users[u].role = "owner", ~LastOwner(u)
  PROVE  \E v \in Live : v # u /\ users[v].role = "owner"
<1>1. IsFiniteSet(Owners)
  BY FS_Subset, AccountsConstants DEF Owners
<1>2. Cardinality(Owners) \in Nat /\ ~(Cardinality(Owners) <= 1)
  BY <1>1, FS_CardinalityType DEF LastOwner
<1>3. IsFiniteSet({u}) /\ Cardinality({u}) = 1
  BY FS_Singleton
<1>4. ~(Owners \subseteq {u})
  <2>1. SUFFICES ASSUME Owners \subseteq {u} PROVE FALSE
    OBVIOUS
  <2>2. Cardinality(Owners) <= Cardinality({u})
    BY <1>3, <2>1, FS_Subset
  <2> QED BY <1>2, <1>3, <2>2
<1>5. PICK v \in Owners : v # u
  BY <1>4
<1> QED BY <1>5 DEF Owners, Live, Active, Exists

AnOwner == \E w \in Live : users[w].role = "owner"

LEMMA StepSetups ==
  ASSUME TypeInv, NEW r \in Requests, Step(r), Live # {}
  PROVE  log'.setups = log.setups
<1>1. log \in [setups : Nat, delivered : Nat]
  BY DEF TypeInv, AccountsTypeOK
<1>2. log' = log \/ SetupInsert(r) \/ poll_done(r)
  BY StepFrames DEF Frames
<1>3. CASE SetupInsert(r)
  <2>1. ~NoUserYet(req[r].t)
    BY DEF NoUserYet, Live, Exists
  <2> QED BY <1>3, <2>1 DEF SetupInsert
<1>4. CASE poll_done(r)
  BY <1>1, <1>4 DEF poll_done
<1> QED BY <1>2, <1>3, <1>4

LEMMA StepOwner ==
  ASSUME TypeInv, Founding, Live # {} => AnOwner, NEW r \in Requests, Step(r)
  PROVE  /\ users' # users \/ Live # {} => AnOwner'
         /\ Live = {} => users' = users \/ log'.setups = 1
         /\ Live # {} => log'.setups = log.setups
<1>1. users \in [Users -> UserRow \cup {NULL}] /\ log \in [setups : Nat, delivered : Nat]
  BY DEF TypeInv, AccountsTypeOK
<1>2. CASE users' = users
  <2>1. Live' = Live
    BY <1>2 DEF Live, Exists
  <2>2. log'.setups = log.setups
    <3>1. log' = log \/ SetupInsert(r) \/ poll_done(r)
      BY StepFrames DEF Frames
    <3>2. CASE SetupInsert(r)
      <4>1. req[r].t \in Users
        BY <3>2 DEF SetupInsert, TypeInv, ReqOK, ShapeOf, Targeted
      <4>2. Account("owner") # NULL
        BY AccountOf, NoRowIsNull DEF GlobalRoles
      <4> QED BY <1>1, <1>2, <3>2, <4>1, <4>2 DEF SetupInsert, NoUserYet
    <3>3. CASE poll_done(r)
      BY <1>1, <3>3 DEF poll_done
    <3> QED BY <3>1, <3>2, <3>3
  <2> QED BY <1>2, <2>1, <2>2 DEF AnOwner
<1>3. CASE AccountChange
  <2>1. PICK u \in Live, x \in UserRow :
          /\ users' = [users EXCEPT ![u] = x]
          /\ x.role = users[u].role \/ ~LastOwner(u)
    BY <1>3 DEF AccountChange
  <2>2. u \in Users /\ x # NULL /\ users'[u] = x /\ \A v \in Users \ {u} : users'[v] = users[v]
    <3>1. u \in Users
      BY <2>1 DEF Live
    <3>2. x # NULL
      BY <2>1, NoRowIsNull
    <3> QED BY <1>1, <2>1, <3>1, <3>2
  <2>0. Live' = Live
    BY <2>1, <2>2 DEF Live, Exists
  <2>3. PICK w \in Live : users[w].role = "owner"
    BY <2>1 DEF AnOwner
  <2>4. AnOwner'
    <3>1. CASE w # u \/ x.role = "owner"
      BY <2>0, <2>1, <2>2, <2>3, <3>1 DEF AnOwner, Live
    <3>2. CASE w = u /\ ~LastOwner(u)
      <4>1. PICK v \in Live : v # u /\ users[v].role = "owner"
        BY <2>1, <2>3, <3>2, AnotherOwner
      <4> QED BY <2>0, <2>2, <4>1 DEF AnOwner, Live
    <3> QED BY <2>1, <2>3, <3>1, <3>2
  <2>5. log'.setups = log.setups
    BY <2>1, StepSetups
  <2> QED BY <2>1, <2>4, <2>5
<1>4. CASE AccountCreation
  <2>1. PICK u \in Users \ Live, x \in UserRow :
          /\ users' = [users EXCEPT ![u] = x]
          /\ \/ Live = {} /\ x.role = "owner" /\ log' = [log EXCEPT !.setups = @ + 1]
             \/ invites[u] # NULL /\ log' = log
    BY <1>4 DEF AccountCreation
  <2>2. Live' = Live \cup {u} /\ u \in Users
    BY <1>1, <2>1, NoRowIsNull DEF Live, Exists
  <2>3. CASE Live = {}
    <3>1. log.setups = 0 /\ invites[u] = NULL
      BY <2>1, <2>3 DEF Founding
    <3>2. x.role = "owner" /\ log'.setups = 1
      BY <1>1, <2>1, <3>1
    <3> QED BY <1>1, <2>1, <2>2, <2>3, <3>2 DEF AnOwner
  <2>4. CASE Live # {}
    <3>1. PICK w \in Live : users[w].role = "owner"
      BY <2>4 DEF AnOwner
    <3>2. w # u /\ users'[w] = users[w]
      BY <1>1, <2>1, <3>1 DEF Live
    <3> QED BY <2>1, <2>2, <2>4, <3>1, <3>2 DEF AnOwner
  <2> QED BY <2>3, <2>4
<1>5. CASE AccountDeletion
  <2>1. PICK u \in Live : ~LastOwner(u) /\ users' = [users EXCEPT ![u] = NULL]
    BY <1>5 DEF AccountDeletion
  <2>2. Live' = Live \ {u} /\ u \in Users
    BY <1>1, <2>1 DEF Live, Exists
  <2>3. PICK w \in Live : users[w].role = "owner"
    BY <2>1 DEF AnOwner
  <2>4. PICK v \in Live : v # u /\ users[v].role = "owner"
    <3>1. CASE w # u
      BY <2>3, <3>1
    <3>2. CASE w = u
      BY <2>1, <2>3, <3>2, AnotherOwner
    <3> QED BY <3>1, <3>2
  <2>5. AnOwner'
    BY <1>1, <2>1, <2>2, <2>4 DEF AnOwner, Live
  <2>6. log'.setups = log.setups
    BY <2>1, StepSetups
  <2> QED BY <2>1, <2>5, <2>6
<1> QED BY <1>2, <1>3, <1>4, <1>5, StepUsers

LEMMA StepFounding ==
  ASSUME TypeInv, Founding, Live # {} => AnOwner, NEW r \in Requests, Step(r)
  PROVE  Founding' /\ (Live' # {} => AnOwner')
<1>1. CASE Live # {}
  <2>1. AnOwner' /\ log'.setups = log.setups
    BY <1>1, StepOwner
  <2>2. Live' # {}
    BY <2>1 DEF AnOwner
  <2> QED BY <2>1, <2>2 DEF Founding
<1>2. CASE Live = {} /\ users' # users
  <2>1. AnOwner' /\ log'.setups = 1
    BY <1>2, StepOwner
  <2>2. Live' # {}
    BY <2>1 DEF AnOwner
  <2> QED BY <2>1, <2>2 DEF Founding
<1>3. CASE Live = {} /\ users' = users
  <2>1. Live' = {}
    BY <1>3 DEF Live, Exists
  <2>2. log.setups = 0 /\ (\A u \in Users : invites[u] = NULL) /\ NoInvitation
    BY <1>3 DEF Founding
  <2>3. NoInvitation'
    BY <2>2, StepNoInvitation
  <2>4. req[r].pc # "invite" /\ ShapeOf(req[r])
    BY <2>2 DEF NoInvitation, TypeInv, ReqOK
  <2>5. invites' = invites
    <3>1. invites' = invites \/ WritesInvites(r)
      BY StepFrames DEF Frames
    <3>2. ASSUME NEW torn \in BOOLEAN, accept(r, torn) PROVE invites' = invites
      <4>1. req[r].t \in Users
        BY <2>4, <3>2 DEF accept, ShapeOf, Targeted
      <4> QED BY <2>2, <3>2, <4>1 DEF accept
    <3> QED BY <2>4, <3>1, <3>2 DEF WritesInvites, invite
  <2>6. log'.setups = 0
    <3>1. log \in [setups : Nat, delivered : Nat] /\ users \in [Users -> UserRow \cup {NULL}]
      BY DEF TypeInv, AccountsTypeOK
    <3>2. log' = log \/ SetupInsert(r) \/ poll_done(r)
      BY StepFrames DEF Frames
    <3>3. CASE SetupInsert(r)
      <4>1. req[r].t \in Users
        BY <2>4, <3>3 DEF SetupInsert, ShapeOf, Targeted
      <4>2. Account("owner") # NULL
        BY AccountOf, NoRowIsNull DEF GlobalRoles
      <4> QED BY <1>3, <2>2, <3>1, <3>3, <4>1, <4>2 DEF SetupInsert, NoUserYet
    <3>4. CASE poll_done(r)
      BY <2>2, <3>1, <3>4 DEF poll_done
    <3> QED BY <2>2, <3>2, <3>3, <3>4
  <2> QED BY <2>1, <2>2, <2>3, <2>5, <2>6 DEF Founding
<1> QED BY <1>1, <1>2, <1>3

-----------------------------------------------------------------------------
(* npm's browser login.                                                      *)

LoginRow == [st : {"none", "pending", "authorized", "late", "expired", "swept"}, token : Origins \cup {NULL}]

\* Once the token is handed out the row holds none, and can get none again.
Delivery ==
  \/ log.delivered = 0
  \/ log.delivered = 1 /\ weblogin.token = NULL /\ weblogin.st \notin {"none", "pending"}

LEMMA StepLogin ==
  ASSUME TypeInv, Delivery, NEW r \in Requests, Step(r)
  PROVE  weblogin' \in LoginRow /\ log' \in [setups : Nat, delivered : Nat] /\ Delivery'
<1>1. weblogin \in LoginRow /\ log \in [setups : Nat, delivered : Nat] /\ r \in Origins
  BY DEF TypeInv, AccountsTypeOK, LoginRow, Origins
<1>2. /\ weblogin' = weblogin \/ WritesLogin(r)
      /\ log' = log \/ SetupInsert(r) \/ poll_done(r)
  BY StepFrames DEF Frames
<1>3. CASE weblogin' = weblogin /\ log' = log
  BY <1>1, <1>3 DEF Delivery
<1>4. CASE SetupInsert(r)
  BY <1>1, <1>4 DEF SetupInsert, Delivery
<1>5. CASE begin_login(r)
  BY <1>1, <1>5 DEF begin_login, Delivery, LoginRow
<1>6. CASE authorize_session(r)
  BY <1>1, <1>6 DEF authorize_session, Delivery, LoginRow
<1>7. CASE poll_done(r)
  BY <1>1, <1>7 DEF poll_done, Cleared, Delivery, LoginRow
<1> QED BY <1>2, <1>3, <1>4, <1>5, <1>6, <1>7 DEF WritesLogin

-----------------------------------------------------------------------------
(* The inductive invariant.                                                  *)

InviteRow == [st : {"pending", "accepted", "expired"}, role : GlobalRoles]

LEMMA StepRest ==
  ASSUME TypeInv, NEW r \in Requests, Step(r)
  PROVE  /\ partials' \subseteq [user : Users, by : Origins]
         /\ invites' \in [Users -> InviteRow \cup {NULL}]
         /\ setupToken' \in [file : BOOLEAN, ram : BOOLEAN]
         /\ events' \in Nat
<1>1. /\ partials \subseteq [user : Users, by : Origins]
      /\ invites \in [Users -> InviteRow \cup {NULL}]
      /\ setupToken \in [file : BOOLEAN, ram : BOOLEAN]
      /\ events \in Nat /\ ShapeOf(req[r]) /\ r \in Origins
  BY DEF TypeInv, AccountsTypeOK, InviteRow, ReqOK, Origins
<1>2. Frames(r)
  BY StepFrames
<1>3. partials' \subseteq [user : Users, by : Origins]
  <2>1. CASE Login(r)
    <3>1. req[r].t \in Users
      BY <1>1, <2>1 DEF Login, ShapeOf, Targeted
    <3>2. [user |-> req[r].t, by |-> r] \in [user : Users, by : Origins]
      BY <1>1, <3>1
    <3> QED BY <1>1, <2>1, <3>2 DEF Login
  <2>2. ASSUME NEW p \in partials, ConsumePartial(r, p)
        PROVE  partials' \subseteq [user : Users, by : Origins]
    BY <1>1, <2>2 DEF ConsumePartial
  <2> QED BY <1>1, <1>2, <2>1, <2>2 DEF Frames, WritesPartials
<1>4. invites' \in [Users -> InviteRow \cup {NULL}]
  <2>1. CASE invite(r)
    <3>1. req[r].t \in Users /\ req[r].x \in GlobalRoles
      BY <1>1, <2>1 DEF invite, ShapeOf, Targeted, GlobalRoles
    <3>2. [st |-> "pending", role |-> req[r].x] \in InviteRow
      BY <3>1 DEF InviteRow
    <3> QED BY <1>1, <2>1, <3>1, <3>2 DEF invite
  <2>2. ASSUME NEW torn \in BOOLEAN, accept(r, torn)
        PROVE  invites' \in [Users -> InviteRow \cup {NULL}]
    <3>1. req[r].t \in Users
      BY <1>1, <2>2 DEF accept, ShapeOf, Targeted
    <3>2. CASE invites[req[r].t] # NULL
      <4>1. invites[req[r].t] \in InviteRow
        BY <1>1, <3>1, <3>2
      <4>2. [invites[req[r].t] EXCEPT !.st = "accepted"] \in InviteRow
        BY <4>1 DEF InviteRow
      <4> QED BY <1>1, <2>2, <3>1, <4>2 DEF accept
    <3> QED BY <1>1, <2>2, <3>2 DEF accept
  <2> QED BY <1>1, <1>2, <2>1, <2>2 DEF Frames, WritesInvites
<1>5. setupToken' \in [file : BOOLEAN, ram : BOOLEAN]
  <2>1. CASE SetupConsume(r)
    <3>1. PICK f \in {FALSE, setupToken.file} : setupToken' = [file |-> f, ram |-> FALSE]
      BY <2>1 DEF SetupConsume
    <3>2. f \in BOOLEAN
      BY <1>1
    <3> QED BY <3>1, <3>2
  <2> QED BY <1>1, <1>2, <2>1 DEF Frames
<1> QED BY <1>1, <1>2, <1>3, <1>4, <1>5 DEF Frames

AccountsInv == TypeInv /\ Referential /\ Founding /\ (Live # {} => AnOwner) /\ Delivery

\* The parts of the type invariant, as the lemmas above establish them.
Parts ==
  /\ users \in [Users -> UserRow \cup {NULL}] /\ Referential
  /\ partials \subseteq [user : Users, by : Origins]
  /\ invites \in [Users -> InviteRow \cup {NULL}]
  /\ weblogin \in LoginRow
  /\ setupToken \in [file : BOOLEAN, ram : BOOLEAN]
  /\ ReqOK /\ events \in Nat
  /\ log \in [setups : Nat, delivered : Nat]

LEMMA TypeParts ==
  /\ Parts => TypeInv
  /\ Parts' => TypeInv'
<1>1. Referential => /\ sessions \subseteq SessionRow /\ tokens \subseteq TokenRow
                     /\ project \in [exists : BOOLEAN, role : [Users -> ProjectRoles]]
  BY DEF Referential, SessionsOf, SessionRow, TokensOf, TokenRow, ProjectOf, Live
<1>2. Referential' => /\ sessions' \subseteq SessionRow /\ tokens' \subseteq TokenRow
                      /\ project' \in [exists : BOOLEAN, role : [Users -> ProjectRoles]]
  BY DEF Referential, SessionsOf, SessionRow, TokensOf, TokenRow, ProjectOf, Live
<1>3. Parts => TypeInv
  BY <1>1 DEF Parts, TypeInv, AccountsTypeOK, InviteRow, LoginRow, ReqOK
<1>4. Parts' => TypeInv'
  BY <1>2 DEF Parts, TypeInv, AccountsTypeOK, InviteRow, LoginRow, ReqOK
<1> QED BY <1>3, <1>4

LEMMA InvParts ==
  ASSUME AccountsInv
  PROVE  /\ Parts /\ TypeInv /\ Founding /\ (Live # {} => AnOwner) /\ Delivery
BY DEF AccountsInv, TypeInv, AccountsTypeOK, Parts, InviteRow, LoginRow

LEMMA HandlerStep ==
  ASSUME AccountsInv, NEW r \in Requests, Step(r)
  PROVE  AccountsInv'
<1>1. TypeInv /\ Referential /\ Founding /\ (Live # {} => AnOwner) /\ Delivery
  BY DEF AccountsInv
<1>2. ReqOK' /\ Referential' /\ Founding' /\ (Live' # {} => AnOwner')
  BY <1>1, StepReq, StepReferential, StepFounding
<1>3. weblogin' \in LoginRow /\ log' \in [setups : Nat, delivered : Nat] /\ Delivery'
  BY <1>1, StepLogin
<1>4. users' \in [Users -> UserRow \cup {NULL}]
  BY <1>1, StepLive
<1>5. Parts'
  BY <1>1, <1>2, <1>3, <1>4, StepRest DEF Parts
<1> QED BY <1>2, <1>3, <1>5, TypeParts DEF AccountsInv

\* A request arrives; only its own variables and, for a refused cookie, sessions change.
LEMMA ReceiveStep ==
  ASSUME AccountsInv, NEW r \in Requests, Receive(r)
  PROVE  AccountsInv'
<1>1. Parts /\ TypeInv /\ Referential /\ Founding /\ (Live # {} => AnOwner) /\ Delivery
  BY InvParts DEF Parts
<1>2. /\ UNCHANGED <<users, tokens, partials, invites, project, weblogin, setupToken, log, events>>
      /\ sessions' \subseteq sessions
  BY DEF Receive, Begin, AuthSession, AuthToken, AuthExpired, AuthOtherDevice
<1>3. Live' = Live /\ (AnOwner' <=> AnOwner)
  BY <1>2 DEF Live, Exists, AnOwner
<1>4. Referential'
  BY <1>1, <1>2, <1>3 DEF Referential
<1>5. /\ ReqOK'
      /\ Live = {} => NoInvitation'
  <2>0. ReqOK /\ req \in [Requests -> ReqRow] /\ (Live = {} => NoInvitation)
    BY <1>1 DEF TypeInv, ReqOK, Founding
  <2>1. CASE End(r)
    <3>1. Done.pc = "done"
      BY DEF Done, Idle
    <3> QED BY <2>0, <2>1, <3>1, Ending DEF End, NoInvitation
  <2>2. ASSUME NEW c \in Calls, NEW q \in ReqRow, req' = [req EXCEPT ![r] = q],
               q.op = c.op, q.pc = c.op, q.t = c.t, q.x = c.x,
               c.op \in Anonymous \/ (q.a \in Users /\ Live # {})
        PROVE  ReqOK' /\ (Live = {} => NoInvitation')
    <3>1. ShapeOf(q)
      BY <2>2, CallFields DEF ShapeOf, Callerless
    <3>2. ReqOK'
      BY <2>0, <2>2, <3>1, OneRequest
    <3>3. Live = {} => q.pc # "invite"
      BY <2>2 DEF Anonymous
    <3> QED BY <2>0, <2>2, <3>2, <3>3 DEF NoInvitation
  <2>3. ASSUME NEW c \in Calls, Begin(r, c)
        PROVE  ReqOK' /\ (Live = {} => NoInvitation')
    <3> DEFINE q == [Idle EXCEPT !.op = c.op, !.t = c.t, !.x = c.x, !.pc = c.op]
    <3>1. q \in ReqRow /\ q.op = c.op /\ q.pc = c.op /\ q.t = c.t /\ q.x = c.x
      BY IdleRow, CallFields DEF ReqRow
    <3>2. req' = [req EXCEPT ![r] = q] /\ c.op \in Anonymous
      BY <2>3 DEF Begin
    <3> HIDE DEF q
    <3> QED BY <2>2, <3>1, <3>2
  <2>4. ASSUME NEW c \in Calls, NEW u \in Live, NEW sid \in Origins \cup {NULL},
               req' = [req EXCEPT ![r] = AuthUser(c, u, sid)]
        PROVE  ReqOK' /\ (Live = {} => NoInvitation')
    <3> DEFINE q == AuthUser(c, u, sid)
    <3>1. u \in Users /\ users[u].role \in GlobalRoles
      BY <1>1, RowOf DEF TypeInv, Live, UserRow
    <3>2. q \in ReqRow /\ q.op = c.op /\ q.pc = c.op /\ q.t = c.t /\ q.x = c.x /\ q.a = u
      BY <3>1, IdleRow, CallFields DEF ReqRow, AuthUser
    <3> HIDE DEF q
    <3>3. req' = [req EXCEPT ![r] = q]
      BY <2>4 DEF q
    <3> QED BY <2>2, <3>1, <3>2, <3>3
  <2>5. ASSUME NEW c \in Calls, NEW s \in sessions, AuthSession(r, c, s)
        PROVE  ReqOK' /\ (Live = {} => NoInvitation')
    <3>1. s.user \in Live /\ s.by \in Origins
      BY <1>1 DEF Referential, SessionsOf
    <3> QED BY <2>4, <2>5, <3>1 DEF AuthSession
  <2>6. ASSUME NEW c \in Calls, NEW k \in tokens, AuthToken(r, c, k)
        PROVE  ReqOK' /\ (Live = {} => NoInvitation')
    <3>1. k.user \in Live
      BY <1>1 DEF Referential, TokensOf
    <3> QED BY <2>4, <2>6, <3>1 DEF AuthToken
  <2> QED BY <2>1, <2>3, <2>5, <2>6 DEF Receive, AuthExpired, AuthOtherDevice
<1>6. Parts'
  BY <1>1, <1>2, <1>4, <1>5 DEF Parts
<1>7. Founding' /\ Delivery' /\ (Live' # {} => AnOwner')
  BY <1>1, <1>2, <1>3, <1>5 DEF Founding, Delivery
<1> QED BY <1>4, <1>6, <1>7, TypeParts DEF AccountsInv

\* Expiry, the sweeps and a restart.
LEMMA EnvironmentStep ==
  ASSUME AccountsInv, Expire \/ session_gc_once \/ sweep_once \/ Restart
  PROVE  AccountsInv'
<1>1. Parts /\ TypeInv /\ Referential /\ Founding /\ (Live # {} => AnOwner) /\ Delivery
  BY InvParts DEF Parts
<1>2. UNCHANGED <<users, tokens, project, log>> /\ events' \in Nat
  BY <1>1, AccountsConstants DEF Parts, Expire, session_gc_once, sweep_once, Restart, Event
<1>3. Live' = Live /\ (AnOwner' <=> AnOwner)
  BY <1>2 DEF Live, Exists, AnOwner
<1>4. sessions' \subseteq SessionsOf(Live)
  <2>0. sessions \subseteq SessionsOf(Live)
    BY <1>1 DEF Referential
  <2>1. ASSUME NEW s \in sessions, sessions' = (sessions \ {s}) \cup {[s EXCEPT !.live = FALSE]}
        PROVE  sessions' \subseteq SessionsOf(Live)
    <3>1. [s EXCEPT !.live = FALSE] \in SessionsOf(Live)
      BY <2>0 DEF SessionsOf
    <3> QED BY <2>0, <2>1, <3>1
  <2> QED BY <2>0, <2>1 DEF Expire, session_gc_once, sweep_once, Restart
<1>5. Referential'
  BY <1>1, <1>2, <1>3, <1>4 DEF Referential
<1>6. partials' \subseteq [user : Users, by : Origins]
  BY <1>1 DEF Parts, Expire, session_gc_once, sweep_once, Restart
<1>7. invites' \in [Users -> InviteRow \cup {NULL}] /\ \A u \in Users : invites[u] = NULL => invites'[u] = NULL
  <2>0. invites \in [Users -> InviteRow \cup {NULL}]
    BY <1>1 DEF Parts
  <2>1. ASSUME NEW u \in Users, invites[u] # NULL, invites' = [invites EXCEPT ![u].st = "expired"]
        PROVE  /\ invites' \in [Users -> InviteRow \cup {NULL}]
               /\ \A v \in Users : invites[v] = NULL => invites'[v] = NULL
    <3>1. [invites[u] EXCEPT !.st = "expired"] \in InviteRow
      BY <2>0, <2>1 DEF InviteRow
    <3> QED BY <2>0, <2>1, <3>1
  <2> QED BY <2>0, <2>1 DEF Expire, session_gc_once, sweep_once, Restart
<1>8. weblogin' \in LoginRow /\ Delivery'
  BY <1>1, <1>2 DEF Parts, Delivery, LoginRow, Expire, session_gc_once, sweep_once, Restart
<1>9. setupToken' \in [file : BOOLEAN, ram : BOOLEAN]
  <2>1. setupToken \in [file : BOOLEAN, ram : BOOLEAN]
    BY <1>1 DEF Parts
  <2>2. [setupToken EXCEPT !.ram = setupToken.file] \in [file : BOOLEAN, ram : BOOLEAN]
    BY <2>1
  <2>3. CASE Restart
    <3>1. \/ setupToken' = [file |-> FALSE, ram |-> FALSE]
          \/ setupToken' = [setupToken EXCEPT !.ram = setupToken.file]
      BY <2>3 DEF Restart
    <3>2. [file |-> FALSE, ram |-> FALSE] \in [file : BOOLEAN, ram : BOOLEAN]
      OBVIOUS
    <3> QED BY <2>2, <3>1, <3>2
  <2> QED BY <2>1, <2>3 DEF Expire, session_gc_once, sweep_once
<1>10. ReqOK' /\ (NoInvitation => NoInvitation')
  <2>0. ReqOK /\ req \in [Requests -> ReqRow]
    BY <1>1 DEF TypeInv, ReqOK
  <2>1. CASE UNCHANGED req
    BY <2>0, <2>1 DEF ReqOK, NoInvitation
  <2>2. CASE Restart
    <3>1. Done \in ReqRow /\ Done.pc = "done"
      BY IdleRow DEF Done, ReqRow, Steps, Callerless
    <3>2. ShapeOf(Done) /\ ShapeOf(Idle)
      BY <3>1, IdleRow DEF ShapeOf, Callerless, Targeted, Anonymous
    <3> QED BY <2>0, <2>2, <3>1, <3>2, IdleRow DEF Restart, ReqOK, NoInvitation
  <2> QED BY <2>1, <2>2 DEF Expire, session_gc_once, sweep_once
<1>11. Founding'
  BY <1>1, <1>2, <1>3, <1>7, <1>10 DEF Founding
<1>12. Parts'
  BY <1>1, <1>2, <1>5, <1>6, <1>7, <1>8, <1>9, <1>10 DEF Parts
<1> QED BY <1>1, <1>3, <1>5, <1>8, <1>11, <1>12, TypeParts DEF AccountsInv

LEMMA AccountsInit == Init => AccountsInv
<1> SUFFICES ASSUME Init PROVE AccountsInv
  OBVIOUS
<1>1. ReqOK /\ NoInvitation
  <2>1. ShapeOf(Idle)
    BY IdleRow DEF ShapeOf, Callerless, Targeted, Anonymous
  <2> QED BY <2>1, IdleRow DEF Init, ReqOK, NoInvitation
<1>2. log \in [setups : Nat, delivered : Nat] /\ log.setups = 0 /\ Delivery /\ events \in Nat
  BY DEF Init, Delivery
<1> DEFINE Fresh == /\ users = [u \in Users |-> NULL]
                    /\ sessions = {} /\ tokens = {} /\ partials = {}
                    /\ invites = [u \in Users |-> NULL]
                    /\ project = [exists |-> FALSE, role |-> [u \in Users |-> "none"]]
                    /\ weblogin = [st |-> "none", token |-> NULL]
                    /\ setupToken \in {[file |-> f, ram |-> f] : f \in BOOLEAN}
<1> DEFINE Team(a, b, c, role) ==
          /\ Cardinality({a, b, c}) = 3 /\ Cardinality(Users) = 3
          /\ users = [u \in Users |-> CASE u = a -> Account("owner")
                         [] u = b -> [Account(role) EXCEPT !.totp = TRUE, !.codes = Codes]
                         [] OTHER -> NULL]
          /\ sessions = {[user |-> u, by |-> EARLIER, live |-> TRUE] : u \in {a, b}}
          /\ tokens = {[user |-> b, by |-> EARLIER, revoked |-> FALSE]}
          /\ partials = {[user |-> b, by |-> p] : p \in {EARLIER, "other"}}
          /\ invites = [u \in Users |-> IF u = c THEN [st |-> "pending", role |-> "user"] ELSE NULL]
          /\ project = [exists |-> TRUE, role |-> [u \in Users |-> IF u = b THEN "admin" ELSE "none"]]
          /\ weblogin = IF role = "owner" THEN [st |-> "pending", token |-> NULL]
                         ELSE [st |-> "authorized", token |-> EARLIER]
          /\ setupToken = [file |-> FALSE, ram |-> FALSE]
<1>0. Fresh \/ \E a, b, c \in Users, role \in {"admin", "owner"} : Team(a, b, c, role)
  BY DEF Init
<1>3. CASE Fresh
  <2>1. Live = {}
    BY <1>3 DEF Live, Exists
  <2>2. Referential
    BY <1>3, <2>1 DEF Referential, SessionsOf, TokensOf, ProjectOf, ProjectRoles
  <2>3. weblogin \in LoginRow
    BY <1>3 DEF LoginRow
  <2>4. setupToken \in [file : BOOLEAN, ram : BOOLEAN]
    BY <1>3
  <2>5. Parts
    BY <1>1, <1>2, <1>3, <2>2, <2>3, <2>4 DEF Parts
  <2> QED BY <1>1, <1>2, <1>3, <2>1, <2>2, <2>5, TypeParts DEF AccountsInv, Founding
<1>4. ASSUME NEW a \in Users, NEW b \in Users, NEW c \in Users, NEW role \in {"admin", "owner"},
             Team(a, b, c, role)
      PROVE  AccountsInv
  <2>0. /\ Cardinality({a, b, c}) = 3
        /\ sessions = {[user |-> u, by |-> EARLIER, live |-> TRUE] : u \in {a, b}}
    BY <1>4
  <2>1. a # b
    <3>1. SUFFICES ASSUME a = b PROVE FALSE
      OBVIOUS
    <3>2. {a, b, c} = {b, c}
      BY <3>1
    <3>3. IsFiniteSet({b}) /\ Cardinality({b}) = 1
      BY FS_Singleton
    <3>4. {b, c} = {b} \cup {c}
      OBVIOUS
    <3>5. Cardinality({b} \cup {c}) = IF c \in {b} THEN 1 ELSE 2
      BY <3>3, FS_AddElement
    <3> QED BY <2>0, <3>2, <3>4, <3>5
  <2> DEFINE B == [Account(role) EXCEPT !.totp = TRUE, !.codes = Codes]
  <2>2. Account("owner") \in UserRow /\ Account("owner").role = "owner" /\ Account(role) \in UserRow
    BY AccountOf DEF GlobalRoles
  <2>3. B \in UserRow
    BY <2>2 DEF UserRow
  <2>4. users = [u \in Users |-> CASE u = a -> Account("owner") [] u = b -> B [] OTHER -> NULL]
    BY <1>4
  <2> HIDE DEF B
  <2>5. users[a] = Account("owner") /\ users[b] = B /\ users \in [Users -> UserRow \cup {NULL}]
    BY <2>1, <2>2, <2>3, <2>4
  <2>6. a \in Live /\ b \in Live /\ users[a].role = "owner"
    BY <2>2, <2>3, <2>5, NoRowIsNull DEF Live, Exists
  <2>7. EARLIER \in Origins /\ "other" \in Origins
    BY DEF Origins
  <2>8. sessions \subseteq SessionsOf(Live)
    <3>1. \A u \in {a, b} : [user |-> u, by |-> EARLIER, live |-> TRUE] \in SessionsOf(Live)
      BY <2>6, <2>7 DEF SessionsOf
    <3> QED BY <2>0, <3>1
  <2>9. tokens \subseteq TokensOf(Live)
    BY <1>4, <2>6, <2>7 DEF TokensOf
  <2>10. ProjectOf(Live, project)
    BY <1>4, <2>6 DEF ProjectOf, ProjectRoles
  <2>11. partials \subseteq [user : Users, by : Origins]
    BY <1>4, <2>7
  <2>12. invites \in [Users -> InviteRow \cup {NULL}]
    <3>1. [st |-> "pending", role |-> "user"] \in InviteRow
      BY DEF InviteRow, GlobalRoles
    <3> QED BY <1>4, <3>1
  <2>13. weblogin \in LoginRow
    BY <1>4, <2>7 DEF LoginRow
  <2>14. setupToken \in [file : BOOLEAN, ram : BOOLEAN]
    BY <1>4
  <2>15. Referential
    BY <2>8, <2>9, <2>10 DEF Referential
  <2>16. Parts
    BY <1>1, <1>2, <2>5, <2>11, <2>12, <2>13, <2>14, <2>15 DEF Parts
  <2>17. Founding /\ AnOwner
    BY <1>2, <2>6 DEF Founding, AnOwner
  <2> QED BY <1>2, <2>15, <2>16, <2>17, TypeParts DEF AccountsInv
<1> HIDE DEF Fresh, Team
<1> QED BY <1>0, <1>3, <1>4

LEMMA AccountsNext == AccountsInv /\ [Next]_vars => AccountsInv'
<1> SUFFICES ASSUME AccountsInv, [Next]_vars PROVE AccountsInv'
  OBVIOUS
<1>1. CASE \E r \in Requests : Receive(r) \/ Step(r)
  BY <1>1, ReceiveStep, HandlerStep
<1>2. CASE Expire \/ session_gc_once \/ sweep_once \/ Restart
  BY <1>2, EnvironmentStep
<1>3. CASE UNCHANGED vars
  <2>1. Parts /\ Referential /\ Founding /\ (Live # {} => AnOwner) /\ Delivery
    BY InvParts DEF Parts
  <2>2. UNCHANGED <<users, sessions, tokens, partials, invites, project, weblogin, setupToken, req, log, events>>
    BY <1>3 DEF vars
  <2>3. Live' = Live /\ (AnOwner' <=> AnOwner) /\ (ReqOK' <=> ReqOK) /\ (NoInvitation' <=> NoInvitation)
    BY <2>2 DEF Live, Exists, AnOwner, ReqOK, NoInvitation
  <2>4. Referential' /\ Founding' /\ Delivery'
    BY <2>1, <2>2, <2>3 DEF Referential, Founding, Delivery
  <2>5. Parts'
    BY <2>1, <2>2, <2>3, <2>4 DEF Parts
  <2> QED BY <2>1, <2>3, <2>4, <2>5, TypeParts DEF AccountsInv
<1> QED BY <1>1, <1>2, <1>3 DEF Next

LEMMA AccountsInductive == Spec => []AccountsInv
<1> QED BY AccountsInit, AccountsNext, PTL DEF Spec

-----------------------------------------------------------------------------
(* The theorems.                                                             *)

\* The tables, the stores in memory and the requests keep their types, whatever the
\* handlers of auth.rs, users.rs, invitations.rs, project_members.rs and the npm login
\* do between their locks.
THEOREM AccountsTypeCorrect == Spec => []AccountsTypeOK
<1>1. AccountsInv => AccountsTypeOK
  BY DEF AccountsInv, TypeInv
<1> QED BY <1>1, AccountsInductive, PTL

\* An instance with accounts always keeps an owner: users.rs refuses to delete or demote
\* the last active owner under the same lock as the write, so requests of any number of
\* owners and admins, with copies of roles that may be stale, never remove the last one.
THEOREM OwnerNeverLost == Spec => []OwnerRowRemains
<1>1. AccountsInv => OwnerRowRemains
  BY DEF AccountsInv, OwnerRowRemains, AnOwner, Live, Exists
<1> QED BY <1>1, AccountsInductive, PTL

\* Sessions, API tokens and memberships never outlive the account they name, although
\* login, change_password, create_token and add_member insert under a later lock than
\* the one that saw the account: the foreign keys of the schema refuse or cascade.
THEOREM NoOrphanCredentials == Spec => []CredentialsHaveOwner
<1>1. AccountsInv => CredentialsHaveOwner
  BY DEF AccountsInv, CredentialsHaveOwner, Referential, SessionsOf, TokensOf, ProjectOf, Live
<1> QED BY <1>1, AccountsInductive, PTL

\* However many POST /setup requests race on a fresh host, one creates the first owner:
\* the insert is conditional on an empty table, and the table never empties again.
THEOREM SetupSucceedsOnce == Spec => []FirstAdminOnce
<1>1. AccountsInv => FirstAdminOnce
  BY DEF AccountsInv, Founding, FirstAdminOnce
<1> QED BY <1>1, AccountsInductive, PTL

\* npm's browser login hands its plaintext token to one poll at most: poll_done clears
\* the column in the transaction that reads it, and authorize_session takes a pending
\* session only.
THEOREM NpmTokenOnce == Spec => []TokenDeliveredOnce
<1>1. AccountsInv => TokenDeliveredOnce
  BY DEF AccountsInv, Delivery, TokenDeliveredOnce
<1> QED BY <1>1, AccountsInductive, PTL
===============================================================================
