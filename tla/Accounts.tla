------------------------------ MODULE Accounts ------------------------------
(* Accounts and what opens them: first-admin setup, passwords with a second  *)
(* factor, sessions, API tokens, invitations, global roles, one project and   *)
(* its members, and npm's browser login.                                     *)
(*                                                                          *)
(* A handler is a step per lock of the database. The middleware reads the     *)
(* caller's account first and the handler works with that copy, so an account *)
(* may change, or go, between the two. An account is named by its e-mail.     *)
EXTENDS Integers, FiniteSets

CONSTANTS
  Users,        \* e-mail addresses
  Requests,     \* HTTP requests; each is used once
  Codes,        \* recovery codes of an account
  Ops,          \* the requests a run lets clients send
  NULL,
  MaxEvents     \* bound: expiries and restarts

ASSUME AccountsConstants ==
  /\ IsFiniteSet(Users) /\ IsFiniteSet(Requests) /\ IsFiniteSet(Codes)
  /\ NULL \notin Users \cup Requests \cup Codes /\ MaxEvents \in Nat

VARIABLES
  users,       \* users[u]: the row of u, or NULL
  sessions,    \* rows of sessions; by is the request that minted one
  tokens,      \* rows of api_tokens
  partials,    \* PartialTokenStore: passwords that were right, code awaited
  invites,     \* invites[u]: the invitation sent to u, or NULL
  project,     \* the project and its members' roles
  weblogin,    \* one row of npm_login_sessions
  setupToken,  \* the file install.sh wrote, and the copy in memory
  req,         \* req[r]: an HTTP request, its step and local variables
  log,         \* history: setups that succeeded, tokens handed to npm
  events

accountVars == <<users, sessions, tokens, partials>>
teamVars == <<invites, project>>
loginVars == <<weblogin, setupToken>>
vars == <<accountVars, teamVars, loginVars, req, log, events>>

GlobalRoles == {"user", "admin", "owner"}
ProjectRoles == {"none", "viewer", "editor", "admin"}
EARLIER == "earlier"      \* minted before the behaviour begins
Origins == Requests \cup {EARLIER, "other"}

rank(role) == CASE role = "owner" -> 3 [] role = "admin" -> 2 [] OTHER -> 1
at_least(role, min) == rank(role) >= rank(min)

UserRow == [role : GlobalRoles, active : BOOLEAN, totp : BOOLEAN, codes : SUBSET Codes]
SessionRow == [user : Users, by : Origins, live : BOOLEAN]
TokenRow == [user : Users, by : Origins, revoked : BOOLEAN]

\* The absence of a row is not a row.
ASSUME NoRowIsNull == NULL \notin UserRow

Account(role) == [role |-> role, active |-> TRUE, totp |-> FALSE, codes |-> {}]
Active(u) == users[u] # NULL /\ users[u].active
Exists(u) == users[u] # NULL

Idle == [op |-> "none", pc |-> "new", a |-> NULL, role |-> "user", sid |-> NULL, t |-> NULL, x |-> NULL,
         list |-> {}]

\* A fresh host, with or without a setup token, or a team with a project: b has a
\* second factor and has typed the password twice, c is invited.
Init ==
  /\ \/ /\ users = [u \in Users |-> NULL]
        /\ sessions = {} /\ tokens = {} /\ partials = {}
        /\ invites = [u \in Users |-> NULL]
        /\ project = [exists |-> FALSE, role |-> [u \in Users |-> "none"]]
        /\ weblogin = [st |-> "none", token |-> NULL]
        /\ setupToken \in {[file |-> f, ram |-> f] : f \in BOOLEAN}
     \/ \E a, b, c \in Users, role \in {"admin", "owner"} :
          /\ Cardinality({a, b, c}) = 3 /\ Cardinality(Users) = 3
          /\ users = [u \in Users |-> CASE u = a -> Account("owner")
                         [] u = b -> [Account(role) EXCEPT !.totp = TRUE, !.codes = Codes]
                         [] OTHER -> NULL]
          /\ sessions = {[user |-> u, by |-> EARLIER, live |-> TRUE] : u \in {a, b}}
          /\ tokens = {[user |-> b, by |-> EARLIER, revoked |-> FALSE]}
          /\ partials = {[user |-> b, by |-> p] : p \in {EARLIER, "other"}}
          /\ invites = [u \in Users |-> IF u = c THEN [st |-> "pending", role |-> "user"] ELSE NULL]
          /\ project = [exists |-> TRUE, role |-> [u \in Users |-> IF u = b THEN "admin" ELSE "none"]]
          /\ weblogin = IF role = "owner" THEN [st |-> "pending", token |-> NULL]
                         ELSE [st |-> "authorized", token |-> EARLIER]
          /\ setupToken = [file |-> FALSE, ram |-> FALSE]
  /\ req = [r \in Requests |-> Idle]
  /\ log = [setups |-> 0, delivered |-> 0]
  /\ events = 0

-----------------------------------------------------------------------------
(* Requests.                                                                 *)

Anonymous == {"setup", "login", "login_2fa", "npm_login", "accept", "begin_login", "poll_done"}

\* Handlers that compare with the caller's own session.
OnSession == {"logout", "revoke_session", "revoke_others"}

\* An editor passes and fails every guard here as a viewer does.
MemberRoles == {"viewer", "admin"}

\* What each request carries: a target account and a value.
Call(ops, T, X) == [op : ops \cap Ops, t : T, x : X]
Calls ==
  Call({"login", "npm_login", "remove", "accept", "remove_member"}, Users, {NULL})
  \cup Call({"invite"}, Users, {"user", "admin"})
  \cup Call({"change_role"}, Users, GlobalRoles)
  \cup Call({"add_member", "update_member"}, Users, MemberRoles)
  \cup Call({"update", "setup"}, Users, {"yes", "no"})
  \cup Call({"login_2fa", "two_fa_disable"}, {NULL}, Codes \cup {"totp"})
  \cup Call(OnSession \cup {"begin_login", "poll_done", "change_password", "two_fa_enable",
             "create_token", "revoke_token", "authorize", "create_project", "delete_project"},
            {NULL}, {NULL})

Done == [Idle EXCEPT !.pc = "done"]
Goto(r, pc) == req' = [req EXCEPT ![r].pc = pc]
End(r) == req' = [req EXCEPT ![r] = Done]
Caller(r) == req[r].a

\* A route without authentication.
Begin(r, c) ==
  /\ req[r].pc = "new" /\ c.op \in Anonymous
  /\ req' = [req EXCEPT ![r] = [Idle EXCEPT !.op = c.op, !.t = c.t, !.x = c.x, !.pc = c.op]]
  /\ UNCHANGED <<accountVars, teamVars, loginVars, log, events>>

\* The extension that require_auth leaves for the handler: a copy of the caller's row.
AuthUser(c, u, sid) ==
  [Idle EXCEPT !.op = c.op, !.t = c.t, !.x = c.x, !.pc = c.op, !.a = u, !.role = users[u].role,
               !.sid = IF c.op \in OnSession THEN sid ELSE NULL]

\* require_auth with a session cookie.
AuthSession(r, c, s) ==
  /\ req[r].pc = "new" /\ c.op \notin Anonymous
  /\ s.live /\ Active(s.user)
  /\ req' = [req EXCEPT ![r] = AuthUser(c, s.user, s.by)]
  /\ UNCHANGED <<accountVars, teamVars, loginVars, log, events>>

\* require_auth with a bearer token (api_token::lookup).
AuthToken(r, c, k) ==
  /\ req[r].pc = "new" /\ c.op \notin Anonymous
  /\ ~k.revoked /\ Active(k.user)
  /\ req' = [req EXCEPT ![r] = AuthUser(c, k.user, NULL)]
  /\ UNCHANGED <<accountVars, teamVars, loginVars, log, events>>

\* The cookie comes from another browser: the session is revoked.
AuthOtherDevice(r, s) ==
  /\ req[r].pc = "new" /\ s.live /\ Active(s.user)
  /\ sessions' = sessions \ {s}
  /\ End(r)
  /\ UNCHANGED <<users, tokens, partials, teamVars, loginVars, log, events>>

\* The expired rows that were presented are deleted.
AuthExpired(r) ==
  /\ req[r].pc = "new"
  /\ \E S \in SUBSET {s \in sessions : ~s.live} \ {{}} : sessions' = sessions \ S
  /\ End(r)
  /\ UNCHANGED <<users, tokens, partials, teamVars, loginVars, log, events>>

-----------------------------------------------------------------------------
(* First admin, login, second factor.                                        *)

SetupGate(r) ==
  /\ req[r].pc = "setup"
  /\ IF setupToken.ram /\ req[r].x = "no" THEN End(r) ELSE Goto(r, "setup_insert")
  /\ UNCHANGED <<accountVars, teamVars, loginVars, log, events>>

\* Mutant of NoUserYet: the check a SELECT before the lock would have made.
NoSuchUser(u) == users[u] = NULL

\* INSERT ... WHERE NOT EXISTS (SELECT 1 FROM users).
NoUserYet(u) == \A v \in Users : users[v] = NULL

SetupInsert(r) ==
  LET u == req[r].t IN
  /\ req[r].pc = "setup_insert"
  /\ IF NoUserYet(u)
       THEN /\ users' = [users EXCEPT ![u] = Account("owner")]
            /\ log' = [log EXCEPT !.setups = @ + 1]
            /\ Goto(r, "setup_consume")
       ELSE End(r) /\ UNCHANGED <<users, log>>
  /\ UNCHANGED <<sessions, tokens, partials, teamVars, loginVars, events>>

\* consume: the unlink may fail, the copy in memory is cleared.
SetupConsume(r) ==
  /\ req[r].pc = "setup_consume"
  /\ setupToken' \in {[file |-> f, ram |-> FALSE] : f \in {FALSE, setupToken.file}}
  /\ End(r)
  /\ UNCHANGED <<accountVars, teamVars, weblogin, log, events>>

\* The password is right (a wrong one ends the request, without effect).
Login(r) ==
  LET u == req[r].t IN
  /\ req[r].pc = "login"
  /\ \/ /\ Active(u) /\ ~users[u].totp
        /\ req' = [req EXCEPT ![r].pc = "mint", ![r].a = u]
        /\ UNCHANGED partials
     \/ /\ Active(u) /\ users[u].totp
        /\ partials' = partials \cup {[user |-> u, by |-> r]}
        /\ End(r)
     \/ End(r) /\ UNCHANGED partials
  /\ UNCHANGED <<users, sessions, tokens, teamVars, loginVars, log, events>>

\* login_2fa, PartialTokenStore::consume: gone whatever comes next.
ConsumePartial(r, p) ==
  /\ req[r].pc = "login_2fa" /\ p \in partials
  /\ partials' = partials \ {p}
  /\ req' = [req EXCEPT ![r].pc = "factor", ![r].a = p.user]
  /\ UNCHANGED <<users, sessions, tokens, teamVars, loginVars, log, events>>

\* The account is read once: its secret and its recovery codes.
CheckFactor(r) ==
  LET u == Caller(r) IN
  /\ req[r].pc = "factor"
  /\ \/ /\ Active(u) /\ users[u].totp /\ req[r].x = "totp"
        /\ Goto(r, "mint")
     \/ /\ Active(u) /\ users[u].totp /\ req[r].x \in users[u].codes
        /\ req' = [req EXCEPT ![r].pc = "persist", ![r].list = users[u].codes \ {req[r].x}]
     \/ End(r)
  /\ UNCHANGED <<accountVars, teamVars, loginVars, log, events>>

\* The list without the code is written back.
PersistCodes(r) ==
  LET u == Caller(r) IN
  /\ req[r].pc = "persist"
  /\ users' = IF Exists(u) THEN [users EXCEPT ![u].codes = req[r].list] ELSE users
  /\ req' = [req EXCEPT ![r].pc = "mint", ![r].list = {}]
  /\ UNCHANGED <<sessions, tokens, partials, teamVars, loginVars, log, events>>

\* Mutant of References: foreign keys are off.
Unchecked(u) == TRUE

\* user_id REFERENCES users(id), with foreign_keys = ON.
References(u) == Exists(u)

issue_session(r) ==
  LET u == Caller(r) IN
  /\ req[r].pc = "mint"
  /\ sessions' = IF References(u) THEN sessions \cup {[user |-> u, by |-> r, live |-> TRUE]} ELSE sessions
  /\ End(r)
  /\ UNCHANGED <<users, tokens, partials, teamVars, loginVars, log, events>>

-----------------------------------------------------------------------------
(* The caller's own account.                                                 *)

logout(r) ==
  /\ req[r].pc = "logout"
  /\ sessions' = {s \in sessions : s.user # Caller(r) \/ s.by # req[r].sid}
  /\ End(r)
  /\ UNCHANGED <<users, tokens, partials, teamVars, loginVars, log, events>>

\* Every session of the caller goes; a new one is minted after the lock is released.
change_password(r) ==
  /\ req[r].pc = "change_password"
  /\ IF Exists(Caller(r))
       THEN /\ sessions' = {s \in sessions : s.user # Caller(r)}
            /\ Goto(r, "mint")
       ELSE End(r) /\ UNCHANGED sessions
  /\ UNCHANGED <<users, tokens, partials, teamVars, loginVars, log, events>>

\* revoke_session
RevokeOne(r, s) ==
  /\ req[r].pc = "revoke_session" /\ s \in sessions
  /\ s.user = Caller(r) /\ s.by # req[r].sid
  /\ sessions' = sessions \ {s}
  /\ End(r)
  /\ UNCHANGED <<users, tokens, partials, teamVars, loginVars, log, events>>

revoke_other_sessions(r) ==
  /\ req[r].pc = "revoke_others"
  /\ sessions' = {s \in sessions : s.user # Caller(r) \/ s.by = req[r].sid}
  /\ End(r)
  /\ UNCHANGED <<users, tokens, partials, teamVars, loginVars, log, events>>

\* Refused once the second factor is on.
two_fa_setup(r) ==
  /\ req[r].pc = "two_fa_enable"
  /\ IF Exists(Caller(r)) /\ ~users[Caller(r)].totp THEN Goto(r, "two_fa_verify") ELSE End(r)
  /\ UNCHANGED <<accountVars, teamVars, loginVars, log, events>>

\* The client sends the secret back with a first code; the row is written as it is.
two_fa_verify(r) ==
  /\ req[r].pc = "two_fa_verify"
  /\ \/ UNCHANGED users
     \/ Exists(Caller(r)) /\ users' = [users EXCEPT ![Caller(r)].totp = TRUE, ![Caller(r)].codes = Codes]
  /\ End(r)
  /\ UNCHANGED <<sessions, tokens, partials, teamVars, loginVars, log, events>>

TwoFaProve(r) ==
  LET u == Caller(r) IN
  /\ req[r].pc = "two_fa_disable"
  /\ IF Exists(u) /\ users[u].totp /\ req[r].x \in users[u].codes \cup {"totp"}
       THEN Goto(r, "two_fa_off") ELSE End(r)
  /\ UNCHANGED <<accountVars, teamVars, loginVars, log, events>>

two_fa_disable(r) ==
  LET u == Caller(r) IN
  /\ req[r].pc = "two_fa_off"
  /\ users' = IF Exists(u) THEN [users EXCEPT ![u].totp = FALSE, ![u].codes = {}] ELSE users
  /\ End(r)
  /\ UNCHANGED <<sessions, tokens, partials, teamVars, loginVars, log, events>>

-----------------------------------------------------------------------------
(* API tokens, and npm's two ways to get one.                                *)

\* api_token::store, in a transaction of its own or of the caller's.
store(u, r) == tokens \cup {[user |-> u, by |-> r, revoked |-> FALSE]}

CreateToken(r) ==
  /\ req[r].pc = "create_token"
  /\ tokens' = IF References(Caller(r)) THEN store(Caller(r), r) ELSE tokens
  /\ End(r)
  /\ UNCHANGED <<users, sessions, partials, teamVars, loginVars, log, events>>

RevokeToken(r, k) ==
  /\ req[r].pc = "revoke_token" /\ k \in tokens /\ k.user = Caller(r)
  /\ tokens' = (tokens \ {k}) \cup {[k EXCEPT !.revoked = TRUE]}
  /\ End(r)
  /\ UNCHANGED <<users, sessions, partials, teamVars, loginVars, log, events>>

\* PUT /-/user/org.couchdb.user:name: a password, no second factor, one lock.
NpmLogin(r) ==
  /\ req[r].pc = "npm_login"
  /\ \/ Active(req[r].t) /\ tokens' = store(req[r].t, r)
     \/ UNCHANGED tokens
  /\ End(r)
  /\ UNCHANGED <<users, sessions, partials, teamVars, loginVars, log, events>>

begin_login(r) ==
  /\ req[r].pc = "begin_login" /\ weblogin.st = "none"
  /\ weblogin' = [weblogin EXCEPT !.st = "pending"]
  /\ End(r)
  /\ UNCHANGED <<accountVars, teamVars, setupToken, log, events>>

\* One transaction: a pending session, a token for the caller, its plaintext.
authorize_session(r) ==
  /\ req[r].pc = "authorize"
  /\ IF weblogin.st = "pending" /\ References(Caller(r))
       THEN /\ tokens' = store(Caller(r), r)
            /\ weblogin' = [st |-> "authorized", token |-> r]
       ELSE UNCHANGED <<tokens, weblogin>>
  /\ End(r)
  /\ UNCHANGED <<users, sessions, partials, teamVars, setupToken, log, events>>

\* Mutant of Cleared: the row is left for the sweep.
NotCleared == weblogin

\* The transaction that reads the plaintext also clears it.
Cleared == [weblogin EXCEPT !.token = NULL]

poll_done(r) ==
  /\ req[r].pc = "poll_done"
  /\ \/ /\ weblogin.st = "authorized" /\ weblogin.token # NULL
        /\ log' = [log EXCEPT !.delivered = @ + 1]
        /\ weblogin' = Cleared
     \/ /\ weblogin.st = "late"
        /\ weblogin' = [st |-> "expired", token |-> NULL]
        /\ UNCHANGED log
     \/ /\ weblogin.st \notin {"authorized", "late"} \/ weblogin.token = NULL
        /\ UNCHANGED <<weblogin, log>>
  /\ End(r)
  /\ UNCHANGED <<accountVars, teamVars, setupToken, events>>

-----------------------------------------------------------------------------
(* The team: roles, invitations, project members.                            *)

\* Refused for a pending invitation; only an owner invites an admin.
invite(r) ==
  LET e == req[r].t IN
  /\ req[r].pc = "invite"
  /\ IF /\ at_least(req[r].role, "admin") /\ req[r].x # "owner"
        /\ req[r].x = "admin" => req[r].role = "owner"
        /\ invites[e] = NULL \/ invites[e].st # "pending"
       THEN invites' = [invites EXCEPT ![e] = [st |-> "pending", role |-> req[r].x]]
       ELSE UNCHANGED invites
  /\ End(r)
  /\ UNCHANGED <<accountVars, project, loginVars, log, events>>

InvitedAs(e) == invites[e].role

\* Two statements under one lock; the e-mail is unique. The process may end between them.
accept(r, torn) ==
  LET e == req[r].t IN
  /\ req[r].pc = "accept"
  /\ IF invites[e] # NULL /\ invites[e].st = "pending" /\ ~Exists(e)
       THEN /\ users' = [users EXCEPT ![e] = Account(InvitedAs(e))]
            /\ invites' = IF torn THEN invites ELSE [invites EXCEPT ![e].st = "accepted"]
       ELSE ~torn /\ UNCHANGED <<users, invites>>
  /\ End(r)
  /\ UNCHANGED <<sessions, tokens, partials, project, loginVars, log, events>>

\* PUT /users/{id}: deactivation deletes sessions and revokes tokens.
UpdateUser(r) ==
  LET u == req[r].t IN
  /\ req[r].pc = "update"
  /\ IF /\ at_least(req[r].role, "admin") /\ u # Caller(r) /\ Exists(u)
        /\ users[u].role = "owner" => req[r].role = "owner"
       THEN /\ users' = [users EXCEPT ![u].active = (req[r].x = "yes")]
            /\ sessions' = IF req[r].x = "yes" THEN sessions ELSE {s \in sessions : s.user # u}
            /\ tokens' = IF req[r].x = "yes" THEN tokens
                         ELSE {IF k.user = u THEN [k EXCEPT !.revoked = TRUE] ELSE k : k \in tokens}
       ELSE UNCHANGED <<users, sessions, tokens>>
  /\ End(r)
  /\ UNCHANGED <<partials, teamVars, loginVars, log, events>>

Owners == {u \in Users : Active(u) /\ users[u].role = "owner"}

\* Mutant of LastOwner: the count is not checked.
NoLastOwner(u) == FALSE

\* An owner is neither deleted nor demoted when the active owners are one or none.
LastOwner(u) == users[u].role = "owner" /\ Cardinality(Owners) <= 1

MayDelete(r, u) ==
  /\ at_least(req[r].role, "admin") /\ u # Caller(r) /\ Exists(u) /\ ~LastOwner(u)
  /\ users[u].role \in {"owner", "admin"} => req[r].role = "owner"

\* DELETE /users/{id}: sessions, tokens and memberships cascade.
RemoveUser(r) ==
  LET u == req[r].t IN
  /\ req[r].pc = "remove"
  /\ IF MayDelete(r, u)
       THEN /\ users' = [users EXCEPT ![u] = NULL]
            /\ sessions' = {s \in sessions : s.user # u}
            /\ tokens' = {k \in tokens : k.user # u}
            /\ project' = [project EXCEPT !.role[u] = "none"]
       ELSE UNCHANGED <<users, sessions, tokens, project>>
  /\ End(r)
  /\ UNCHANGED <<partials, invites, loginVars, log, events>>

change_role(r) ==
  LET u == req[r].t IN
  /\ req[r].pc = "change_role"
  /\ users' = IF req[r].role = "owner" /\ Exists(u) /\ users[u].role # req[r].x /\ ~LastOwner(u)
                THEN [users EXCEPT ![u].role = req[r].x] ELSE users
  /\ End(r)
  /\ UNCHANGED <<sessions, tokens, partials, teamVars, loginVars, log, events>>

\* Global admins pass; otherwise the membership row decides.
enforce_project_role(r) ==
  at_least(req[r].role, "admin") \/ project.role[Caller(r)] = "admin"

count_admins == Cardinality({u \in Users : project.role[u] = "admin"})

\* The target is looked up, and the caller authorised, under a first lock.
AddMemberCheck(r) ==
  /\ req[r].pc = "add_member"
  /\ IF enforce_project_role(r) /\ Exists(req[r].t) THEN Goto(r, "add_insert") ELSE End(r)
  /\ UNCHANGED <<accountVars, teamVars, loginVars, log, events>>

\* INSERT OR IGNORE, with both foreign keys.
AddMemberInsert(r) ==
  LET u == req[r].t IN
  /\ req[r].pc = "add_insert"
  /\ project' = IF project.exists /\ References(u) /\ References(Caller(r)) /\ project.role[u] = "none"
                  THEN [project EXCEPT !.role[u] = req[r].x] ELSE project
  /\ End(r)
  /\ UNCHANGED <<accountVars, invites, loginVars, log, events>>

\* The last project admin is neither demoted nor removed.
UpdateMember(r) ==
  LET u == req[r].t
      new == IF req[r].op = "remove_member" THEN "none" ELSE req[r].x
  IN
  /\ req[r].pc \in {"update_member", "remove_member"}
  /\ project' = IF /\ enforce_project_role(r) /\ project.role[u] # "none"
                   /\ project.role[u] = "admin" /\ new # "admin" => count_admins > 1
                  THEN [project EXCEPT !.role[u] = new] ELSE project
  /\ End(r)
  /\ UNCHANGED <<accountVars, invites, loginVars, log, events>>

CreateProject(r) ==
  /\ req[r].pc = "create_project"
  /\ project' = IF at_least(req[r].role, "admin") THEN [project EXCEPT !.exists = TRUE] ELSE project
  /\ End(r)
  /\ UNCHANGED <<accountVars, invites, loginVars, log, events>>

\* A project without services; verify_delete_password reads the caller's row. The
\* memberships cascade.
DeleteProject(r) ==
  /\ req[r].pc = "delete_project"
  /\ \/ UNCHANGED project
     \/ /\ enforce_project_role(r) /\ project.exists /\ Exists(Caller(r))
        /\ project' = [exists |-> FALSE, role |-> [u \in Users |-> "none"]]
  /\ End(r)
  /\ UNCHANGED <<accountVars, invites, loginVars, log, events>>

-----------------------------------------------------------------------------
(* Time, sweeps, restarts.                                                   *)

Event == events < MaxEvents /\ events' = events + 1

Expire ==
  /\ Event
  /\ \/ /\ \E s \in sessions : s.live /\ sessions' = (sessions \ {s}) \cup {[s EXCEPT !.live = FALSE]}
        /\ UNCHANGED <<partials, invites, weblogin>>
     \/ /\ partials # {} /\ partials' = {}
        /\ UNCHANGED <<sessions, invites, weblogin>>
     \/ /\ \E u \in Users : /\ invites[u] # NULL /\ invites[u].st = "pending"
                            /\ invites' = [invites EXCEPT ![u].st = "expired"]
        /\ UNCHANGED <<sessions, partials, weblogin>>
     \/ /\ weblogin.st \in {"pending", "authorized"} /\ weblogin' = [weblogin EXCEPT !.st = "late"]
        /\ UNCHANGED <<sessions, partials, invites>>
  /\ UNCHANGED <<users, tokens, project, setupToken, req, log>>

session_gc_once ==
  /\ \E s \in sessions : ~s.live
  /\ sessions' = {s \in sessions : s.live}
  /\ UNCHANGED <<users, tokens, partials, teamVars, loginVars, req, log, events>>

sweep_once ==
  /\ weblogin.st \in {"late", "expired"}
  /\ weblogin' = [st |-> "swept", token |-> NULL]
  /\ UNCHANGED <<accountVars, teamVars, setupToken, req, log, events>>

\* A restart loses requests and partial tokens; SetupTokenStore::load drops a file
\* that is no longer needed.
Restart ==
  /\ Event
  /\ req' = [r \in Requests |-> IF req[r].pc = "new" THEN Idle ELSE Done]
  /\ partials' = {}
  /\ setupToken' = IF \E u \in Users : Exists(u) THEN [file |-> FALSE, ram |-> FALSE]
                   ELSE [setupToken EXCEPT !.ram = setupToken.file]
  /\ UNCHANGED <<users, sessions, tokens, teamVars, weblogin, log>>

Receive(r) ==
  \/ \E c \in Calls :
       \/ Begin(r, c)
       \/ \E s \in sessions : AuthSession(r, c, s)
       \/ \E k \in tokens : AuthToken(r, c, k)
  \/ AuthExpired(r) \/ \E s \in sessions : AuthOtherDevice(r, s)

Step(r) ==
  \/ SetupGate(r) \/ SetupInsert(r) \/ SetupConsume(r)
  \/ Login(r) \/ (\E p \in partials : ConsumePartial(r, p)) \/ CheckFactor(r) \/ PersistCodes(r)
  \/ issue_session(r)
  \/ logout(r) \/ change_password(r) \/ (\E s \in sessions : RevokeOne(r, s)) \/ revoke_other_sessions(r)
  \/ two_fa_setup(r) \/ two_fa_verify(r) \/ TwoFaProve(r) \/ two_fa_disable(r)
  \/ CreateToken(r) \/ (\E k \in tokens : RevokeToken(r, k)) \/ NpmLogin(r)
  \/ begin_login(r) \/ authorize_session(r) \/ poll_done(r)
  \/ invite(r) \/ (\E torn \in BOOLEAN : accept(r, torn)) \/ UpdateUser(r) \/ RemoveUser(r)
  \/ change_role(r)
  \/ AddMemberCheck(r) \/ AddMemberInsert(r) \/ UpdateMember(r) \/ CreateProject(r) \/ DeleteProject(r)

Next ==
  \/ \E r \in Requests : Receive(r) \/ Step(r)
  \/ Expire \/ session_gc_once \/ sweep_once \/ Restart

Spec == Init /\ [][Next]_vars

-----------------------------------------------------------------------------
(* Properties.                                                               *)

\* Types of the tables, the stores in memory and the requests.
AccountsTypeOK ==
  /\ users \in [Users -> UserRow \cup {NULL}]
  /\ sessions \subseteq SessionRow /\ tokens \subseteq TokenRow
  /\ partials \subseteq [user : Users, by : Origins]
  /\ invites \in [Users -> [st : {"pending", "accepted", "expired"}, role : GlobalRoles] \cup {NULL}]
  /\ project \in [exists : BOOLEAN, role : [Users -> ProjectRoles]]
  /\ weblogin \in [st : {"none", "pending", "authorized", "late", "expired", "swept"},
                   token : Origins \cup {NULL}]
  /\ setupToken \in [file : BOOLEAN, ram : BOOLEAN]
  /\ DOMAIN req = Requests /\ events \in Nat
  /\ log \in [setups : Nat, delivered : Nat]

\* An instance with accounts keeps an owner's row, whatever owners and admins do to
\* each other at once: users.rs refuses to delete or demote the last active owner.
OwnerRowRemains ==
  (\E u \in Users : Exists(u)) => \E u \in Users : Exists(u) /\ users[u].role = "owner"

\* No session, token or membership outlives its account, although login, password
\* change, token and member handlers insert them under a later lock than the one
\* under which they saw the account.
CredentialsHaveOwner ==
  /\ \A s \in sessions : Exists(s.user)
  /\ \A k \in tokens : Exists(k.user)
  /\ \A u \in Users : project.role[u] # "none" => Exists(u) /\ project.exists

\* Of all the setup requests that race on a fresh host one creates an account.
FirstAdminOnce == log.setups <= 1

\* The token that npm's browser login creates is handed out once, to one poll.
TokenDeliveredOnce == log.delivered <= 1
=============================================================================
