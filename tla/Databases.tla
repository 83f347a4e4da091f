----------------------------- MODULE Databases -----------------------------
(* The databases of one catalog service: the roles and databases inside its   *)
(* engine, the credentials the panel keeps for them, dumps and restores, and  *)
(* the move of a PostgreSQL cluster out of an anonymous volume.               *)
(*                                                                          *)
(* A handler is a step per database lock and per command in the container.   *)
(* Which backups a plan keeps and sweeps is in Schedules.                    *)
EXTENDS Naturals, FiniteSets

CONSTANTS
  Requests,    \* each is used once; its name is also the password and the backup it brings
  Ops,         \* the requests a run lets happen
  Catalogs,    \* engines: "postgresql" (with postgis, timescaledb), "mysql" (with mariadb), "mongodb"
  DBs, Users,
  First,       \* the password and the backup that are there from the beginning
  Server,      \* where the users of an engine with server-wide users live
  Torn,        \* a volume with files of a copy that did not finish
  NONE,
  MaxEvents    \* bound: commands and calls that fail or whose answer is lost

ASSUME DatabaseConstants ==
  /\ Catalogs \subseteq {"postgresql", "mysql", "mongodb"} /\ Catalogs # {}
  /\ MaxEvents \in Nat
  /\ {First, NONE, Torn} \cap Requests = {} /\ First # NONE /\ Torn # NONE
  /\ Server \notin DBs /\ DBs \cap Users = {} /\ NONE \notin DBs \cup Users

VARIABLES
  catalog,    \* catalog_id of the service; it never changes
  vol,        \* vol.anon, vol.named: the cluster in each volume, NONE or Torn
  home,       \* the volume the container's PGDATA is on
  pinned,     \* env_json has PGDATA
  up,         \* the container runs
  creds,      \* creds[d]: the row of database_credentials, or NONE
  backups,    \* backups[b]: what a completed backup dumped, its row and its blob, or NONE
  act,        \* act[r]: step and locals of a request
  tainted,    \* history: databases and users a request failed on, or two worked on at once
  restarted,  \* history: the container was started since its cluster was copied
  events

vars == <<catalog, vol, home, pinned, up, creds, backups, act, tainted, restarted, events>>
place == <<home, pinned, up, restarted>>

Postgres == catalog = "postgresql"
Volumes == {"anon", "named"}
Passwords == Requests \cup {First}

\* The user of an engine: server-wide, except in MongoDB.
Role(d, u) == IF catalog = "mongodb" THEN <<d, u>> ELSE <<Server, u>>
Roles == (DBs \cup {Server}) \X Users
NoRole == [pass |-> NONE, createdb |-> FALSE]

\* The rows of a database: whose they were, and which state of them.
Versions == {"empty", "old", "new", "part", "file"}
Rows == [of : DBs, ver : Versions]
Empty(d) == [of |-> d, ver |-> "empty"]

\* A database: who may use it, and whether its tables belong to them or to the superuser.
Database(us, rows) == [users |-> us, objects |-> "users", rows |-> rows]

\* A backup of one database, or of all that had credentials (target NONE).
Archive(target, rows) == [target |-> target, rows |-> rows, row |-> TRUE, blob |-> TRUE]

Idle == [op |-> "none", pc |-> "new", db |-> NONE, user |-> NONE, pass |-> NONE, known |-> FALSE,
         from |-> NONE, rows |-> NONE, todo |-> {}, purge |-> {}, foot |-> {}, alone |-> TRUE]

\* One user with one database or two, a backup of the first or of all, and, for
\* PostgreSQL, a cluster in the anonymous volume of the image.
Init ==
  /\ catalog \in Catalogs
  /\ \E mine \in (SUBSET DBs) \ {{}}, u \in Users, d \in DBs, all \in BOOLEAN :
       LET old == [x \in DBs |-> IF x \in mine THEN [of |-> x, ver |-> "old"] ELSE NONE] IN
       /\ d \in mine
       /\ vol = [v \in Volumes |->
            IF v # (IF Postgres THEN "anon" ELSE "named") THEN NONE
            ELSE [roles |-> [k \in Roles |-> IF \E x \in mine : k = Role(x, u) THEN [NoRole EXCEPT !.pass = First] ELSE NoRole],
                  dbs |-> [x \in DBs |-> IF x \in mine THEN Database({u}, old[x]) ELSE NONE]]]
       /\ creds = [x \in DBs |-> IF x \in mine THEN [user |-> u, pass |-> First] ELSE NONE]
       /\ backups = [b \in Passwords |->
            IF b # First THEN NONE
            ELSE IF all THEN Archive(NONE, old) ELSE Archive(d, [x \in DBs |-> IF x = d THEN old[x] ELSE NONE])]
  /\ home = (IF Postgres THEN "anon" ELSE "named")
  /\ pinned = FALSE /\ up = TRUE /\ restarted = FALSE
  /\ act = [r \in Requests |-> Idle]
  /\ tainted = {} /\ events = 0

-----------------------------------------------------------------------------
engine == vol[home]
Active(r) == act[r].pc \notin {"new", "done"}
Fault == events < MaxEvents /\ events' = events + 1
Fine == UNCHANGED events
Goto(r, pc) == act' = [act EXCEPT ![r].pc = pc] /\ UNCHANGED tainted

\* The users a request about database d may touch besides the one it names.
UsersOf(d) ==
  (IF creds[d] = NONE THEN {} ELSE {creds[d].user}) \cup
  (IF engine.dbs[d] = NONE THEN {} ELSE engine.dbs[d].users)

\* A request arrives; those that work on the same database or user are no longer alone.
Arrives(r, op, foot, local) ==
  LET meets == {q \in Requests : Active(q) /\ act[q].foot \cap foot # {}} IN
  /\ act[r].pc = "new" /\ op \in Ops
  /\ act' = [q \in Requests |->
       IF q = r THEN [local EXCEPT !.op = op, !.foot = foot, !.alone = (meets = {})]
       ELSE IF q \in meets THEN [act[q] EXCEPT !.alone = FALSE] ELSE act[q]]
  /\ Fine

\* A request learns the owner u of its database, and works on u from now on.
Learns(r, u, pc) ==
  LET meets == {q \in Requests \ {r} : Active(q) /\ u \in act[q].foot} IN
  /\ act' = [q \in Requests |->
       IF q = r THEN [act[r] EXCEPT !.user = u, !.pc = pc, !.foot = @ \cup ({u} \ {NONE}), !.alone = @ /\ meets = {}]
       ELSE IF q \in meets THEN [act[q] EXCEPT !.alone = FALSE] ELSE act[q]]
  /\ UNCHANGED tainted

Done(r) == act' = [act EXCEPT ![r] = [Idle EXCEPT !.pc = "done"]]
\* An error after something was touched, and an answer; settled is known to be in order again.
Fail(r) == Done(r) /\ tainted' = tainted \cup act[r].foot
Succeed(r, settled) ==
  Done(r) /\ tainted' = IF act[r].alone THEN tainted \ settled ELSE tainted \cup act[r].foot

\* exec_checked: a command in the container works, fails, or works and looks as if it failed.
Exec(r, cluster, next) ==
  /\ up
  /\ \/ Fine /\ vol' = [vol EXCEPT ![home] = cluster] /\ next
     \/ Fault /\ vol' \in {vol, [vol EXCEPT ![home] = cluster]} /\ Fail(r)

\* A command the engine refuses.
Refuse(r) == Fine /\ up /\ Fail(r) /\ UNCHANGED vol

InContainer == {"role", "alter", "createdb", "owner", "drop", "dropuser", "change", "privilege", "dump",
                "recreate", "load", "fix", "mongo"}
\* No command runs in a container that is stopped.
NotRunning(r) ==
  /\ act[r].pc \in InContainer /\ ~up
  /\ Fail(r) /\ Fine
  /\ UNCHANGED <<catalog, vol, creds, backups, place>>

-----------------------------------------------------------------------------
(* api/databases.rs: create, delete, change_password, set_privileges       *)

\* Mutant of store_credentials: only the row of this database.
StoreOne(d, u, p) == [creds EXCEPT ![d] = [user |-> u, pass |-> p]]
\* Upsert, and the new password for every other database of a server-wide user.
store_credentials(d, u, p) ==
  [x \in DBs |-> IF x = d THEN [user |-> u, pass |-> p]
                 ELSE IF creds[x] # NONE /\ creds[x].user = u /\ catalog # "mongodb"
                 THEN [creds[x] EXCEPT !.pass = p] ELSE creds[x]]

Create(r) ==
  \E d \in DBs, u \in Users :
    /\ Arrives(r, "create", {d, u} \cup UsersOf(d),
               [Idle EXCEPT !.db = d, !.user = u, !.pc = IF Postgres THEN "role" ELSE "createdb"])
    /\ UNCHANGED <<catalog, vol, creds, backups, place, tainted>>

\* PostgreSQL: is there such a role?
RoleExists(r) ==
  /\ act[r].pc = "role" /\ up
  /\ \/ /\ act' = [act EXCEPT ![r].known = (engine.roles[Role(act[r].db, act[r].user)] # NoRole), ![r].pc = "alter"]
        /\ Fine /\ UNCHANGED tainted
     \/ Fault /\ Fail(r)
  /\ UNCHANGED <<catalog, vol, creds, backups, place>>

\* A new role has the privileges of the form; an existing one only gains them.
pg_role_sql(role, pass, createdb) == [pass |-> pass, createdb |-> role.createdb \/ createdb]
AlterRole(r) ==
  LET k == Role(act[r].db, act[r].user) IN
  /\ act[r].pc = "alter"
  /\ \E createdb \in BOOLEAN :
       IF act[r].known = (engine.roles[k] # NoRole)
       THEN Exec(r, [engine EXCEPT !.roles[k] = pg_role_sql(@, r, createdb)], Goto(r, "createdb"))
       ELSE Refuse(r)
  /\ UNCHANGED <<catalog, creds, backups, place>>

\* CREATE DATABASE and GRANT. MySQL does all of it in one command, and IF NOT EXISTS keeps
\* the password of a user that is there; MongoDB refuses such a user.
CreateInEngine(r) ==
  LET d == act[r].db
      u == act[r].user
      k == Role(d, u)
      old == engine.dbs[d]
      role == engine.roles[k]
      fresh == [NoRole EXCEPT !.pass = r] IN
  /\ act[r].pc = "createdb"
  /\ CASE Postgres ->
            IF old = NONE /\ role # NoRole
            THEN Exec(r, [engine EXCEPT !.dbs[d] = Database({u}, Empty(d))], Goto(r, "store")) ELSE Refuse(r)
       [] catalog = "mysql" ->
            Exec(r, [engine EXCEPT !.dbs[d] = IF old = NONE THEN Database({u}, Empty(d)) ELSE [old EXCEPT !.users = @ \cup {u}],
                                   !.roles[k] = IF role = NoRole THEN fresh ELSE role],
                 Goto(r, "store"))
       [] catalog = "mongodb" ->
            IF role = NoRole
            THEN Exec(r, [engine EXCEPT !.dbs[d] = IF old = NONE THEN Database({u}, Empty(d)) ELSE [old EXCEPT !.users = @ \cup {u}],
                                        !.roles[k] = fresh],
                      Goto(r, "store"))
            ELSE Refuse(r)
  /\ UNCHANGED <<catalog, creds, backups, place>>

\* The credentials are stored last. In MySQL the stored password may not be the user's.
StoreCreated(r) ==
  LET d == act[r].db
      u == act[r].user IN
  /\ act[r].pc = "store" /\ act[r].op = "create"
  /\ creds' = store_credentials(d, u, r)
  /\ IF catalog = "mysql" /\ engine.roles[Role(d, u)].pass # r
     THEN Done(r) /\ tainted' = tainted \cup act[r].foot
     ELSE Succeed(r, {d, u})
  /\ Fine /\ UNCHANGED <<catalog, vol, backups, place>>

\* delete_database; with delete_backups the backups of this database alone are listed.
Delete(r) ==
  \E d \in DBs, too \in BOOLEAN :
    /\ creds[d] # NONE \/ engine.dbs[d] # NONE
    /\ Arrives(r, "delete", {d} \cup UsersOf(d),
               [Idle EXCEPT !.db = d, !.pc = "purge",
                            !.purge = IF too THEN {b \in Passwords : backups[b] # NONE /\ backups[b].row /\ backups[b].target = d} ELSE {}])
    /\ UNCHANGED <<catalog, vol, creds, backups, place, tainted>>

\* purge_backup_blobs: failures are logged.
PurgeBlobs(r) ==
  /\ act[r].pc = "purge"
  /\ \E gone \in {act[r].purge} \cup (IF events < MaxEvents THEN {{}} ELSE {}) :
       /\ IF gone = act[r].purge THEN Fine ELSE Fault
       /\ backups' = [b \in Passwords |-> IF b \in gone THEN [backups[b] EXCEPT !.blob = FALSE] ELSE backups[b]]
  /\ Goto(r, IF Postgres THEN "owner" ELSE "drop")
  /\ UNCHANGED <<catalog, vol, creds, place>>

\* PostgreSQL: the owner is looked up before it is gone.
ReadOwner(r) ==
  LET db == engine.dbs[act[r].db] IN
  /\ act[r].pc = "owner" /\ act[r].op = "delete" /\ up
  /\ Learns(r, IF db = NONE THEN NONE ELSE CHOOSE u \in db.users : TRUE, "drop")
  /\ Fine /\ UNCHANGED <<catalog, vol, creds, backups, place>>

\* The exit code of DROP DATABASE is not looked at: with open sessions PostgreSQL keeps it.
DropDatabase(r) ==
  LET d == act[r].db
      next == IF act[r].user # NONE THEN "dropuser" ELSE "forget"
      without == [engine EXCEPT !.dbs[d] = NONE,
                                !.roles = [k \in Roles |-> IF catalog = "mongodb" /\ k[1] = d THEN NoRole ELSE @[k]]] IN
  /\ act[r].pc = "drop" /\ up
  /\ \/ vol' = [vol EXCEPT ![home] = without] /\ Goto(r, next) /\ Fine
     \/ /\ Fault /\ UNCHANGED vol
        /\ act' = [act EXCEPT ![r].pc = next, ![r].alone = FALSE] /\ UNCHANGED tainted
  /\ UNCHANGED <<catalog, creds, backups, place>>

\* DROP USER fails, unnoticed, while the role owns another database.
DropUser(r) ==
  LET u == act[r].user
      owns == \E x \in DBs : engine.dbs[x] # NONE /\ u \in engine.dbs[x].users IN
  /\ act[r].pc = "dropuser" /\ up
  /\ vol' = IF owns THEN vol ELSE [vol EXCEPT ![home].roles[<<Server, u>>] = NoRole]
  /\ Goto(r, "forget") /\ Fine
  /\ UNCHANGED <<catalog, creds, backups, place>>

\* Credentials, plans and, if asked for, the backup rows listed at the start.
ForgetDatabase(r) ==
  /\ act[r].pc = "forget"
  /\ creds' = [creds EXCEPT ![act[r].db] = NONE]
  /\ backups' = [b \in Passwords |-> IF b \in act[r].purge THEN [backups[b] EXCEPT !.row = FALSE] ELSE backups[b]]
  /\ Succeed(r, {act[r].db}) /\ Fine
  /\ UNCHANGED <<catalog, vol, place>>

\* change_password: the stored user, or else PostgreSQL's owner.
ChangePassword(r) ==
  \E d \in DBs :
    /\ Arrives(r, "password", {d} \cup UsersOf(d),
               [Idle EXCEPT !.db = d, !.user = IF creds[d] = NONE THEN NONE ELSE creds[d].user,
                            !.pc = IF creds[d] # NONE THEN "change" ELSE "owner"])
    /\ UNCHANGED <<catalog, vol, creds, backups, place, tainted>>
OwnerOf(r) ==
  LET db == engine.dbs[act[r].db] IN
  /\ act[r].pc = "owner" /\ act[r].op = "password" /\ up
  /\ IF Postgres /\ db # NONE
     THEN Learns(r, CHOOSE u \in db.users : TRUE, "change")
     ELSE Fail(r)
  /\ Fine /\ UNCHANGED <<catalog, vol, creds, backups, place>>
AlterUser(r) ==
  LET k == Role(act[r].db, act[r].user) IN
  /\ act[r].pc = "change"
  /\ IF engine.roles[k] # NoRole THEN Exec(r, [engine EXCEPT !.roles[k].pass = r], Goto(r, "store")) ELSE Refuse(r)
  /\ UNCHANGED <<catalog, creds, backups, place>>
StoreChanged(r) ==
  /\ act[r].pc = "store" /\ act[r].op = "password"
  /\ creds' = store_credentials(act[r].db, act[r].user, r)
  /\ Succeed(r, {act[r].user}) /\ Fine
  /\ UNCHANGED <<catalog, vol, backups, place>>

\* set_privileges: the owner's, in PostgreSQL only, and not the superuser's.
SetPrivileges(r) ==
  \E d \in DBs :
    /\ Postgres
    /\ Arrives(r, "privileges", {d} \cup UsersOf(d), [Idle EXCEPT !.db = d, !.pc = "owner"])
    /\ UNCHANGED <<catalog, vol, creds, backups, place, tainted>>
OwnerToAlter(r) ==
  LET db == engine.dbs[act[r].db] IN
  /\ act[r].pc = "owner" /\ act[r].op = "privileges" /\ up
  /\ IF db # NONE
     THEN Learns(r, CHOOSE u \in db.users : TRUE, "privilege")
     ELSE Fail(r)
  /\ Fine /\ UNCHANGED <<catalog, vol, creds, backups, place>>
AlterPrivileges(r) ==
  LET k == Role(act[r].db, act[r].user) IN
  /\ act[r].pc = "privilege"
  /\ \E on \in BOOLEAN :
       IF engine.roles[k] # NoRole
       THEN Exec(r, [engine EXCEPT !.roles[k].createdb = on], Succeed(r, {})) ELSE Refuse(r)
  /\ UNCHANGED <<catalog, creds, backups, place>>

-----------------------------------------------------------------------------
(* backup/executor.rs                                                      *)

\* One database, or (target NONE) those that have credentials now; MongoDB's is the whole instance.
Backup(r) ==
  \E target \in DBs \cup {NONE} :
    /\ Arrives(r, "backup", {},
               [Idle EXCEPT !.db = target, !.pc = "dump", !.rows = [x \in DBs |-> NONE],
                            !.todo = IF target # NONE THEN {target}
                                     ELSE IF catalog = "mongodb" THEN DBs ELSE {x \in DBs : creds[x] # NONE}])
    /\ UNCHANGED <<catalog, vol, creds, backups, place, tainted>>

RowsNow(d) == IF engine.dbs[d] = NONE THEN NONE ELSE engine.dbs[d].rows

\* A command per database, and one for MongoDB. A missing database fails the whole backup.
execute_cluster_backup(r) ==
  /\ act[r].pc = "dump" /\ up
  /\ \/ /\ catalog = "mongodb" /\ Fine
        /\ act' = [act EXCEPT ![r].rows = [x \in DBs |-> IF x \in act[r].todo THEN RowsNow(x) ELSE NONE],
                              ![r].todo = {}, ![r].pc = "save"]
        /\ UNCHANGED tainted
     \/ /\ catalog # "mongodb" /\ Fine
        /\ IF \E d \in act[r].todo : engine.dbs[d] # NONE
           THEN /\ \E d \in act[r].todo :
                     /\ engine.dbs[d] # NONE
                     /\ act' = [act EXCEPT ![r].rows[d] = RowsNow(d), ![r].todo = @ \ {d},
                                           ![r].pc = IF act[r].todo = {d} THEN "save" ELSE "dump"]
                /\ UNCHANGED tainted
           ELSE Fail(r)
     \/ Fault /\ Fail(r)
  /\ UNCHANGED <<catalog, vol, creds, backups, place>>

\* The upload, and the row.
SaveDump(r) ==
  /\ act[r].pc = "save"
  /\ \/ Fine /\ backups' = [backups EXCEPT ![r] = Archive(act[r].db, act[r].rows)]
     \/ Fault /\ UNCHANGED backups
  /\ Succeed(r, {})
  /\ UNCHANGED <<catalog, vol, creds, place>>

-----------------------------------------------------------------------------
(* restore_backup, restore_database_from_upload, backup/restore.rs         *)

\* The owner and its password are read before the download.
resolve_owner(d, local) == [local EXCEPT !.db = d, !.user = creds[d].user, !.pass = creds[d].pass]

Restore(r) ==
  \E b \in Passwords, d \in DBs :
    /\ backups[b] # NONE /\ backups[b].row /\ creds[d] # NONE
    /\ Arrives(r, "restore", {d} \cup UsersOf(d), resolve_owner(d, [Idle EXCEPT !.from = b, !.pc = "download"]))
    /\ UNCHANGED <<catalog, vol, creds, backups, place, tainted>>

\* Mutant of MayRestore: no check of the names.
AnyBackup(a, d) == TRUE
MayRestore(a, d) == a.target \in {NONE, d}

\* What a blob holds for d: the entry of an archive, the dump of one database whatever its name.
extract_db_from_tar(a, d) == a.rows[IF a.target = NONE \/ catalog = "mongodb" THEN d ELSE a.target]

download_blob(a) == a.blob

\* Two ways to apply a dump.
apply_restore == IF catalog = "mongodb" THEN "mongo" ELSE "recreate"

\* The download, the check of the names, the entry: an error here has touched nothing.
Download(r) ==
  LET a == backups[act[r].from]
      d == act[r].db
      dump == extract_db_from_tar(a, d)
      usable == download_blob(a) /\ MayRestore(a, d) /\ (dump # NONE \/ catalog = "mongodb") IN
  /\ act[r].pc = "download"
  /\ \/ /\ usable /\ Fine
        /\ act' = [act EXCEPT ![r].rows = dump, ![r].pc = apply_restore] /\ UNCHANGED tainted
     \/ ~usable /\ Fine /\ Succeed(r, {})
     \/ Fault /\ Succeed(r, {})
  /\ UNCHANGED <<catalog, vol, creds, backups, place>>

\* The kinds of file an engine takes, told by the extension.
detect_format ==
  CASE catalog = "postgresql" -> {"custom", "sql", "tar"}
    [] catalog = "mysql" -> {"sql", "tar"}
    [] catalog = "mongodb" -> {"archive"}

\* A file of the operator: nothing says which database its rows come from.
RestoreUpload(r) ==
  \E d \in DBs, format \in {"custom", "sql", "tar", "archive"} :
    /\ creds[d] # NONE /\ format \in detect_format
    /\ Arrives(r, "upload", {d} \cup UsersOf(d),
               resolve_owner(d, [Idle EXCEPT !.rows = [of |-> d, ver |-> "file"], !.pc = apply_restore]))
    /\ UNCHANGED <<catalog, vol, creds, backups, place, tainted>>

\* pipe_to_docker: a client reads its commands or its dump from stdin; what fails may leave a part.
pipe_to_docker(r, cluster, parts, next) ==
  /\ up
  /\ \/ Fine /\ vol' = [vol EXCEPT ![home] = cluster] /\ next
     \/ Fault /\ vol' \in {[vol EXCEPT ![home] = c] : c \in {engine, cluster} \cup parts} /\ Fail(r)

\* The password the panel has on file, whatever the role had.
build_role_sync_sql(cluster, k, pass) == [cluster EXCEPT !.roles[k] = pg_role_sql(@, pass, FALSE)]

\* One psql run, but each of its statements is committed on its own.
drop_and_recreate_pg_db(r) ==
  LET d == act[r].db
      synced == build_role_sync_sql(engine, Role(d, act[r].user), act[r].pass)
      dropped == [synced EXCEPT !.dbs[d] = NONE]
      created == [dropped EXCEPT !.dbs[d] = Database({act[r].user}, Empty(d))] IN
  /\ act[r].pc = "recreate" /\ Postgres
  /\ pipe_to_docker(r, created, {synced, dropped}, Goto(r, "load"))
  /\ UNCHANGED <<catalog, creds, backups, place>>

\* The dump is loaded as the superuser, who then owns the objects; what is there already stops it.
restore_postgres(r) ==
  LET d == act[r].db
      with(ver) == [engine EXCEPT !.dbs[d] = [@ EXCEPT !.rows = [act[r].rows EXCEPT !.ver = ver], !.objects = "superuser"]] IN
  /\ act[r].pc = "load" /\ Postgres
  /\ IF engine.dbs[d] # NONE /\ engine.dbs[d].rows.ver = "empty"
     THEN pipe_to_docker(r, with(act[r].rows.ver), {with("part")}, Goto(r, "fix"))
     ELSE Refuse(r)
  /\ UNCHANGED <<catalog, creds, backups, place>>

\* One DO block: every object or none.
build_owner_reassignment_sql(d) == [engine EXCEPT !.dbs[d].objects = "users"]

\* Mutant of fix_object_ownership: the load is taken for the end.
LeaveToSuperuser(r) ==
  act[r].pc = "fix" /\ up /\ Succeed(r, {act[r].db, act[r].user}) /\ Fine
  /\ UNCHANGED <<catalog, vol, creds, backups, place>>
fix_object_ownership(r) ==
  LET d == act[r].db IN
  /\ act[r].pc = "fix"
  /\ IF engine.dbs[d] # NONE /\ engine.roles[Role(d, act[r].user)] # NoRole
     THEN pipe_to_docker(r, build_owner_reassignment_sql(d), {}, Succeed(r, {d, act[r].user}))
     ELSE Refuse(r)
  /\ UNCHANGED <<catalog, creds, backups, place>>

\* MySQL: no password is synced, and a user that is gone cannot be granted anything.
restore_mysql(r) ==
  LET d == act[r].db
      old == engine.dbs[d]
      dropped == [engine EXCEPT !.dbs[d] = NONE]
      created == [engine EXCEPT !.dbs[d] = Database(IF old = NONE THEN {} ELSE old.users, Empty(d))]
      granted == [created EXCEPT !.dbs[d].users = @ \cup {act[r].user}] IN
  /\ act[r].pc = "recreate" /\ catalog = "mysql"
  /\ IF engine.roles[Role(d, act[r].user)] # NoRole
     THEN pipe_to_docker(r, granted, {dropped, created}, Goto(r, "load"))
     ELSE pipe_to_docker(r, created, {dropped}, Fail(r))
  /\ UNCHANGED <<catalog, creds, backups, place>>

\* The tables of the dump replace those of the same name.
run_mysql(r) ==
  LET d == act[r].db
      with(ver) == [engine EXCEPT !.dbs[d].rows = [act[r].rows EXCEPT !.ver = ver]] IN
  /\ act[r].pc = "load" /\ catalog = "mysql"
  /\ IF engine.dbs[d] # NONE
     THEN pipe_to_docker(r, with(act[r].rows.ver), {with("part")}, Succeed(r, {}))
     ELSE Refuse(r)
  /\ UNCHANGED <<catalog, creds, backups, place>>

\* mongorestore: collections of the dump replace those of the same name, and users stay.
execute_mongo_restore(r) ==
  LET d == act[r].db
      old == engine.dbs[d]
      with(ver) == IF act[r].rows = NONE THEN engine
                   ELSE [engine EXCEPT !.dbs[d] = Database(IF old = NONE THEN {} ELSE old.users, [act[r].rows EXCEPT !.ver = ver])] IN
  /\ act[r].pc = "mongo"
  /\ pipe_to_docker(r, with(act[r].rows.ver), {with("part")}, Succeed(r, {}))
  /\ UNCHANGED <<catalog, creds, backups, place>>

-----------------------------------------------------------------------------
(* api/pgdata_repair.rs, docker/pgdata_migration.rs, apply_env_update      *)

\* Where the container has its cluster, and whether the stored env will keep it there. Only
\* a Postgres service is looked at.
diagnose == home
inspect_and_diagnose == IF Postgres THEN {diagnose} ELSE {}
service_env == pinned
plan_repair(where) == where = "anon"
needs_env_pin(where, inEnv) == where = "named" /\ ~inEnv

\* repair: inspect, diagnose and read the env; a healthy service is left alone.
Repair(r) ==
  /\ \E where \in inspect_and_diagnose :
       /\ plan_repair(where) \/ needs_env_pin(where, service_env)
       /\ Arrives(r, "repair", {}, [Idle EXCEPT !.known = TRUE, !.pc = IF plan_repair(where) THEN "stop" ELSE "pin"])
  /\ UNCHANGED <<catalog, vol, creds, backups, place, tainted>>

\* The container is started on its old volume beside a copy, finished or under way.
Starts(where) ==
  restarted' = (restarted \/ (where = "anon" /\ (vol'.named # NONE \/
                                                 \E q \in Requests : act[q].op = "repair" /\ act[q].pc \in {"copy", "pin", "deploy"})))

\* Mutant of stop_container: the copy is taken of a running cluster.
DontStop == UNCHANGED up
stop_container == up' = FALSE
\* A stop that fails may have stopped it all the same, and nothing starts it again.
Quiesce(r) ==
  /\ act[r].pc = "stop"
  /\ \/ Fine /\ stop_container /\ Goto(r, "copy")
     \/ Fault /\ up' \in {up, FALSE} /\ Fail(r)
  /\ UNCHANGED <<catalog, vol, home, pinned, creds, backups, restarted>>

\* cp -a into an empty directory of the named volume; on any failure the old container is started.
run_copy_container(r) ==
  /\ act[r].pc = "copy"
  /\ \/ vol.named = NONE /\ Fine /\ vol' = [vol EXCEPT !.named = vol.anon] /\ Goto(r, "pin") /\ UNCHANGED <<up, restarted>>
     \/ vol.named # NONE /\ Fine /\ UNCHANGED vol /\ up' = TRUE /\ Starts(home) /\ Fail(r)
     \/ /\ Fault /\ vol' \in {vol} \cup (IF vol.named = NONE THEN {[vol EXCEPT !.named = Torn]} ELSE {})
        /\ up' \in BOOLEAN /\ Starts(home) /\ Fail(r)
  /\ UNCHANGED <<catalog, home, pinned, creds, backups>>

\* update_env: the form was filled from the env of an earlier moment; it is written back as a whole.
UpdateEnv(r) ==
  /\ Postgres
  /\ Arrives(r, "env", {}, [Idle EXCEPT !.known = pinned, !.pc = "pin"])
  /\ UNCHANGED <<catalog, vol, creds, backups, place, tainted>>

\* apply_env_update: the row first.
apply_env_update(r) ==
  /\ act[r].pc = "pin"
  /\ pinned' = act[r].known
  /\ Goto(r, "deploy") /\ Fine
  /\ UNCHANGED <<catalog, vol, home, up, creds, backups, restarted>>

\* Docker Compose replaces the container by one with this env and keeps its anonymous volume.
\* When it fails the old container may still be there: a repair then starts it. A change to
\* another cluster disturbs whoever is at work.
Redeploy(r) ==
  LET next == IF act[r].known THEN "named" ELSE "anon"
      differs == home # next /\ vol.named # vol.anon IN
  /\ act[r].pc = "deploy" /\ UNCHANGED vol
  /\ \/ Fine /\ home' = next /\ up' = TRUE
     \/ Fault /\ home' = next /\ up' = FALSE
     \/ Fault /\ home' = home /\ up' = (up \/ act[r].op = "repair")
  /\ IF home' # home \/ (up' /\ ~up) THEN Starts(home') ELSE UNCHANGED restarted
  /\ IF home' = next /\ differs
     THEN /\ act' = [q \in Requests |-> IF q = r THEN [Idle EXCEPT !.pc = "done"]
                                        ELSE [act[q] EXCEPT !.alone = @ /\ ~Active(q)]]
          /\ tainted' = DBs \cup Users
     ELSE Done(r) /\ UNCHANGED tainted
  /\ UNCHANGED <<catalog, pinned, creds, backups>>

-----------------------------------------------------------------------------
\* An application changes rows of its database.
Write(d) ==
  /\ up /\ engine.dbs[d] # NONE /\ engine.dbs[d].rows.ver \in {"empty", "old"}
  /\ vol' = [vol EXCEPT ![home].dbs[d].rows = [of |-> d, ver |-> "new"]]
  /\ UNCHANGED <<catalog, creds, backups, place, act, tainted, events>>

Next ==
  \/ \E d \in DBs : Write(d)
  \/ \E r \in Requests :
       \/ Create(r) \/ Delete(r) \/ ChangePassword(r) \/ SetPrivileges(r)
       \/ Backup(r) \/ Restore(r) \/ RestoreUpload(r) \/ Repair(r) \/ UpdateEnv(r)
       \/ RoleExists(r) \/ AlterRole(r) \/ CreateInEngine(r) \/ StoreCreated(r)
       \/ PurgeBlobs(r) \/ ReadOwner(r) \/ DropDatabase(r) \/ DropUser(r) \/ ForgetDatabase(r)
       \/ OwnerOf(r) \/ AlterUser(r) \/ StoreChanged(r) \/ OwnerToAlter(r) \/ AlterPrivileges(r)
       \/ execute_cluster_backup(r) \/ SaveDump(r)
       \/ Download(r) \/ drop_and_recreate_pg_db(r) \/ restore_postgres(r) \/ fix_object_ownership(r)
       \/ restore_mysql(r) \/ run_mysql(r) \/ execute_mongo_restore(r)
       \/ Quiesce(r) \/ run_copy_container(r) \/ apply_env_update(r) \/ Redeploy(r)
       \/ NotRunning(r)

Spec == Init /\ [][Next]_vars

-----------------------------------------------------------------------------
OpNames == {"none", "create", "delete", "password", "privileges", "backup", "restore", "upload", "repair", "env"}
Steps == InContainer \cup {"new", "done", "store", "purge", "forget", "save", "download", "stop", "copy", "pin", "deploy"}

RoleRow == [pass : Passwords \cup {NONE}, createdb : BOOLEAN]
DatabaseRow == [users : SUBSET Users, objects : {"users", "superuser"}, rows : Rows]
Cluster == [roles : [Roles -> RoleRow], dbs : [DBs -> DatabaseRow \cup {NONE}]]
Dump == [DBs -> Rows \cup {NONE}]
BackupRow == [target : DBs \cup {NONE}, rows : Dump, row : BOOLEAN, blob : BOOLEAN]
Credentials == [user : Users, pass : Passwords]
Local == [op : OpNames, pc : Steps, db : DBs \cup {NONE}, user : Users \cup {NONE}, pass : Passwords \cup {NONE},
          known : BOOLEAN, from : Passwords \cup {NONE}, rows : {NONE} \cup Dump \cup Rows, todo : SUBSET DBs,
          purge : SUBSET Passwords, foot : SUBSET (DBs \cup Users), alone : BOOLEAN]

\* A volume without a cluster, or with a part of one, holds none; what is not there is no row.
ASSUME NoneIsNothing ==
  /\ NONE \notin Cluster /\ Torn \notin Cluster
  /\ NONE \notin BackupRow /\ NONE \notin DatabaseRow /\ NONE \notin Credentials

(* Types, and the container's volume always holds a whole cluster: a copy     *)
(* that was torn never becomes its home (run_copy_container, plan_repair).    *)
DatabasesTypeOK ==
  /\ catalog \in Catalogs /\ engine \in Cluster
  /\ vol \in [Volumes -> Cluster \cup {NONE, Torn}]
  /\ home \in Volumes /\ pinned \in BOOLEAN /\ up \in BOOLEAN /\ restarted \in BOOLEAN
  /\ creds \in [DBs -> Credentials \cup {NONE}]
  /\ backups \in [Passwords -> BackupRow \cup {NONE}]
  /\ act \in [Requests -> Local]
  /\ tainted \subseteq DBs \cup Users

Settled(x) == x \notin tainted /\ \A r \in Requests : Active(r) => x \notin act[r].foot

(* Credentials: the panel's password of a database opens it, as long as every *)
(* request on that database or its user answered ok and none overlapped:      *)
(* create, change_password, delete and restore keep engine and panel in step, *)
(* for a user shared by two databases and across the move of the cluster.     *)
CredentialsWork ==
  \A d \in DBs :
    creds[d] # NONE /\ Settled(d) /\ Settled(creds[d].user) =>
      engine.roles[Role(d, creds[d].user)].pass = creds[d].pass

(* Agreement: after requests that answered ok and did not overlap a database  *)
(* has credentials exactly when it exists, its user may use it, and its       *)
(* objects belong to that user and not to the superuser that restored them.   *)
CalmDatabasesAgree ==
  \A d \in DBs :
    Settled(d) =>
      /\ creds[d] # NONE <=> engine.dbs[d] # NONE
      /\ creds[d] # NONE =>
           /\ Settled(creds[d].user) => creds[d].user \in engine.dbs[d].users
           /\ engine.dbs[d].objects = "users"

(* Provenance: dumps, restores and moves never put the rows of one database   *)
(* into another, in an engine or in a backup, whatever fails or overlaps.     *)
OwnRows ==
  \A d \in DBs :
    /\ \A v \in Volumes :
         vol[v] \notin {NONE, Torn} /\ vol[v].dbs[d] # NONE => vol[v].dbs[d].rows.of = d
    /\ \A b \in Passwords :
         backups[b] # NONE /\ backups[b].rows[d] # NONE => backups[b].rows[d].of = d

(* The move: the container changes to the named volume only when it holds     *)
(* what the anonymous one does, down to the last write, unless the old        *)
(* container was started again beside the copy.                               *)
MoveLosesNothing ==
  [][home = "anon" /\ home' = "named" => restarted \/ vol.named = vol.anon]_vars
=============================================================================
