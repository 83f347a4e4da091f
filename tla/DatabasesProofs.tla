-------------------------- MODULE DatabasesProofs --------------------------
(* Theorems about Databases, for any set of requests, databases and users.    *)
EXTENDS Databases, TLAPS

-----------------------------------------------------------------------------
(* The inductive invariant.                                                  *)

\* Rows kept for a database are its own.
Own(dump) == \A d \in DBs : dump[d] # NONE => dump[d].of = d

\* A cluster: every database holds rows of its own, and in PostgreSQL it has an owner.
Good(c) ==
  /\ c \in Cluster
  /\ \A d \in DBs : c.dbs[d] # NONE => c.dbs[d].rows.of = d /\ (Postgres => c.dbs[d].users # {})

\* Steps of a request about a database, those that name its user too, and those of a move.
OnDatabase == {"role", "alter", "createdb", "store", "purge", "owner", "drop", "dropuser", "forget", "change",
               "privilege", "download", "recreate", "load", "fix", "mongo"}
WithUser == {"role", "alter", "createdb", "store", "change", "download", "recreate"}
Moving == {"stop", "copy", "pin", "deploy"}

\* What a request carries at each step.
ShapeOf(q) ==
  /\ q.pc \in OnDatabase => q.db \in DBs
  /\ q.pc \in WithUser => q.user \in Users
  /\ q.pc \in {"dump", "save"} => q.rows \in Dump /\ Own(q.rows)
  /\ q.pc \in {"recreate", "load"} => q.rows \in Rows /\ q.rows.of = q.db
  /\ q.pc = "mongo" => ~Postgres /\ (q.rows = NONE \/ (q.rows \in Rows /\ q.rows.of = q.db))
  /\ q.pc \in {"stop", "copy"} => q.op = "repair"
  /\ q.pc \in Moving => Postgres
  /\ q.pc = "owner" /\ q.op # "password" => Postgres

\* The backups a request has read are still known, and what it moves the container to is
\* a whole cluster.
RefersOf(q) ==
  /\ q.pc = "download" => q.from \in Passwords /\ backups[q.from] # NONE
  /\ \A b \in q.purge : backups[b] # NONE
  /\ q.pc \in {"pin", "deploy"} /\ q.known => vol["named"] \in Cluster

RequestsOK == \A r \in Requests : ShapeOf(act[r]) /\ RefersOf(act[r])

VolumesOK == \A v \in Volumes : vol[v] \notin {NONE, Torn} => Good(vol[v])

BackupsOK == \A b \in Passwords : backups[b] # NONE => Own(backups[b].rows)

\* Only PostgreSQL moves. The container is, or will be after its next deploy, where a whole
\* cluster is.
PlaceOK ==
  /\ IF Postgres THEN vol["anon"] \in Cluster ELSE home = "named"
  /\ home = "named" \/ pinned => vol["named"] \in Cluster

\* Before the container was started again beside a copy, the copy is as good as the
\* original, and it stands still while it is copied.
MoveOK ==
  home = "anon" /\ ~restarted =>
    /\ vol["named"] \in Cluster => vol["named"] = vol["anon"] /\ ~up
    /\ \A r \in Requests : act[r].pc = "copy" => ~up

TypesOK ==
  /\ catalog \in Catalogs
  /\ vol \in [Volumes -> Cluster \cup {NONE, Torn}]
  /\ home \in Volumes /\ pinned \in BOOLEAN /\ up \in BOOLEAN /\ restarted \in BOOLEAN
  /\ creds \in [DBs -> Credentials \cup {NONE}]
  /\ backups \in [Passwords -> BackupRow \cup {NONE}]
  /\ act \in [Requests -> Local]
  /\ tainted \subseteq DBs \cup Users

DatabasesInv == TypesOK /\ RequestsOK /\ VolumesOK /\ BackupsOK /\ PlaceOK /\ MoveOK

-----------------------------------------------------------------------------
(* Clusters.                                                                 *)

LEMMA RolesTyped ==
  ASSUME NEW f \in [Roles -> RoleRow], NEW k, NEW x, k \in Roles => x \in RoleRow
  PROVE  [f EXCEPT ![k] = x] \in [Roles -> RoleRow]
OBVIOUS

LEMMA SetRole ==
  ASSUME NEW c, Good(c), NEW k, NEW x, k \in Roles => x \in RoleRow
  PROVE  Good([c EXCEPT !.roles[k] = x])
<1>1. c \in Cluster /\ c.roles \in [Roles -> RoleRow] /\ c.dbs \in [DBs -> DatabaseRow \cup {NONE}]
  BY DEF Good, Cluster
<1> DEFINE f == [c.roles EXCEPT ![k] = x]
<1>2. f \in [Roles -> RoleRow]
  BY <1>1, RolesTyped
<1>3. [c EXCEPT !.roles[k] = x] = [c EXCEPT !.roles = f]
  BY <1>1 DEF Cluster
<1> HIDE DEF f
<1>4. [c EXCEPT !.roles = f] \in Cluster /\ [c EXCEPT !.roles = f].dbs = c.dbs
  BY <1>1, <1>2 DEF Cluster
<1> QED BY <1>3, <1>4 DEF Good

\* A value that database d may take.
Fits(d, x) == x = NONE \/ (x \in DatabaseRow /\ x.rows.of = d /\ (Postgres => x.users # {}))

LEMMA SetDatabase ==
  ASSUME NEW c, Good(c), NEW d \in DBs, NEW x, Fits(d, x)
  PROVE  Good([c EXCEPT !.dbs[d] = x])
<1>1. c \in Cluster /\ c.roles \in [Roles -> RoleRow] /\ c.dbs \in [DBs -> DatabaseRow \cup {NONE}]
  BY DEF Good, Cluster
<1> DEFINE f == [c.dbs EXCEPT ![d] = x]
<1>2. f \in [DBs -> DatabaseRow \cup {NONE}]
  BY <1>1 DEF Fits
<1>3. [c EXCEPT !.dbs[d] = x] = [c EXCEPT !.dbs = f]
  BY <1>1 DEF Cluster
<1>5. \A e \in DBs : f[e] # NONE => f[e].rows.of = e /\ (Postgres => f[e].users # {})
  BY <1>1 DEF Good, Fits
<1> HIDE DEF f
<1>4. [c EXCEPT !.dbs = f] \in Cluster /\ [c EXCEPT !.dbs = f].dbs = f
  BY <1>1, <1>2 DEF Cluster
<1> QED BY <1>3, <1>4, <1>5 DEF Good

\* What Good says of one database.
LEMMA Inside ==
  ASSUME NEW c, Good(c), NEW d \in DBs
  PROVE  /\ c.roles \in [Roles -> RoleRow]
         /\ c.dbs[d] = NONE \/ c.dbs[d] \in DatabaseRow
         /\ Fits(d, c.dbs[d])
BY DEF Good, Cluster, Fits

LEMMA EmptyFits ==
  ASSUME NEW d \in DBs, NEW us \in SUBSET Users, Postgres => us # {}
  PROVE  Database(us, Empty(d)) \in DatabaseRow /\ Fits(d, Database(us, Empty(d)))
<1>1. Empty(d) \in Rows /\ Empty(d).of = d
  BY DEF Empty, Rows, Versions
<1> QED BY <1>1 DEF Database, DatabaseRow, Fits

-----------------------------------------------------------------------------
(* What a step does to the requests.                                         *)

\* Request q stays where it is, though it may have company now.
Same(q) ==
  /\ act'[q].op = act[q].op /\ act'[q].pc = act[q].pc /\ act'[q].db = act[q].db /\ act'[q].user = act[q].user
  /\ act'[q].rows = act[q].rows /\ act'[q].known = act[q].known /\ act'[q].from = act[q].from
  /\ act'[q].purge = act[q].purge

\* Only request r moves.
Only(r) == act' \in [Requests -> Local] /\ \A q \in Requests \ {r} : Same(q)

\* It keeps what it carries and goes on to step pc.
Proceeds(r, pc) ==
  /\ act'[r].pc = pc /\ act'[r].op = act[r].op /\ act'[r].db = act[r].db /\ act'[r].user = act[r].user
  /\ act'[r].rows = act[r].rows /\ act'[r].known = act[r].known /\ act'[r].from = act[r].from
  /\ act'[r].purge = act[r].purge

\* It ends.
Ends(r) ==
  /\ Only(r) /\ tainted' \subseteq DBs \cup Users
  /\ act'[r].pc = "done" /\ act'[r].purge = {}

LEMMA IdleLocal ==
  /\ Idle \in Local /\ [Idle EXCEPT !.pc = "done"] \in Local
  /\ [Idle EXCEPT !.pc = "done"].pc = "done" /\ [Idle EXCEPT !.pc = "done"].purge = {}
<1>1. Idle \in Local
  BY DEF Idle, Local, OpNames, Steps
<1>2. "done" \in Steps
  BY DEF Steps
<1> QED BY <1>1, <1>2 DEF Idle, Local

LEMMA Goes ==
  ASSUME TypesOK, NEW r \in Requests, NEW pc \in Steps, Goto(r, pc)
  PROVE  Only(r) /\ Proceeds(r, pc) /\ tainted' = tainted
<1>1. act \in [Requests -> Local] /\ act[r] \in Local
  BY DEF TypesOK
<1>2. PICK k \in Local : act[r] = k
  BY <1>1
<1> DEFINE x == [k EXCEPT !.pc = pc]
<1>3. act' = [act EXCEPT ![r] = x]
  BY <1>2 DEF Goto
<1>4. /\ x \in Local /\ x.pc = pc /\ x.op = k.op /\ x.db = k.db /\ x.user = k.user
      /\ x.rows = k.rows /\ x.known = k.known /\ x.from = k.from /\ x.purge = k.purge
  BY DEF Local
<1> HIDE DEF x
<1> QED BY <1>1, <1>2, <1>3, <1>4 DEF Only, Same, Proceeds, Goto

LEMMA DoneEnds ==
  ASSUME TypesOK, NEW r \in Requests, Done(r), tainted' \subseteq DBs \cup Users
  PROVE  Ends(r)
<1> DEFINE x == [Idle EXCEPT !.pc = "done"]
<1>1. x \in Local /\ x.pc = "done" /\ x.purge = {}
  BY IdleLocal
<1>2. act' = [act EXCEPT ![r] = x]
  BY DEF Done
<1> HIDE DEF x
<1> QED BY <1>1, <1>2 DEF TypesOK, Only, Same, Ends

LEMMA FootOf ==
  ASSUME TypesOK, NEW r \in Requests
  PROVE  act[r].foot \subseteq DBs \cup Users /\ tainted \cup act[r].foot \subseteq DBs \cup Users
<1>1. act[r] \in Local
  BY DEF TypesOK
<1>2. act[r].foot \subseteq DBs \cup Users
  BY <1>1 DEF Local
<1> QED BY <1>2 DEF TypesOK

LEMMA FailEnds ==
  ASSUME TypesOK, NEW r \in Requests, Fail(r)
  PROVE  Ends(r)
BY FootOf, DoneEnds DEF Fail

LEMMA SucceedEnds ==
  ASSUME TypesOK, NEW r \in Requests, NEW settled, Succeed(r, settled)
  PROVE  Ends(r)
<1>1. tainted' \subseteq DBs \cup Users
  BY FootOf DEF Succeed, TypesOK
<1> QED BY <1>1, DoneEnds DEF Succeed

LEMMA NotAlone ==
  ASSUME NEW k \in Local
  PROVE  /\ [k EXCEPT !.alone = FALSE] \in Local
         /\ [k EXCEPT !.alone = FALSE].op = k.op /\ [k EXCEPT !.alone = FALSE].pc = k.pc
         /\ [k EXCEPT !.alone = FALSE].db = k.db /\ [k EXCEPT !.alone = FALSE].user = k.user
         /\ [k EXCEPT !.alone = FALSE].rows = k.rows /\ [k EXCEPT !.alone = FALSE].known = k.known
         /\ [k EXCEPT !.alone = FALSE].from = k.from /\ [k EXCEPT !.alone = FALSE].purge = k.purge
BY DEF Local

\* A request that is no longer alone.
LEMMA InCompany ==
  ASSUME TypesOK, NEW q \in Requests
  PROVE  /\ [act[q] EXCEPT !.alone = FALSE] \in Local /\ act[q] \in Local
         /\ [act[q] EXCEPT !.alone = FALSE].op = act[q].op /\ [act[q] EXCEPT !.alone = FALSE].pc = act[q].pc
         /\ [act[q] EXCEPT !.alone = FALSE].db = act[q].db /\ [act[q] EXCEPT !.alone = FALSE].user = act[q].user
         /\ [act[q] EXCEPT !.alone = FALSE].rows = act[q].rows
         /\ [act[q] EXCEPT !.alone = FALSE].known = act[q].known
         /\ [act[q] EXCEPT !.alone = FALSE].from = act[q].from
         /\ [act[q] EXCEPT !.alone = FALSE].purge = act[q].purge
<1>1. act[q] \in Local
  BY DEF TypesOK
<1> QED BY <1>1, NotAlone

\* It carries what local does.
Carries(r, local) ==
  /\ act'[r].pc = local.pc /\ act'[r].db = local.db /\ act'[r].user = local.user
  /\ act'[r].rows = local.rows /\ act'[r].known = local.known /\ act'[r].from = local.from
  /\ act'[r].purge = local.purge

LEMMA Arriving ==
  ASSUME TypesOK, NEW r \in Requests, NEW op \in OpNames, NEW foot \in SUBSET (DBs \cup Users),
         NEW local \in Local, Arrives(r, op, foot, local)
  PROVE  Only(r) /\ act'[r].op = op /\ Carries(r, local) /\ events' = events
<1> DEFINE meets == {q \in Requests : Active(q) /\ act[q].foot \cap foot # {}}
           calm == (meets = {})
           x == [local EXCEPT !.op = op, !.foot = foot, !.alone = calm]
           other(q) == [act[q] EXCEPT !.alone = FALSE]
<1>1. act' = [q \in Requests |-> IF q = r THEN x ELSE IF q \in meets THEN other(q) ELSE act[q]]
  BY DEF Arrives
<1>2. calm \in BOOLEAN
  OBVIOUS
<1> HIDE DEF calm, meets
<1>3. /\ x \in Local /\ x.op = op /\ x.pc = local.pc /\ x.db = local.db /\ x.user = local.user
      /\ x.rows = local.rows /\ x.known = local.known /\ x.from = local.from /\ x.purge = local.purge
  BY <1>2 DEF Local
<1> HIDE DEF x
<1>4. ASSUME NEW q \in Requests
      PROVE  /\ other(q) \in Local /\ act[q] \in Local
             /\ other(q).op = act[q].op /\ other(q).pc = act[q].pc /\ other(q).db = act[q].db
             /\ other(q).user = act[q].user /\ other(q).rows = act[q].rows /\ other(q).known = act[q].known
             /\ other(q).from = act[q].from /\ other(q).purge = act[q].purge
  BY InCompany
<1> HIDE DEF other
<1>5. act' \in [Requests -> Local]
  BY <1>1, <1>3, <1>4
<1>6. ASSUME NEW q \in Requests \ {r}
      PROVE  Same(q)
  BY <1>1, <1>4 DEF Same
<1>7. act'[r] = x
  BY <1>1
<1> QED BY <1>3, <1>5, <1>6, <1>7 DEF Only, Carries, Arrives, Fine

LEMMA Learning ==
  ASSUME TypesOK, NEW r \in Requests, NEW u \in Users \cup {NONE}, NEW pc \in Steps, Learns(r, u, pc)
  PROVE  /\ Only(r) /\ tainted' = tainted
         /\ act'[r].pc = pc /\ act'[r].user = u /\ act'[r].op = act[r].op /\ act'[r].db = act[r].db
         /\ act'[r].purge = act[r].purge
<1> DEFINE meets == {q \in Requests \ {r} : Active(q) /\ u \in act[q].foot}
           calm == act[r].alone /\ meets = {}
           wide == act[r].foot \cup ({u} \ {NONE})
           x == [act[r] EXCEPT !.user = u, !.pc = pc, !.foot = wide, !.alone = calm]
           other(q) == [act[q] EXCEPT !.alone = FALSE]
<1>1. act' = [q \in Requests |-> IF q = r THEN x ELSE IF q \in meets THEN other(q) ELSE act[q]]
  BY DEF Learns
<1>2. calm \in BOOLEAN /\ wide \in SUBSET (DBs \cup Users)
  BY FootOf
<1> HIDE DEF calm, meets, wide
<1>3. /\ x \in Local /\ x.pc = pc /\ x.user = u /\ x.op = act[r].op /\ x.db = act[r].db
      /\ x.purge = act[r].purge
  <2>1. PICK k \in Local : act[r] = k
    BY DEF TypesOK
  <2> QED BY <1>2, <2>1 DEF Local
<1> HIDE DEF x
<1>4. ASSUME NEW q \in Requests
      PROVE  /\ other(q) \in Local /\ act[q] \in Local
             /\ other(q).op = act[q].op /\ other(q).pc = act[q].pc /\ other(q).db = act[q].db
             /\ other(q).user = act[q].user /\ other(q).rows = act[q].rows /\ other(q).known = act[q].known
             /\ other(q).from = act[q].from /\ other(q).purge = act[q].purge
  BY InCompany
<1> HIDE DEF other
<1>5. act' \in [Requests -> Local]
  BY <1>1, <1>3, <1>4
<1>6. ASSUME NEW q \in Requests \ {r}
      PROVE  Same(q)
  BY <1>1, <1>4 DEF Same
<1>7. act'[r] = x
  BY <1>1
<1> QED BY <1>3, <1>5, <1>6, <1>7 DEF Only, Learns

-----------------------------------------------------------------------------
(* A step of one request that leaves the container where it is.              *)

LEMMA Invariants ==
  ASSUME DatabasesInv, NEW r \in Requests
  PROVE  TypesOK /\ act[r] \in Local /\ ShapeOf(act[r]) /\ RefersOf(act[r])
BY DEF DatabasesInv, TypesOK, RequestsOK

\* The container's volume holds a whole cluster.
LEMMA EngineGood ==
  ASSUME DatabasesInv
  PROVE  Good(engine) /\ engine \in Cluster /\ home \in Volumes
<1>1. engine \in Cluster /\ home \in Volumes
  BY DEF DatabasesInv, TypesOK, PlaceOK, Volumes, engine
<1>2. vol[home] \notin {NONE, Torn}
  BY <1>1, NoneIsNothing DEF engine
<1>3. Good(vol[home])
  BY <1>1, <1>2 DEF DatabasesInv, VolumesOK
<1> QED BY <1>1, <1>3 DEF engine

\* The engine, if it runs, may change the cluster it is on.
EngineStep ==
  /\ UNCHANGED <<catalog, home, pinned, up, restarted>>
  /\ vol' = vol \/ (up /\ \E c \in Cluster : Good(c) /\ vol' = [vol EXCEPT ![home] = c])

\* The panel's tables stay typed, and no backup is forgotten.
TableStep ==
  /\ creds' \in [DBs -> Credentials \cup {NONE}]
  /\ backups' \in [Passwords -> BackupRow \cup {NONE}]
  /\ BackupsOK'
  /\ \A b \in Passwords : backups[b] # NONE => backups'[b] # NONE

\* Nothing of the tables changes.
Calm == EngineStep /\ UNCHANGED <<creds, backups>>

LEMMA CalmStep ==
  ASSUME DatabasesInv, Calm
  PROVE  EngineStep /\ TableStep
BY DEF DatabasesInv, TypesOK, BackupsOK, Own, Calm, TableStep

\* What a request may have after a step that starts no copy.
Welcome(q) == ShapeOf(act'[q]) /\ RefersOf(act'[q]) /\ act'[q].pc # "copy"

LEMMA AnyStepKeeps ==
  ASSUME DatabasesInv, act' \in [Requests -> Local], \A q \in Requests : Same(q) \/ Welcome(q),
         tainted' \subseteq DBs \cup Users, EngineStep, TableStep
  PROVE  DatabasesInv'
<1>0. Good(engine) /\ engine \in Cluster /\ home \in Volumes
  BY EngineGood
<1>v. \/ vol' = vol
      \/ up /\ \E c \in Cluster : Good(c) /\ vol' = [vol EXCEPT ![home] = c]
  BY DEF EngineStep
<1>w. /\ vol \in [Volumes -> Cluster \cup {NONE, Torn}]
      /\ vol' \in [Volumes -> Cluster \cup {NONE, Torn}]
      /\ \A v \in Volumes : vol[v] \in Cluster => vol'[v] \in Cluster
  BY <1>0, <1>v DEF DatabasesInv, TypesOK
<1>1. TypesOK'
  BY <1>w DEF DatabasesInv, TypesOK, EngineStep, TableStep
<1>2. RequestsOK'
  <2>1. ASSUME NEW q \in Requests
        PROVE  ShapeOf(act'[q])
    <3>1. CASE Welcome(q)
      BY <3>1 DEF Welcome
    <3>2. CASE Same(q)
      BY <3>2, Invariants DEF Same, ShapeOf
    <3> QED BY <3>1, <3>2
  <2>2. ASSUME NEW q \in Requests
        PROVE  RefersOf(act'[q])
    <3>1. CASE Welcome(q)
      BY <3>1 DEF Welcome
    <3>2. CASE Same(q)
      BY <3>2, Invariants DEF Same, RefersOf
    <3> QED BY <3>1, <3>2
  <2>3. ASSUME NEW q \in Requests
        PROVE  ShapeOf(act[q])'
    <3>1. Postgres' = Postgres
      BY DEF EngineStep, Postgres
    <3> QED BY <2>1, <3>1 DEF ShapeOf
  <2>4. ASSUME NEW q \in Requests
        PROVE  RefersOf(act[q])'
    <3>1. act'[q].purge \subseteq Passwords
      BY DEF Local
    <3>2. "named" \in Volumes
      BY DEF Volumes
    <3> QED BY <2>2, <3>1, <3>2, <1>w DEF RefersOf, TableStep
  <2> QED BY <2>3, <2>4 DEF RequestsOK
<1>3. VolumesOK'
  <2>1. \A c : Good(c) => Good(c)'
    BY DEF Good, EngineStep, Postgres
  <2>2. ASSUME NEW v \in Volumes, vol'[v] \notin {NONE, Torn}
        PROVE  Good(vol'[v])
    <3>1. vol[v] \notin {NONE, Torn} => Good(vol[v])
      BY DEF DatabasesInv, VolumesOK
    <3> QED BY <2>2, <3>1, <1>0, <1>v, <1>w
  <2> QED BY <2>1, <2>2 DEF VolumesOK, Good, EngineStep, Postgres
<1>4. BackupsOK'
  BY DEF TableStep
<1>5. PlaceOK'
  BY <1>w DEF DatabasesInv, PlaceOK, EngineStep, Volumes, Postgres
<1>6. MoveOK'
  <2> SUFFICES ASSUME home' = "anon", ~restarted'
               PROVE  /\ vol'["named"] \in Cluster => vol'["named"] = vol'["anon"] /\ ~up'
                      /\ \A q \in Requests : act'[q].pc = "copy" => ~up'
    BY DEF MoveOK
  <2>1. home = "anon" /\ ~restarted /\ up' = up
    BY DEF EngineStep
  <2>2. /\ vol["named"] \in Cluster => vol["named"] = vol["anon"] /\ ~up
        /\ \A q \in Requests : act[q].pc = "copy" => ~up
    BY <2>1 DEF DatabasesInv, MoveOK
  <2>3. vol'["named"] \in Cluster => vol'["named"] = vol'["anon"] /\ ~up'
    BY <2>1, <2>2, <1>v, <1>w DEF Volumes
  <2>4. ASSUME NEW q \in Requests, act'[q].pc = "copy"
        PROVE  act[q].pc = "copy"
    BY <2>4 DEF Same, Welcome
  <2> QED BY <2>1, <2>2, <2>3, <2>4
<1> QED BY <1>1, <1>2, <1>3, <1>4, <1>5, <1>6 DEF DatabasesInv

LEMMA StepKeeps ==
  ASSUME DatabasesInv, NEW r \in Requests, Only(r), ShapeOf(act'[r]), RefersOf(act'[r]), act'[r].pc # "copy",
         tainted' \subseteq DBs \cup Users, EngineStep, TableStep
  PROVE  DatabasesInv'
BY AnyStepKeeps DEF Only, Welcome

LEMMA EndKeeps ==
  ASSUME DatabasesInv, NEW r \in Requests, Ends(r), EngineStep, TableStep
  PROVE  DatabasesInv'
<1>1. ShapeOf(act'[r])
  BY DEF Ends, ShapeOf, OnDatabase, WithUser, Moving
<1>2. RefersOf(act'[r])
  BY DEF Ends, RefersOf
<1> QED BY <1>1, <1>2, StepKeeps DEF Ends

\* The steps a request goes on to with what it carries.
LEMMA GoKeeps ==
  ASSUME DatabasesInv, NEW r \in Requests, NEW pc \in Steps \ {"download", "copy", "pin", "deploy"}, Goto(r, pc),
         Proceeds(r, pc) => ShapeOf(act'[r]), EngineStep, TableStep
  PROVE  DatabasesInv'
<1>1. TypesOK /\ RefersOf(act[r]) /\ tainted \subseteq DBs \cup Users
  BY Invariants DEF TypesOK
<1>2. Only(r) /\ Proceeds(r, pc) /\ tainted' = tainted
  BY <1>1, Goes
<1>3. RefersOf(act'[r])
  BY <1>1, <1>2 DEF RefersOf, Proceeds
<1>4. act'[r].pc # "copy"
  BY <1>2 DEF Proceeds
<1> QED BY <1>1, <1>2, <1>3, <1>4, StepKeeps

LEMMA FailKeeps ==
  ASSUME DatabasesInv, NEW r \in Requests, Fail(r), Calm
  PROVE  DatabasesInv'
BY Invariants, CalmStep, FailEnds, EndKeeps

-----------------------------------------------------------------------------
(* Requests arrive.                                                          *)

LEMMA FootTyped ==
  ASSUME DatabasesInv, NEW d \in DBs
  PROVE  {d} \cup UsersOf(d) \in SUBSET (DBs \cup Users)
<1>1. creds[d] = NONE \/ creds[d] \in Credentials
  BY DEF DatabasesInv, TypesOK
<1>2. engine.dbs[d] = NONE \/ engine.dbs[d] \in DatabaseRow
  BY EngineGood, Inside
<1> QED BY <1>1, <1>2 DEF UsersOf, Credentials, DatabaseRow

LEMMA ArriveKeeps ==
  ASSUME DatabasesInv, NEW r \in Requests, NEW op \in OpNames, NEW foot \in SUBSET (DBs \cup Users),
         NEW local \in Local, Arrives(r, op, foot, local),
         act'[r].op = op /\ Carries(r, local) => ShapeOf(act'[r]), RefersOf(local), local.pc # "copy",
         UNCHANGED <<catalog, vol, creds, backups, place, tainted>>
  PROVE  DatabasesInv'
<1>1. TypesOK /\ tainted' \subseteq DBs \cup Users
  BY Invariants DEF TypesOK
<1>2. Only(r) /\ act'[r].op = op /\ Carries(r, local)
  BY <1>1, Arriving
<1>3. RefersOf(act'[r]) /\ act'[r].pc # "copy"
  BY <1>2 DEF Carries, RefersOf
<1>4. Calm
  BY DEF Calm, EngineStep, place
<1> QED BY <1>1, <1>2, <1>3, <1>4, CalmStep, StepKeeps

LEMMA CreateKeeps ==
  ASSUME DatabasesInv, NEW r \in Requests, Create(r)
  PROVE  DatabasesInv'
<1>1. PICK d \in DBs, u \in Users :
        /\ Arrives(r, "create", {d, u} \cup UsersOf(d),
                   [Idle EXCEPT !.db = d, !.user = u, !.pc = IF Postgres THEN "role" ELSE "createdb"])
        /\ UNCHANGED <<catalog, vol, creds, backups, place, tainted>>
  BY DEF Create
<1> DEFINE local == [Idle EXCEPT !.db = d, !.user = u, !.pc = IF Postgres THEN "role" ELSE "createdb"]
           foot == {d, u} \cup UsersOf(d)
<1>2. /\ local \in Local /\ local.db = d /\ local.user = u /\ local.purge = {}
      /\ local.pc \in {"role", "createdb"}
  <2>1. {"role", "createdb"} \subseteq Steps
    BY DEF Steps, InContainer
  <2>2. Idle \in Local /\ Idle.purge = {}
    BY IdleLocal DEF Idle
  <2> QED BY <2>1, <2>2 DEF Local
<1>3. foot \in SUBSET (DBs \cup Users) /\ "create" \in OpNames
  BY FootTyped DEF OpNames
<1>4. Arrives(r, "create", foot, local)
  BY <1>1
<1> HIDE DEF local, foot
<1>5. RefersOf(local) /\ local.pc # "copy"
  BY <1>2 DEF RefersOf
<1>6. act'[r].op = "create" /\ Carries(r, local) => ShapeOf(act'[r])
  BY <1>2 DEF Carries, ShapeOf, OnDatabase, WithUser, Moving
<1> QED BY <1>1, <1>2, <1>3, <1>4, <1>5, <1>6, ArriveKeeps

LEMMA DeleteKeeps ==
  ASSUME DatabasesInv, NEW r \in Requests, Delete(r)
  PROVE  DatabasesInv'
<1>1. PICK d \in DBs, too \in BOOLEAN :
        /\ Arrives(r, "delete", {d} \cup UsersOf(d),
                   [Idle EXCEPT !.db = d, !.pc = "purge",
                      !.purge = IF too THEN {b \in Passwords : backups[b] # NONE /\ backups[b].row /\ backups[b].target = d} ELSE {}])
        /\ UNCHANGED <<catalog, vol, creds, backups, place, tainted>>
  BY DEF Delete
<1> DEFINE mine == IF too THEN {b \in Passwords : backups[b] # NONE /\ backups[b].row /\ backups[b].target = d} ELSE {}
           local == [Idle EXCEPT !.db = d, !.pc = "purge", !.purge = mine]
           foot == {d} \cup UsersOf(d)
<1>2. mine \in SUBSET Passwords /\ \A b \in mine : backups[b] # NONE
  OBVIOUS
<1>3. foot \in SUBSET (DBs \cup Users) /\ "delete" \in OpNames
  BY FootTyped DEF OpNames
<1>4. Arrives(r, "delete", foot, local)
  BY <1>1
<1> HIDE DEF mine, foot
<1>5. local \in Local /\ local.db = d /\ local.purge = mine /\ local.pc = "purge"
  <2>1. "purge" \in Steps
    BY DEF Steps
  <2>2. Idle \in Local
    BY IdleLocal
  <2> QED BY <1>2, <2>1, <2>2 DEF Local
<1> HIDE DEF local
<1>6. RefersOf(local) /\ local.pc # "copy"
  BY <1>2, <1>5 DEF RefersOf
<1>7. act'[r].op = "delete" /\ Carries(r, local) => ShapeOf(act'[r])
  BY <1>5 DEF Carries, ShapeOf, OnDatabase, WithUser, Moving
<1> QED BY <1>1, <1>3, <1>4, <1>5, <1>6, <1>7, ArriveKeeps

LEMMA ChangePasswordKeeps ==
  ASSUME DatabasesInv, NEW r \in Requests, ChangePassword(r)
  PROVE  DatabasesInv'
<1>1. PICK d \in DBs :
        /\ Arrives(r, "password", {d} \cup UsersOf(d),
                   [Idle EXCEPT !.db = d, !.user = IF creds[d] = NONE THEN NONE ELSE creds[d].user,
                                !.pc = IF creds[d] # NONE THEN "change" ELSE "owner"])
        /\ UNCHANGED <<catalog, vol, creds, backups, place, tainted>>
  BY DEF ChangePassword
<1> DEFINE u == IF creds[d] = NONE THEN NONE ELSE creds[d].user
           pc == IF creds[d] # NONE THEN "change" ELSE "owner"
           local == [Idle EXCEPT !.db = d, !.user = u, !.pc = pc]
           foot == {d} \cup UsersOf(d)
<1>2. creds[d] = NONE \/ creds[d] \in Credentials
  BY DEF DatabasesInv, TypesOK
<1>3. u \in Users \cup {NONE} /\ pc \in {"change", "owner"} /\ (pc = "change" => u \in Users)
  BY <1>2 DEF Credentials
<1>4. foot \in SUBSET (DBs \cup Users) /\ "password" \in OpNames
  BY FootTyped DEF OpNames
<1>5. Arrives(r, "password", foot, local)
  BY <1>1
<1> HIDE DEF u, pc, foot
<1>6. local \in Local /\ local.db = d /\ local.user = u /\ local.purge = {} /\ local.pc = pc
  <2>1. {"change", "owner"} \subseteq Steps
    BY DEF Steps, InContainer
  <2>2. Idle \in Local /\ Idle.purge = {}
    BY IdleLocal DEF Idle
  <2> QED BY <1>3, <2>1, <2>2 DEF Local
<1> HIDE DEF local
<1>7. RefersOf(local) /\ local.pc # "copy"
  BY <1>3, <1>6 DEF RefersOf
<1>8. act'[r].op = "password" /\ Carries(r, local) => ShapeOf(act'[r])
  BY <1>3, <1>6 DEF Carries, ShapeOf, OnDatabase, WithUser, Moving
<1> QED BY <1>1, <1>4, <1>5, <1>6, <1>7, <1>8, ArriveKeeps

LEMMA SetPrivilegesKeeps ==
  ASSUME DatabasesInv, NEW r \in Requests, SetPrivileges(r)
  PROVE  DatabasesInv'
<1>1. PICK d \in DBs :
        /\ Postgres
        /\ Arrives(r, "privileges", {d} \cup UsersOf(d), [Idle EXCEPT !.db = d, !.pc = "owner"])
        /\ UNCHANGED <<catalog, vol, creds, backups, place, tainted>>
  BY DEF SetPrivileges
<1> DEFINE local == [Idle EXCEPT !.db = d, !.pc = "owner"]
           foot == {d} \cup UsersOf(d)
<1>2. local \in Local /\ local.db = d /\ local.purge = {} /\ local.pc = "owner"
  <2>1. {"owner"} \subseteq Steps
    BY DEF Steps, InContainer
  <2>2. Idle \in Local /\ Idle.purge = {}
    BY IdleLocal DEF Idle
  <2> QED BY <2>1, <2>2 DEF Local
<1>3. foot \in SUBSET (DBs \cup Users) /\ "privileges" \in OpNames
  BY FootTyped DEF OpNames
<1>4. Arrives(r, "privileges", foot, local)
  BY <1>1
<1> HIDE DEF local, foot
<1>5. RefersOf(local) /\ local.pc # "copy"
  BY <1>2 DEF RefersOf
<1>6. act'[r].op = "privileges" /\ Carries(r, local) => ShapeOf(act'[r])
  BY <1>1, <1>2 DEF Carries, ShapeOf, OnDatabase, WithUser, Moving
<1> QED BY <1>1, <1>2, <1>3, <1>4, <1>5, <1>6, ArriveKeeps

LEMMA BackupKeeps ==
  ASSUME DatabasesInv, NEW r \in Requests, Backup(r)
  PROVE  DatabasesInv'
<1> DEFINE todo(target) == IF target # NONE THEN {target}
                           ELSE IF catalog = "mongodb" THEN DBs ELSE {x \in DBs : creds[x] # NONE}
           rows == [x \in DBs |-> NONE]
<1>1. PICK target \in DBs \cup {NONE} :
        /\ Arrives(r, "backup", {}, [Idle EXCEPT !.db = target, !.pc = "dump", !.rows = rows, !.todo = todo(target)])
        /\ UNCHANGED <<catalog, vol, creds, backups, place, tainted>>
  BY DEF Backup
<1> DEFINE left == todo(target)
           local == [Idle EXCEPT !.db = target, !.pc = "dump", !.rows = rows, !.todo = left]
<1>2. left \in SUBSET DBs /\ rows \in Dump /\ Own(rows)
  BY DEF Dump, Own
<1>3. "backup" \in OpNames /\ {} \in SUBSET (DBs \cup Users)
  BY DEF OpNames
<1>4. Arrives(r, "backup", {}, local)
  BY <1>1
<1> HIDE DEF left, rows, todo
<1>5. local \in Local /\ local.rows = rows /\ local.purge = {} /\ local.pc = "dump"
  <2>1. {"dump"} \subseteq Steps
    BY DEF Steps, InContainer
  <2>2. Idle \in Local /\ Idle.purge = {}
    BY IdleLocal DEF Idle
  <2> QED BY <1>2, <2>1, <2>2 DEF Local
<1> HIDE DEF local
<1>6. RefersOf(local) /\ local.pc # "copy"
  BY <1>5 DEF RefersOf
<1>7. act'[r].op = "backup" /\ Carries(r, local) => ShapeOf(act'[r])
  BY <1>2, <1>5 DEF Carries, ShapeOf, OnDatabase, WithUser, Moving
<1> QED BY <1>1, <1>3, <1>4, <1>5, <1>6, <1>7, ArriveKeeps

LEMMA RestoreKeeps ==
  ASSUME DatabasesInv, NEW r \in Requests, Restore(r)
  PROVE  DatabasesInv'
<1>1. PICK b \in Passwords, d \in DBs :
        /\ backups[b] # NONE /\ backups[b].row /\ creds[d] # NONE
        /\ Arrives(r, "restore", {d} \cup UsersOf(d), resolve_owner(d, [Idle EXCEPT !.from = b, !.pc = "download"]))
        /\ UNCHANGED <<catalog, vol, creds, backups, place, tainted>>
  BY DEF Restore
<1> DEFINE base == [Idle EXCEPT !.from = b, !.pc = "download"]
           local == [base EXCEPT !.db = d, !.user = creds[d].user, !.pass = creds[d].pass]
           foot == {d} \cup UsersOf(d)
<1>2. creds[d] \in Credentials
  BY <1>1 DEF DatabasesInv, TypesOK
<1>3. creds[d].user \in Users /\ creds[d].pass \in Passwords
  BY <1>2 DEF Credentials
<1>4. base \in Local /\ base.from = b /\ base.pc = "download" /\ base.purge = {}
  <2>1. "download" \in Steps
    BY DEF Steps
  <2>2. Idle \in Local /\ Idle.purge = {}
    BY IdleLocal DEF Idle
  <2> QED BY <2>1, <2>2 DEF Local
<1>5. foot \in SUBSET (DBs \cup Users) /\ "restore" \in OpNames
  BY FootTyped DEF OpNames
<1>6. Arrives(r, "restore", foot, local)
  BY <1>1 DEF resolve_owner
<1> HIDE DEF base, foot
<1>7. /\ local \in Local /\ local.db = d /\ local.user = creds[d].user /\ local.from = b /\ local.purge = {}
      /\ local.pc = "download"
  BY <1>3, <1>4 DEF Local
<1> HIDE DEF local
<1>8. RefersOf(local) /\ local.pc # "copy"
  BY <1>1, <1>7 DEF RefersOf
<1>9. act'[r].op = "restore" /\ Carries(r, local) => ShapeOf(act'[r])
  BY <1>3, <1>7 DEF Carries, ShapeOf, OnDatabase, WithUser, Moving
<1> QED BY <1>1, <1>5, <1>6, <1>7, <1>8, <1>9, ArriveKeeps

LEMMA RestoreUploadKeeps ==
  ASSUME DatabasesInv, NEW r \in Requests, RestoreUpload(r)
  PROVE  DatabasesInv'
<1>1. PICK d \in DBs :
        /\ creds[d] # NONE
        /\ Arrives(r, "upload", {d} \cup UsersOf(d),
                   resolve_owner(d, [Idle EXCEPT !.rows = [of |-> d, ver |-> "file"], !.pc = apply_restore]))
        /\ UNCHANGED <<catalog, vol, creds, backups, place, tainted>>
  BY DEF RestoreUpload
<1> DEFINE rows == [of |-> d, ver |-> "file"]
           base == [Idle EXCEPT !.rows = rows, !.pc = apply_restore]
           local == [base EXCEPT !.db = d, !.user = creds[d].user, !.pass = creds[d].pass]
           foot == {d} \cup UsersOf(d)
<1>2. creds[d] \in Credentials
  BY <1>1 DEF DatabasesInv, TypesOK
<1>3. creds[d].user \in Users /\ creds[d].pass \in Passwords
  BY <1>2 DEF Credentials
<1>4. rows \in Rows /\ rows.of = d
  BY DEF Rows, Versions
<1>5. foot \in SUBSET (DBs \cup Users) /\ "upload" \in OpNames
  BY FootTyped DEF OpNames
<1>6. Arrives(r, "upload", foot, local)
  BY <1>1 DEF resolve_owner
<1> HIDE DEF rows
<1>7. base \in Local /\ base.rows = rows /\ base.pc = apply_restore /\ base.purge = {}
  <2>1. apply_restore \in Steps
    BY DEF Steps, InContainer, apply_restore
  <2>2. Idle \in Local /\ Idle.purge = {}
    BY IdleLocal DEF Idle
  <2> QED BY <1>4, <2>1, <2>2 DEF Local
<1> HIDE DEF base, foot
<1>8. /\ local \in Local /\ local.db = d /\ local.user = creds[d].user /\ local.rows = rows /\ local.purge = {}
      /\ local.pc = apply_restore
  BY <1>3, <1>7 DEF Local
<1> HIDE DEF local
<1>11. local.pc \in {"mongo", "recreate"} /\ (local.pc = "mongo" => ~Postgres)
  BY <1>8 DEF apply_restore, Postgres
<1>9. RefersOf(local) /\ local.pc # "copy"
  BY <1>8, <1>11 DEF RefersOf
<1>10. act'[r].op = "upload" /\ Carries(r, local) => ShapeOf(act'[r])
  BY <1>3, <1>4, <1>8, <1>11 DEF Carries, ShapeOf, OnDatabase, WithUser, Moving
<1> QED BY <1>1, <1>5, <1>6, <1>8, <1>9, <1>10, ArriveKeeps

-----------------------------------------------------------------------------
(* Commands in the container.                                                *)

LEMMA ClusterStep ==
  ASSUME DatabasesInv, NEW c, Good(c), up, vol' = [vol EXCEPT ![home] = c],
         UNCHANGED <<catalog, creds, backups, place>>
  PROVE  Calm
BY DEF Calm, EngineStep, Good, place

LEMMA StillStep ==
  ASSUME UNCHANGED <<catalog, vol, creds, backups, place>>
  PROVE  Calm
BY DEF Calm, EngineStep, place

\* A request that does not run a command fails, or the container is stopped.
LEMMA NotRunningKeeps ==
  ASSUME DatabasesInv, NEW r \in Requests, NotRunning(r)
  PROVE  DatabasesInv'
BY StillStep, FailKeeps DEF NotRunning

LEMMA RefuseKeeps ==
  ASSUME DatabasesInv, NEW r \in Requests, Refuse(r), UNCHANGED <<catalog, creds, backups, place>>
  PROVE  DatabasesInv'
BY StillStep, FailKeeps DEF Refuse

\* A command that may leave cluster behind fails.
LEMMA FaultKeeps ==
  ASSUME DatabasesInv, NEW r \in Requests, Fail(r), up, UNCHANGED <<catalog, creds, backups, place>>,
         vol' = vol \/ \E c : Good(c) /\ vol' = [vol EXCEPT ![home] = c]
  PROVE  DatabasesInv'
<1>1. Calm
  BY StillStep, ClusterStep
<1> QED BY <1>1, FailKeeps

\* A command that works takes the request to its next step, or to its end.
LEMMA WorksKeeps ==
  ASSUME DatabasesInv, NEW r \in Requests, NEW c, Good(c), up, vol' = [vol EXCEPT ![home] = c],
         UNCHANGED <<catalog, creds, backups, place>>,
         NEW pc \in Steps \ {"download", "copy", "pin", "deploy"}, Goto(r, pc),
         Proceeds(r, pc) => ShapeOf(act'[r])
  PROVE  DatabasesInv'
BY ClusterStep, CalmStep, GoKeeps

LEMMA AnswersKeeps ==
  ASSUME DatabasesInv, NEW r \in Requests, NEW c, Good(c), up, vol' = [vol EXCEPT ![home] = c],
         UNCHANGED <<catalog, creds, backups, place>>, NEW settled, Succeed(r, settled)
  PROVE  DatabasesInv'
BY ClusterStep, CalmStep, Invariants, SucceedEnds, EndKeeps

LEMMA ExecGoes ==
  ASSUME DatabasesInv, NEW r \in Requests, NEW c, Good(c),
         NEW pc \in Steps \ {"download", "copy", "pin", "deploy"}, Exec(r, c, Goto(r, pc)),
         UNCHANGED <<catalog, creds, backups, place>>, Proceeds(r, pc) => ShapeOf(act'[r])
  PROVE  DatabasesInv'
<1>1. up /\ \/ vol' = [vol EXCEPT ![home] = c] /\ Goto(r, pc)
            \/ vol' \in {vol, [vol EXCEPT ![home] = c]} /\ Fail(r)
  BY DEF Exec
<1>2. CASE vol' = [vol EXCEPT ![home] = c] /\ Goto(r, pc)
  BY <1>1, <1>2, WorksKeeps
<1>3. CASE vol' \in {vol, [vol EXCEPT ![home] = c]} /\ Fail(r)
  BY <1>1, <1>3, FaultKeeps
<1> QED BY <1>1, <1>2, <1>3

LEMMA ExecAnswers ==
  ASSUME DatabasesInv, NEW r \in Requests, NEW c, Good(c), NEW settled, Exec(r, c, Succeed(r, settled)),
         UNCHANGED <<catalog, creds, backups, place>>
  PROVE  DatabasesInv'
<1>1. up /\ \/ vol' = [vol EXCEPT ![home] = c] /\ Succeed(r, settled)
            \/ vol' \in {vol, [vol EXCEPT ![home] = c]} /\ Fail(r)
  BY DEF Exec
<1>2. CASE vol' = [vol EXCEPT ![home] = c] /\ Succeed(r, settled)
  BY <1>1, <1>2, AnswersKeeps
<1>3. CASE vol' \in {vol, [vol EXCEPT ![home] = c]} /\ Fail(r)
  BY <1>1, <1>3, FaultKeeps
<1> QED BY <1>1, <1>2, <1>3

\* A client that breaks off may leave one of the parts.
LEMMA BrokenOff ==
  ASSUME DatabasesInv, NEW r \in Requests, NEW c, Good(c), NEW parts, \A p \in parts : Good(p), up, Fail(r),
         vol' \in {[vol EXCEPT ![home] = p] : p \in {engine, c} \cup parts},
         UNCHANGED <<catalog, creds, backups, place>>
  PROVE  DatabasesInv'
<1>1. PICK p \in {engine, c} \cup parts : vol' = [vol EXCEPT ![home] = p]
  OBVIOUS
<1>2. Good(p)
  BY EngineGood
<1> QED BY <1>1, <1>2, FaultKeeps

LEMMA PipeGoes ==
  ASSUME DatabasesInv, NEW r \in Requests, NEW c, Good(c), NEW parts, \A p \in parts : Good(p),
         NEW pc \in Steps \ {"download", "copy", "pin", "deploy"}, pipe_to_docker(r, c, parts, Goto(r, pc)),
         UNCHANGED <<catalog, creds, backups, place>>, Proceeds(r, pc) => ShapeOf(act'[r])
  PROVE  DatabasesInv'
<1>1. up /\ \/ vol' = [vol EXCEPT ![home] = c] /\ Goto(r, pc)
            \/ vol' \in {[vol EXCEPT ![home] = p] : p \in {engine, c} \cup parts} /\ Fail(r)
  BY DEF pipe_to_docker
<1>2. CASE vol' = [vol EXCEPT ![home] = c] /\ Goto(r, pc)
  BY <1>1, <1>2, WorksKeeps
<1>3. CASE vol' \in {[vol EXCEPT ![home] = p] : p \in {engine, c} \cup parts} /\ Fail(r)
  BY <1>1, <1>3, BrokenOff
<1> QED BY <1>1, <1>2, <1>3

LEMMA PipeAnswers ==
  ASSUME DatabasesInv, NEW r \in Requests, NEW c, Good(c), NEW parts, \A p \in parts : Good(p),
         NEW settled, pipe_to_docker(r, c, parts, Succeed(r, settled)),
         UNCHANGED <<catalog, creds, backups, place>>
  PROVE  DatabasesInv'
<1>1. up /\ \/ vol' = [vol EXCEPT ![home] = c] /\ Succeed(r, settled)
            \/ vol' \in {[vol EXCEPT ![home] = p] : p \in {engine, c} \cup parts} /\ Fail(r)
  BY DEF pipe_to_docker
<1>2. CASE vol' = [vol EXCEPT ![home] = c] /\ Succeed(r, settled)
  BY <1>1, <1>2, AnswersKeeps
<1>3. CASE vol' \in {[vol EXCEPT ![home] = p] : p \in {engine, c} \cup parts} /\ Fail(r)
  BY <1>1, <1>3, BrokenOff
<1> QED BY <1>1, <1>2, <1>3

LEMMA RoleExistsKeeps ==
  ASSUME DatabasesInv, NEW r \in Requests, RoleExists(r)
  PROVE  DatabasesInv'
<1>1. Calm
  BY StillStep DEF RoleExists
<1>2. CASE Fail(r)
  BY <1>1, <1>2, FailKeeps
<1>3. CASE /\ act' = [act EXCEPT ![r].known = (engine.roles[Role(act[r].db, act[r].user)] # NoRole), ![r].pc = "alter"]
           /\ UNCHANGED tainted
  <2>1. TypesOK /\ act[r] \in Local /\ ShapeOf(act[r]) /\ RefersOf(act[r]) /\ act[r].pc = "role"
        /\ tainted' \subseteq DBs \cup Users
    BY <1>3, Invariants DEF RoleExists, TypesOK
  <2> DEFINE b == engine.roles[Role(act[r].db, act[r].user)] # NoRole
  <2>2. b \in BOOLEAN
    OBVIOUS
  <2>3. act' = [act EXCEPT ![r].known = b, ![r].pc = "alter"]
    BY <1>3
  <2> HIDE DEF b
  <2>4. PICK k \in Local : act[r] = k
    BY <2>1
  <2> DEFINE x == [k EXCEPT !.known = b, !.pc = "alter"]
  <2>5. act' = [act EXCEPT ![r] = x]
    BY <2>1, <2>3, <2>4 DEF TypesOK
  <2>6. "alter" \in Steps
    BY DEF Steps, InContainer
  <2>7. x \in Local /\ x.pc = "alter" /\ x.db = k.db /\ x.user = k.user /\ x.purge = k.purge
    BY <2>2, <2>6 DEF Local
  <2> HIDE DEF x
  <2>8. Only(r) /\ act'[r] = x
    BY <2>1, <2>5, <2>7 DEF Only, Same, TypesOK
  <2>9. RefersOf(act'[r]) /\ act'[r].pc # "copy"
    BY <2>1, <2>4, <2>7, <2>8 DEF RefersOf
  <2>10. ShapeOf(act'[r])
    BY <2>1, <2>4, <2>7, <2>8 DEF ShapeOf, OnDatabase, WithUser, Moving
  <2> QED BY <1>1, <2>1, <2>8, <2>9, <2>10, CalmStep, StepKeeps
<1> QED BY <1>2, <1>3 DEF RoleExists

LEMMA AlterRoleKeeps ==
  ASSUME DatabasesInv, NEW r \in Requests, AlterRole(r)
  PROVE  DatabasesInv'
<1> DEFINE k == Role(act[r].db, act[r].user)
<1>1. PICK createdb \in BOOLEAN :
        IF act[r].known = (engine.roles[k] # NoRole)
        THEN Exec(r, [engine EXCEPT !.roles[k] = pg_role_sql(@, r, createdb)], Goto(r, "createdb"))
        ELSE Refuse(r)
  BY DEF AlterRole
<1> DEFINE role == pg_role_sql(engine.roles[k], r, createdb)
           c == [engine EXCEPT !.roles[k] = role]
<1>2. CASE Refuse(r)
  BY <1>2, RefuseKeeps DEF AlterRole
<1>3. CASE Exec(r, c, Goto(r, "createdb"))
  <2>1. k \in Roles => role \in RoleRow
    <3>1. ASSUME k \in Roles
          PROVE  engine.roles[k] \in RoleRow
      BY <3>1, EngineGood, Inside DEF Good, Cluster
    <3>2. r \in Passwords
      BY DEF Passwords
    <3> QED BY <3>1, <3>2 DEF pg_role_sql, RoleRow
  <2> HIDE DEF k, role
  <2>2. Good(c)
    BY <2>1, EngineGood, SetRole
  <2> HIDE DEF c
  <2>3. ShapeOf(act[r]) /\ act[r].pc = "alter" /\ "createdb" \in Steps
    BY Invariants DEF AlterRole, Steps, InContainer
  <2>4. Proceeds(r, "createdb") => ShapeOf(act'[r])
    BY <2>3 DEF Proceeds, ShapeOf, OnDatabase, WithUser, Moving
  <2> QED BY <1>3, <2>2, <2>3, <2>4, ExecGoes DEF AlterRole
<1> QED BY <1>1, <1>2, <1>3

LEMMA Granted ==
  ASSUME NEW d \in DBs, NEW x, x # NONE, Fits(d, x), NEW u \in Users
  PROVE  Fits(d, [x EXCEPT !.users = @ \cup {u}])
BY DEF Fits, DatabaseRow

\* A database made for user u, or shared with it.
LEMMA MadeOrShared ==
  ASSUME DatabasesInv, NEW d \in DBs, NEW u \in Users
  PROVE  /\ Fits(d, Database({u}, Empty(d)))
         /\ Fits(d, IF engine.dbs[d] = NONE THEN Database({u}, Empty(d))
                    ELSE [engine.dbs[d] EXCEPT !.users = @ \cup {u}])
BY EngineGood, Inside, EmptyFits, Granted

LEMMA CreateInEngineKeeps ==
  ASSUME DatabasesInv, NEW r \in Requests, CreateInEngine(r)
  PROVE  DatabasesInv'
<1> DEFINE d == act[r].db
           u == act[r].user
           k == Role(d, u)
           old == engine.dbs[d]
           role == engine.roles[k]
           fresh == [NoRole EXCEPT !.pass = r]
           made == Database({u}, Empty(d))
           shared == IF old = NONE THEN Database({u}, Empty(d)) ELSE [old EXCEPT !.users = @ \cup {u}]
           kept == IF role = NoRole THEN fresh ELSE role
<1>0. UNCHANGED <<catalog, creds, backups, place>> /\ act[r].pc = "createdb" /\ catalog \in Catalogs
  BY DEF CreateInEngine, DatabasesInv, TypesOK
<1>1. ShapeOf(act[r]) /\ d \in DBs /\ u \in Users /\ r \in Passwords
  BY <1>0, Invariants DEF ShapeOf, OnDatabase, WithUser, Passwords
<1>2. fresh \in RoleRow /\ (k \in Roles => role \in RoleRow)
  <2>1. engine.roles \in [Roles -> RoleRow]
    BY EngineGood DEF Good, Cluster
  <2>2. fresh \in RoleRow
    BY <1>1 DEF NoRole, RoleRow
  <2> QED BY <2>1, <2>2
<1>3. k \in Roles => kept \in RoleRow
  BY <1>2
<1>4. Fits(d, made) /\ Fits(d, shared) /\ Good(engine)
  BY <1>1, MadeOrShared, EngineGood
<1>5. "store" \in Steps /\ (Proceeds(r, "store") => ShapeOf(act'[r]))
  BY <1>0, <1>1 DEF Steps, Proceeds, ShapeOf, OnDatabase, WithUser, Moving
<1>6. CASE Refuse(r)
  BY <1>0, <1>6, RefuseKeeps
<1>7. CASE Exec(r, [engine EXCEPT !.dbs[d] = made], Goto(r, "store"))
  <2>1. Good([engine EXCEPT !.dbs[d] = made])
    BY <1>1, <1>4, SetDatabase
  <2> QED BY <1>0, <1>5, <1>7, <2>1, ExecGoes
<1>8. ASSUME NEW x, k \in Roles => x \in RoleRow, Exec(r, [engine EXCEPT !.dbs[d] = shared, !.roles[k] = x], Goto(r, "store"))
      PROVE  DatabasesInv'
  <2> HIDE DEF d, u, k, old, role, shared
  <2> DEFINE base == [engine EXCEPT !.dbs[d] = shared]
             c == [engine EXCEPT !.dbs[d] = shared, !.roles[k] = x]
  <2>1. Good(base)
    BY <1>1, <1>4, SetDatabase
  <2>2. c = [base EXCEPT !.roles[k] = x]
    OBVIOUS
  <2> HIDE DEF base
  <2>3. Good(c)
    BY <1>8, <2>1, <2>2, SetRole
  <2> HIDE DEF c
  <2>4. Exec(r, c, Goto(r, "store"))
    BY <1>8 DEF c
  <2> QED BY <1>0, <1>5, <2>3, <2>4, ExecGoes
<1>9. CASE Postgres
  <2>1. \/ Exec(r, [engine EXCEPT !.dbs[d] = made], Goto(r, "store"))
        \/ Refuse(r)
    BY <1>9 DEF CreateInEngine, Postgres
  <2> QED BY <1>6, <1>7, <2>1
<1>10. CASE catalog = "mysql"
  <2>1. Exec(r, [engine EXCEPT !.dbs[d] = shared, !.roles[k] = kept], Goto(r, "store"))
    BY <1>10 DEF CreateInEngine, Postgres
  <2> QED BY <1>3, <1>8, <2>1
<1>11. CASE catalog = "mongodb"
  <2>1. \/ Exec(r, [engine EXCEPT !.dbs[d] = shared, !.roles[k] = fresh], Goto(r, "store"))
        \/ Refuse(r)
    BY <1>11 DEF CreateInEngine, Postgres
  <2> QED BY <1>2, <1>6, <1>8, <2>1
<1> QED BY <1>0, <1>9, <1>10, <1>11, DatabaseConstants DEF Postgres

\* Credentials stored for a user.
LEMMA Stored ==
  ASSUME DatabasesInv, NEW d \in DBs, NEW u \in Users, NEW p \in Passwords
  PROVE  store_credentials(d, u, p) \in [DBs -> Credentials \cup {NONE}]
<1>1. ASSUME NEW x \in DBs, creds[x] # NONE
      PROVE  [creds[x] EXCEPT !.pass = p] \in Credentials
  <2>1. creds[x] \in Credentials
    BY <1>1 DEF DatabasesInv, TypesOK
  <2> QED BY <2>1 DEF Credentials
<1>2. creds \in [DBs -> Credentials \cup {NONE}] /\ [user |-> u, pass |-> p] \in Credentials
  BY DEF DatabasesInv, TypesOK, Credentials
<1> QED BY <1>1, <1>2 DEF store_credentials

\* A request ends after it wrote credentials.
LEMMA CredsKeeps ==
  ASSUME DatabasesInv, NEW r \in Requests, Ends(r), creds' \in [DBs -> Credentials \cup {NONE}],
         UNCHANGED <<catalog, vol, backups, place>>
  PROVE  DatabasesInv'
<1>1. EngineStep
  BY DEF EngineStep, place
<1>2. TableStep
  BY DEF TableStep, DatabasesInv, TypesOK, BackupsOK, Own
<1> QED BY <1>1, <1>2, EndKeeps

LEMMA StoreCreatedKeeps ==
  ASSUME DatabasesInv, NEW r \in Requests, StoreCreated(r)
  PROVE  DatabasesInv'
<1> DEFINE d == act[r].db
           u == act[r].user
<1>1. d \in DBs /\ u \in Users /\ r \in Passwords /\ TypesOK
  BY Invariants DEF StoreCreated, ShapeOf, OnDatabase, WithUser, Passwords
<1>2. creds' = store_credentials(d, u, r) /\ UNCHANGED <<catalog, vol, backups, place>>
  BY DEF StoreCreated
<1>3. creds' \in [DBs -> Credentials \cup {NONE}]
  BY <1>1, <1>2, Stored
<1>4. \/ Done(r) /\ tainted' = tainted \cup act[r].foot
      \/ Succeed(r, {d, u})
  BY DEF StoreCreated
<1>5. Ends(r)
  BY <1>1, <1>4, FootOf, DoneEnds, SucceedEnds
<1> QED BY <1>2, <1>3, <1>5, CredsKeeps

LEMMA StoreChangedKeeps ==
  ASSUME DatabasesInv, NEW r \in Requests, StoreChanged(r)
  PROVE  DatabasesInv'
<1> DEFINE d == act[r].db
           u == act[r].user
<1>1. d \in DBs /\ u \in Users /\ r \in Passwords /\ TypesOK
  BY Invariants DEF StoreChanged, ShapeOf, OnDatabase, WithUser, Passwords
<1>2. creds' = store_credentials(d, u, r) /\ UNCHANGED <<catalog, vol, backups, place>> /\ Succeed(r, {u})
  BY DEF StoreChanged
<1>3. creds' \in [DBs -> Credentials \cup {NONE}]
  BY <1>1, <1>2, Stored
<1>4. Ends(r)
  BY <1>1, <1>2, SucceedEnds
<1> QED BY <1>2, <1>3, <1>4, CredsKeeps

LEMMA AlterUserKeeps ==
  ASSUME DatabasesInv, NEW r \in Requests, AlterUser(r)
  PROVE  DatabasesInv'
<1> DEFINE k == Role(act[r].db, act[r].user)
           c == [engine EXCEPT !.roles[k].pass = r]
           role == [engine.roles[k] EXCEPT !.pass = r]
<1>0. UNCHANGED <<catalog, creds, backups, place>> /\ act[r].pc = "change" /\ ShapeOf(act[r])
  BY Invariants DEF AlterUser
<1>1. CASE Refuse(r)
  BY <1>0, <1>1, RefuseKeeps
<1>2. CASE Exec(r, c, Goto(r, "store"))
  <2>1. k \in Roles => role \in RoleRow
    <3>1. ASSUME k \in Roles
          PROVE  engine.roles[k] \in RoleRow
      BY <3>1, EngineGood DEF Good, Cluster
    <3> QED BY <3>1 DEF RoleRow, Passwords
  <2>2. c = [engine EXCEPT !.roles[k] = role]
    OBVIOUS
  <2>3. Good(c)
    BY <2>1, <2>2, EngineGood, SetRole
  <2>4. "store" \in Steps /\ (Proceeds(r, "store") => ShapeOf(act'[r]))
    BY <1>0 DEF Steps, Proceeds, ShapeOf, OnDatabase, WithUser, Moving
  <2> HIDE DEF c
  <2> QED BY <1>0, <1>2, <2>3, <2>4, ExecGoes
<1> QED BY <1>1, <1>2 DEF AlterUser

LEMMA AlterPrivilegesKeeps ==
  ASSUME DatabasesInv, NEW r \in Requests, AlterPrivileges(r)
  PROVE  DatabasesInv'
<1> DEFINE k == Role(act[r].db, act[r].user)
<1>0. UNCHANGED <<catalog, creds, backups, place>>
  BY DEF AlterPrivileges
<1>1. CASE Refuse(r)
  BY <1>0, <1>1, RefuseKeeps
<1>2. ASSUME NEW on \in BOOLEAN, Exec(r, [engine EXCEPT !.roles[k].createdb = on], Succeed(r, {}))
      PROVE  DatabasesInv'
  <2> DEFINE c == [engine EXCEPT !.roles[k].createdb = on]
             role == [engine.roles[k] EXCEPT !.createdb = on]
  <2>1. k \in Roles => role \in RoleRow
    <3>1. ASSUME k \in Roles
          PROVE  engine.roles[k] \in RoleRow
      BY <3>1, EngineGood DEF Good, Cluster
    <3> QED BY <3>1 DEF RoleRow
  <2>2. c = [engine EXCEPT !.roles[k] = role]
    OBVIOUS
  <2>3. Good(c)
    BY <2>1, <2>2, EngineGood, SetRole
  <2> HIDE DEF c
  <2>4. Exec(r, c, Succeed(r, {}))
    BY <1>2 DEF c
  <2> QED BY <1>0, <2>3, <2>4, ExecAnswers
<1> QED BY <1>1, <1>2 DEF AlterPrivileges

-----------------------------------------------------------------------------
(* Owners.                                                                   *)

\* The owner of a database of PostgreSQL.
LEMMA HasOwner ==
  ASSUME DatabasesInv, NEW d \in DBs, Postgres, engine.dbs[d] # NONE
  PROVE  (CHOOSE u \in engine.dbs[d].users : TRUE) \in Users
<1>1. Fits(d, engine.dbs[d])
  BY EngineGood, Inside
<1>2. engine.dbs[d].users # {} /\ engine.dbs[d].users \subseteq Users
  BY <1>1 DEF Fits, DatabaseRow
<1> QED BY <1>2

\* A request learns its user and goes on.
LEMMA LearnKeeps ==
  ASSUME DatabasesInv, NEW r \in Requests, NEW u \in Users \cup {NONE}, act[r].pc = "owner",
         NEW pc \in {"drop", "change", "privilege"}, pc = "change" => u \in Users, Learns(r, u, pc),
         UNCHANGED <<catalog, vol, creds, backups, place>>
  PROVE  DatabasesInv'
<1>1. TypesOK /\ ShapeOf(act[r]) /\ RefersOf(act[r]) /\ pc \in Steps /\ tainted \subseteq DBs \cup Users
  BY Invariants DEF Steps, InContainer, TypesOK
<1>2. /\ Only(r) /\ tainted' = tainted
      /\ act'[r].pc = pc /\ act'[r].user = u /\ act'[r].op = act[r].op /\ act'[r].db = act[r].db
      /\ act'[r].purge = act[r].purge
  BY <1>1, Learning
<1>3. ShapeOf(act'[r])
  BY <1>1, <1>2 DEF ShapeOf, OnDatabase, WithUser, Moving
<1>4. RefersOf(act'[r]) /\ act'[r].pc # "copy"
  BY <1>1, <1>2 DEF RefersOf
<1> QED BY <1>1, <1>2, <1>3, <1>4, StillStep, CalmStep, StepKeeps

LEMMA ReadOwnerKeeps ==
  ASSUME DatabasesInv, NEW r \in Requests, ReadOwner(r)
  PROVE  DatabasesInv'
<1> DEFINE db == engine.dbs[act[r].db]
           u == IF db = NONE THEN NONE ELSE CHOOSE u \in db.users : TRUE
<1>1. act[r].pc = "owner" /\ Learns(r, u, "drop") /\ UNCHANGED <<catalog, vol, creds, backups, place>>
  BY DEF ReadOwner
<1>2. act[r].db \in DBs /\ Postgres
  BY Invariants DEF ReadOwner, ShapeOf, OnDatabase
<1>3. u \in Users \cup {NONE}
  BY <1>2, HasOwner
<1> HIDE DEF u
<1> QED BY <1>1, <1>3, LearnKeeps

LEMMA OwnerOfKeeps ==
  ASSUME DatabasesInv, NEW r \in Requests, OwnerOf(r)
  PROVE  DatabasesInv'
<1> DEFINE db == engine.dbs[act[r].db]
           u == CHOOSE u \in db.users : TRUE
<1>1. act[r].pc = "owner" /\ UNCHANGED <<catalog, vol, creds, backups, place>> /\ act[r].db \in DBs
  BY Invariants DEF OwnerOf, ShapeOf, OnDatabase
<1>2. CASE Fail(r)
  BY <1>1, <1>2, StillStep, FailKeeps
<1>3. CASE Postgres /\ db # NONE /\ Learns(r, u, "change")
  <2>1. u \in Users
    BY <1>1, <1>3, HasOwner
  <2> HIDE DEF u
  <2> QED BY <1>1, <1>3, <2>1, LearnKeeps
<1> QED BY <1>2, <1>3 DEF OwnerOf

LEMMA OwnerToAlterKeeps ==
  ASSUME DatabasesInv, NEW r \in Requests, OwnerToAlter(r)
  PROVE  DatabasesInv'
<1> DEFINE db == engine.dbs[act[r].db]
           u == CHOOSE u \in db.users : TRUE
<1>1. /\ act[r].pc = "owner" /\ UNCHANGED <<catalog, vol, creds, backups, place>> /\ act[r].db \in DBs
      /\ Postgres
  BY Invariants DEF OwnerToAlter, ShapeOf, OnDatabase
<1>2. CASE Fail(r)
  BY <1>1, <1>2, StillStep, FailKeeps
<1>3. CASE db # NONE /\ Learns(r, u, "privilege")
  <2>1. u \in Users
    BY <1>1, <1>3, HasOwner
  <2> HIDE DEF u
  <2> QED BY <1>1, <1>3, <2>1, LearnKeeps
<1> QED BY <1>2, <1>3 DEF OwnerToAlter

-----------------------------------------------------------------------------
(* Deletion.                                                                 *)

LEMMA DropDatabaseKeeps ==
  ASSUME DatabasesInv, NEW r \in Requests, DropDatabase(r)
  PROVE  DatabasesInv'
<1> DEFINE d == act[r].db
           next == IF act[r].user # NONE THEN "dropuser" ELSE "forget"
           roles == [k \in Roles |-> IF catalog = "mongodb" /\ k[1] = d THEN NoRole ELSE engine.roles[k]]
           c == [engine EXCEPT !.dbs[d] = NONE, !.roles = roles]
<1>0. /\ UNCHANGED <<catalog, creds, backups, place>> /\ up /\ act[r].pc = "drop" /\ TypesOK
      /\ ShapeOf(act[r]) /\ RefersOf(act[r])
  BY Invariants DEF DropDatabase
<1>1. next \in {"dropuser", "forget"} /\ next \in Steps
  BY DEF Steps, InContainer
<1>2. \/ vol' = [vol EXCEPT ![home] = c] /\ Goto(r, next)
      \/ /\ UNCHANGED <<vol, tainted>>
         /\ act' = [act EXCEPT ![r].pc = next, ![r].alone = FALSE]
  BY DEF DropDatabase
<1> HIDE DEF next
<1>3. Good(c)
  <2>1. engine \in Cluster /\ engine.roles \in [Roles -> RoleRow]
    BY EngineGood DEF Good, Cluster
  <2>2. roles \in [Roles -> RoleRow]
    BY <2>1 DEF NoRole, RoleRow
  <2> DEFINE base == [engine EXCEPT !.dbs[d] = NONE]
  <2>3. d \in DBs
    BY <1>0 DEF ShapeOf, OnDatabase
  <2>4. Good(base)
    BY <2>3, EngineGood, SetDatabase DEF Fits
  <2>5. c = [base EXCEPT !.roles = roles]
    OBVIOUS
  <2> HIDE DEF base, roles
  <2>6. [base EXCEPT !.roles = roles] \in Cluster /\ [base EXCEPT !.roles = roles].dbs = base.dbs
    BY <2>2, <2>4 DEF Good, Cluster
  <2> HIDE DEF c
  <2> QED BY <2>4, <2>5, <2>6 DEF Good
<1> HIDE DEF c
<1>4. CASE vol' = [vol EXCEPT ![home] = c] /\ Goto(r, next)
  <2>1. Proceeds(r, next) => ShapeOf(act'[r])
    BY <1>0, <1>1 DEF Proceeds, ShapeOf, OnDatabase, WithUser, Moving
  <2> QED BY <1>0, <1>1, <1>3, <1>4, <2>1, WorksKeeps
<1>5. CASE /\ UNCHANGED <<vol, tainted>>
           /\ act' = [act EXCEPT ![r].pc = next, ![r].alone = FALSE]
  <2>1. PICK k \in Local : act[r] = k
    BY <1>0 DEF TypesOK
  <2> DEFINE x == [k EXCEPT !.pc = next, !.alone = FALSE]
  <2>2. act' = [act EXCEPT ![r] = x]
    BY <1>0, <1>5, <2>1 DEF TypesOK
  <2>3. x \in Local /\ x.pc = next /\ x.op = k.op /\ x.db = k.db /\ x.user = k.user /\ x.purge = k.purge
    BY <1>1 DEF Local
  <2> HIDE DEF x
  <2>4. Only(r) /\ act'[r] = x /\ tainted' \subseteq DBs \cup Users
    BY <1>0, <1>5, <2>2, <2>3 DEF Only, Same, TypesOK
  <2>5. RefersOf(act'[r]) /\ act'[r].pc # "copy"
    BY <1>0, <1>1, <2>1, <2>3, <2>4 DEF RefersOf
  <2>6. ShapeOf(act'[r])
    BY <1>0, <1>1, <2>1, <2>3, <2>4 DEF ShapeOf, OnDatabase, WithUser, Moving
  <2> QED BY <1>0, <1>5, <2>4, <2>5, <2>6, StillStep, CalmStep, StepKeeps
<1> QED BY <1>2, <1>4, <1>5

LEMMA DropUserKeeps ==
  ASSUME DatabasesInv, NEW r \in Requests, DropUser(r)
  PROVE  DatabasesInv'
<1> DEFINE k == <<Server, act[r].user>>
           c == [engine EXCEPT !.roles[k] = NoRole]
<1>0. /\ UNCHANGED <<catalog, creds, backups, place>> /\ up /\ act[r].pc = "dropuser"
      /\ Goto(r, "forget") /\ ShapeOf(act[r])
  BY Invariants DEF DropUser
<1>1. vol' = vol \/ vol' = [vol EXCEPT ![home].roles[k] = NoRole]
  BY DEF DropUser
<1>2. Good(c)
  BY EngineGood, SetRole DEF NoRole, RoleRow
<1>3. vol' = vol \/ vol' = [vol EXCEPT ![home] = c]
  BY <1>1 DEF engine
<1> HIDE DEF c
<1>4. Calm
  BY <1>0, <1>2, <1>3, StillStep, ClusterStep
<1>5. "forget" \in Steps /\ (Proceeds(r, "forget") => ShapeOf(act'[r]))
  BY <1>0 DEF Steps, Proceeds, ShapeOf, OnDatabase, WithUser, Moving
<1> QED BY <1>0, <1>4, <1>5, CalmStep, GoKeeps

\* Backups whose row or blob is gone.
LEMMA BlobsGone ==
  ASSUME NEW a \in BackupRow
  PROVE  /\ [a EXCEPT !.blob = FALSE] \in BackupRow /\ [a EXCEPT !.row = FALSE] \in BackupRow
         /\ [a EXCEPT !.blob = FALSE].rows = a.rows /\ [a EXCEPT !.row = FALSE].rows = a.rows
BY DEF BackupRow

LEMMA GoneStep ==
  ASSUME DatabasesInv, NEW gone \in SUBSET Passwords, \A b \in gone : backups[b] # NONE,
         creds' \in [DBs -> Credentials \cup {NONE}],
         \/ backups' = [b \in Passwords |-> IF b \in gone THEN [backups[b] EXCEPT !.blob = FALSE] ELSE backups[b]]
         \/ backups' = [b \in Passwords |-> IF b \in gone THEN [backups[b] EXCEPT !.row = FALSE] ELSE backups[b]]
  PROVE  TableStep
<1>1. ASSUME NEW b \in Passwords
      PROVE  /\ backups[b] = NONE => backups'[b] = NONE
             /\ backups[b] # NONE => /\ backups'[b] \in BackupRow
                                     /\ backups'[b].rows = backups[b].rows
  <2>1. backups[b] = NONE \/ backups[b] \in BackupRow
    BY DEF DatabasesInv, TypesOK
  <2>2. b \in gone => backups[b] \in BackupRow
    BY <2>1
  <2>3. \/ backups'[b] = backups[b] /\ (b \notin gone \/ backups[b] # NONE)
        \/ backups[b] \in BackupRow /\ backups'[b] = [backups[b] EXCEPT !.blob = FALSE]
        \/ backups[b] \in BackupRow /\ backups'[b] = [backups[b] EXCEPT !.row = FALSE]
    BY <2>2
  <2> QED BY <2>1, <2>3, BlobsGone, NoneIsNothing
<1>2. backups' \in [Passwords -> BackupRow \cup {NONE}]
  <2>1. \A b \in Passwords : backups'[b] \in BackupRow \cup {NONE}
    BY <1>1
  <2>2. \E f : backups' = [b \in Passwords |-> f[b]]
    <3>1. backups' = [b \in Passwords |-> backups'[b]]
      OBVIOUS
    <3> QED BY <3>1
  <2> QED BY <2>1, <2>2
<1>3. \A b \in Passwords : backups[b] # NONE => backups'[b] # NONE
  BY <1>1, NoneIsNothing
<1>4. BackupsOK'
  <2>1. ASSUME NEW b \in Passwords, backups'[b] # NONE
        PROVE  Own(backups'[b].rows)
    <3>1. backups[b] # NONE /\ backups'[b].rows = backups[b].rows
      BY <1>1, <2>1
    <3> QED BY <3>1 DEF DatabasesInv, BackupsOK
  <2> QED BY <2>1 DEF BackupsOK, Own
<1> QED BY <1>2, <1>3, <1>4 DEF TableStep

LEMMA PurgeBlobsKeeps ==
  ASSUME DatabasesInv, NEW r \in Requests, PurgeBlobs(r)
  PROVE  DatabasesInv'
<1>0. /\ act[r].pc = "purge" /\ ShapeOf(act[r]) /\ RefersOf(act[r]) /\ act[r].purge \subseteq Passwords
      /\ UNCHANGED <<catalog, vol, creds, place>>
  BY Invariants DEF PurgeBlobs, Local
<1>1. PICK gone \in {act[r].purge, {}} :
        backups' = [b \in Passwords |-> IF b \in gone THEN [backups[b] EXCEPT !.blob = FALSE] ELSE backups[b]]
  BY DEF PurgeBlobs
<1>2. gone \in SUBSET Passwords /\ \A b \in gone : backups[b] # NONE
  BY <1>0 DEF RefersOf
<1>3. TableStep
  BY <1>0, <1>1, <1>2, GoneStep DEF DatabasesInv, TypesOK
<1>4. EngineStep
  BY <1>0 DEF EngineStep, place
<1> DEFINE next == IF Postgres THEN "owner" ELSE "drop"
<1>5. Goto(r, next) /\ next \in {"owner", "drop"} /\ (next = "owner" => Postgres) /\ next \in Steps
  BY DEF PurgeBlobs, Steps, InContainer
<1> HIDE DEF next
<1>6. Proceeds(r, next) => ShapeOf(act'[r])
  BY <1>0, <1>5 DEF Proceeds, ShapeOf, OnDatabase, WithUser, Moving
<1> QED BY <1>3, <1>4, <1>5, <1>6, GoKeeps

LEMMA ForgetDatabaseKeeps ==
  ASSUME DatabasesInv, NEW r \in Requests, ForgetDatabase(r)
  PROVE  DatabasesInv'
<1>0. /\ TypesOK /\ RefersOf(act[r]) /\ act[r].purge \in SUBSET Passwords
      /\ UNCHANGED <<catalog, vol, place>> /\ Succeed(r, {act[r].db})
  BY Invariants DEF ForgetDatabase, Local
<1>1. creds' \in [DBs -> Credentials \cup {NONE}]
  BY <1>0 DEF ForgetDatabase, TypesOK
<1>2. \A b \in act[r].purge : backups[b] # NONE
  BY <1>0 DEF RefersOf
<1>3. backups' = [b \in Passwords |-> IF b \in act[r].purge THEN [backups[b] EXCEPT !.row = FALSE] ELSE backups[b]]
  BY DEF ForgetDatabase
<1>4. TableStep
  BY <1>0, <1>1, <1>2, <1>3, GoneStep
<1>5. EngineStep
  BY <1>0 DEF EngineStep, place
<1>6. Ends(r)
  BY <1>0, SucceedEnds
<1> QED BY <1>4, <1>5, <1>6, EndKeeps

-----------------------------------------------------------------------------
(* Dumps.                                                                    *)

LEMMA RowsNowOwn ==
  ASSUME DatabasesInv, NEW d \in DBs
  PROVE  RowsNow(d) = NONE \/ (RowsNow(d) \in Rows /\ RowsNow(d).of = d)
<1>1. Fits(d, engine.dbs[d])
  BY EngineGood, Inside
<1> QED BY <1>1 DEF RowsNow, Fits, DatabaseRow

LEMMA DumpKeeps ==
  ASSUME DatabasesInv, NEW r \in Requests, execute_cluster_backup(r)
  PROVE  DatabasesInv'
<1>0. /\ TypesOK /\ act[r] \in Local /\ ShapeOf(act[r]) /\ RefersOf(act[r]) /\ act[r].pc = "dump"
      /\ UNCHANGED <<catalog, vol, creds, backups, place>> /\ tainted \subseteq DBs \cup Users
  BY Invariants DEF execute_cluster_backup, TypesOK
<1>1. act[r].rows \in Dump /\ Own(act[r].rows)
  BY <1>0 DEF ShapeOf
<1>2. PICK k \in Local : act[r] = k
  BY <1>0
<1>3. ASSUME NEW rows \in Dump, Own(rows), NEW todo \in SUBSET DBs, NEW pc \in {"dump", "save"},
             act' = [act EXCEPT ![r] = [k EXCEPT !.rows = rows, !.todo = todo, !.pc = pc]], UNCHANGED tainted
      PROVE  DatabasesInv'
  <2> DEFINE x == [k EXCEPT !.rows = rows, !.todo = todo, !.pc = pc]
  <2>1. pc \in Steps
    BY DEF Steps, InContainer
  <2>2. x \in Local /\ x.pc = pc /\ x.op = k.op /\ x.rows = rows /\ x.purge = k.purge
    BY <2>1 DEF Local
  <2>3. act' = [act EXCEPT ![r] = x]
    BY <1>3
  <2> HIDE DEF x
  <2>4. Only(r) /\ act'[r] = x
    BY <1>0, <2>2, <2>3 DEF Only, Same, TypesOK
  <2>5. RefersOf(act'[r]) /\ act'[r].pc # "copy"
    BY <1>0, <1>2, <2>2, <2>4 DEF RefersOf
  <2>6. ShapeOf(act'[r])
    BY <1>3, <2>2, <2>4 DEF ShapeOf, OnDatabase, WithUser, Moving
  <2> QED BY <1>0, <1>3, <2>4, <2>5, <2>6, StillStep, CalmStep, StepKeeps
<1>4. CASE Fail(r)
  BY <1>0, <1>4, StillStep, FailKeeps
<1>5. CASE /\ act' = [act EXCEPT ![r].rows = [x \in DBs |-> IF x \in act[r].todo THEN RowsNow(x) ELSE NONE],
                                 ![r].todo = {}, ![r].pc = "save"]
           /\ UNCHANGED tainted
  <2> DEFINE rows == [x \in DBs |-> IF x \in act[r].todo THEN RowsNow(x) ELSE NONE]
             todo == {}
  <2>1. rows \in Dump /\ Own(rows)
    BY RowsNowOwn DEF Dump, Own
  <2>2. act' = [act EXCEPT ![r].rows = rows, ![r].todo = todo, ![r].pc = "save"]
    BY <1>5
  <2>4. todo \in SUBSET DBs
    OBVIOUS
  <2> HIDE DEF rows, todo
  <2>3. act' = [act EXCEPT ![r] = [k EXCEPT !.rows = rows, !.todo = todo, !.pc = "save"]]
    BY <1>0, <1>2, <2>2 DEF TypesOK
  <2> QED BY <1>3, <1>5, <2>1, <2>3, <2>4
<1>6. ASSUME NEW d \in DBs, d \in act[r].todo, UNCHANGED tainted,
             act' = [act EXCEPT ![r].rows[d] = RowsNow(d), ![r].todo = @ \ {d},
                                ![r].pc = IF act[r].todo = {d} THEN "save" ELSE "dump"]
      PROVE  DatabasesInv'
  <2> DEFINE rows == [k.rows EXCEPT ![d] = RowsNow(d)]
             todo == k.todo \ {d}
             pc == IF k.todo = {d} THEN "save" ELSE "dump"
  <2>1. rows \in Dump /\ Own(rows)
    BY <1>1, <1>2, RowsNowOwn DEF Dump, Own
  <2>2. todo \in SUBSET DBs /\ pc \in {"dump", "save"}
    BY DEF Local
  <2>3. act' = [act EXCEPT ![r] = [k EXCEPT !.rows = rows, !.todo = todo, !.pc = pc]]
    BY <1>0, <1>2, <1>6 DEF TypesOK
  <2> HIDE DEF rows, todo, pc
  <2> QED BY <1>3, <1>6, <2>1, <2>2, <2>3
<1>7. \/ Fail(r)
      \/ /\ act' = [act EXCEPT ![r].rows = [x \in DBs |-> IF x \in act[r].todo THEN RowsNow(x) ELSE NONE],
                               ![r].todo = {}, ![r].pc = "save"]
         /\ UNCHANGED tainted
      \/ \E d \in act[r].todo :
           /\ act' = [act EXCEPT ![r].rows[d] = RowsNow(d), ![r].todo = @ \ {d},
                                 ![r].pc = IF act[r].todo = {d} THEN "save" ELSE "dump"]
           /\ UNCHANGED tainted
  BY DEF execute_cluster_backup
<1>8. act[r].todo \subseteq DBs
  BY <1>2 DEF Local
<1> QED BY <1>4, <1>5, <1>6, <1>7, <1>8

LEMMA SaveDumpKeeps ==
  ASSUME DatabasesInv, NEW r \in Requests, SaveDump(r)
  PROVE  DatabasesInv'
<1>0. /\ TypesOK /\ act[r] \in Local /\ ShapeOf(act[r]) /\ act[r].pc = "save"
      /\ UNCHANGED <<catalog, vol, creds, place>> /\ Succeed(r, {})
  BY Invariants DEF SaveDump
<1>1. act[r].rows \in Dump /\ Own(act[r].rows) /\ act[r].db \in DBs \cup {NONE} /\ r \in Passwords
  BY <1>0 DEF ShapeOf, Local, Passwords
<1> DEFINE a == Archive(act[r].db, act[r].rows)
<1>2. a \in BackupRow /\ a.rows = act[r].rows /\ a # NONE
  <2>1. a \in BackupRow /\ a.rows = act[r].rows
    BY <1>1 DEF Archive, BackupRow
  <2> HIDE DEF a
  <2> QED BY <2>1, NoneIsNothing
<1>3. backups' = backups \/ backups' = [backups EXCEPT ![r] = a]
  BY DEF SaveDump
<1> HIDE DEF a
<1>4. backups \in [Passwords -> BackupRow \cup {NONE}] /\ \A b \in Passwords : backups[b] # NONE => Own(backups[b].rows)
  BY DEF DatabasesInv, TypesOK, BackupsOK
<1>5. backups' \in [Passwords -> BackupRow \cup {NONE}] /\ \A b \in Passwords : backups[b] # NONE => backups'[b] # NONE
  BY <1>2, <1>3, <1>4
<1>6. BackupsOK'
  <2>1. ASSUME NEW b \in Passwords, backups'[b] # NONE
        PROVE  Own(backups'[b].rows)
    BY <1>1, <1>2, <1>3, <1>4, <2>1
  <2> QED BY <2>1 DEF BackupsOK, Own
<1>7. EngineStep /\ TableStep
  BY <1>0, <1>5, <1>6 DEF EngineStep, TableStep, place, TypesOK
<1> QED BY <1>0, <1>7, SucceedEnds, EndKeeps

LEMMA DownloadKeeps ==
  ASSUME DatabasesInv, NEW r \in Requests, Download(r)
  PROVE  DatabasesInv'
<1> DEFINE a == backups[act[r].from]
           d == act[r].db
           dump == extract_db_from_tar(a, d)
<1>0. /\ TypesOK /\ act[r] \in Local /\ ShapeOf(act[r]) /\ RefersOf(act[r]) /\ act[r].pc = "download"
      /\ UNCHANGED <<catalog, vol, creds, backups, place>> /\ tainted \subseteq DBs \cup Users
  BY Invariants DEF Download, TypesOK
<1>1. d \in DBs /\ act[r].user \in Users /\ act[r].from \in Passwords /\ a # NONE
  BY <1>0 DEF ShapeOf, RefersOf, OnDatabase, WithUser
<1>2. a \in BackupRow /\ Own(a.rows)
  BY <1>1 DEF DatabasesInv, TypesOK, BackupsOK
<1>3. \/ Succeed(r, {})
      \/ /\ MayRestore(a, d) /\ (dump # NONE \/ catalog = "mongodb")
         /\ act' = [act EXCEPT ![r].rows = dump, ![r].pc = apply_restore] /\ UNCHANGED tainted
  BY DEF Download
<1>4. MayRestore(a, d) => dump = NONE \/ (dump \in Rows /\ dump.of = d)
  BY <1>1, <1>2 DEF MayRestore, extract_db_from_tar, BackupRow, Dump, Own
<1> HIDE DEF a, dump
<1>5. CASE Succeed(r, {})
  BY <1>0, <1>5, StillStep, CalmStep, SucceedEnds, EndKeeps
<1>6. CASE /\ MayRestore(a, d) /\ (dump # NONE \/ catalog = "mongodb")
           /\ act' = [act EXCEPT ![r].rows = dump, ![r].pc = apply_restore] /\ UNCHANGED tainted
  <2>1. PICK k \in Local : act[r] = k
    BY <1>0
  <2> DEFINE pc == apply_restore
             x == [k EXCEPT !.rows = dump, !.pc = pc]
  <2>2. pc \in {"mongo", "recreate"} /\ (pc = "recreate" => dump # NONE) /\ pc \in Steps
        /\ (pc = "mongo" => ~Postgres)
    BY <1>6 DEF apply_restore, Steps, InContainer, Postgres
  <2>3. act' = [act EXCEPT ![r] = x]
    BY <1>0, <1>6, <2>1 DEF TypesOK
  <2> HIDE DEF pc
  <2>4. x \in Local /\ x.pc = pc /\ x.rows = dump /\ x.db = k.db /\ x.user = k.user /\ x.purge = k.purge
    BY <1>4, <1>6, <2>2 DEF Local
  <2> HIDE DEF x
  <2>5. Only(r) /\ act'[r] = x
    BY <1>0, <2>3, <2>4 DEF Only, Same, TypesOK
  <2>6. RefersOf(act'[r]) /\ act'[r].pc # "copy"
    BY <1>0, <2>1, <2>2, <2>4, <2>5 DEF RefersOf
  <2>7. ShapeOf(act'[r])
    BY <1>1, <1>4, <1>6, <2>1, <2>2, <2>4, <2>5 DEF ShapeOf, OnDatabase, WithUser, Moving
  <2> QED BY <1>0, <1>6, <2>5, <2>6, <2>7, StillStep, CalmStep, StepKeeps
<1> QED BY <1>3, <1>5, <1>6

-----------------------------------------------------------------------------
(* Restores.                                                                 *)

\* The rows of a dump, all of them or a part, in a database that is there.
LEMMA Loaded ==
  ASSUME DatabasesInv, NEW d \in DBs, NEW x, x # NONE, Fits(d, x), NEW rows \in Rows, rows.of = d,
         NEW ver \in Versions, NEW objects \in {"users", "superuser"}
  PROVE  /\ [rows EXCEPT !.ver = ver] \in Rows /\ [rows EXCEPT !.ver = ver].of = d
         /\ Fits(d, [x EXCEPT !.rows = [rows EXCEPT !.ver = ver], !.objects = objects])
         /\ Fits(d, [x EXCEPT !.rows = [rows EXCEPT !.ver = ver]])
         /\ Fits(d, [x EXCEPT !.objects = objects])
<1> DEFINE y == [rows EXCEPT !.ver = ver]
<1>1. y \in Rows /\ y.of = d
  BY DEF Rows
<1> HIDE DEF y
<1>2. x \in DatabaseRow /\ (Postgres => x.users # {})
  BY DEF Fits
<1>3. [x EXCEPT !.rows = y, !.objects = objects] \in DatabaseRow
      /\ [x EXCEPT !.rows = y, !.objects = objects].rows = y
      /\ [x EXCEPT !.rows = y, !.objects = objects].users = x.users
  BY <1>1, <1>2 DEF DatabaseRow
<1>4. [x EXCEPT !.rows = y] \in DatabaseRow /\ [x EXCEPT !.rows = y].rows = y /\ [x EXCEPT !.rows = y].users = x.users
  BY <1>1, <1>2 DEF DatabaseRow
<1>5. /\ [x EXCEPT !.objects = objects] \in DatabaseRow /\ [x EXCEPT !.objects = objects].rows = x.rows
      /\ [x EXCEPT !.objects = objects].users = x.users
  BY <1>2 DEF DatabaseRow
<1>6. Fits(d, [x EXCEPT !.rows = y, !.objects = objects]) /\ Fits(d, [x EXCEPT !.rows = y])
  BY <1>1, <1>2, <1>3, <1>4 DEF Fits
<1>7. Fits(d, [x EXCEPT !.objects = objects])
  BY <1>2, <1>5 DEF Fits
<1> QED BY <1>1, <1>6, <1>7 DEF y

LEMMA RecreateKeeps ==
  ASSUME DatabasesInv, NEW r \in Requests, drop_and_recreate_pg_db(r)
  PROVE  DatabasesInv'
<1> DEFINE d == act[r].db
           k == Role(d, act[r].user)
           role == pg_role_sql(engine.roles[k], act[r].pass, FALSE)
           synced == [engine EXCEPT !.roles[k] = role]
           dropped == [synced EXCEPT !.dbs[d] = NONE]
           new == Database({act[r].user}, Empty(d))
           created == [dropped EXCEPT !.dbs[d] = new]
<1>0. /\ UNCHANGED <<catalog, creds, backups, place>> /\ act[r].pc = "recreate" /\ act[r] \in Local
      /\ ShapeOf(act[r])
  BY Invariants DEF drop_and_recreate_pg_db
<1>1. d \in DBs /\ act[r].user \in Users
  BY <1>0 DEF ShapeOf, OnDatabase, WithUser
<1>2. k \in Roles => role \in RoleRow
  <2>1. ASSUME k \in Roles
        PROVE  engine.roles[k] \in RoleRow
    BY <2>1, EngineGood DEF Good, Cluster
  <2>2. act[r].pass \in Passwords \cup {NONE}
    BY <1>0 DEF Local
  <2> QED BY <2>1, <2>2 DEF pg_role_sql, RoleRow
<1>3. Fits(d, NONE) /\ Fits(d, new)
  BY <1>1, EmptyFits DEF Fits
<1>4. pipe_to_docker(r, created, {synced, dropped}, Goto(r, "load"))
  BY DEF drop_and_recreate_pg_db, build_role_sync_sql
<1>5. Good(synced)
  BY <1>2, EngineGood, SetRole
<1> HIDE DEF synced, role, k
<1>6. Good(dropped)
  BY <1>1, <1>3, <1>5, SetDatabase
<1> HIDE DEF dropped, new
<1>7. Good(created)
  BY <1>1, <1>3, <1>6, SetDatabase
<1> HIDE DEF created
<1> DEFINE parts == {synced, dropped}
<1>8. \A p \in parts : Good(p)
  BY <1>5, <1>6
<1>9. pipe_to_docker(r, created, parts, Goto(r, "load"))
  BY <1>4
<1> HIDE DEF parts
<1>10. "load" \in Steps /\ (Proceeds(r, "load") => ShapeOf(act'[r]))
  BY <1>0 DEF Steps, InContainer, Proceeds, ShapeOf, OnDatabase, WithUser, Moving
<1> QED BY <1>0, <1>7, <1>8, <1>9, <1>10, PipeGoes

LEMMA RestorePostgresKeeps ==
  ASSUME DatabasesInv, NEW r \in Requests, restore_postgres(r)
  PROVE  DatabasesInv'
<1> DEFINE d == act[r].db
           rows == act[r].rows
           x == engine.dbs[d]
           row(ver) == [x EXCEPT !.rows = [rows EXCEPT !.ver = ver], !.objects = "superuser"]
           with(ver) == [engine EXCEPT !.dbs[d] = row(ver)]
<1>0. /\ UNCHANGED <<catalog, creds, backups, place>> /\ act[r].pc = "load" /\ ShapeOf(act[r])
  BY Invariants DEF restore_postgres
<1>1. d \in DBs /\ rows \in Rows /\ rows.of = d
  BY <1>0 DEF ShapeOf, OnDatabase
<1>2. CASE Refuse(r)
  BY <1>0, <1>2, RefuseKeeps
<1>3. CASE x # NONE /\ pipe_to_docker(r, with(rows.ver), {with("part")}, Goto(r, "fix"))
  <2>1. rows.ver \in Versions /\ "part" \in Versions
    BY <1>1 DEF Rows, Versions
  <2>2. ASSUME NEW ver \in Versions
        PROVE  Good(with(ver))
    <3>1. Fits(d, x)
      BY <1>1, EngineGood, Inside
    <3>2. Fits(d, row(ver))
      BY <1>1, <1>3, <2>2, <3>1, Loaded
    <3> HIDE DEF row
    <3> QED BY <1>1, <3>2, EngineGood, SetDatabase
  <2> DEFINE c == with(rows.ver)
             parts == {with("part")}
  <2>3. Good(c) /\ \A p \in parts : Good(p)
    BY <2>1, <2>2
  <2>4. pipe_to_docker(r, c, parts, Goto(r, "fix"))
    BY <1>3
  <2> HIDE DEF c, parts
  <2>5. "fix" \in Steps /\ (Proceeds(r, "fix") => ShapeOf(act'[r]))
    BY <1>0 DEF Steps, InContainer, Proceeds, ShapeOf, OnDatabase, WithUser, Moving
  <2> QED BY <1>0, <2>3, <2>4, <2>5, PipeGoes
<1> QED BY <1>2, <1>3 DEF restore_postgres

LEMMA FixKeeps ==
  ASSUME DatabasesInv, NEW r \in Requests, fix_object_ownership(r)
  PROVE  DatabasesInv'
<1> DEFINE d == act[r].db
           x == engine.dbs[d]
           row == [x EXCEPT !.objects = "users"]
           c == [engine EXCEPT !.dbs[d] = row]
           settled == {d, act[r].user}
           parts == {}
<1>0. /\ UNCHANGED <<catalog, creds, backups, place>> /\ act[r].pc = "fix" /\ ShapeOf(act[r])
  BY Invariants DEF fix_object_ownership
<1>1. d \in DBs
  BY <1>0 DEF ShapeOf, OnDatabase
<1>2. CASE Refuse(r)
  BY <1>0, <1>2, RefuseKeeps
<1>3. CASE x # NONE /\ pipe_to_docker(r, [engine EXCEPT !.dbs[d].objects = "users"], {}, Succeed(r, settled))
  <2>1. Fits(d, x)
    BY <1>1, EngineGood, Inside
  <2>2. Fits(d, row)
    BY <1>3, <2>1 DEF Fits, DatabaseRow
  <2>3. Good(c)
    <3> HIDE DEF row
    <3> QED BY <1>1, <2>2, EngineGood, SetDatabase
  <2>4. c = [engine EXCEPT !.dbs[d].objects = "users"]
    OBVIOUS
  <2> HIDE DEF c
  <2>5. pipe_to_docker(r, c, parts, Succeed(r, settled))
    BY <1>3, <2>4
  <2>6. \A p \in parts : Good(p)
    OBVIOUS
  <2> HIDE DEF parts, settled
  <2> QED BY <1>0, <2>3, <2>5, <2>6, PipeAnswers
<1> QED BY <1>2, <1>3 DEF fix_object_ownership, build_owner_reassignment_sql

LEMMA PipeFails ==
  ASSUME DatabasesInv, NEW r \in Requests, NEW c, Good(c), NEW parts, \A p \in parts : Good(p),
         pipe_to_docker(r, c, parts, Fail(r)), UNCHANGED <<catalog, creds, backups, place>>
  PROVE  DatabasesInv'
<1>1. up /\ Fail(r) /\ \/ vol' = [vol EXCEPT ![home] = c]
                       \/ vol' \in {[vol EXCEPT ![home] = p] : p \in {engine, c} \cup parts}
  BY DEF pipe_to_docker
<1> QED BY <1>1, FaultKeeps, BrokenOff

LEMMA RestoreMysqlKeeps ==
  ASSUME DatabasesInv, NEW r \in Requests, restore_mysql(r)
  PROVE  DatabasesInv'
<1> DEFINE d == act[r].db
           old == engine.dbs[d]
           dropped == [engine EXCEPT !.dbs[d] = NONE]
           row == Database(IF old = NONE THEN {} ELSE old.users, Empty(d))
           created == [engine EXCEPT !.dbs[d] = row]
           granted == [created EXCEPT !.dbs[d].users = @ \cup {act[r].user}]
           row2 == [row EXCEPT !.users = @ \cup {act[r].user}]
<1>0. /\ UNCHANGED <<catalog, creds, backups, place>> /\ act[r].pc = "recreate" /\ ShapeOf(act[r])
      /\ ~Postgres
  BY Invariants DEF restore_mysql, Postgres
<1>1. d \in DBs /\ act[r].user \in Users
  BY <1>0 DEF ShapeOf, OnDatabase, WithUser
<1>2. row \in DatabaseRow /\ Fits(d, row) /\ Fits(d, NONE)
  <2>1. old = NONE \/ old \in DatabaseRow
    BY <1>1, EngineGood, Inside
  <2>2. (IF old = NONE THEN {} ELSE old.users) \in SUBSET Users
    BY <2>1 DEF DatabaseRow
  <2> QED BY <1>0, <1>1, <2>2, EmptyFits DEF Fits
<1>3. Fits(d, row2)
  <2>1. row.rows.of = d
    BY DEF Database, Empty
  <2> HIDE DEF row
  <2>2. row2 \in DatabaseRow /\ row2.rows = row.rows
    BY <1>1, <1>2 DEF DatabaseRow
  <2> HIDE DEF row2
  <2> QED BY <1>0, <2>1, <2>2 DEF Fits
<1>4. Good(dropped) /\ Good(created)
  <2> HIDE DEF row
  <2> QED BY <1>1, <1>2, EngineGood, SetDatabase
<1>5. Good(granted)
  <2>1. created.dbs[d] = row
    BY <1>1, EngineGood DEF Good, Cluster
  <2>2. granted = [created EXCEPT !.dbs[d] = row2]
    BY <2>1
  <2> HIDE DEF created, granted, row2
  <2> QED BY <1>1, <1>3, <1>4, <2>2, SetDatabase
<1>6. \/ pipe_to_docker(r, granted, {dropped, created}, Goto(r, "load"))
      \/ pipe_to_docker(r, created, {dropped}, Fail(r))
  BY DEF restore_mysql
<1> HIDE DEF dropped, created, granted
<1>7. CASE pipe_to_docker(r, granted, {dropped, created}, Goto(r, "load"))
  <2> DEFINE parts == {dropped, created}
  <2>1. \A p \in parts : Good(p)
    BY <1>4
  <2>2. pipe_to_docker(r, granted, parts, Goto(r, "load"))
    BY <1>7
  <2> HIDE DEF parts
  <2>3. "load" \in Steps /\ (Proceeds(r, "load") => ShapeOf(act'[r]))
    BY <1>0 DEF Steps, InContainer, Proceeds, ShapeOf, OnDatabase, WithUser, Moving
  <2> QED BY <1>0, <1>5, <2>1, <2>2, <2>3, PipeGoes
<1>8. CASE pipe_to_docker(r, created, {dropped}, Fail(r))
  <2> DEFINE parts == {dropped}
  <2>1. \A p \in parts : Good(p)
    BY <1>4
  <2>2. pipe_to_docker(r, created, parts, Fail(r))
    BY <1>8
  <2> HIDE DEF parts
  <2> QED BY <1>0, <1>4, <2>1, <2>2, PipeFails
<1> QED BY <1>6, <1>7, <1>8

LEMMA RunMysqlKeeps ==
  ASSUME DatabasesInv, NEW r \in Requests, run_mysql(r)
  PROVE  DatabasesInv'
<1> DEFINE d == act[r].db
           rows == act[r].rows
           x == engine.dbs[d]
           row(ver) == [x EXCEPT !.rows = [rows EXCEPT !.ver = ver]]
           with(ver) == [engine EXCEPT !.dbs[d] = row(ver)]
<1>0. /\ UNCHANGED <<catalog, creds, backups, place>> /\ act[r].pc = "load" /\ ShapeOf(act[r])
  BY Invariants DEF run_mysql
<1>1. d \in DBs /\ rows \in Rows /\ rows.of = d
  BY <1>0 DEF ShapeOf, OnDatabase
<1>2. CASE Refuse(r)
  BY <1>0, <1>2, RefuseKeeps
<1>3. CASE x # NONE /\ pipe_to_docker(r, [engine EXCEPT !.dbs[d].rows = [rows EXCEPT !.ver = rows.ver]],
                                      {[engine EXCEPT !.dbs[d].rows = [rows EXCEPT !.ver = "part"]]}, Succeed(r, {}))
  <2>1. rows.ver \in Versions /\ "part" \in Versions
    BY <1>1 DEF Rows, Versions
  <2>2. ASSUME NEW ver \in Versions
        PROVE  Good(with(ver))
    <3>1. Fits(d, x)
      BY <1>1, EngineGood, Inside
    <3>2. Fits(d, row(ver))
      BY <1>1, <1>3, <2>2, <3>1, Loaded
    <3> HIDE DEF row
    <3> QED BY <1>1, <3>2, EngineGood, SetDatabase
  <2> DEFINE c == with(rows.ver)
             parts == {with("part")}
  <2>3. Good(c) /\ \A p \in parts : Good(p)
    BY <2>1, <2>2
  <2>4. pipe_to_docker(r, c, parts, Succeed(r, {}))
    BY <1>3
  <2> HIDE DEF c, parts
  <2> QED BY <1>0, <2>3, <2>4, PipeAnswers
<1> QED BY <1>2, <1>3 DEF run_mysql

LEMMA MongoKeeps ==
  ASSUME DatabasesInv, NEW r \in Requests, execute_mongo_restore(r)
  PROVE  DatabasesInv'
<1> DEFINE d == act[r].db
           rows == act[r].rows
           old == engine.dbs[d]
           us == IF old = NONE THEN {} ELSE old.users
           row(ver) == Database(us, [rows EXCEPT !.ver = ver])
           with(ver) == IF rows = NONE THEN engine ELSE [engine EXCEPT !.dbs[d] = row(ver)]
           c == with(rows.ver)
           parts == {with("part")}
<1>0. /\ UNCHANGED <<catalog, creds, backups, place>> /\ act[r].pc = "mongo" /\ ShapeOf(act[r])
  BY Invariants DEF execute_mongo_restore
<1>1. d \in DBs /\ ~Postgres /\ (rows = NONE \/ (rows \in Rows /\ rows.of = d))
  BY <1>0 DEF ShapeOf, OnDatabase
<1>2. us \in SUBSET Users
  <2>1. old = NONE \/ old \in DatabaseRow
    BY <1>1, EngineGood, Inside
  <2> QED BY <2>1 DEF DatabaseRow
<1>3. ASSUME NEW ver \in Versions, rows # NONE
      PROVE  Good([engine EXCEPT !.dbs[d] = row(ver)])
  <2>1. [rows EXCEPT !.ver = ver] \in Rows /\ [rows EXCEPT !.ver = ver].of = d
    BY <1>1, <1>3 DEF Rows
  <2>2. Fits(d, row(ver))
    <3> HIDE DEF us
    <3> QED BY <1>1, <1>2, <2>1 DEF Database, DatabaseRow, Fits
  <2> HIDE DEF row
  <2> QED BY <1>1, <2>2, EngineGood, SetDatabase
<1>4. rows # NONE => rows.ver \in Versions
  BY <1>1 DEF Rows
<1>5. "part" \in Versions
  BY DEF Versions
<1>6. Good(c)
  BY <1>3, <1>4, EngineGood
<1>7. \A p \in parts : Good(p)
  BY <1>3, <1>5, EngineGood
<1>8. pipe_to_docker(r, c, parts, Succeed(r, {}))
  BY DEF execute_mongo_restore
<1> HIDE DEF c, parts
<1> QED BY <1>0, <1>6, <1>7, <1>8, PipeAnswers

-----------------------------------------------------------------------------
(* The move of the cluster.                                                  *)

LEMMA RepairKeeps ==
  ASSUME DatabasesInv, NEW r \in Requests, Repair(r)
  PROVE  DatabasesInv'
<1>1. PICK where \in inspect_and_diagnose :
        /\ Arrives(r, "repair", {}, [Idle EXCEPT !.known = TRUE, !.pc = IF plan_repair(where) THEN "stop" ELSE "pin"])
        /\ plan_repair(where) \/ needs_env_pin(where, service_env)
  BY DEF Repair
<1>2. UNCHANGED <<catalog, vol, creds, backups, place, tainted>>
  BY DEF Repair
<1>3. Postgres /\ where = home
  BY <1>1 DEF inspect_and_diagnose, diagnose
<1> DEFINE pc == IF plan_repair(where) THEN "stop" ELSE "pin"
           local == [Idle EXCEPT !.known = TRUE, !.pc = pc]
<1>4. pc \in {"stop", "pin"} /\ pc \in Steps /\ (pc = "pin" => home = "named")
  BY <1>1, <1>3 DEF Steps, plan_repair, needs_env_pin
<1>5. "repair" \in OpNames /\ {} \in SUBSET (DBs \cup Users)
  BY DEF OpNames
<1>6. Arrives(r, "repair", {}, local)
  BY <1>1
<1> HIDE DEF pc
<1>7. local \in Local /\ local.pc = pc /\ local.purge = {}
  <2>1. Idle \in Local /\ Idle.purge = {}
    BY IdleLocal DEF Idle
  <2> QED BY <1>4, <2>1 DEF Local
<1> HIDE DEF local
<1>8. pc = "pin" => vol["named"] \in Cluster
  BY <1>4 DEF DatabasesInv, PlaceOK
<1>9. RefersOf(local) /\ local.pc # "copy"
  BY <1>4, <1>7, <1>8 DEF RefersOf
<1>10. act'[r].op = "repair" /\ Carries(r, local) => ShapeOf(act'[r])
  BY <1>3, <1>4, <1>7 DEF Carries, ShapeOf, OnDatabase, WithUser, Moving
<1> QED BY <1>2, <1>5, <1>6, <1>7, <1>9, <1>10, ArriveKeeps

LEMMA UpdateEnvKeeps ==
  ASSUME DatabasesInv, NEW r \in Requests, UpdateEnv(r)
  PROVE  DatabasesInv'
<1> DEFINE local == [Idle EXCEPT !.known = pinned, !.pc = "pin"]
<1>1. Postgres /\ Arrives(r, "env", {}, local) /\ UNCHANGED <<catalog, vol, creds, backups, place, tainted>>
  BY DEF UpdateEnv
<1>2. "env" \in OpNames /\ {} \in SUBSET (DBs \cup Users) /\ "pin" \in Steps
  BY DEF OpNames, Steps
<1>3. local \in Local /\ local.pc = "pin" /\ local.purge = {} /\ local.known = pinned
  <2>1. Idle \in Local /\ Idle.purge = {}
    BY IdleLocal DEF Idle
  <2>2. pinned \in BOOLEAN
    BY DEF DatabasesInv, TypesOK
  <2> QED BY <1>2, <2>1, <2>2 DEF Local
<1> HIDE DEF local
<1>4. pinned => vol["named"] \in Cluster
  BY DEF DatabasesInv, PlaceOK
<1>5. RefersOf(local) /\ local.pc # "copy"
  BY <1>3, <1>4 DEF RefersOf
<1>6. act'[r].op = "env" /\ Carries(r, local) => ShapeOf(act'[r])
  BY <1>1, <1>3 DEF Carries, ShapeOf, OnDatabase, WithUser, Moving
<1> QED BY <1>1, <1>2, <1>3, <1>5, <1>6, ArriveKeeps

\* A step of one request that changes the place or the copy, and none of the tables.
LEMMA MoveKeeps ==
  ASSUME DatabasesInv, NEW r \in Requests, Only(r), tainted' \subseteq DBs \cup Users,
         UNCHANGED <<catalog, creds, backups>>,
         home' \in Volumes, pinned' \in BOOLEAN, up' \in BOOLEAN, restarted' \in BOOLEAN,
         vol' \in [Volumes -> Cluster \cup {NONE, Torn}], vol'["anon"] = vol["anon"],
         \/ vol'["named"] = vol["named"]
         \/ vol["named"] \notin Cluster /\ (vol'["named"] \in Cluster => vol'["named"] = vol["anon"]),
         ShapeOf(act'[r]),
         \A b \in act'[r].purge : backups[b] # NONE,
         act'[r].pc = "download" => act'[r].from \in Passwords /\ backups[act'[r].from] # NONE,
         act'[r].pc \in {"pin", "deploy"} /\ act'[r].known => vol'["named"] \in Cluster,
         PlaceOK', MoveOK'
  PROVE  DatabasesInv'
<1>0. /\ vol \in [Volumes -> Cluster \cup {NONE, Torn}]
      /\ vol["named"] \in Cluster => vol'["named"] \in Cluster
      /\ Volumes = {"anon", "named"}
  BY DEF DatabasesInv, TypesOK, Volumes
<1>1. TypesOK'
  BY DEF DatabasesInv, TypesOK, Only
<1>2. RequestsOK'
  <2>1. ASSUME NEW q \in Requests
        PROVE  ShapeOf(act'[q]) /\ RefersOf(act[q])'
    <3>1. CASE q = r
      BY <3>1 DEF RefersOf
    <3>2. CASE q # r
      <4>1. Same(q) /\ ShapeOf(act[q]) /\ RefersOf(act[q])
        BY <3>2, Invariants DEF Only
      <4>2. ShapeOf(act'[q])
        BY <4>1 DEF Same, ShapeOf
      <4>3. RefersOf(act[q])'
        BY <1>0, <4>1 DEF Same, RefersOf
      <4> QED BY <4>2, <4>3
    <3> QED BY <3>1, <3>2
  <2>2. Postgres' = Postgres
    BY DEF Postgres
  <2>3. ASSUME NEW q \in Requests
        PROVE  ShapeOf(act[q])'
    BY <2>1, <2>2 DEF ShapeOf
  <2> QED BY <2>1, <2>3 DEF RequestsOK
<1>3. VolumesOK'
  <2>1. ASSUME NEW v \in Volumes, vol'[v] \notin {NONE, Torn}
        PROVE  Good(vol'[v])
    <3>1. \A w \in Volumes : vol[w] \notin {NONE, Torn} => Good(vol[w])
      BY DEF DatabasesInv, VolumesOK
    <3>2. vol'[v] = vol["anon"] \/ vol'[v] = vol[v]
      BY <1>0, <2>1
    <3> QED BY <1>0, <2>1, <3>1, <3>2
  <2> QED BY <2>1 DEF VolumesOK, Good, Postgres
<1>4. BackupsOK'
  BY DEF DatabasesInv, BackupsOK, Own
<1> QED BY <1>1, <1>2, <1>3, <1>4 DEF DatabasesInv

LEMMA QuiesceKeeps ==
  ASSUME DatabasesInv, NEW r \in Requests, Quiesce(r)
  PROVE  DatabasesInv'
<1>0. /\ TypesOK /\ ShapeOf(act[r]) /\ RefersOf(act[r]) /\ act[r].pc = "stop"
      /\ UNCHANGED <<catalog, vol, home, pinned, creds, backups, restarted>>
  BY Invariants DEF Quiesce
<1>1. \/ up' = FALSE /\ Goto(r, "copy")
      \/ up' \in {up, FALSE} /\ Fail(r)
  BY DEF Quiesce, stop_container
<1>2. PlaceOK'
  BY <1>0 DEF DatabasesInv, PlaceOK, Postgres
<1>t. /\ home' \in Volumes /\ pinned' \in BOOLEAN /\ up' \in BOOLEAN /\ restarted' \in BOOLEAN
      /\ vol' \in [Volumes -> Cluster \cup {NONE, Torn}]
  BY <1>0, <1>1 DEF TypesOK
<1>m. up' => up
  BY <1>0, <1>1 DEF TypesOK
<1>3. CASE up' = FALSE /\ Goto(r, "copy")
  <2>1. "copy" \in Steps
    BY DEF Steps
  <2>2. Only(r) /\ Proceeds(r, "copy") /\ tainted' = tainted
    BY <1>0, <1>3, <2>1, Goes
  <2>3. MoveOK'
    BY <1>0, <1>3 DEF DatabasesInv, MoveOK
  <2>4. ShapeOf(act'[r]) /\ \A b \in act'[r].purge : backups[b] # NONE
    BY <1>0, <2>2 DEF Proceeds, ShapeOf, RefersOf, OnDatabase, WithUser, Moving
  <2>5. tainted' \subseteq DBs \cup Users
    BY <1>0, <2>2 DEF TypesOK
  <2> QED BY <1>0, <1>2, <1>t, <2>2, <2>3, <2>4, <2>5, MoveKeeps DEF Proceeds
<1>4. CASE up' \in {up, FALSE} /\ Fail(r)
  <2>1. Ends(r)
    BY <1>0, <1>4, FailEnds
  <2>2. MoveOK'
    BY <1>0, <1>m, <2>1 DEF DatabasesInv, MoveOK, Ends, Only, Same
  <2>3. ShapeOf(act'[r])
    BY <2>1 DEF Ends, ShapeOf, OnDatabase, WithUser, Moving
  <2> QED BY <1>0, <1>2, <1>t, <2>1, <2>2, <2>3, MoveKeeps DEF Ends
<1> QED BY <1>1, <1>3, <1>4

LEMMA CopyKeeps ==
  ASSUME DatabasesInv, NEW r \in Requests, run_copy_container(r)
  PROVE  DatabasesInv'
<1>0. /\ TypesOK /\ ShapeOf(act[r]) /\ RefersOf(act[r]) /\ act[r].pc = "copy" /\ act[r].op = "repair" /\ Postgres
      /\ UNCHANGED <<catalog, home, pinned, creds, backups>>
  BY Invariants DEF run_copy_container, ShapeOf, Moving
<1>1. /\ vol["anon"] \in Cluster /\ vol["anon"] \notin {NONE, Torn}
      /\ home = "named" \/ pinned => vol["named"] \in Cluster
  BY <1>0, NoneIsNothing DEF DatabasesInv, PlaceOK
<1>v. vol \in [Volumes -> Cluster \cup {NONE, Torn}] /\ "named" \in Volumes /\ "anon" \in Volumes
  BY <1>0 DEF TypesOK, Volumes
<1>2. \/ /\ vol["named"] = NONE /\ vol' = [vol EXCEPT !["named"] = vol["anon"]] /\ Goto(r, "pin")
         /\ UNCHANGED <<up, restarted>>
      \/ /\ vol' \in {vol} \cup (IF vol["named"] = NONE THEN {[vol EXCEPT !["named"] = Torn]} ELSE {})
         /\ up' \in BOOLEAN /\ Starts(home) /\ Fail(r)
  BY DEF run_copy_container
<1>3. CASE /\ vol["named"] = NONE /\ vol' = [vol EXCEPT !["named"] = vol["anon"]] /\ Goto(r, "pin")
           /\ UNCHANGED <<up, restarted>>
  <2>1. "pin" \in Steps
    BY DEF Steps
  <2>2. Only(r) /\ Proceeds(r, "pin") /\ tainted' = tainted
    BY <1>0, <1>3, <2>1, Goes
  <2>3. vol'["anon"] = vol["anon"] /\ vol'["named"] = vol["anon"]
    BY <1>3, <1>v
  <2>4. PlaceOK'
    BY <1>0, <1>1, <2>3 DEF PlaceOK, Postgres
  <2>5. MoveOK'
    <3>1. home = "anon" /\ ~restarted => ~up
      BY <1>0 DEF DatabasesInv, MoveOK
    <3> QED BY <1>0, <1>3, <2>3, <3>1 DEF MoveOK
  <2>6. ShapeOf(act'[r]) /\ \A b \in act'[r].purge : backups[b] # NONE
    BY <1>0, <2>2 DEF Proceeds, ShapeOf, RefersOf, OnDatabase, WithUser, Moving
  <2>7. /\ home' \in Volumes /\ pinned' \in BOOLEAN /\ up' \in BOOLEAN /\ restarted' \in BOOLEAN
        /\ tainted' \subseteq DBs \cup Users
    BY <1>0, <1>3, <2>2 DEF TypesOK
  <2>8. vol' \in [Volumes -> Cluster \cup {NONE, Torn}]
    BY <1>1, <1>3, <1>v
  <2>9. act'[r].pc # "download" /\ vol["named"] \notin Cluster
    BY <1>3, <2>2, NoneIsNothing DEF Proceeds
  <2> QED BY <1>0, <1>1, <2>2, <2>3, <2>4, <2>5, <2>6, <2>7, <2>8, <2>9, MoveKeeps
<1>4. CASE /\ vol' \in {vol} \cup (IF vol["named"] = NONE THEN {[vol EXCEPT !["named"] = Torn]} ELSE {})
           /\ up' \in BOOLEAN /\ Starts(home) /\ Fail(r)
  <2>1. Ends(r)
    BY <1>0, <1>4, FailEnds
  <2>2. /\ vol' \in [Volumes -> Cluster \cup {NONE, Torn}] /\ vol'["anon"] = vol["anon"]
        /\ vol'["named"] = vol["named"] \/ (vol["named"] = NONE /\ vol'["named"] = Torn)
    BY <1>4, <1>v
  <2>3. restarted' \in BOOLEAN /\ (home = "anon" => restarted')
    BY <1>0, <1>4 DEF Starts, TypesOK
  <2>4. PlaceOK'
    BY <1>0, <1>1, <2>2, NoneIsNothing DEF PlaceOK, Postgres
  <2>5. MoveOK'
    BY <1>0, <2>3 DEF MoveOK
  <2>6. ShapeOf(act'[r])
    BY <2>1 DEF Ends, ShapeOf, OnDatabase, WithUser, Moving
  <2>7. home' \in Volumes /\ pinned' \in BOOLEAN /\ up' \in BOOLEAN
    BY <1>0, <1>4 DEF TypesOK
  <2> QED BY <1>0, <2>1, <2>2, <2>3, <2>4, <2>5, <2>6, <2>7, NoneIsNothing, MoveKeeps DEF Ends
<1> QED BY <1>2, <1>3, <1>4

LEMMA ApplyEnvKeeps ==
  ASSUME DatabasesInv, NEW r \in Requests, apply_env_update(r)
  PROVE  DatabasesInv'
<1>0. /\ TypesOK /\ act[r] \in Local /\ ShapeOf(act[r]) /\ RefersOf(act[r]) /\ act[r].pc = "pin"
      /\ pinned' = act[r].known /\ Goto(r, "deploy")
      /\ UNCHANGED <<catalog, vol, home, up, creds, backups, restarted>>
  BY Invariants DEF apply_env_update
<1>1. "deploy" \in Steps
  BY DEF Steps
<1>2. Only(r) /\ Proceeds(r, "deploy") /\ tainted' = tainted
  BY <1>0, <1>1, Goes
<1>3. act[r].known => vol["named"] \in Cluster
  BY <1>0 DEF RefersOf
<1>4. PlaceOK'
  BY <1>0, <1>3 DEF DatabasesInv, PlaceOK, Postgres
<1>5. MoveOK'
  <2>1. ASSUME NEW q \in Requests, act'[q].pc = "copy"
        PROVE  act[q].pc = "copy"
    BY <1>2, <2>1 DEF Proceeds, Only, Same
  <2> QED BY <1>0, <2>1 DEF DatabasesInv, MoveOK
<1>6. ShapeOf(act'[r]) /\ \A b \in act'[r].purge : backups[b] # NONE
  BY <1>0, <1>2 DEF Proceeds, ShapeOf, RefersOf, OnDatabase, WithUser, Moving
<1>7. /\ home' \in Volumes /\ pinned' \in BOOLEAN /\ up' \in BOOLEAN /\ restarted' \in BOOLEAN
      /\ tainted' \subseteq DBs \cup Users /\ vol' \in [Volumes -> Cluster \cup {NONE, Torn}]
  <2>1. act[r].known \in BOOLEAN
    BY <1>0 DEF Local
  <2> QED BY <1>0, <1>2, <2>1 DEF TypesOK
<1>8. act'[r].pc # "download" /\ (act'[r].known => vol'["named"] \in Cluster)
  BY <1>0, <1>2, <1>3 DEF Proceeds
<1> QED BY <1>0, <1>2, <1>4, <1>5, <1>6, <1>7, <1>8, MoveKeeps

\* A change to a differing cluster: everything is disturbed, and nobody at work is alone.
Disturbs(r) ==
  /\ act' = [q \in Requests |-> IF q = r THEN [Idle EXCEPT !.pc = "done"]
                               ELSE [act[q] EXCEPT !.alone = @ /\ ~Active(q)]]
  /\ tainted' = DBs \cup Users

LEMMA RedeployEnds ==
  ASSUME TypesOK, NEW r \in Requests, Redeploy(r)
  PROVE  Ends(r) /\ ((Done(r) /\ UNCHANGED tainted) \/ Disturbs(r))
<1>1. (Done(r) /\ UNCHANGED tainted) \/ Disturbs(r)
  BY DEF Redeploy, Disturbs
<1>2. CASE Done(r) /\ UNCHANGED tainted
  <2>1. tainted' \subseteq DBs \cup Users
    BY <1>2 DEF TypesOK
  <2> QED BY <1>1, <1>2, <2>1, DoneEnds
<1>3. CASE Disturbs(r)
  <2> DEFINE x == [Idle EXCEPT !.pc = "done"]
             calm(q) == act[q].alone /\ ~Active(q)
             y(q) == [act[q] EXCEPT !.alone = calm(q)]
  <2>1. act' = [q \in Requests |-> IF q = r THEN x ELSE y(q)]
    <3>1. ASSUME NEW q \in Requests
          PROVE  [act[q] EXCEPT !.alone = @ /\ ~Active(q)] = y(q)
      OBVIOUS
    <3> QED BY <1>3, <3>1 DEF Disturbs
  <2>2. x \in Local /\ x.pc = "done" /\ x.purge = {}
    BY IdleLocal
  <2>3. ASSUME NEW q \in Requests
        PROVE  calm(q) \in BOOLEAN
    OBVIOUS
  <2> HIDE DEF x, calm
  <2>4. ASSUME NEW q \in Requests
        PROVE  /\ y(q) \in Local /\ y(q).op = act[q].op /\ y(q).pc = act[q].pc /\ y(q).db = act[q].db
               /\ y(q).user = act[q].user /\ y(q).rows = act[q].rows /\ y(q).known = act[q].known
               /\ y(q).from = act[q].from /\ y(q).purge = act[q].purge
    <3>1. PICK k \in Local : act[q] = k
      BY DEF TypesOK
    <3> QED BY <2>3, <3>1 DEF Local
  <2> HIDE DEF y
  <2>5. Only(r)
    BY <2>1, <2>2, <2>4 DEF Only, Same
  <2> QED BY <1>1, <1>3, <2>1, <2>2, <2>5 DEF Ends, Disturbs
<1> QED BY <1>1, <1>2, <1>3

LEMMA RedeployKeeps ==
  ASSUME DatabasesInv, NEW r \in Requests, Redeploy(r)
  PROVE  DatabasesInv'
<1> DEFINE next == IF act[r].known THEN "named" ELSE "anon"
<1>0. /\ TypesOK /\ ShapeOf(act[r]) /\ RefersOf(act[r]) /\ act[r].pc = "deploy" /\ Postgres
      /\ UNCHANGED <<catalog, vol, pinned, creds, backups>>
  BY Invariants DEF Redeploy, ShapeOf, Moving
<1>1. /\ home' \in {next, home}
      /\ up' \in {TRUE, FALSE, up \/ act[r].op = "repair"}
      /\ IF home' # home \/ (up' /\ ~up) THEN Starts(home') ELSE UNCHANGED restarted
  BY DEF Redeploy
<1>2. home' \in Volumes /\ up' \in BOOLEAN /\ restarted' \in BOOLEAN /\ pinned' \in BOOLEAN
  <2>1. home' \in Volumes /\ up' \in BOOLEAN /\ pinned' \in BOOLEAN
    BY <1>0, <1>1 DEF TypesOK, Volumes
  <2>2. restarted' \in BOOLEAN
    BY <1>0, <1>1 DEF TypesOK, Starts
  <2> QED BY <2>1, <2>2
<1>4. Ends(r)
  BY <1>0, RedeployEnds
<1>5. PlaceOK'
  <2>1. act[r].known => vol["named"] \in Cluster
    BY <1>0 DEF RefersOf
  <2> QED BY <1>0, <1>1, <2>1 DEF DatabasesInv, PlaceOK, Postgres
<1>6. MoveOK'
  <2> SUFFICES ASSUME home' = "anon", ~restarted'
               PROVE  /\ vol'["named"] \in Cluster => vol'["named"] = vol'["anon"] /\ ~up'
                      /\ \A q \in Requests : act'[q].pc = "copy" => ~up'
    BY DEF MoveOK
  <2>1. ASSUME NEW q \in Requests, act'[q].pc = "copy"
        PROVE  act[q].pc = "copy" /\ act[q].op = "repair"
    <3>1. act[q].pc = "copy"
      BY <1>4, <2>1 DEF Ends, Only, Same
    <3> QED BY <3>1, Invariants DEF ShapeOf
  <2>2. CASE home' # home \/ (up' /\ ~up)
    <3>1. vol["named"] = NONE /\ \A q \in Requests : ~(act[q].op = "repair" /\ act[q].pc = "copy")
      BY <1>0, <1>1, <2>2 DEF Starts
    <3> QED BY <1>0, <2>1, <3>1, NoneIsNothing
  <2>3. CASE home' = home /\ ~(up' /\ ~up)
    <3>1. home = "anon" /\ ~restarted /\ (up' => up)
      BY <1>0, <1>1, <1>2, <2>3 DEF TypesOK
    <3>2. /\ vol["named"] \in Cluster => vol["named"] = vol["anon"] /\ ~up
          /\ \A q \in Requests : act[q].pc = "copy" => ~up
      BY <3>1 DEF DatabasesInv, MoveOK
    <3> QED BY <1>0, <2>1, <3>1, <3>2
  <2> QED BY <2>2, <2>3
<1>7. ShapeOf(act'[r])
  BY <1>4 DEF Ends, ShapeOf, OnDatabase, WithUser, Moving
<1>8. vol' \in [Volumes -> Cluster \cup {NONE, Torn}]
  BY <1>0 DEF TypesOK
<1> QED BY <1>0, <1>2, <1>4, <1>5, <1>6, <1>7, <1>8, MoveKeeps DEF Ends

-----------------------------------------------------------------------------
(* Every state.                                                              *)

LEMMA WriteKeeps ==
  ASSUME DatabasesInv, NEW d \in DBs, Write(d)
  PROVE  DatabasesInv'
<1> DEFINE x == engine.dbs[d]
           rows == [of |-> d, ver |-> "new"]
           row == [x EXCEPT !.rows = rows]
           c == [engine EXCEPT !.dbs[d] = row]
<1>1. /\ up /\ x # NONE /\ vol' = [vol EXCEPT ![home].dbs[d].rows = rows]
      /\ UNCHANGED <<catalog, creds, backups, place, act, tainted, events>>
  BY DEF Write
<1>2. rows \in Rows /\ rows.of = d
  BY DEF Rows, Versions
<1>3. vol' = [vol EXCEPT ![home] = c]
  BY <1>1 DEF engine
<1> HIDE DEF rows
<1>4. Fits(d, x)
  BY EngineGood, Inside
<1>5. Fits(d, row)
  <2>1. x \in DatabaseRow
    BY <1>1, <1>4 DEF Fits
  <2>2. row \in DatabaseRow /\ row.rows = rows /\ row.users = x.users
    BY <1>2, <2>1 DEF DatabaseRow
  <2> HIDE DEF row
  <2> QED BY <1>1, <1>2, <1>4, <2>2 DEF Fits
<1> HIDE DEF row
<1>6. Good(c)
  BY <1>5, EngineGood, SetDatabase
<1> HIDE DEF c
<1>7. Calm
  BY <1>1, <1>3, <1>6, ClusterStep
<1>8. act' \in [Requests -> Local] /\ tainted' \subseteq DBs \cup Users /\ \A q \in Requests : Same(q)
  BY <1>1 DEF DatabasesInv, TypesOK, Same
<1> QED BY <1>7, <1>8, CalmStep, AnyStepKeeps

LEMMA InitHolds ==
  ASSUME Init
  PROVE  DatabasesInv
<1>1. PICK mine \in SUBSET DBs, u \in Users, d \in DBs, all \in BOOLEAN :
        LET old == [x \in DBs |-> IF x \in mine THEN [of |-> x, ver |-> "old"] ELSE NONE] IN
        /\ d \in mine
        /\ vol = [v \in Volumes |->
             IF v # (IF Postgres THEN "anon" ELSE "named") THEN NONE
             ELSE [roles |-> [k \in Roles |-> IF \E x \in mine : k = Role(x, u) THEN [NoRole EXCEPT !.pass = First] ELSE NoRole],
                   dbs |-> [x \in DBs |-> IF x \in mine THEN Database({u}, old[x]) ELSE NONE]]]
        /\ creds = [x \in DBs |-> IF x \in mine THEN [user |-> u, pass |-> First] ELSE NONE]
        /\ backups = [b \in Passwords |->
             IF b # First THEN NONE
             ELSE IF all THEN Archive(NONE, old) ELSE Archive(d, [x \in DBs |-> IF x = d THEN old[x] ELSE NONE])]
  BY DEF Init
<1>2. /\ catalog \in Catalogs /\ home = (IF Postgres THEN "anon" ELSE "named") /\ pinned = FALSE /\ up = TRUE
      /\ restarted = FALSE /\ act = [r \in Requests |-> Idle] /\ tainted = {}
  BY DEF Init
<1> DEFINE old == [x \in DBs |-> IF x \in mine THEN [of |-> x, ver |-> "old"] ELSE NONE]
           roles == [k \in Roles |-> IF \E x \in mine : k = Role(x, u) THEN [NoRole EXCEPT !.pass = First] ELSE NoRole]
           dbs == [x \in DBs |-> IF x \in mine THEN Database({u}, old[x]) ELSE NONE]
           c == [roles |-> roles, dbs |-> dbs]
           one == [x \in DBs |-> IF x = d THEN old[x] ELSE NONE]
<1>3. old \in Dump /\ Own(old) /\ one \in Dump /\ Own(one)
  <2>1. old \in Dump /\ Own(old)
    BY DEF Dump, Rows, Versions, Own
  <2> HIDE DEF old
  <2> QED BY <2>1 DEF Dump, Own
<1>4. Good(c)
  <2>1. roles \in [Roles -> RoleRow]
    BY DEF NoRole, RoleRow, Passwords
  <2>2. ASSUME NEW x \in mine
        PROVE  old[x] \in Rows /\ old[x].of = x
    BY DEF Rows, Versions
  <2>3. ASSUME NEW x \in mine
        PROVE  /\ Database({u}, old[x]) \in DatabaseRow /\ Database({u}, old[x]).rows.of = x
               /\ Database({u}, old[x]).users = {u}
    <3> DEFINE o == old[x]
    <3>1. o \in Rows /\ o.of = x
      BY <2>2
    <3> HIDE DEF o
    <3> QED BY <3>1 DEF Database, DatabaseRow, o
  <2> HIDE DEF roles, old
  <2>4. dbs \in [DBs -> DatabaseRow \cup {NONE}]
    BY <2>3
  <2>5. \A x \in DBs : dbs[x] # NONE => dbs[x].rows.of = x /\ (Postgres => dbs[x].users # {})
    BY <2>3
  <2> HIDE DEF dbs
  <2> QED BY <2>1, <2>4, <2>5 DEF Good, Cluster
<1>5. c \in Cluster
  BY <1>4 DEF Good
<1>6. /\ vol = [v \in Volumes |-> IF v # (IF Postgres THEN "anon" ELSE "named") THEN NONE ELSE c]
      /\ backups = [b \in Passwords |-> IF b # First THEN NONE ELSE IF all THEN Archive(NONE, old) ELSE Archive(d, one)]
  BY <1>1
<1> HIDE DEF c, old, one
<1>7. vol \in [Volumes -> Cluster \cup {NONE, Torn}] /\ \A v \in Volumes : vol[v] = NONE \/ vol[v] = c
  BY <1>5, <1>6
<1>8. PlaceOK /\ (home = "anon" => vol["named"] = NONE)
  <2>1. home = "named" => vol["named"] = c
    BY <1>2, <1>6 DEF Volumes
  <2>2. Postgres => vol["anon"] = c /\ vol["named"] = NONE
    BY <1>6 DEF Volumes
  <2> QED BY <1>2, <1>5, <2>1, <2>2 DEF PlaceOK
<1>9. creds \in [DBs -> Credentials \cup {NONE}]
  BY <1>1 DEF Credentials, Passwords
<1>10. backups \in [Passwords -> BackupRow \cup {NONE}] /\ BackupsOK
  <2>1. ASSUME NEW t \in DBs \cup {NONE}, NEW dump \in Dump, Own(dump)
        PROVE  Archive(t, dump) \in BackupRow /\ Own(Archive(t, dump).rows)
    BY <2>1 DEF Archive, BackupRow
  <2>2. Archive(NONE, old) \in BackupRow /\ Own(Archive(NONE, old).rows)
    BY <1>3, <2>1
  <2>3. Archive(d, one) \in BackupRow /\ Own(Archive(d, one).rows)
    BY <1>3, <2>1
  <2>4. \A b \in Passwords : backups[b] = NONE \/ (backups[b] \in BackupRow /\ Own(backups[b].rows))
    BY <1>6, <2>2, <2>3
  <2>5. backups \in [Passwords -> BackupRow \cup {NONE}]
    BY <1>6, <2>2, <2>3
  <2> QED BY <2>4, <2>5 DEF BackupsOK
<1>11. act \in [Requests -> Local] /\ \A r \in Requests : act[r].pc = "new" /\ act[r].purge = {}
  BY <1>2, IdleLocal DEF Idle
<1>12. TypesOK
  BY <1>2, <1>7, <1>9, <1>10, <1>11 DEF TypesOK, Volumes
<1>13. RequestsOK
  BY <1>11 DEF RequestsOK, ShapeOf, RefersOf, OnDatabase, WithUser, Moving
<1>14. VolumesOK
  BY <1>4, <1>7 DEF VolumesOK
<1>15. MoveOK
  BY <1>2, <1>8, <1>11, NoneIsNothing DEF MoveOK
<1> QED BY <1>8, <1>10, <1>12, <1>13, <1>14, <1>15 DEF DatabasesInv

LEMMA StutterKeeps ==
  ASSUME DatabasesInv, UNCHANGED vars
  PROVE  DatabasesInv'
<1>1. Calm
  BY DEF Calm, EngineStep, vars
<1>2. act' \in [Requests -> Local] /\ tainted' \subseteq DBs \cup Users /\ \A q \in Requests : Same(q)
  BY DEF DatabasesInv, TypesOK, Same, vars
<1> QED BY <1>1, <1>2, CalmStep, AnyStepKeeps

LEMMA NextKeeps ==
  ASSUME DatabasesInv, [Next]_vars
  PROVE  DatabasesInv'
<1>1. CASE \E d \in DBs : Write(d)
  BY <1>1, WriteKeeps
<1>2. ASSUME NEW r \in Requests,
             \/ Create(r) \/ Delete(r) \/ ChangePassword(r) \/ SetPrivileges(r)
             \/ Backup(r) \/ Restore(r) \/ RestoreUpload(r) \/ Repair(r) \/ UpdateEnv(r)
      PROVE  DatabasesInv'
  BY <1>2, CreateKeeps, DeleteKeeps, ChangePasswordKeeps, SetPrivilegesKeeps, BackupKeeps, RestoreKeeps,
     RestoreUploadKeeps, RepairKeeps, UpdateEnvKeeps
<1>3. ASSUME NEW r \in Requests,
             \/ RoleExists(r) \/ AlterRole(r) \/ CreateInEngine(r) \/ StoreCreated(r)
             \/ PurgeBlobs(r) \/ ReadOwner(r) \/ DropDatabase(r) \/ DropUser(r) \/ ForgetDatabase(r)
             \/ OwnerOf(r) \/ AlterUser(r) \/ StoreChanged(r) \/ OwnerToAlter(r) \/ AlterPrivileges(r)
      PROVE  DatabasesInv'
  BY <1>3, RoleExistsKeeps, AlterRoleKeeps, CreateInEngineKeeps, StoreCreatedKeeps, PurgeBlobsKeeps,
     ReadOwnerKeeps, DropDatabaseKeeps, DropUserKeeps, ForgetDatabaseKeeps, OwnerOfKeeps, AlterUserKeeps,
     StoreChangedKeeps, OwnerToAlterKeeps, AlterPrivilegesKeeps
<1>4. ASSUME NEW r \in Requests,
             \/ execute_cluster_backup(r) \/ SaveDump(r)
             \/ Download(r) \/ drop_and_recreate_pg_db(r) \/ restore_postgres(r) \/ fix_object_ownership(r)
             \/ restore_mysql(r) \/ run_mysql(r) \/ execute_mongo_restore(r)
      PROVE  DatabasesInv'
  BY <1>4, DumpKeeps, SaveDumpKeeps, DownloadKeeps, RecreateKeeps, RestorePostgresKeeps, FixKeeps,
     RestoreMysqlKeeps, RunMysqlKeeps, MongoKeeps
<1>5. ASSUME NEW r \in Requests,
             \/ Quiesce(r) \/ run_copy_container(r) \/ apply_env_update(r) \/ Redeploy(r)
             \/ NotRunning(r)
      PROVE  DatabasesInv'
  BY <1>5, QuiesceKeeps, CopyKeeps, ApplyEnvKeeps, RedeployKeeps, NotRunningKeeps
<1>6. CASE UNCHANGED vars
  BY <1>6, StutterKeeps
<1> QED BY <1>1, <1>2, <1>3, <1>4, <1>5, <1>6 DEF Next

\* The inductive invariant holds in every state.
THEOREM DatabasesInductive == Spec => []DatabasesInv
<1>1. Init => DatabasesInv
  BY InitHolds
<1>2. DatabasesInv /\ [Next]_vars => DatabasesInv'
  BY NextKeeps
<1> QED BY <1>1, <1>2, PTL DEF Spec

\* Types: every table, request and volume keeps its shape, and the container is always on a
\* volume with a whole cluster, never on one a copy did not finish (run_copy_container, Redeploy).
THEOREM DatabasesTypeCorrect == Spec => []DatabasesTypeOK
<1>1. DatabasesInv => DatabasesTypeOK
  BY EngineGood DEF DatabasesInv, TypesOK, DatabasesTypeOK
<1> QED BY <1>1, DatabasesInductive, PTL

\* Provenance: no dump, restore, upload or move puts the rows of one database into another.
THEOREM RowsStayTheirOwn == Spec => []OwnRows
<1>1. DatabasesInv => OwnRows
  BY DEF DatabasesInv, VolumesOK, BackupsOK, Good, Own, OwnRows
<1> QED BY <1>1, DatabasesInductive, PTL

-----------------------------------------------------------------------------
(* The move.                                                                 *)

\* Only a deploy changes the volume of the container.
LEMMA OnlyRedeployMoves ==
  ASSUME [Next]_vars, home' # home
  PROVE  \E r \in Requests : Redeploy(r)
<1>1. ASSUME NEW r \in Requests,
             \/ Create(r) \/ Delete(r) \/ ChangePassword(r) \/ SetPrivileges(r)
             \/ Backup(r) \/ Restore(r) \/ RestoreUpload(r) \/ Repair(r) \/ UpdateEnv(r)
      PROVE  FALSE
  BY <1>1 DEF Create, Delete, ChangePassword, SetPrivileges, Backup, Restore, RestoreUpload, Repair, UpdateEnv, place
<1>2. ASSUME NEW r \in Requests,
             \/ RoleExists(r) \/ AlterRole(r) \/ CreateInEngine(r) \/ StoreCreated(r)
             \/ PurgeBlobs(r) \/ ReadOwner(r) \/ DropDatabase(r) \/ DropUser(r) \/ ForgetDatabase(r)
             \/ OwnerOf(r) \/ AlterUser(r) \/ StoreChanged(r) \/ OwnerToAlter(r) \/ AlterPrivileges(r)
      PROVE  FALSE
  BY <1>2 DEF RoleExists, AlterRole, CreateInEngine, StoreCreated, PurgeBlobs, ReadOwner, DropDatabase, DropUser,
     ForgetDatabase, OwnerOf, AlterUser, StoreChanged, OwnerToAlter, AlterPrivileges, place
<1>3. ASSUME NEW r \in Requests,
             \/ execute_cluster_backup(r) \/ SaveDump(r)
             \/ Download(r) \/ drop_and_recreate_pg_db(r) \/ restore_postgres(r) \/ fix_object_ownership(r)
             \/ restore_mysql(r) \/ run_mysql(r) \/ execute_mongo_restore(r)
      PROVE  FALSE
  BY <1>3 DEF execute_cluster_backup, SaveDump, Download, drop_and_recreate_pg_db, restore_postgres,
     fix_object_ownership, restore_mysql, run_mysql, execute_mongo_restore, place
<1>4. ASSUME NEW r \in Requests,
             Quiesce(r) \/ run_copy_container(r) \/ apply_env_update(r) \/ NotRunning(r)
      PROVE  FALSE
  BY <1>4 DEF Quiesce, run_copy_container, apply_env_update, NotRunning, place
<1>5. ASSUME NEW d \in DBs, Write(d)
      PROVE  FALSE
  BY <1>5 DEF Write, place
<1> QED BY <1>1, <1>2, <1>3, <1>4, <1>5 DEF Next, vars

LEMMA RedeploySafe ==
  ASSUME DatabasesInv, NEW r \in Requests, Redeploy(r), home = "anon", home' = "named"
  PROVE  restarted \/ vol["named"] = vol["anon"]
<1>1. act[r].pc = "deploy" /\ act[r].known
  BY DEF Redeploy
<1>2. vol["named"] \in Cluster
  BY <1>1, Invariants DEF RefersOf
<1> QED BY <1>2 DEF DatabasesInv, MoveOK

\* The move: when the container changes to the named volume, that volume holds what the anonymous
\* one does, down to the last write, unless the old container was started again beside the copy.
THEOREM MoveNeverLosesWrites == Spec => MoveLosesNothing
<1>1. DatabasesInv /\ [Next]_vars
        => [home = "anon" /\ home' = "named" => restarted \/ vol.named = vol.anon]_vars
  <2> SUFFICES ASSUME DatabasesInv, [Next]_vars, home = "anon", home' = "named"
               PROVE  restarted \/ vol.named = vol.anon
    OBVIOUS
  <2>1. PICK r \in Requests : Redeploy(r)
    BY OnlyRedeployMoves
  <2> QED BY <2>1, RedeploySafe
<1> QED BY <1>1, DatabasesInductive, PTL DEF Spec, MoveLosesNothing

-----------------------------------------------------------------------------
(* The panel and the engine: what agrees, and who may have moved them apart. *)

Mongo == catalog = "mongodb"

DbOK(d) ==
  /\ creds[d] # NONE <=> engine.dbs[d] # NONE
  /\ creds[d] # NONE => creds[d].user \in engine.dbs[d].users /\ engine.dbs[d].objects = "users"
PassOK(d) == creds[d] # NONE => engine.roles[Role(d, creds[d].user)].pass = creds[d].pass

\* Request r may touch x, a database or a user.
Works(r, x) == Active(r) /\ x \in act[r].foot

\* Its database is not in order at this step, and will be, or be tainted, when it ends.
Between(r) ==
  \/ act[r].pc \in {"createdb", "dropuser", "forget"}
  \/ act[r].pc = "store" /\ act[r].op = "create"
  \/ Postgres /\ act[r].pc \in {"load", "fix"}
\* The password of u is the one it chose, and is not stored yet.
Changes(r, u) == act[r].user = u /\ act[r].pc \in {"createdb", "store"}

Undisturbed(d) ==
  d \notin tainted /\ \A r \in Requests : Works(r, d) => act[r].alone /\ ~Between(r)
Trusted(u) ==
  u \notin tainted /\ \A r \in Requests : Works(r, u) => act[r].alone /\ ~Changes(r, u)
\* Nobody is about to store a password of d, or, where users are shared, of its user.
Certain(d) ==
  IF Mongo THEN \A r \in Requests : Works(r, d) => act[r].pc # "store" ELSE Trusted(creds[d].user)

DbsOK == \A d \in DBs : Undisturbed(d) => DbOK(d)
PassesOK == \A d \in DBs : Undisturbed(d) /\ creds[d] # NONE /\ Certain(d) => PassOK(d)

\* One password per server-wide user; only a PostgreSQL load leaves objects to the superuser.
SharedOK ==
  /\ ~Mongo => \A d, e \in DBs :
       creds[d] # NONE /\ creds[e] # NONE /\ creds[d].user = creds[e].user => creds[d].pass = creds[e].pass
  /\ ~Postgres => \A d \in DBs : engine.dbs[d] # NONE => engine.dbs[d].objects = "users"

\* What a request says it works on, and which requests come to a step.
Footed(q) ==
  /\ q.pc \notin OnDatabase => q.foot = {}
  /\ q.pc \in OnDatabase => q.foot \cap DBs = {q.db}
  /\ q.pc \in OnDatabase /\ q.user # NONE => q.user \in q.foot
  /\ q.pc = "dropuser" => q.user # NONE
  /\ q.pc = "change" => q.op = "password"
  /\ q.pc \in {"role", "alter", "createdb"} => q.op = "create"
  /\ q.pc = "purge" => q.op = "delete"
  /\ q.pc = "fix" => Postgres
FeetOK == \A r \in Requests : Active(r) => Footed(act[r])

AlonesOK ==
  \A r, q \in Requests :
    r # q /\ Active(r) /\ Active(q) /\ act[r].foot \cap act[q].foot # {} => ~act[r].alone

\* How far a request that is alone has brought the engine.
Progress(r) ==
  LET d == act[r].db
      u == act[r].user
      pc == act[r].pc
      db == engine.dbs[d]
      pass == engine.roles[Role(d, u)].pass IN
  /\ UsersOf(d) \subseteq act[r].foot
  /\ pc = "createdb" /\ Postgres => pass = r
  /\ pc = "store" /\ act[r].op = "create" =>
       db # NONE /\ u \in db.users /\ db.objects = "users" /\ (catalog # "mysql" => pass = r)
  /\ pc = "store" /\ act[r].op = "password" => pass = r
  /\ pc = "owner" /\ act[r].op = "password" => creds[d] = NONE
  /\ pc \in {"change", "store"} /\ act[r].op = "password" /\ d \notin tainted =>
       creds[d] # NONE /\ creds[d].user = u
  /\ pc \in {"dropuser", "forget"} => db = NONE
  /\ pc \in {"download", "recreate", "load", "fix", "mongo"} =>
       creds[d] # NONE /\ creds[d].user = u /\ creds[d].pass = act[r].pass
  /\ pc \in {"load", "fix"} /\ Postgres => db # NONE /\ u \in db.users /\ pass = act[r].pass
ProgressOK == \A r \in Requests : act[r].pc \in OnDatabase /\ act[r].alone => Progress(r)

AgreeInv == SharedOK /\ FeetOK /\ AlonesOK /\ ProgressOK /\ DbsOK /\ PassesOK


-----------------------------------------------------------------------------
(* What a step of a request does to the others, and to what is not its own.  *)

\* Request q stays where it is; it may have got company.
Stays(q) ==
  /\ act'[q].op = act[q].op /\ act'[q].pc = act[q].pc /\ act'[q].db = act[q].db /\ act'[q].user = act[q].user
  /\ act'[q].pass = act[q].pass /\ act'[q].foot = act[q].foot
  /\ act'[q].alone => act[q].alone

\* Request r goes on with the same database and user, or it ends.
Continues(r) ==
  /\ act'[r].pc \in OnDatabase
  /\ act'[r].op = act[r].op /\ act'[r].db = act[r].db /\ act'[r].user = act[r].user
  /\ act'[r].pass = act[r].pass /\ act'[r].foot = act[r].foot
  /\ act'[r].alone => act[r].alone
Finishes(r) == act'[r].pc = "done" /\ (act[r].alone \/ act[r].foot \subseteq tainted')

\* Database x is as it was but for its rows; the password of its user v is as it was.
SameDb(x) ==
  /\ engine'.dbs[x] = NONE <=> engine.dbs[x] = NONE
  /\ engine.dbs[x] # NONE =>
       engine'.dbs[x].users = engine.dbs[x].users /\ engine'.dbs[x].objects = engine.dbs[x].objects
SamePass(x, v) == engine'.roles[Role(x, v)].pass = engine.roles[Role(x, v)].pass

\* Only the database and the user of r change, and the passwords stored for that user.
Nearby(r) ==
  /\ UNCHANGED catalog
  /\ \A q \in Requests \ {r} : Stays(q)
  /\ \A x \in DBs \ {act[r].db} :
       /\ SameDb(x)
       /\ \/ creds'[x] = creds[x]
          \/ ~Mongo /\ creds[x] # NONE /\ creds'[x] # NONE /\ creds[x].user = act[r].user /\ creds'[x].user = act[r].user
  /\ \A x \in DBs, v \in Users : SamePass(x, v) \/ (IF Mongo THEN x = act[r].db ELSE v = act[r].user)
  /\ tainted \subseteq tainted' \cup {act[r].db, act[r].user}

\* A step of r about its database.
StepOf(r) == DatabasesInv /\ AgreeInv /\ act[r].pc \in OnDatabase /\ Nearby(r) /\ (Continues(r) \/ Finishes(r))

LEMMA Onward ==
  ASSUME NEW r \in Requests, act[r].pc \in OnDatabase
  PROVE  Active(r)
BY DEF Active, OnDatabase

\* What the invariant says of a request at work.
LEMMA Walks ==
  ASSUME DatabasesInv, AgreeInv, NEW r \in Requests, act[r].pc \in OnDatabase
  PROVE  /\ Active(r) /\ act[r].db \in DBs /\ act[r].db \in act[r].foot /\ act[r].foot \cap DBs = {act[r].db}
         /\ act[r].user # NONE => act[r].user \in act[r].foot
         /\ act[r].user \in Users \cup {NONE} /\ act[r].foot \subseteq DBs \cup Users
<1>1. Active(r)
  BY Onward
<1>2. act[r].foot \cap DBs = {act[r].db} /\ (act[r].user # NONE => act[r].user \in act[r].foot)
  BY <1>1 DEF AgreeInv, FeetOK, Footed
<1>3. act[r].db \in DBs /\ act[r] \in Local
  BY Invariants DEF ShapeOf
<1>4. act[r].user \in Users \cup {NONE} /\ act[r].foot \subseteq DBs \cup Users
  BY <1>3 DEF Local
<1> QED BY <1>1, <1>2, <1>3, <1>4

\* Nobody else works on what a request works on that is alone.
LEMMA Solo ==
  ASSUME AgreeInv, NEW r \in Requests, Active(r), act[r].alone, NEW x \in act[r].foot, NEW q \in Requests \ {r}
  PROVE  ~Works(q, x)
BY DEF AgreeInv, AlonesOK, Works

LEMMA Names ==
  ASSUME NEW d \in DBs, NEW u \in Users
  PROVE  d # u /\ d # NONE /\ u # NONE
BY DatabaseConstants

LEMMA StoredUser ==
  ASSUME DatabasesInv, NEW d \in DBs, creds[d] # NONE
  PROVE  creds[d].user \in Users /\ creds[d].pass \in Passwords
<1>1. creds[d] \in Credentials
  BY DEF DatabasesInv, TypesOK
<1> QED BY <1>1 DEF Credentials

\* A request that still works on x, or ended with x in order, did so undisturbed.
LEMMA StillWorks ==
  ASSUME NEW r \in Requests, StepOf(r), NEW x, Works(r, x), x \notin tainted', Works(r, x)' => act'[r].alone
  PROVE  act[r].alone
<1>1. CASE Finishes(r)
  BY <1>1 DEF Finishes, Works
<1>2. CASE Continues(r)
  <2>1. Active(r)'
    BY <1>2 DEF Continues, Active, OnDatabase
  <2> QED BY <1>2, <2>1 DEF Continues, Works
<1> QED BY <1>1, <1>2 DEF StepOf

LEMMA OthersWork ==
  ASSUME NEW r \in Requests, StepOf(r), NEW q \in Requests \ {r}, NEW x
  PROVE  /\ Works(q, x)' <=> Works(q, x)
         /\ act'[q].alone => act[q].alone
         /\ Between(q)' <=> Between(q)
         /\ Changes(q, x)' <=> Changes(q, x)
         /\ act'[q].pc = act[q].pc
<1>1. Stays(q) /\ UNCHANGED catalog
  BY DEF StepOf, Nearby
<1> QED BY <1>1 DEF Stays, Works, Active, Between, Changes, Postgres


\* What is in order after the step was so before, but for what the step itself brought in order.
LEMMA UndisturbedBefore ==
  ASSUME NEW r \in Requests, StepOf(r), NEW d \in DBs, Undisturbed(d)', d \notin tainted,
         Works(r, d) => ~Between(r)
  PROVE  Undisturbed(d)
<1>1. ASSUME NEW q \in Requests, Works(q, d)
      PROVE  act[q].alone /\ ~Between(q)
  <2>1. CASE q = r
    <3>1. d \notin tainted' /\ (Works(r, d)' => act'[r].alone)
      BY DEF Undisturbed
    <3> QED BY <1>1, <2>1, <3>1, StillWorks
  <2>2. CASE q # r
    <3>1. Works(q, d)' /\ (act'[q].alone => act[q].alone) /\ (Between(q)' <=> Between(q))
      BY <1>1, <2>2, OthersWork
    <3> QED BY <3>1 DEF Undisturbed
  <2> QED BY <2>1, <2>2
<1> QED BY <1>1 DEF Undisturbed

LEMMA TrustedBefore ==
  ASSUME NEW r \in Requests, StepOf(r), NEW u \in Users, Trusted(u)', u \notin tainted,
         Works(r, u) => ~Changes(r, u)
  PROVE  Trusted(u)
<1>1. ASSUME NEW q \in Requests, Works(q, u)
      PROVE  act[q].alone /\ ~Changes(q, u)
  <2>1. CASE q = r
    <3>1. u \notin tainted' /\ (Works(r, u)' => act'[r].alone)
      BY DEF Trusted
    <3> QED BY <1>1, <2>1, <3>1, StillWorks
  <2>2. CASE q # r
    <3>1. Works(q, u)' /\ (act'[q].alone => act[q].alone) /\ (Changes(q, u)' <=> Changes(q, u))
      BY <1>1, <2>2, OthersWork
    <3> QED BY <3>1 DEF Trusted
  <2> QED BY <2>1, <2>2
<1> QED BY <1>1 DEF Trusted

\* A request in company leaves what it works on disturbed.
LEMMA Disturbed ==
  ASSUME NEW r \in Requests, StepOf(r), ~act[r].alone, NEW x \in act[r].foot
  PROVE  ~Undisturbed(x)' /\ ~Trusted(x)'
<1>1. Works(r, x)
  BY Walks DEF StepOf, Works
<1>2. x \in tainted' \/ (Works(r, x)' /\ ~act'[r].alone)
  BY <1>1, StillWorks
<1> QED BY <1>2 DEF Undisturbed, Trusted

\* The other databases.
LEMMA Elsewhere ==
  ASSUME NEW r \in Requests, StepOf(r), NEW d \in DBs \ {act[r].db}, Undisturbed(d)'
  PROVE  Undisturbed(d) /\ DbOK(d) /\ DbOK(d)'
<1>1. d # act[r].user /\ ~Works(r, d)
  <2>1. act[r].foot \cap DBs = {act[r].db} /\ act[r].user \in Users \cup {NONE}
    BY Walks DEF StepOf
  <2>2. d # act[r].user
    BY <2>1, DatabaseConstants
  <2> QED BY <2>1, <2>2 DEF Works
<1>2. d \notin tainted
  BY <1>1 DEF StepOf, Nearby, Undisturbed
<1>3. Undisturbed(d)
  BY <1>1, <1>2, UndisturbedBefore
<1>4. DbOK(d)
  BY <1>3 DEF StepOf, AgreeInv, DbsOK
<1>5. SameDb(d) /\ (creds'[d] = NONE <=> creds[d] = NONE) /\ (creds[d] # NONE => creds'[d].user = creds[d].user)
  BY DEF StepOf, Nearby
<1> QED BY <1>3, <1>4, <1>5 DEF DbOK, SameDb

\* And their passwords, unless they have the user of the step.
LEMMA PassElsewhere ==
  ASSUME NEW r \in Requests, StepOf(r), NEW d \in DBs \ {act[r].db}, Undisturbed(d)', creds'[d] # NONE,
         Certain(d)', Mongo \/ creds'[d].user # act[r].user
  PROVE  PassOK(d)'
<1>1. Undisturbed(d) /\ ~Works(r, d)
  BY Elsewhere, Walks DEF StepOf, Works
<1>2. creds'[d] = creds[d]
  BY DEF StepOf, Nearby
<1>3. creds[d].user \in Users /\ DatabasesInv /\ (Mongo' <=> Mongo)
  BY <1>2, StoredUser DEF StepOf, Nearby, Mongo
<1>4. Certain(d)
  <2>1. CASE Mongo
    <3>1. ASSUME NEW q \in Requests, Works(q, d)
          PROVE  act[q].pc # "store"
      <4>1. q # r
        BY <1>1, <3>1
      <4>2. Works(q, d)' /\ act'[q].pc = act[q].pc
        BY <3>1, <4>1, OthersWork
      <4> QED BY <1>3, <2>1, <4>2 DEF Certain
    <3> QED BY <2>1, <3>1 DEF Certain
  <2>2. CASE ~Mongo
    <3>1. PICK u \in Users : u = creds[d].user
      BY <1>3
    <3>2. Trusted(u)'
      BY <1>2, <1>3, <2>2, <3>1 DEF Certain
    <3>3. u # act[r].user /\ u # act[r].db
      <4>1. act[r].db \in DBs
        BY Walks DEF StepOf
      <4> QED BY <1>2, <2>2, <3>1, <4>1, Names
    <3>4. u \notin tainted
      BY <3>2, <3>3 DEF StepOf, Nearby, Trusted
    <3>5. ~Changes(r, u)
      BY <3>3 DEF Changes
    <3>6. Trusted(u)
      BY <3>2, <3>4, <3>5, TrustedBefore
    <3> QED BY <2>2, <3>1, <3>6 DEF Certain
  <2> QED BY <2>1, <2>2
<1>5. PassOK(d)
  BY <1>1, <1>2, <1>4 DEF StepOf, AgreeInv, PassesOK
<1>6. SamePass(d, creds[d].user)
  BY <1>2, <1>3 DEF StepOf, Nearby
<1> QED BY <1>2, <1>5, <1>6 DEF PassOK, SamePass, StepOf, Nearby, Role


\* A request that is alone finds everything as it left it.
LEMMA OthersProgress ==
  ASSUME NEW r \in Requests, StepOf(r), NEW q \in Requests \ {r}, act'[q].pc \in OnDatabase, act'[q].alone
  PROVE  Progress(q)'
<1>0. act[q].pc \in OnDatabase /\ act[q].alone
  BY DEF StepOf, Nearby, Stays
<1>d. PICK d \in DBs : d = act[q].db
  BY <1>0, Walks DEF StepOf
<1>u. PICK u \in Users \cup {NONE} : u = act[q].user
  BY <1>0, Walks DEF StepOf
<1>1. /\ act[q].pc \in OnDatabase /\ act[q].alone /\ act'[q].op = act[q].op /\ act'[q].pc = act[q].pc
      /\ act[q].db = d /\ act[q].user = u /\ act'[q].db = d /\ act'[q].user = u
      /\ act'[q].pass = act[q].pass /\ act'[q].foot = act[q].foot /\ UNCHANGED catalog
  BY <1>0, <1>d, <1>u DEF StepOf, Nearby, Stays
<1>2. Progress(q)
  BY <1>1 DEF StepOf, AgreeInv, ProgressOK
<1>3. \A x \in act[q].foot : x \notin act[r].foot
  <2>1. ASSUME NEW x \in act[q].foot
        PROVE  ~Works(r, x)
    BY <1>1, Walks, Solo DEF StepOf
  <2> QED BY <2>1, Walks DEF StepOf, Works
<1>4. d \in DBs /\ d \in act[q].foot /\ (u # NONE => u \in act[q].foot) /\ u \in Users \cup {NONE}
  BY <1>1, Walks DEF StepOf
<1>5. act[r].db \in act[r].foot /\ (act[r].user # NONE => act[r].user \in act[r].foot)
      /\ act[r].user \in Users \cup {NONE}
  BY Walks DEF StepOf
<1>6. d # act[r].db /\ d # act[r].user /\ (u # NONE => u # act[r].user)
  <2>1. d # NONE
    BY <1>4, DatabaseConstants
  <2> QED BY <1>3, <1>4, <1>5, <2>1
<1>7. creds[d] # NONE => creds[d].user # act[r].user
  <2> SUFFICES ASSUME creds[d] # NONE
               PROVE  creds[d].user # act[r].user
    OBVIOUS
  <2>1. creds[d].user \in act[q].foot
    BY <1>1, <1>2 DEF Progress, UsersOf
  <2>2. creds[d].user # NONE
    BY <1>4, StoredUser, Names DEF StepOf
  <2> QED BY <1>3, <1>5, <2>1, <2>2
<1>8. creds'[d] = creds[d] /\ SameDb(d)
  BY <1>4, <1>6, <1>7 DEF StepOf, Nearby
<1>9. u \in Users => (engine.roles[Role(d, u)].pass)' = engine.roles[Role(d, u)].pass
  <2>1. u \in Users => SamePass(d, u)
    BY <1>4, <1>6, DatabaseConstants DEF StepOf, Nearby
  <2> QED BY <1>1, <2>1 DEF SamePass, Role
<1>10. d \notin tainted' => d \notin tainted
  BY <1>6 DEF StepOf, Nearby
<1>11. UsersOf(d)' \subseteq act[q].foot
  BY <1>1, <1>2, <1>4, <1>8 DEF Progress, UsersOf, SameDb
<1>12. act[q].pc \in {"createdb", "store"} => u \in Users
  BY <1>1, Invariants DEF StepOf, ShapeOf, WithUser
<1>13. act[q].pc \in {"load", "fix"} => u \in Users
  <2>1. act[q].pc \in {"load", "fix"} => creds[d] # NONE /\ creds[d].user = u
    BY <1>1, <1>2 DEF Progress
  <2> QED BY <1>4, <2>1, StoredUser DEF StepOf
<1>14. /\ act'[q].pc = "createdb" /\ Postgres' => (engine.roles[Role(d, u)].pass)' = q
       /\ act'[q].pc = "store" /\ act'[q].op = "password" => (engine.roles[Role(d, u)].pass)' = q
  BY <1>1, <1>2, <1>9, <1>12 DEF Progress, Postgres
<1>15. act'[q].pc = "store" /\ act'[q].op = "create" =>
         /\ engine'.dbs[d] # NONE /\ u \in engine'.dbs[d].users /\ engine'.dbs[d].objects = "users"
         /\ catalog' # "mysql" => (engine.roles[Role(d, u)].pass)' = q
  BY <1>1, <1>2, <1>8, <1>9, <1>12 DEF Progress, SameDb
<1>16. /\ act'[q].pc \in {"load", "fix"} /\ Postgres' =>
            /\ engine'.dbs[d] # NONE /\ u \in engine'.dbs[d].users
            /\ (engine.roles[Role(d, u)].pass)' = act'[q].pass
       /\ act'[q].pc \in {"dropuser", "forget"} => engine'.dbs[d] = NONE
  BY <1>1, <1>2, <1>8, <1>9, <1>13 DEF Progress, SameDb, Postgres
<1>17. /\ act'[q].pc = "owner" /\ act'[q].op = "password" => creds'[d] = NONE
       /\ act'[q].pc \in {"change", "store"} /\ act'[q].op = "password" /\ d \notin tainted' =>
            creds'[d] # NONE /\ creds'[d].user = u
       /\ act'[q].pc \in {"download", "recreate", "load", "fix", "mongo"} =>
            creds'[d] # NONE /\ creds'[d].user = u /\ creds'[d].pass = act'[q].pass
  BY <1>1, <1>2, <1>8, <1>10 DEF Progress
<1> QED BY <1>1, <1>11, <1>14, <1>15, <1>16, <1>17 DEF Progress


\* What is left to show of a step: the tables, and what r itself works on, when it is alone.
LEMMA Confined ==
  ASSUME NEW r \in Requests, StepOf(r), NEW d \in DBs, d = act[r].db, NEW u \in Users \cup {NONE}, u = act[r].user,
         SharedOK', act'[r].pc \in OnDatabase => Footed(act'[r]),
         act[r].alone /\ Undisturbed(d)' => DbOK(d)',
         act[r].alone /\ Undisturbed(d)' /\ creds'[d] # NONE /\ Certain(d)' => PassOK(d)',
         \A x \in DBs \ {d} :
           act[r].alone /\ ~Mongo /\ Undisturbed(x)' /\ Trusted(u)' /\ creds'[x] # NONE /\ creds'[x].user = u
             => PassOK(x)',
         act'[r].pc \in OnDatabase /\ act'[r].alone => Progress(r)'
  PROVE  AgreeInv'
<1>1. UNCHANGED catalog /\ \A q \in Requests \ {r} : Stays(q)
  BY DEF StepOf, Nearby
<1>2. d \in act[r].foot /\ (u # NONE => u \in act[r].foot) /\ Active(r)
  BY Walks DEF StepOf
<1>3. Postgres' = Postgres /\ Mongo' = Mongo
  BY <1>1 DEF Postgres, Mongo
<1>4. FeetOK'
  <2>1. ASSUME NEW q \in Requests, Active(q)'
        PROVE  Footed(act'[q])
    <3>1. CASE q = r
      <4>1. act'[r].pc \in OnDatabase
        BY <2>1, <3>1 DEF StepOf, Continues, Finishes, Active
      <4> QED BY <3>1, <4>1
    <3>2. CASE q # r
      <4>1. Stays(q)
        BY <1>1, <3>2
      <4>2. Footed(act[q])
        BY <2>1, <4>1 DEF Stays, Active, StepOf, AgreeInv, FeetOK
      <4> QED BY <4>1, <4>2 DEF Stays, Footed
    <3> QED BY <3>1, <3>2
  <2> QED BY <2>1, <1>3 DEF FeetOK, Footed
<1>5. AlonesOK'
  <2>1. ASSUME NEW q \in Requests, Active(q)'
        PROVE  Active(q) /\ act'[q].foot = act[q].foot /\ (act'[q].alone => act[q].alone)
    <3>1. CASE q = r
      BY <1>2, <2>1, <3>1 DEF StepOf, Continues, Finishes, Active
    <3>2. CASE q # r
      BY <1>1, <2>1, <3>2 DEF Stays, Active
    <3> QED BY <3>1, <3>2
  <2> QED BY <2>1 DEF AlonesOK, StepOf, AgreeInv
<1>6. ProgressOK'
  BY OthersProgress DEF ProgressOK
<1>7. DbsOK'
  <2>1. ASSUME NEW x \in DBs, Undisturbed(x)'
        PROVE  DbOK(x)'
    <3>1. CASE x # d
      BY <2>1, <3>1, Elsewhere
    <3>2. CASE x = d
      <4>1. act[r].alone
        BY <1>2, <2>1, <3>2, Disturbed
      <4> QED BY <2>1, <3>2, <4>1
    <3> QED BY <3>1, <3>2
  <2> QED BY <2>1 DEF DbsOK
<1>8. PassesOK'
  <2>1. ASSUME NEW x \in DBs, Undisturbed(x)', creds'[x] # NONE, Certain(x)'
        PROVE  PassOK(x)'
    <3>1. CASE x = d
      <4>1. act[r].alone
        BY <1>2, <2>1, <3>1, Disturbed
      <4> QED BY <2>1, <3>1, <4>1
    <3>2. CASE x # d /\ (Mongo \/ creds'[x].user # u)
      BY <2>1, <3>2, PassElsewhere
    <3>3. CASE x # d /\ ~Mongo /\ creds'[x].user = u
      <4>1. Trusted(u)'
        BY <1>3, <2>1, <3>3 DEF Certain
      <4>2. creds[x].user \in Users /\ creds'[x].user = creds[x].user
        BY <2>1, <3>3, StoredUser DEF StepOf, Nearby
      <4>3. u # NONE
        BY <3>3, <4>2, DatabaseConstants
      <4>4. act[r].alone
        BY <1>2, <4>1, <4>3, Disturbed
      <4> QED BY <2>1, <3>3, <4>1, <4>4
    <3> QED BY <3>1, <3>2, <3>3
  <2> QED BY <2>1 DEF PassesOK
<1> QED BY <1>4, <1>5, <1>6, <1>7, <1>8 DEF AgreeInv


\* A password that nobody touched works as before.
LEMMA PassKept ==
  ASSUME NEW r \in Requests, StepOf(r), act[r].pc \notin {"createdb", "store"},
         tainted \subseteq tainted' \cup {act[r].db},
         NEW x \in DBs, Undisturbed(x), creds[x] # NONE, creds'[x] = creds[x], Certain(x)',
         SamePass(x, creds[x].user)
  PROVE  PassOK(x)'
<1>1. creds[x].user \in Users /\ UNCHANGED catalog /\ act[r].db \in DBs
  BY StoredUser, Walks DEF StepOf, Nearby
<1>2. Mongo' = Mongo
  BY <1>1 DEF Mongo
<1>3. Certain(x)
  <2>1. CASE Mongo
    <3>1. ASSUME NEW q \in Requests, Works(q, x)
          PROVE  act[q].pc # "store"
      <4>1. CASE q = r
        BY <4>1
      <4>2. CASE q # r
        <5>1. Works(q, x)' /\ act'[q].pc = act[q].pc
          BY <3>1, <4>2, OthersWork
        <5> QED BY <1>2, <2>1, <5>1 DEF Certain
      <4> QED BY <4>1, <4>2
    <3> QED BY <2>1, <3>1 DEF Certain
  <2>2. CASE ~Mongo
    <3>1. PICK u \in Users : u = creds[x].user
      BY <1>1
    <3>2. Trusted(u)'
      BY <1>2, <2>2, <3>1 DEF Certain
    <3>3. u \notin tainted
      BY <1>1, <3>2, Names DEF Trusted
    <3>4. Trusted(u)
      BY <3>2, <3>3, TrustedBefore DEF Changes
    <3> QED BY <2>2, <3>1, <3>4 DEF Certain
  <2> QED BY <2>1, <2>2
<1>4. PassOK(x)
  BY <1>3 DEF StepOf, AgreeInv, PassesOK
<1> QED BY <1>1, <1>4 DEF PassOK, SamePass, Role

\* A step in which r leaves database and user as they are.
LEMMA AsItWas ==
  ASSUME NEW r \in Requests, StepOf(r), act[r].pc \notin {"createdb", "store"}, ~Between(r),
         tainted \subseteq tainted', UNCHANGED creds, \A x \in DBs : SameDb(x),
         \A x \in DBs, v \in Users : SamePass(x, v), SharedOK',
         act'[r].pc \in OnDatabase => Footed(act'[r]),
         act'[r].pc \in OnDatabase /\ act'[r].alone => Progress(r)'
  PROVE  AgreeInv'
<1>1. PICK d \in DBs, u \in Users \cup {NONE} : d = act[r].db /\ u = act[r].user
  BY Walks DEF StepOf
<1>2. ASSUME NEW x \in DBs, Undisturbed(x)'
      PROVE  Undisturbed(x)
  <2>1. x \notin tainted
    BY <1>2 DEF Undisturbed
  <2> QED BY <1>2, <2>1, UndisturbedBefore
<1>3. ASSUME Undisturbed(d)'
      PROVE  DbOK(d)'
  <2>1. DbOK(d)
    BY <1>2, <1>3 DEF StepOf, AgreeInv, DbsOK
  <2> QED BY <2>1 DEF DbOK, SameDb
<1>4. ASSUME NEW x \in DBs, Undisturbed(x)', creds'[x] # NONE, Certain(x)'
      PROVE  PassOK(x)'
  <2>1. Undisturbed(x) /\ creds'[x] = creds[x]
    BY <1>2, <1>4
  <2>2. creds[x].user \in Users
    BY <1>4, <2>1, StoredUser DEF StepOf
  <2> QED BY <1>4, <2>1, <2>2, PassKept
<1>5. ASSUME NEW x \in DBs \ {d}, ~Mongo, Undisturbed(x)', Trusted(u)', creds'[x] # NONE, creds'[x].user = u
      PROVE  PassOK(x)'
  <2>1. Certain(x)'
    BY <1>5 DEF Certain, Mongo, StepOf, Nearby
  <2> QED BY <1>4, <1>5, <2>1
<1> QED BY <1>1, <1>3, <1>4, <1>5, Confined

\* A step that ends r and leaves all it works on to be looked after.
LEMMA EndsBadly ==
  ASSUME NEW r \in Requests, StepOf(r), act'[r].pc = "done", act[r].foot \subseteq tainted', SharedOK'
  PROVE  AgreeInv'
<1>1. PICK d \in DBs, u \in Users \cup {NONE} : d = act[r].db /\ u = act[r].user
  BY Walks DEF StepOf
<1>2. d \in tainted' /\ (u # NONE => u \in tainted')
  BY <1>1, Walks DEF StepOf
<1>3. ~Undisturbed(d)' /\ (u # NONE => ~Trusted(u)')
  BY <1>2 DEF Undisturbed, Trusted
<1>4. ASSUME NEW x \in DBs \ {d}, creds'[x] # NONE
      PROVE  creds'[x].user # NONE
  <2>1. creds[x] # NONE /\ creds'[x].user = creds[x].user
    BY <1>1, <1>4 DEF StepOf, Nearby
  <2> QED BY <2>1, StoredUser, Names DEF StepOf
<1>5. act'[r].pc \notin OnDatabase
  BY DEF OnDatabase
<1> QED BY <1>1, <1>3, <1>4, <1>5, Confined


-----------------------------------------------------------------------------
(* How the steps move the requests.                                          *)

LEMMA GotoMoves ==
  ASSUME TypesOK, NEW r \in Requests, NEW pc \in OnDatabase, Goto(r, pc)
  PROVE  /\ Continues(r) /\ act'[r].pc = pc /\ act'[r].alone = act[r].alone /\ tainted' = tainted
         /\ \A q \in Requests \ {r} : Stays(q)
<1>1. PICK k \in Local : act[r] = k
  BY DEF TypesOK
<1> DEFINE x == [k EXCEPT !.pc = pc]
<1>2. act' = [act EXCEPT ![r] = x]
  BY <1>1 DEF Goto
<1>3. /\ x.pc = pc /\ x.op = k.op /\ x.db = k.db /\ x.user = k.user /\ x.pass = k.pass /\ x.foot = k.foot
      /\ x.alone = k.alone
  BY DEF Local
<1> HIDE DEF x
<1>4. act'[r] = x /\ \A q \in Requests \ {r} : act'[q] = act[q]
  BY <1>2 DEF TypesOK
<1> QED BY <1>1, <1>3, <1>4 DEF Continues, Stays, Goto

LEMMA DoneMoves ==
  ASSUME TypesOK, NEW r \in Requests, Done(r)
  PROVE  act'[r].pc = "done" /\ \A q \in Requests \ {r} : Stays(q)
<1> DEFINE x == [Idle EXCEPT !.pc = "done"]
<1>1. act' = [act EXCEPT ![r] = x]
  BY DEF Done
<1>2. x.pc = "done"
  BY DEF Idle
<1> HIDE DEF x
<1>3. act'[r] = x /\ \A q \in Requests \ {r} : act'[q] = act[q]
  BY <1>1 DEF TypesOK
<1> QED BY <1>2, <1>3 DEF Stays

LEMMA FailMoves ==
  ASSUME TypesOK, NEW r \in Requests, Fail(r)
  PROVE  /\ Finishes(r) /\ act'[r].pc = "done" /\ act[r].foot \subseteq tainted' /\ tainted \subseteq tainted'
         /\ \A q \in Requests \ {r} : Stays(q)
BY DoneMoves DEF Fail, Finishes

LEMMA SucceedMoves ==
  ASSUME TypesOK, NEW r \in Requests, NEW settled, Succeed(r, settled)
  PROVE  /\ Finishes(r) /\ act'[r].pc = "done" /\ tainted \subseteq tainted' \cup settled
         /\ act[r].alone => tainted' = tainted \ settled
         /\ \A q \in Requests \ {r} : Stays(q)
BY DoneMoves DEF Succeed, Finishes

-----------------------------------------------------------------------------
(* What the steps leave of the engine.                                       *)

\* Cluster c differs from the engine's at most at the database and user of r.
Around(r, c) ==
  /\ \A x \in DBs \ {act[r].db} : c.dbs[x] = engine.dbs[x]
  /\ \A x \in DBs, v \in Users :
       c.roles[Role(x, v)].pass = engine.roles[Role(x, v)].pass \/ (IF Mongo THEN x = act[r].db ELSE v = act[r].user)
  /\ ~Postgres => \A x \in DBs : c.dbs[x] # NONE => c.dbs[x].objects = "users"

LEMMA AroundItself ==
  ASSUME AgreeInv, NEW r \in Requests
  PROVE  Around(r, engine)
BY DEF AgreeInv, SharedOK, Around

LEMMA RoleKey ==
  ASSUME NEW x \in DBs, NEW v \in Users
  PROVE  Role(x, v) \in Roles /\ Role(x, v) = (IF Mongo THEN <<x, v>> ELSE <<Server, v>>)
BY DEF Role, Roles, Mongo

PutDb(b, d, x) == [b EXCEPT !.dbs[d] = x]
PutRole(b, k, x) == [b EXCEPT !.roles[k] = x]

\* One database changes.
LEMMA DbAround ==
  ASSUME NEW r \in Requests, NEW d \in DBs, d = act[r].db, NEW b \in Cluster, Around(r, b),
         NEW x \in DatabaseRow \cup {NONE}, ~Postgres /\ x # NONE => x.objects = "users", NEW c, c = PutDb(b, d, x)
  PROVE  c \in Cluster /\ Around(r, c) /\ c.dbs[d] = x /\ c.roles = b.roles
<1>1. b.dbs \in [DBs -> DatabaseRow \cup {NONE}] /\ b.roles \in [Roles -> RoleRow]
  BY DEF Cluster
<1> DEFINE f == [b.dbs EXCEPT ![d] = x]
<1>2. f \in [DBs -> DatabaseRow \cup {NONE}] /\ f[d] = x /\ \A y \in DBs \ {d} : f[y] = b.dbs[y]
  BY <1>1
<1>3. c = [b EXCEPT !.dbs = f]
  BY DEF Cluster, PutDb
<1> HIDE DEF f
<1>4. c.dbs = f /\ c.roles = b.roles /\ c \in Cluster
  BY <1>1, <1>2, <1>3 DEF Cluster
<1>5. c.dbs[d] = x /\ \A y \in DBs \ {d} : c.dbs[y] = b.dbs[y]
  BY <1>2, <1>4
<1>6. ~Postgres => \A y \in DBs : c.dbs[y] # NONE => c.dbs[y].objects = "users"
  BY <1>5 DEF Around
<1> QED BY <1>4, <1>5, <1>6 DEF Around

\* One role changes.
LEMMA RoleAround ==
  ASSUME NEW r \in Requests, NEW d \in DBs, d = act[r].db, NEW u \in Users, u = act[r].user,
         NEW b \in Cluster, Around(r, b), NEW x \in RoleRow, NEW c, c = PutRole(b, Role(d, u), x)
  PROVE  c \in Cluster /\ Around(r, c) /\ c.roles[Role(d, u)] = x /\ c.dbs = b.dbs
<1>1. b.dbs \in [DBs -> DatabaseRow \cup {NONE}] /\ b.roles \in [Roles -> RoleRow]
  BY DEF Cluster
<1>k. PICK k \in Roles : k = Role(d, u)
  BY RoleKey
<1> DEFINE f == [b.roles EXCEPT ![k] = x]
<1>3. f \in [Roles -> RoleRow] /\ f[k] = x /\ \A y \in Roles \ {k} : f[y] = b.roles[y]
  BY <1>1
<1>4. c = [b EXCEPT !.roles = f]
  BY <1>k DEF Cluster, PutRole
<1> HIDE DEF f
<1>5. c.roles = f /\ c.dbs = b.dbs /\ c \in Cluster
  BY <1>1, <1>3, <1>4 DEF Cluster
<1>6. ASSUME NEW y \in DBs, NEW v \in Users, ~(IF Mongo THEN y = d ELSE v = u)
      PROVE  Role(y, v) \in Roles \ {k}
  <2>1. Role(y, v) # Role(d, u)
    BY <1>6, RoleKey
  <2> QED BY <1>k, <2>1, RoleKey
<1> QED BY <1>k, <1>3, <1>5, <1>6 DEF Around

\* What the engine has of a role.
LEMMA RoleTyped ==
  ASSUME DatabasesInv, NEW d \in DBs, NEW u \in Users
  PROVE  Role(d, u) \in Roles /\ engine.roles[Role(d, u)] \in RoleRow
<1>1. engine.roles \in [Roles -> RoleRow]
  BY EngineGood DEF Cluster
<1> QED BY <1>1, RoleKey

LEMMA RowTyped ==
  ASSUME DatabasesInv, NEW d \in DBs
  PROVE  engine.dbs[d] \in DatabaseRow \cup {NONE}
BY EngineGood DEF Cluster

\* The engine is c now.
LEMMA Becomes ==
  ASSUME DatabasesInv, NEW c, vol' = [vol EXCEPT ![home] = c], UNCHANGED <<catalog, creds, backups, place>>
  PROVE  engine' = c
<1>1. home \in Volumes /\ vol \in [Volumes -> Cluster \cup {NONE, Torn}] /\ home' = home
  BY DEF DatabasesInv, TypesOK, place
<1> QED BY <1>1 DEF engine

LEMMA NearStep ==
  ASSUME DatabasesInv, AgreeInv, NEW r \in Requests, NEW c, Around(r, c), engine' = c, UNCHANGED <<catalog, creds>>,
         \A q \in Requests \ {r} : Stays(q), tainted \subseteq tainted' \cup {act[r].db, act[r].user},
         act[r].pc \in OnDatabase, Continues(r) \/ Finishes(r)
  PROVE  StepOf(r) /\ SharedOK'
<1>1. \A x \in DBs \ {act[r].db} : SameDb(x)
  BY DEF Around, SameDb
<1>2. \A x \in DBs, v \in Users : SamePass(x, v) \/ (IF Mongo THEN x = act[r].db ELSE v = act[r].user)
  BY DEF Around, SamePass, Role
<1>3. SharedOK'
  BY DEF Around, SharedOK, AgreeInv, Mongo, Postgres
<1> QED BY <1>1, <1>2, <1>3 DEF StepOf, Nearby

\* A failure, whatever it left of the command.
LEMMA FailAgrees ==
  ASSUME DatabasesInv, AgreeInv, NEW r \in Requests, act[r].pc \in OnDatabase, Fail(r),
         NEW c, Around(r, c), vol' = vol \/ vol' = [vol EXCEPT ![home] = c], UNCHANGED <<catalog, creds, backups, place>>
  PROVE  AgreeInv'
<1>1. engine' = c \/ engine' = engine
  BY Becomes DEF engine, place
<1>2. /\ Finishes(r) /\ act'[r].pc = "done" /\ act[r].foot \subseteq tainted' /\ tainted \subseteq tainted'
      /\ \A q \in Requests \ {r} : Stays(q)
  BY Invariants, FailMoves
<1>3. StepOf(r) /\ SharedOK'
  BY <1>1, <1>2, AroundItself, NearStep
<1> QED BY <1>2, <1>3, EndsBadly

LEMMA StillFails ==
  ASSUME DatabasesInv, AgreeInv, NEW r \in Requests, act[r].pc \in OnDatabase, Fail(r),
         UNCHANGED <<catalog, vol, creds, backups, place>>
  PROVE  AgreeInv'
BY AroundItself, FailAgrees

LEMMA RefuseAgrees ==
  ASSUME DatabasesInv, AgreeInv, NEW r \in Requests, act[r].pc \in OnDatabase, Refuse(r),
         UNCHANGED <<catalog, creds, backups, place>>
  PROVE  AgreeInv'
BY StillFails DEF Refuse


-----------------------------------------------------------------------------
(* Steps that the engine and the panel do not notice.                        *)

\* Neither a password nor a database changes, and what was disturbed still is.
Unseen ==
  /\ UNCHANGED <<catalog, creds>> /\ tainted \subseteq tainted'
  /\ \A x \in DBs : SameDb(x)
  /\ \A x \in DBs, v \in Users : SamePass(x, v)

\* Request q holds on to what it holds.
Holds(q) ==
  \A x \in DBs \cup Users : Works(q, x) =>
    /\ Works(q, x)' /\ (act'[q].alone => act[q].alone)
    /\ Between(q) => Between(q)'
    /\ Changes(q, x) => Changes(q, x)'
    /\ act[q].pc = "store" => act'[q].pc = "store"

LEMMA SeenSame ==
  ASSUME UNCHANGED <<catalog, creds>>, tainted \subseteq tainted',
         \A x \in DBs : engine'.dbs[x] = engine.dbs[x], engine'.roles = engine.roles
  PROVE  Unseen
BY DEF Unseen, SameDb, SamePass, Role

LEMMA EngineSame ==
  ASSUME UNCHANGED <<catalog, creds>>, tainted \subseteq tainted', engine' = engine
  PROVE  Unseen
BY SeenSame

LEMMA StaysHolds ==
  ASSUME UNCHANGED catalog, NEW q \in Requests, Stays(q)
  PROVE  Holds(q)
BY DEF Stays, Holds, Works, Active, Between, Changes, Postgres

LEMMA UnseenKeeps ==
  ASSUME DatabasesInv, AgreeInv, Unseen, \A q \in Requests : Holds(q)
  PROVE  SharedOK' /\ DbsOK' /\ PassesOK'
<1>1. SharedOK'
  BY DEF Unseen, SameDb, SharedOK, AgreeInv, Mongo, Postgres
<1>2. ASSUME NEW x \in DBs, Undisturbed(x)'
      PROVE  Undisturbed(x)
  BY <1>2 DEF Undisturbed, Unseen, Holds
<1>3. ASSUME NEW u \in Users, Trusted(u)'
      PROVE  Trusted(u)
  BY <1>3 DEF Trusted, Unseen, Holds
<1>4. DbsOK'
  <2>1. ASSUME NEW x \in DBs, Undisturbed(x)'
        PROVE  DbOK(x)'
    <3>1. DbOK(x)
      BY <1>2, <2>1 DEF AgreeInv, DbsOK
    <3> QED BY <3>1 DEF Unseen, DbOK, SameDb
  <2> QED BY <2>1 DEF DbsOK
<1>5. PassesOK'
  <2>1. ASSUME NEW x \in DBs, Undisturbed(x)', creds'[x] # NONE, Certain(x)'
        PROVE  PassOK(x)'
    <3>1. creds'[x] = creds[x] /\ creds[x].user \in Users
      BY <2>1, StoredUser DEF Unseen
    <3>2. Mongo' = Mongo
      BY DEF Unseen, Mongo
    <3>3. CASE Mongo
      <4>1. Certain(x)
        BY <2>1, <3>2, <3>3 DEF Certain, Holds
      <4>2. PassOK(x)
        BY <1>2, <2>1, <3>1, <4>1 DEF AgreeInv, PassesOK
      <4> QED BY <3>1, <4>2 DEF PassOK, Unseen, SamePass, Role
    <3>4. CASE ~Mongo
      <4>1. PICK u \in Users : u = creds[x].user
        BY <3>1
      <4>2. Trusted(u)
        BY <1>3, <2>1, <3>1, <3>2, <3>4, <4>1 DEF Certain
      <4>3. PassOK(x)
        BY <1>2, <2>1, <3>1, <3>4, <4>1, <4>2 DEF AgreeInv, PassesOK, Certain
      <4> QED BY <3>1, <4>3 DEF PassOK, Unseen, SamePass, Role
    <3> QED BY <3>3, <3>4
  <2> QED BY <2>1 DEF PassesOK
<1> QED BY <1>1, <1>4, <1>5

LEMMA StaysProgress ==
  ASSUME DatabasesInv, AgreeInv, Unseen, NEW q \in Requests, Stays(q), act'[q].pc \in OnDatabase, act'[q].alone
  PROVE  Progress(q)'
<1>0. act[q].pc \in OnDatabase /\ act[q].alone
  BY DEF Stays
<1>d. PICK d \in DBs : d = act[q].db
  BY <1>0, Walks
<1>u. PICK u \in Users \cup {NONE} : u = act[q].user
  BY <1>0, Walks
<1>1. /\ act[q].db = d /\ act[q].user = u /\ act'[q].db = d /\ act'[q].user = u
      /\ act'[q].op = act[q].op /\ act'[q].pc = act[q].pc
      /\ act'[q].pass = act[q].pass /\ act'[q].foot = act[q].foot /\ UNCHANGED <<catalog, creds>>
  BY <1>d, <1>u DEF Stays, Unseen
<1>2. Progress(q)
  BY <1>0 DEF AgreeInv, ProgressOK
<1>3. SameDb(d) /\ (u \in Users => (engine.roles[Role(d, u)].pass)' = engine.roles[Role(d, u)].pass)
      /\ (d \notin tainted' => d \notin tainted)
  BY <1>1 DEF Unseen, SamePass, Role
<1>4. UsersOf(d)' \subseteq act[q].foot
  BY <1>1, <1>2, <1>3 DEF Progress, UsersOf, SameDb
<1>5. act[q].pc \in {"createdb", "store"} => u \in Users
  BY <1>1, Invariants DEF ShapeOf, WithUser
<1>6. act[q].pc \in {"load", "fix"} => u \in Users
  BY <1>1, <1>2, StoredUser DEF Progress
<1>7. /\ act'[q].pc = "createdb" /\ Postgres' => (engine.roles[Role(d, u)].pass)' = q
      /\ act'[q].pc = "store" /\ act'[q].op = "password" => (engine.roles[Role(d, u)].pass)' = q
  BY <1>1, <1>2, <1>3, <1>5 DEF Progress, Postgres
<1>8. act'[q].pc = "store" /\ act'[q].op = "create" =>
        /\ engine'.dbs[d] # NONE /\ u \in engine'.dbs[d].users /\ engine'.dbs[d].objects = "users"
        /\ catalog' # "mysql" => (engine.roles[Role(d, u)].pass)' = q
  BY <1>1, <1>2, <1>3, <1>5 DEF Progress, SameDb
<1>9. /\ act'[q].pc \in {"load", "fix"} /\ Postgres' =>
           /\ engine'.dbs[d] # NONE /\ u \in engine'.dbs[d].users
           /\ (engine.roles[Role(d, u)].pass)' = act'[q].pass
      /\ act'[q].pc \in {"dropuser", "forget"} => engine'.dbs[d] = NONE
  BY <1>1, <1>2, <1>3, <1>6 DEF Progress, SameDb, Postgres
<1>10. /\ act'[q].pc = "owner" /\ act'[q].op = "password" => creds'[d] = NONE
       /\ act'[q].pc \in {"change", "store"} /\ act'[q].op = "password" /\ d \notin tainted' =>
            creds'[d] # NONE /\ creds'[d].user = u
       /\ act'[q].pc \in {"download", "recreate", "load", "fix", "mongo"} =>
            creds'[d] # NONE /\ creds'[d].user = u /\ creds'[d].pass = act'[q].pass
  BY <1>1, <1>2, <1>3 DEF Progress
<1> QED BY <1>1, <1>4, <1>7, <1>8, <1>9, <1>10 DEF Progress

\* All requests stay, but for r, which holds on to what it holds.
LEMMA UnseenStep ==
  ASSUME DatabasesInv, AgreeInv, Unseen, NEW r \in Requests, \A q \in Requests \ {r} : Stays(q), Holds(r),
         Active(r)' => Footed(act'[r]), AlonesOK',
         act'[r].pc \in OnDatabase /\ act'[r].alone => Progress(r)'
  PROVE  AgreeInv'
<1>1. UNCHANGED catalog
  BY DEF Unseen
<1>2. SharedOK' /\ DbsOK' /\ PassesOK'
  BY <1>1, StaysHolds, UnseenKeeps
<1>3. ProgressOK'
  BY StaysProgress DEF ProgressOK
<1>4. FeetOK'
  <2>1. ASSUME NEW q \in Requests, Active(q)'
        PROVE  Footed(act'[q])
    <3>1. CASE q = r
      BY <2>1, <3>1
    <3>2. CASE q # r
      <4>1. Stays(q)
        BY <3>2
      <4>2. Footed(act[q])
        BY <2>1, <4>1 DEF Stays, Active, AgreeInv, FeetOK
      <4> QED BY <4>1, <4>2 DEF Stays, Footed
    <3> QED BY <3>1, <3>2
  <2> QED BY <1>1, <2>1 DEF FeetOK, Footed, Postgres
<1> QED BY <1>2, <1>3, <1>4 DEF AgreeInv

\* A step of a backup or of a move.
LEMMA Outside ==
  ASSUME DatabasesInv, AgreeInv, Unseen, NEW r \in Requests, \A q \in Requests \ {r} : Stays(q),
         Active(r) => act[r].foot = {}, Active(r)' => act'[r].pc \notin OnDatabase /\ act'[r].foot = {}
  PROVE  AgreeInv'
<1>1. Holds(r)
  BY DEF Holds, Works
<1>2. Active(r)' => Footed(act'[r])
  BY DEF Footed, OnDatabase
<1>3. AlonesOK'
  <2>1. ASSUME NEW q \in Requests, NEW p \in Requests, p # q, Active(p)', Active(q)',
               act'[p].foot \cap act'[q].foot # {}
        PROVE  ~act'[p].alone
    <3>1. p # r /\ q # r
      BY <2>1
    <3>2. Stays(p) /\ Stays(q)
      BY <3>1
    <3> QED BY <2>1, <3>2 DEF Stays, Active, AgreeInv, AlonesOK
  <2> QED BY <2>1 DEF AlonesOK
<1>4. act'[r].pc \in OnDatabase => Active(r)'
  BY DEF Active, OnDatabase
<1> QED BY <1>1, <1>2, <1>3, <1>4, UnseenStep


-----------------------------------------------------------------------------
(* Requests arrive, learn and change places.                                 *)

LEMMA LosesCompany ==
  ASSUME NEW k \in Local
  PROVE  /\ [k EXCEPT !.alone = FALSE].op = k.op /\ [k EXCEPT !.alone = FALSE].pc = k.pc
         /\ [k EXCEPT !.alone = FALSE].db = k.db /\ [k EXCEPT !.alone = FALSE].user = k.user
         /\ [k EXCEPT !.alone = FALSE].pass = k.pass /\ [k EXCEPT !.alone = FALSE].foot = k.foot
         /\ ~[k EXCEPT !.alone = FALSE].alone
BY DEF Local

LEMMA Joined ==
  ASSUME TypesOK, NEW q \in Requests, act'[q] = [act[q] EXCEPT !.alone = FALSE]
  PROVE  Stays(q) /\ ~act'[q].alone
<1>1. PICK k \in Local : act[q] = k
  BY DEF TypesOK
<1> QED BY <1>1, LosesCompany DEF Stays

\* Request r has arrived, and nobody who works on the same is alone.
Arrived(r, op, foot, local) ==
  /\ act[r].pc = "new" /\ act'[r].op = op /\ act'[r].foot = foot /\ act'[r].pc = local.pc
  /\ act'[r].db = local.db /\ act'[r].user = local.user /\ act'[r].pass = local.pass
  /\ \A q \in Requests \ {r} : Stays(q)
  /\ \A q \in Requests \ {r} : Active(q) /\ act[q].foot \cap foot # {} => ~act'[q].alone /\ ~act'[r].alone

LEMMA ArriveMoves ==
  ASSUME TypesOK, NEW r \in Requests, NEW op \in OpNames, NEW foot \in SUBSET (DBs \cup Users),
         NEW local \in Local, Arrives(r, op, foot, local)
  PROVE  Arrived(r, op, foot, local)
<1> DEFINE meets == {q \in Requests : Active(q) /\ act[q].foot \cap foot # {}}
           calm == (meets = {})
           x == [local EXCEPT !.op = op, !.foot = foot, !.alone = calm]
           other(q) == [act[q] EXCEPT !.alone = FALSE]
<1>1. act[r].pc = "new" /\ act' = [q \in Requests |-> IF q = r THEN x ELSE IF q \in meets THEN other(q) ELSE act[q]]
  BY DEF Arrives
<1>2. calm \in BOOLEAN /\ \A q \in meets : ~calm
  OBVIOUS
<1> HIDE DEF calm
<1>3. /\ x.op = op /\ x.pc = local.pc /\ x.db = local.db /\ x.user = local.user
      /\ x.pass = local.pass /\ x.foot = foot /\ x.alone = calm
  BY <1>2 DEF Local
<1> HIDE DEF x
<1>4. act'[r] = x
  BY <1>1
<1>5. ASSUME NEW q \in Requests \ {r}
      PROVE  Stays(q) /\ (q \in meets => ~act'[q].alone)
  <2>1. CASE q \in meets
    <3>1. act'[q] = [act[q] EXCEPT !.alone = FALSE]
      BY <1>1, <2>1
    <3> QED BY <3>1, Joined
  <2>2. CASE q \notin meets
    <3>1. act'[q] = act[q]
      BY <1>1, <2>2
    <3> QED BY <2>2, <3>1 DEF Stays
  <2> QED BY <2>1, <2>2
<1> QED BY <1>1, <1>2, <1>3, <1>4, <1>5 DEF Arrived

LEMMA ArriveAgrees ==
  ASSUME DatabasesInv, AgreeInv, NEW r \in Requests, NEW op \in OpNames, NEW foot \in SUBSET (DBs \cup Users),
         NEW local \in Local, Arrives(r, op, foot, local), UNCHANGED <<catalog, vol, creds, backups, place, tainted>>,
         Footed(act'[r]), act'[r].pc \in OnDatabase => Progress(r)'
  PROVE  AgreeInv'
<1>1. /\ act[r].pc = "new" /\ act'[r].foot = foot
      /\ \A q \in Requests \ {r} : Stays(q)
      /\ \A q \in Requests \ {r} : Active(q) /\ act[q].foot \cap foot # {} => ~act'[q].alone /\ ~act'[r].alone
  BY Invariants, ArriveMoves DEF Arrived
<1>2. Unseen
  BY EngineSame DEF engine, place
<1>3. Holds(r)
  BY <1>1 DEF Holds, Works, Active
<1>4. AlonesOK'
  <2>1. ASSUME NEW p \in Requests, NEW q \in Requests, p # q, Active(p)', Active(q)',
               act'[p].foot \cap act'[q].foot # {}
        PROVE  ~act'[p].alone
    <3>1. CASE p = r
      <4>1. Stays(q) /\ q # r
        BY <1>1, <2>1, <3>1
      <4> QED BY <1>1, <2>1, <3>1, <4>1 DEF Stays, Active
    <3>2. CASE q = r
      <4>1. Stays(p) /\ p # r
        BY <1>1, <2>1, <3>2
      <4> QED BY <1>1, <2>1, <3>2, <4>1 DEF Stays, Active
    <3>3. CASE p # r /\ q # r
      <4>1. Stays(p) /\ Stays(q)
        BY <1>1, <3>3
      <4> QED BY <2>1, <4>1 DEF Stays, Active, AgreeInv, AlonesOK
    <3> QED BY <3>1, <3>2, <3>3
  <2> QED BY <2>1 DEF AlonesOK
<1> QED BY <1>1, <1>2, <1>3, <1>4, UnseenStep

\* A request about database d that starts at a step with nothing done yet.
LEMMA Starter ==
  ASSUME DatabasesInv, NEW r \in Requests, NEW d \in DBs, UNCHANGED <<catalog, vol, creds, place>>,
         act'[r].db = d, UsersOf(d) \subseteq act'[r].foot,
         \/ act'[r].pc \in {"role", "purge"}
         \/ act'[r].pc = "createdb" /\ ~Postgres
         \/ act'[r].pc = "owner" /\ (act'[r].op = "password" => creds[d] = NONE)
         \/ act'[r].pc = "change" /\ creds[d] # NONE /\ act'[r].user = creds[d].user
         \/ /\ act'[r].pc \in {"download", "recreate", "mongo"} /\ creds[d] # NONE
            /\ act'[r].user = creds[d].user /\ act'[r].pass = creds[d].pass
  PROVE  Progress(r)'
<1>1. UsersOf(d)' = UsersOf(d) /\ Postgres' = Postgres
  BY DEF UsersOf, engine, place, Postgres
<1> QED BY <1>1 DEF Progress

\* The footprint a request declares.
LEMMA Footprint ==
  ASSUME DatabasesInv, NEW d \in DBs, NEW us \in SUBSET Users
  PROVE  /\ {d} \cup us \cup UsersOf(d) \in SUBSET (DBs \cup Users)
         /\ ({d} \cup us \cup UsersOf(d)) \cap DBs = {d}
<1>1. UsersOf(d) \subseteq Users
  <2>1. creds[d] # NONE => creds[d].user \in Users
    BY StoredUser
  <2>2. engine.dbs[d] = NONE \/ engine.dbs[d] \in DatabaseRow
    BY EngineGood, Inside
  <2> QED BY <2>1, <2>2 DEF UsersOf, DatabaseRow
<1> QED BY <1>1, DatabaseConstants


LEMMA IdlePlain ==
  /\ Idle \in Local /\ Idle.user = NONE /\ Idle.db = NONE
  /\ {"role", "createdb", "purge", "owner", "change", "download", "recreate", "mongo", "dump", "stop", "pin"} \subseteq Steps
<1>1. Idle \in Local
  BY IdleLocal
<1> QED BY <1>1 DEF Idle, Steps, InContainer

LEMMA CreateAgrees ==
  ASSUME DatabasesInv, AgreeInv, NEW r \in Requests, Create(r)
  PROVE  AgreeInv'
<1>t. TypesOK
  BY Invariants
<1>1. PICK d \in DBs, u \in Users :
        /\ Arrives(r, "create", {d, u} \cup UsersOf(d),
                   [Idle EXCEPT !.db = d, !.user = u, !.pc = IF Postgres THEN "role" ELSE "createdb"])
        /\ UNCHANGED <<catalog, vol, creds, backups, place, tainted>>
  BY DEF Create
<1>2. PICK pc \in {"role", "createdb"} : pc = IF Postgres THEN "role" ELSE "createdb"
  OBVIOUS
<1>3. PICK foot \in SUBSET (DBs \cup Users) :
        foot = {d} \cup {u} \cup UsersOf(d) /\ foot \cap DBs = {d}
  BY Footprint
<1> DEFINE local == [Idle EXCEPT !.db = d, !.user = u, !.pc = pc]
<1>4. local \in Local /\ local.pc = pc /\ local.db = d /\ local.user = u
  BY <1>2, IdlePlain DEF Local
<1>5. Arrives(r, "create", foot, local)
  <2>1. foot = {d, u} \cup UsersOf(d)
    BY <1>3
  <2> QED BY <1>1, <1>2, <2>1
<1> HIDE DEF local
<1>6. "create" \in OpNames
  BY DEF OpNames
<1>7. act'[r].op = "create" /\ act'[r].foot = foot /\ act'[r].pc = pc /\ act'[r].db = d /\ act'[r].user = u
  <2>1. Arrived(r, "create", foot, local)
    BY <1>4, <1>5, <1>6, <1>t, ArriveMoves
  <2> QED BY <2>1, <1>4 DEF Arrived
<1>8. Footed(act'[r])
  BY <1>2, <1>3, <1>7 DEF Footed, OnDatabase
<1>9. Progress(r)'
  BY <1>1, <1>2, <1>3, <1>7, Starter
<1> QED BY <1>1, <1>4, <1>5, <1>6, <1>8, <1>9, ArriveAgrees

LEMMA DeleteAgrees ==
  ASSUME DatabasesInv, AgreeInv, NEW r \in Requests, Delete(r)
  PROVE  AgreeInv'
<1>t. TypesOK
  BY Invariants
<1>1. PICK d \in DBs, too \in BOOLEAN :
        /\ Arrives(r, "delete", {d} \cup UsersOf(d),
                   [Idle EXCEPT !.db = d, !.pc = "purge",
                      !.purge = IF too THEN {b \in Passwords : backups[b] # NONE /\ backups[b].row /\ backups[b].target = d} ELSE {}])
        /\ UNCHANGED <<catalog, vol, creds, backups, place, tainted>>
  BY DEF Delete
<1>2. PICK mine \in SUBSET Passwords :
        mine = IF too THEN {b \in Passwords : backups[b] # NONE /\ backups[b].row /\ backups[b].target = d} ELSE {}
  OBVIOUS
<1>3. PICK foot \in SUBSET (DBs \cup Users) :
        foot = {d} \cup {} \cup UsersOf(d) /\ foot \cap DBs = {d}
  BY Footprint
<1> DEFINE local == [Idle EXCEPT !.db = d, !.pc = "purge", !.purge = mine]
<1>4. local \in Local /\ local.pc = "purge" /\ local.db = d /\ local.user = NONE
  BY IdlePlain DEF Local
<1>5. Arrives(r, "delete", foot, local)
  <2>1. foot = {d} \cup UsersOf(d)
    BY <1>3
  <2> QED BY <1>1, <1>2, <2>1
<1> HIDE DEF local
<1>6. "delete" \in OpNames
  BY DEF OpNames
<1>7. act'[r].op = "delete" /\ act'[r].foot = foot /\ act'[r].pc = "purge" /\ act'[r].db = d /\ act'[r].user = NONE
  <2>1. Arrived(r, "delete", foot, local)
    BY <1>4, <1>5, <1>6, <1>t, ArriveMoves
  <2> QED BY <2>1, <1>4 DEF Arrived
<1>8. Footed(act'[r])
  BY <1>3, <1>7 DEF Footed, OnDatabase
<1>9. Progress(r)'
  BY <1>1, <1>3, <1>7, Starter
<1> QED BY <1>1, <1>4, <1>5, <1>6, <1>8, <1>9, ArriveAgrees

LEMMA ChangePasswordAgrees ==
  ASSUME DatabasesInv, AgreeInv, NEW r \in Requests, ChangePassword(r)
  PROVE  AgreeInv'
<1>t. TypesOK
  BY Invariants
<1>1. PICK d \in DBs :
        /\ Arrives(r, "password", {d} \cup UsersOf(d),
                   [Idle EXCEPT !.db = d, !.user = IF creds[d] = NONE THEN NONE ELSE creds[d].user,
                                !.pc = IF creds[d] # NONE THEN "change" ELSE "owner"])
        /\ UNCHANGED <<catalog, vol, creds, backups, place, tainted>>
  BY DEF ChangePassword
<1>2. PICK pc \in {"change", "owner"}, u \in Users \cup {NONE} :
        /\ pc = IF creds[d] # NONE THEN "change" ELSE "owner"
        /\ u = IF creds[d] = NONE THEN NONE ELSE creds[d].user
  BY StoredUser
<1>3. PICK foot \in SUBSET (DBs \cup Users) :
        foot = {d} \cup {} \cup UsersOf(d) /\ foot \cap DBs = {d}
  BY Footprint
<1> DEFINE local == [Idle EXCEPT !.db = d, !.user = u, !.pc = pc]
<1>4. local \in Local /\ local.pc = pc /\ local.db = d /\ local.user = u
  BY <1>2, IdlePlain DEF Local
<1>5. Arrives(r, "password", foot, local)
  <2>1. foot = {d} \cup UsersOf(d)
    BY <1>3
  <2> QED BY <1>1, <1>2, <2>1
<1> HIDE DEF local
<1>6. "password" \in OpNames
  BY DEF OpNames
<1>7. act'[r].op = "password" /\ act'[r].foot = foot /\ act'[r].pc = pc /\ act'[r].db = d /\ act'[r].user = u
  <2>1. Arrived(r, "password", foot, local)
    BY <1>4, <1>5, <1>6, <1>t, ArriveMoves
  <2> QED BY <2>1, <1>4 DEF Arrived
<1>8. u # NONE => u \in foot
  BY <1>2, <1>3 DEF UsersOf
<1>9. Footed(act'[r])
  BY <1>2, <1>3, <1>7, <1>8 DEF Footed, OnDatabase
<1>10. Progress(r)'
  BY <1>1, <1>2, <1>3, <1>7, Starter
<1> QED BY <1>1, <1>4, <1>5, <1>6, <1>9, <1>10, ArriveAgrees

LEMMA SetPrivilegesAgrees ==
  ASSUME DatabasesInv, AgreeInv, NEW r \in Requests, SetPrivileges(r)
  PROVE  AgreeInv'
<1>t. TypesOK
  BY Invariants
<1>1. PICK d \in DBs :
        /\ Arrives(r, "privileges", {d} \cup UsersOf(d), [Idle EXCEPT !.db = d, !.pc = "owner"])
        /\ UNCHANGED <<catalog, vol, creds, backups, place, tainted>>
  BY DEF SetPrivileges
<1>3. PICK foot \in SUBSET (DBs \cup Users) :
        foot = {d} \cup {} \cup UsersOf(d) /\ foot \cap DBs = {d}
  BY Footprint
<1> DEFINE local == [Idle EXCEPT !.db = d, !.pc = "owner"]
<1>4. local \in Local /\ local.pc = "owner" /\ local.db = d /\ local.user = NONE
  BY IdlePlain DEF Local
<1>5. Arrives(r, "privileges", foot, local)
  <2>1. foot = {d} \cup UsersOf(d)
    BY <1>3
  <2> QED BY <1>1, <2>1
<1> HIDE DEF local
<1>6. "privileges" \in OpNames
  BY DEF OpNames
<1>7. act'[r].op = "privileges" /\ act'[r].foot = foot /\ act'[r].pc = "owner" /\ act'[r].db = d /\ act'[r].user = NONE
  <2>1. Arrived(r, "privileges", foot, local)
    BY <1>4, <1>5, <1>6, <1>t, ArriveMoves
  <2> QED BY <2>1, <1>4 DEF Arrived
<1>8. Footed(act'[r])
  BY <1>3, <1>7 DEF Footed, OnDatabase
<1>9. Progress(r)'
  BY <1>1, <1>3, <1>7, Starter
<1> QED BY <1>1, <1>4, <1>5, <1>6, <1>8, <1>9, ArriveAgrees

\* A restore and an upload read the credentials as they arrive.
LEMMA ResolvedArrives ==
  ASSUME DatabasesInv, AgreeInv, NEW r \in Requests, NEW d \in DBs, creds[d] # NONE, NEW op \in {"restore", "upload"},
         NEW base \in Local, base.pc \in {"download", "recreate", "mongo"},
         Arrives(r, op, {d} \cup UsersOf(d), resolve_owner(d, base)),
         UNCHANGED <<catalog, vol, creds, backups, place, tainted>>
  PROVE  AgreeInv'
<1>t. TypesOK
  BY Invariants
<1>1. PICK u \in Users, p \in Passwords : u = creds[d].user /\ p = creds[d].pass
  BY StoredUser
<1>2. PICK foot \in SUBSET (DBs \cup Users) :
        foot = {d} \cup {} \cup UsersOf(d) /\ foot \cap DBs = {d}
  BY Footprint
<1> DEFINE local == [base EXCEPT !.db = d, !.user = u, !.pass = p]
<1>3. local \in Local /\ local.pc = base.pc /\ local.db = d /\ local.user = u /\ local.pass = p
  BY DEF Local
<1>4. Arrives(r, op, foot, local)
  <2>1. foot = {d} \cup UsersOf(d)
    BY <1>2
  <2> QED BY <1>1, <2>1 DEF resolve_owner
<1> HIDE DEF local
<1>5. op \in OpNames
  BY DEF OpNames
<1>6. /\ act'[r].op = op /\ act'[r].foot = foot /\ act'[r].pc = base.pc /\ act'[r].db = d /\ act'[r].user = u
      /\ act'[r].pass = p
  <2>1. Arrived(r, op, foot, local)
    BY <1>3, <1>4, <1>5, <1>t, ArriveMoves
  <2> QED BY <2>1, <1>3 DEF Arrived
<1>7. u \in foot
  BY <1>1, <1>2 DEF UsersOf
<1>8. Footed(act'[r])
  BY <1>2, <1>6, <1>7 DEF Footed, OnDatabase
<1>9. Progress(r)'
  BY <1>1, <1>2, <1>6, Starter
<1> QED BY <1>3, <1>4, <1>5, <1>8, <1>9, ArriveAgrees

LEMMA RestoreAgrees ==
  ASSUME DatabasesInv, AgreeInv, NEW r \in Requests, Restore(r)
  PROVE  AgreeInv'
<1>1. PICK b \in Passwords, d \in DBs :
        /\ backups[b] # NONE /\ backups[b].row /\ creds[d] # NONE
        /\ Arrives(r, "restore", {d} \cup UsersOf(d), resolve_owner(d, [Idle EXCEPT !.from = b, !.pc = "download"]))
        /\ UNCHANGED <<catalog, vol, creds, backups, place, tainted>>
  BY DEF Restore
<1> DEFINE base == [Idle EXCEPT !.from = b, !.pc = "download"]
<1>2. base \in Local /\ base.pc = "download"
  BY IdlePlain DEF Local
<1> QED BY <1>1, <1>2, ResolvedArrives

LEMMA RestoreUploadAgrees ==
  ASSUME DatabasesInv, AgreeInv, NEW r \in Requests, RestoreUpload(r)
  PROVE  AgreeInv'
<1>1. PICK d \in DBs :
        /\ creds[d] # NONE
        /\ Arrives(r, "upload", {d} \cup UsersOf(d),
                   resolve_owner(d, [Idle EXCEPT !.rows = [of |-> d, ver |-> "file"], !.pc = apply_restore]))
        /\ UNCHANGED <<catalog, vol, creds, backups, place, tainted>>
  BY DEF RestoreUpload
<1>2. PICK rows \in Rows : rows = [of |-> d, ver |-> "file"]
  BY DEF Rows, Versions
<1>3. PICK pc \in {"recreate", "mongo"} : pc = apply_restore
  BY DEF apply_restore
<1> DEFINE base == [Idle EXCEPT !.rows = rows, !.pc = pc]
<1>4. base \in Local /\ base.pc = pc
  BY <1>3, IdlePlain DEF Local
<1>5. Arrives(r, "upload", {d} \cup UsersOf(d), resolve_owner(d, base))
  BY <1>1, <1>2, <1>3
<1> HIDE DEF base
<1> QED BY <1>1, <1>4, <1>5, ResolvedArrives


LEMMA ArrivesOutside ==
  ASSUME DatabasesInv, AgreeInv, NEW r \in Requests, NEW op \in OpNames, NEW local \in Local,
         Arrives(r, op, {}, local), local.pc \notin OnDatabase,
         UNCHANGED <<catalog, vol, creds, backups, place, tainted>>
  PROVE  AgreeInv'
<1>1. TypesOK /\ {} \in SUBSET (DBs \cup Users)
  BY Invariants
<1>2. Arrived(r, op, {}, local)
  BY <1>1, ArriveMoves
<1>3. Unseen
  BY EngineSame DEF engine, place
<1> QED BY <1>2, <1>3, Outside DEF Arrived, Active

LEMMA BackupAgrees ==
  ASSUME DatabasesInv, AgreeInv, NEW r \in Requests, Backup(r)
  PROVE  AgreeInv'
<1>1. PICK target \in DBs \cup {NONE} :
        /\ Arrives(r, "backup", {},
                   [Idle EXCEPT !.db = target, !.pc = "dump", !.rows = [x \in DBs |-> NONE],
                                !.todo = IF target # NONE THEN {target}
                                         ELSE IF catalog = "mongodb" THEN DBs ELSE {x \in DBs : creds[x] # NONE}])
        /\ UNCHANGED <<catalog, vol, creds, backups, place, tainted>>
  BY DEF Backup
<1>2. PICK rows \in Dump, todo \in SUBSET DBs :
        /\ rows = [x \in DBs |-> NONE]
        /\ todo = IF target # NONE THEN {target}
                  ELSE IF catalog = "mongodb" THEN DBs ELSE {x \in DBs : creds[x] # NONE}
  BY DEF Dump
<1> DEFINE local == [Idle EXCEPT !.db = target, !.pc = "dump", !.rows = rows, !.todo = todo]
<1>3. local \in Local /\ local.pc = "dump"
  BY IdlePlain DEF Local
<1>4. Arrives(r, "backup", {}, local)
  BY <1>1, <1>2
<1> HIDE DEF local
<1>5. "backup" \in OpNames /\ local.pc \notin OnDatabase
  BY <1>3 DEF OpNames, OnDatabase
<1> QED BY <1>1, <1>3, <1>4, <1>5, ArrivesOutside

LEMMA RepairAgrees ==
  ASSUME DatabasesInv, AgreeInv, NEW r \in Requests, Repair(r)
  PROVE  AgreeInv'
<1>1. PICK where \in inspect_and_diagnose :
        Arrives(r, "repair", {}, [Idle EXCEPT !.known = TRUE, !.pc = IF plan_repair(where) THEN "stop" ELSE "pin"])
  BY DEF Repair
<1>2. PICK pc \in {"stop", "pin"} : pc = IF plan_repair(where) THEN "stop" ELSE "pin"
  OBVIOUS
<1> DEFINE local == [Idle EXCEPT !.known = TRUE, !.pc = pc]
<1>3. local \in Local /\ local.pc = pc
  BY IdlePlain DEF Local
<1>4. Arrives(r, "repair", {}, local)
  BY <1>1, <1>2
<1> HIDE DEF local
<1>5. "repair" \in OpNames /\ local.pc \notin OnDatabase
  BY <1>3 DEF OpNames, OnDatabase
<1>6. UNCHANGED <<catalog, vol, creds, backups, place, tainted>>
  BY DEF Repair
<1> QED BY <1>3, <1>4, <1>5, <1>6, ArrivesOutside

LEMMA UpdateEnvAgrees ==
  ASSUME DatabasesInv, AgreeInv, NEW r \in Requests, UpdateEnv(r)
  PROVE  AgreeInv'
<1> DEFINE local == [Idle EXCEPT !.known = pinned, !.pc = "pin"]
<1>1. Arrives(r, "env", {}, local) /\ UNCHANGED <<catalog, vol, creds, backups, place, tainted>>
  BY DEF UpdateEnv
<1>2. pinned \in BOOLEAN
  BY DEF DatabasesInv, TypesOK
<1>3. local \in Local /\ local.pc = "pin"
  BY <1>2, IdlePlain DEF Local
<1> HIDE DEF local
<1>4. "env" \in OpNames /\ local.pc \notin OnDatabase
  BY <1>3 DEF OpNames, OnDatabase
<1> QED BY <1>1, <1>3, <1>4, ArrivesOutside

\* A step of a request that is about no database, and ends or goes on.
LEMMA GoesOutside ==
  ASSUME DatabasesInv, AgreeInv, NEW r \in Requests, act[r].pc \in Steps \ (OnDatabase \cup {"new", "done"}), engine' = engine,
         UNCHANGED <<catalog, creds>>,
         \/ \E pc \in Steps \ OnDatabase : Goto(r, pc)
         \/ Fail(r)
         \/ Succeed(r, {})
  PROVE  AgreeInv'
<1>1. act[r].foot = {} /\ TypesOK
  BY Invariants DEF AgreeInv, FeetOK, Footed, Active
<1>2. CASE Fail(r)
  <2>1. act'[r].pc = "done" /\ tainted \subseteq tainted' /\ \A q \in Requests \ {r} : Stays(q)
    BY <1>1, <1>2, FailMoves
  <2> QED BY <1>1, <2>1, EngineSame, Outside DEF Active
<1>3. CASE Succeed(r, {})
  <2>1. act'[r].pc = "done" /\ tainted \subseteq tainted' /\ \A q \in Requests \ {r} : Stays(q)
    BY <1>1, <1>3, SucceedMoves
  <2> QED BY <1>1, <2>1, EngineSame, Outside DEF Active
<1>4. ASSUME NEW pc \in Steps \ OnDatabase, Goto(r, pc)
      PROVE  AgreeInv'
  <2>1. PICK k \in Local : act[r] = k
    BY <1>1 DEF TypesOK
  <2> DEFINE x == [k EXCEPT !.pc = pc]
  <2>2. act' = [act EXCEPT ![r] = x] /\ UNCHANGED tainted
    BY <1>4, <2>1 DEF Goto
  <2>3. x.pc = pc /\ x.foot = k.foot
    BY DEF Local
  <2> HIDE DEF x
  <2>4. act'[r] = x /\ \A q \in Requests \ {r} : Stays(q)
    BY <1>1, <2>2 DEF TypesOK, Stays
  <2> QED BY <1>1, <2>1, <2>2, <2>3, <2>4, EngineSame, Outside
<1> QED BY <1>2, <1>3, <1>4

LEMMA NotRunningAgrees ==
  ASSUME DatabasesInv, AgreeInv, NEW r \in Requests, NotRunning(r)
  PROVE  AgreeInv'
<1>1. CASE act[r].pc \in OnDatabase
  BY <1>1, StillFails DEF NotRunning
<1>2. CASE act[r].pc \notin OnDatabase
  <2>1. act[r].pc \in Steps \ (OnDatabase \cup {"new", "done"}) /\ engine' = engine
    BY <1>2 DEF NotRunning, InContainer, Steps, engine, place
  <2> QED BY <2>1, GoesOutside DEF NotRunning
<1> QED BY <1>1, <1>2

LEMMA DumpAgrees ==
  ASSUME DatabasesInv, AgreeInv, NEW r \in Requests, execute_cluster_backup(r)
  PROVE  AgreeInv'
<1>1. act[r].pc = "dump" /\ engine' = engine /\ UNCHANGED <<catalog, creds>> /\ TypesOK
  BY Invariants DEF execute_cluster_backup, engine, place
<1>2. CASE Fail(r)
  <2>1. act[r].pc \in Steps \ (OnDatabase \cup {"new", "done"})
    BY <1>1 DEF OnDatabase, Steps, InContainer
  <2> QED BY <1>1, <1>2, <2>1, GoesOutside
<1>3. ASSUME NEW x, act' = [act EXCEPT ![r] = x], x.pc \in {"save", "dump"}, x.foot = act[r].foot, UNCHANGED tainted
      PROVE  AgreeInv'
  <2>1. act[r].foot = {}
    BY <1>1 DEF AgreeInv, FeetOK, Footed, Active, OnDatabase
  <2>2. act'[r] = x /\ \A q \in Requests \ {r} : Stays(q)
    BY <1>1, <1>3 DEF TypesOK, Stays
  <2>3. x.pc \notin OnDatabase
    BY <1>3 DEF OnDatabase
  <2> QED BY <1>1, <1>3, <2>1, <2>2, <2>3, EngineSame, Outside
<1>4. PICK k \in Local : act[r] = k
  BY <1>1 DEF TypesOK
<1>5. CASE /\ act' = [act EXCEPT ![r].rows = [x \in DBs |-> IF x \in act[r].todo THEN RowsNow(x) ELSE NONE],
                                 ![r].todo = {}, ![r].pc = "save"]
           /\ UNCHANGED tainted
  <2> DEFINE rows == [x \in DBs |-> IF x \in act[r].todo THEN RowsNow(x) ELSE NONE]
             x == [k EXCEPT !.rows = rows, !.todo = {}, !.pc = "save"]
  <2>1. act' = [act EXCEPT ![r].rows = rows, ![r].todo = {}, ![r].pc = "save"]
    BY <1>5
  <2> HIDE DEF rows
  <2>2. act' = [act EXCEPT ![r] = x]
    BY <1>1, <1>4, <2>1 DEF TypesOK
  <2>3. x.pc = "save" /\ x.foot = act[r].foot
    BY <1>4 DEF Local
  <2> HIDE DEF x
  <2> QED BY <1>3, <1>5, <2>2, <2>3
<1>6. ASSUME NEW d \in act[r].todo,
             act' = [act EXCEPT ![r].rows[d] = RowsNow(d), ![r].todo = @ \ {d},
                                ![r].pc = IF act[r].todo = {d} THEN "save" ELSE "dump"],
             UNCHANGED tainted
      PROVE  AgreeInv'
  <2> DEFINE pc == IF act[r].todo = {d} THEN "save" ELSE "dump"
             rows == [k.rows EXCEPT ![d] = RowsNow(d)]
             left == k.todo \ {d}
             x == [k EXCEPT !.rows = rows, !.todo = left, !.pc = pc]
  <2>1. act' = [act EXCEPT ![r].rows[d] = RowsNow(d), ![r].todo = @ \ {d}, ![r].pc = pc]
    BY <1>6
  <2>2. pc \in {"save", "dump"}
    OBVIOUS
  <2> HIDE DEF pc
  <2>3. act' = [act EXCEPT ![r] = x]
    BY <1>1, <1>4, <2>1 DEF TypesOK
  <2> HIDE DEF rows, left
  <2>4. x.pc = pc /\ x.foot = act[r].foot
    BY <1>4 DEF Local
  <2> HIDE DEF x
  <2> QED BY <1>3, <1>6, <2>2, <2>3, <2>4
<1> QED BY <1>2, <1>5, <1>6 DEF execute_cluster_backup

LEMMA SaveDumpAgrees ==
  ASSUME DatabasesInv, AgreeInv, NEW r \in Requests, SaveDump(r)
  PROVE  AgreeInv'
<1>1. act[r].pc \in Steps \ (OnDatabase \cup {"new", "done"}) /\ engine' = engine
  BY DEF SaveDump, OnDatabase, Steps, engine, place
<1> QED BY <1>1, GoesOutside DEF SaveDump

LEMMA QuiesceAgrees ==
  ASSUME DatabasesInv, AgreeInv, NEW r \in Requests, Quiesce(r)
  PROVE  AgreeInv'
<1>1. act[r].pc \in Steps \ (OnDatabase \cup {"new", "done"}) /\ engine' = engine /\ "copy" \in Steps \ OnDatabase
  BY DEF Quiesce, OnDatabase, Steps, engine
<1> QED BY <1>1, GoesOutside DEF Quiesce

LEMMA CopyAgrees ==
  ASSUME DatabasesInv, AgreeInv, NEW r \in Requests, run_copy_container(r)
  PROVE  AgreeInv'
<1>1. act[r].pc \in Steps \ (OnDatabase \cup {"new", "done"}) /\ "pin" \in Steps \ OnDatabase
  BY DEF run_copy_container, OnDatabase, Steps
<1>2. engine' = engine
  <2>1. home \in Volumes /\ vol \in [Volumes -> Cluster \cup {NONE, Torn}] /\ (vol["named"] = NONE => home # "named")
    BY NoneIsNothing DEF DatabasesInv, TypesOK, PlaceOK
  <2>2. home' = home /\ (vol' = vol \/ \E c : vol["named"] = NONE /\ vol' = [vol EXCEPT !["named"] = c])
    BY DEF run_copy_container
  <2> QED BY <2>1, <2>2 DEF engine
<1>3. (\E pc \in Steps \ OnDatabase : Goto(r, pc)) \/ Fail(r)
  BY <1>1 DEF run_copy_container
<1>4. UNCHANGED <<catalog, creds>>
  BY DEF run_copy_container
<1> QED BY <1>1, <1>2, <1>3, <1>4, GoesOutside

LEMMA ApplyEnvAgrees ==
  ASSUME DatabasesInv, AgreeInv, NEW r \in Requests, apply_env_update(r)
  PROVE  AgreeInv'
<1>1. act[r].pc \in Steps \ (OnDatabase \cup {"new", "done"}) /\ engine' = engine /\ "deploy" \in Steps \ OnDatabase
  BY DEF apply_env_update, OnDatabase, Steps, engine
<1> QED BY <1>1, GoesOutside DEF apply_env_update


LEMMA RedeployAgrees ==
  ASSUME DatabasesInv, AgreeInv, NEW r \in Requests, Redeploy(r)
  PROVE  AgreeInv'
<1>1. /\ TypesOK /\ act[r].pc = "deploy" /\ UNCHANGED <<catalog, vol, creds>>
      /\ Ends(r) /\ ((Done(r) /\ UNCHANGED tainted) \/ Disturbs(r))
  BY Invariants, RedeployEnds DEF Redeploy
<1>2. CASE Disturbs(r)
  <2>1. act'[r].pc = "done" /\ tainted' = DBs \cup Users
    BY <1>1, <1>2 DEF Ends, Disturbs
  <2>2. ASSUME NEW q \in Requests \ {r}
        PROVE  Stays(q) /\ (act'[q].alone => ~Active(q))
    <3>1. PICK k \in Local : act[q] = k
      BY <1>1 DEF TypesOK
    <3> DEFINE b == k.alone /\ ~Active(q)
               x == [k EXCEPT !.alone = b]
    <3>2. act'[q] = x
      BY <1>2, <3>1 DEF Disturbs
    <3>3. x.op = k.op /\ x.pc = k.pc /\ x.db = k.db /\ x.user = k.user /\ x.pass = k.pass /\ x.foot = k.foot /\ x.alone = b
      BY DEF Local
    <3> HIDE DEF x
    <3> QED BY <3>1, <3>2, <3>3 DEF Stays
  <2>3. ASSUME NEW q \in Requests, Active(q)'
        PROVE  ~act'[q].alone /\ Footed(act'[q])
    <3>1. q # r
      BY <2>1, <2>3 DEF Active
    <3>2. Stays(q) /\ Active(q) /\ ~act'[q].alone
      BY <2>2, <2>3, <3>1 DEF Stays, Active
    <3>3. Footed(act[q])
      BY <3>2 DEF AgreeInv, FeetOK
    <3> QED BY <3>2, <3>3 DEF Stays, Footed
  <2>4. FeetOK' /\ AlonesOK'
    BY <1>1, <2>3 DEF FeetOK, AlonesOK, Footed, Postgres
  <2>5. ProgressOK'
    BY <2>3 DEF ProgressOK, Active, OnDatabase
  <2>6. DbsOK' /\ PassesOK'
    BY <2>1 DEF DbsOK, PassesOK, Undisturbed
  <2>7. SharedOK'
    <3>1. Postgres
      BY <1>1, Invariants DEF ShapeOf, Moving
    <3> QED BY <1>1, <3>1 DEF AgreeInv, SharedOK, Mongo, Postgres
  <2> QED BY <2>4, <2>5, <2>6, <2>7 DEF AgreeInv
<1>3. CASE ~Disturbs(r)
  <2>1. Done(r) /\ UNCHANGED tainted
    BY <1>1, <1>3
  <2>2. engine' = engine
    <3>1. vol[home'] = vol[home]
      <4>1. home \in Volumes /\ act[r].known \in BOOLEAN
        BY <1>1, Invariants DEF TypesOK, Local
      <4>2. home' # home => home' = (IF act[r].known THEN "named" ELSE "anon")
        BY DEF Redeploy
      <4>3. home' # home => vol["named"] = vol["anon"]
        BY <1>3, <4>2 DEF Redeploy, Disturbs
      <4> QED BY <4>1, <4>2, <4>3 DEF Volumes
    <3> QED BY <1>1, <3>1 DEF engine
  <2>3. act[r].foot = {}
    BY <1>1 DEF AgreeInv, FeetOK, Footed, Active, OnDatabase
  <2>4. act'[r].pc = "done" /\ \A q \in Requests \ {r} : Stays(q)
    BY <1>1, <2>1, DoneMoves
  <2> QED BY <1>1, <2>1, <2>2, <2>3, <2>4, EngineSame, Outside DEF Active
<1> QED BY <1>2, <1>3

\* An application changes rows.
LEMMA WriteAgrees ==
  ASSUME DatabasesInv, AgreeInv, NEW d \in DBs, Write(d)
  PROVE  AgreeInv'
<1>1. /\ vol' = [vol EXCEPT ![home].dbs[d].rows = [of |-> d, ver |-> "new"]] /\ engine.dbs[d] # NONE
      /\ UNCHANGED <<catalog, creds, backups, place, act, tainted, events>>
  BY DEF Write
<1>2. PICK e \in Cluster : e = engine
  BY EngineGood
<1>3. PICK x \in DatabaseRow : x = e.dbs[d]
  BY <1>1, <1>2, EngineGood, Inside
<1> DEFINE rows == [of |-> d, ver |-> "new"]
           y == [x EXCEPT !.rows = rows]
           f == [e.dbs EXCEPT ![d] = y]
           c == [e EXCEPT !.dbs = f]
<1>4. vol' = [vol EXCEPT ![home] = c]
  BY <1>1, <1>2, <1>3 DEF engine
<1> HIDE DEF rows
<1>5. y.users = x.users /\ y.objects = x.objects
  BY DEF DatabaseRow
<1>6. y # NONE
  <2>1. rows \in Rows
    BY DEF Rows, Versions, rows
  <2>2. y \in DatabaseRow
    BY <2>1 DEF DatabaseRow
  <2> QED BY <2>2, NoneIsNothing
<1> HIDE DEF y
<1>7. f[d] = y /\ \A z \in DBs \ {d} : f[z] = e.dbs[z]
  BY DEF Cluster
<1> HIDE DEF f
<1>8. c.dbs = f /\ c.roles = e.roles
  BY DEF Cluster
<1> HIDE DEF c
<1>9. engine' = c
  BY <1>1, <1>4, Becomes
<1>10. Unseen
  BY <1>1, <1>2, <1>3, <1>5, <1>6, <1>7, <1>8, <1>9 DEF Unseen, SameDb, SamePass, Role
<1>11. \A q \in Requests : Stays(q) /\ Holds(q)
  BY <1>1, StaysHolds DEF Stays
<1>12. SharedOK' /\ DbsOK' /\ PassesOK'
  BY <1>10, <1>11, UnseenKeeps
<1>13. ProgressOK'
  BY <1>10, <1>11, StaysProgress DEF ProgressOK
<1>14. FeetOK' /\ AlonesOK'
  BY <1>1 DEF AgreeInv, FeetOK, AlonesOK, Footed, Active, Postgres
<1> QED BY <1>12, <1>13, <1>14 DEF AgreeInv


\* Request r has learnt of user u, and nobody else who works on u is alone.
Learnt(r, u, pc) ==
  /\ act'[r].pc = pc /\ act'[r].user = u /\ act'[r].op = act[r].op /\ act'[r].db = act[r].db
  /\ act'[r].pass = act[r].pass /\ act'[r].foot = act[r].foot \cup ({u} \ {NONE})
  /\ (act'[r].alone => act[r].alone) /\ tainted' = tainted
  /\ \A q \in Requests \ {r} : Stays(q)
  /\ \A q \in Requests \ {r} : Active(q) /\ u \in act[q].foot => ~act'[q].alone /\ ~act'[r].alone

LEMMA LearnMoves ==
  ASSUME TypesOK, NEW r \in Requests, NEW u \in Users \cup {NONE}, NEW pc \in Steps, Learns(r, u, pc)
  PROVE  Learnt(r, u, pc)
<1> DEFINE meets == {q \in Requests \ {r} : Active(q) /\ u \in act[q].foot}
           calm == act[r].alone /\ meets = {}
           wide == act[r].foot \cup ({u} \ {NONE})
           x == [act[r] EXCEPT !.user = u, !.pc = pc, !.foot = wide, !.alone = calm]
           other(q) == [act[q] EXCEPT !.alone = FALSE]
<1>1. act' = [q \in Requests |-> IF q = r THEN x ELSE IF q \in meets THEN other(q) ELSE act[q]]
  BY DEF Learns
<1>2. (calm => act[r].alone) /\ \A q \in meets : ~calm
  OBVIOUS
<1>3. /\ x.pc = pc /\ x.user = u /\ x.op = act[r].op /\ x.db = act[r].db /\ x.pass = act[r].pass
      /\ x.foot = wide /\ x.alone = calm
  <2>1. PICK k \in Local : act[r] = k
    BY DEF TypesOK
  <2> HIDE DEF calm, wide
  <2> QED BY <2>1 DEF Local
<1> HIDE DEF x, calm
<1>4. act'[r] = x
  BY <1>1
<1>5. ASSUME NEW q \in Requests \ {r}
      PROVE  Stays(q) /\ (q \in meets => ~act'[q].alone)
  <2>1. CASE q \in meets
    <3>1. act'[q] = [act[q] EXCEPT !.alone = FALSE]
      BY <1>1, <2>1
    <3> QED BY <3>1, Joined
  <2>2. CASE q \notin meets
    <3>1. act'[q] = act[q]
      BY <1>1, <2>2
    <3> QED BY <2>2, <3>1 DEF Stays
  <2> QED BY <2>1, <2>2
<1> QED BY <1>2, <1>3, <1>4, <1>5 DEF Learnt, Learns

LEMMA LearnAgrees ==
  ASSUME DatabasesInv, AgreeInv, NEW r \in Requests, NEW u \in Users \cup {NONE}, NEW pc \in OnDatabase \cap Steps,
         Learns(r, u, pc), act[r].pc = "owner", UNCHANGED <<catalog, vol, creds, backups, place>>,
         pc # "dropuser", pc = "change" => act[r].op = "password", pc \notin {"role", "alter", "createdb", "purge", "fix"},
         Learnt(r, u, pc) /\ act'[r].alone => Progress(r)'
  PROVE  AgreeInv'
<1>1. Learnt(r, u, pc)
  BY Invariants, LearnMoves
<1>2. act[r].pc \in OnDatabase
  BY DEF OnDatabase
<1>3. /\ Active(r) /\ act[r].db \in DBs /\ act[r].foot \cap DBs = {act[r].db} /\ act[r].foot \subseteq DBs \cup Users
  BY <1>2, Walks
<1>4. Unseen
  BY <1>1, EngineSame DEF Learnt, engine, place
<1>5. Holds(r)
  BY <1>1, <1>2 DEF Learnt, Holds, Works, Active, OnDatabase, Between, Changes
<1>6. Footed(act'[r])
  <2>1. act'[r].foot \cap DBs = {act[r].db}
    BY <1>1, <1>3, DatabaseConstants DEF Learnt
  <2> QED BY <1>1, <1>3, <2>1 DEF Learnt, Footed
<1>7. AlonesOK'
  <2>1. ASSUME NEW q \in Requests \ {r}, Active(q)', act'[r].foot \cap act'[q].foot # {}
        PROVE  ~act'[r].alone /\ ~act'[q].alone
    <3>1. Stays(q)
      BY <1>1 DEF Learnt
    <3>2. Active(q) /\ act'[q].foot = act[q].foot
      BY <2>1, <3>1 DEF Stays, Active
    <3>3. CASE act[r].foot \cap act[q].foot # {}
      <4>1. ~act[r].alone /\ ~act[q].alone
        BY <1>3, <3>2, <3>3 DEF AgreeInv, AlonesOK
      <4> QED BY <1>1, <3>1, <4>1 DEF Learnt, Stays
    <3>4. CASE u \in act[q].foot
      BY <1>1, <3>2, <3>4 DEF Learnt
    <3> QED BY <1>1, <2>1, <3>2, <3>3, <3>4 DEF Learnt
  <2>2. ASSUME NEW p \in Requests, NEW q \in Requests, p # q, Active(p)', Active(q)',
               act'[p].foot \cap act'[q].foot # {}
        PROVE  ~act'[p].alone
    <3>1. CASE p = r
      BY <2>1, <2>2, <3>1
    <3>2. CASE q = r
      BY <2>1, <2>2, <3>2
    <3>3. CASE p # r /\ q # r
      <4>1. Stays(p) /\ Stays(q)
        BY <1>1, <3>3 DEF Learnt
      <4> QED BY <2>2, <4>1 DEF Stays, Active, AgreeInv, AlonesOK
    <3> QED BY <3>1, <3>2, <3>3
  <2> QED BY <2>2 DEF AlonesOK
<1>8. \A q \in Requests \ {r} : Stays(q)
  BY <1>1 DEF Learnt
<1> QED BY <1>1, <1>4, <1>5, <1>6, <1>7, <1>8, UnseenStep

\* It knows all users of its database.
LEMMA KnowsUsers ==
  ASSUME DatabasesInv, AgreeInv, NEW r \in Requests, act[r].pc \in OnDatabase, act[r].alone, NEW d \in DBs, d = act[r].db,
         UNCHANGED <<vol, creds, place>>
  PROVE  UsersOf(d)' \subseteq act[r].foot
<1>1. Progress(r)
  BY DEF AgreeInv, ProgressOK
<1> QED BY <1>1 DEF Progress, UsersOf, engine, place

LEMMA OwnerTyped ==
  ASSUME DatabasesInv, NEW d \in DBs, engine.dbs[d] # NONE, Postgres
  PROVE  (CHOOSE u \in engine.dbs[d].users : TRUE) \in Users
<1>1. engine.dbs[d] \in DatabaseRow /\ engine.dbs[d].users # {}
  BY EngineGood, Inside DEF Fits
<1> QED BY <1>1 DEF DatabaseRow

LEMMA ReadOwnerAgrees ==
  ASSUME DatabasesInv, AgreeInv, NEW r \in Requests, ReadOwner(r)
  PROVE  AgreeInv'
<1>1. /\ act[r].pc = "owner" /\ act[r].op = "delete" /\ act[r].pc \in OnDatabase
      /\ UNCHANGED <<catalog, vol, creds, backups, place>>
  BY DEF ReadOwner, OnDatabase
<1>2. PICK d \in DBs : d = act[r].db
  BY <1>1, Walks
<1>3. PICK u \in Users \cup {NONE} : u = IF engine.dbs[d] = NONE THEN NONE ELSE CHOOSE v \in engine.dbs[d].users : TRUE
  <2>1. Postgres
    BY <1>1, Invariants DEF ShapeOf
  <2> QED BY <2>1, OwnerTyped
<1>4. Learns(r, u, "drop")
  BY <1>2, <1>3 DEF ReadOwner
<1>5. "drop" \in OnDatabase \cap Steps
  BY DEF OnDatabase, Steps, InContainer
<1>6. ASSUME Learnt(r, u, "drop"), act'[r].alone
      PROVE  Progress(r)'
  BY <1>1, <1>2, <1>6, KnowsUsers DEF Learnt, Progress
<1> QED BY <1>1, <1>4, <1>5, <1>6, LearnAgrees

\* A request that is alone, with its database in order, knows that.
LEMMA InOrder ==
  ASSUME DatabasesInv, AgreeInv, NEW r \in Requests, act[r].pc \in OnDatabase, act[r].alone, ~Between(r),
         act[r].db \notin tainted
  PROVE  Undisturbed(act[r].db) /\ DbOK(act[r].db)
<1>1. Active(r) /\ act[r].db \in DBs /\ act[r].db \in act[r].foot
  BY Walks
<1>2. \A q \in Requests \ {r} : ~Works(q, act[r].db)
  BY <1>1, Solo
<1>3. Undisturbed(act[r].db)
  BY <1>2 DEF Undisturbed
<1> QED BY <1>1, <1>3 DEF AgreeInv, DbsOK

LEMMA OwnerOfAgrees ==
  ASSUME DatabasesInv, AgreeInv, NEW r \in Requests, OwnerOf(r)
  PROVE  AgreeInv'
<1>1. /\ act[r].pc = "owner" /\ act[r].op = "password" /\ act[r].pc \in OnDatabase
      /\ UNCHANGED <<catalog, vol, creds, backups, place>>
  BY DEF OwnerOf, OnDatabase
<1>2. PICK d \in DBs : d = act[r].db
  BY <1>1, Walks
<1>3. CASE Fail(r)
  BY <1>1, <1>3, StillFails
<1>4. CASE Postgres /\ engine.dbs[d] # NONE
  <2>1. PICK u \in Users : u = CHOOSE v \in engine.dbs[d].users : TRUE
    BY <1>4, OwnerTyped
  <2>2. Learns(r, u, "change")
    BY <1>2, <1>4, <2>1 DEF OwnerOf
  <2>3. "change" \in OnDatabase \cap Steps
    BY DEF OnDatabase, Steps, InContainer
  <2>4. ASSUME Learnt(r, u, "change"), act'[r].alone
        PROVE  Progress(r)'
    <3>1. act[r].alone /\ tainted' = tainted
      BY <2>4 DEF Learnt
    <3>2. creds[d] = NONE
      BY <1>1, <1>2, <3>1 DEF AgreeInv, ProgressOK, Progress
    <3>3. d \in tainted
      <4>1. ~Between(r)
        BY <1>1 DEF Between
      <4> QED BY <1>1, <1>2, <1>4, <3>1, <3>2, <4>1, InOrder DEF DbOK
    <3> QED BY <1>1, <1>2, <2>4, <3>1, <3>3, KnowsUsers DEF Learnt, Progress
  <2> QED BY <1>1, <2>2, <2>3, <2>4, LearnAgrees
<1> QED BY <1>2, <1>3, <1>4 DEF OwnerOf

LEMMA OwnerToAlterAgrees ==
  ASSUME DatabasesInv, AgreeInv, NEW r \in Requests, OwnerToAlter(r)
  PROVE  AgreeInv'
<1>1. /\ act[r].pc = "owner" /\ act[r].op = "privileges" /\ act[r].pc \in OnDatabase
      /\ UNCHANGED <<catalog, vol, creds, backups, place>>
  BY DEF OwnerToAlter, OnDatabase
<1>2. PICK d \in DBs : d = act[r].db
  BY <1>1, Walks
<1>3. CASE Fail(r)
  BY <1>1, <1>3, StillFails
<1>4. CASE engine.dbs[d] # NONE
  <2>1. PICK u \in Users : u = CHOOSE v \in engine.dbs[d].users : TRUE
    BY <1>1, <1>4, OwnerTyped, Invariants DEF ShapeOf
  <2>2. Learns(r, u, "privilege")
    BY <1>2, <1>4, <2>1 DEF OwnerToAlter
  <2>3. "privilege" \in OnDatabase \cap Steps
    BY DEF OnDatabase, Steps, InContainer
  <2>4. ASSUME Learnt(r, u, "privilege"), act'[r].alone
        PROVE  Progress(r)'
    BY <1>1, <1>2, <2>4, KnowsUsers DEF Learnt, Progress
  <2> QED BY <1>1, <2>2, <2>3, <2>4, LearnAgrees
<1> QED BY <1>2, <1>3, <1>4 DEF OwnerToAlter


-----------------------------------------------------------------------------
(* Steps that leave database and user as they are.                           *)

LEMMA UnseenIsNear ==
  ASSUME DatabasesInv, AgreeInv, Unseen, NEW r \in Requests, \A q \in Requests \ {r} : Stays(q),
         act[r].pc \in OnDatabase, Continues(r) \/ Finishes(r)
  PROVE  StepOf(r) /\ SharedOK'
<1>1. SharedOK'
  BY DEF Unseen, SameDb, SharedOK, AgreeInv, Mongo, Postgres
<1> QED BY <1>1 DEF StepOf, Nearby, Unseen

\* It goes on, with what it carries, to a step that asks for no more than the last.
LEMMA QuietGoes ==
  ASSUME DatabasesInv, AgreeInv, Unseen, NEW r \in Requests, \A q \in Requests \ {r} : Stays(q), Continues(r),
         act[r].pc \in OnDatabase \ {"createdb", "store"}, ~Between(r),
         Footed(act'[r]), act'[r].alone => Progress(r)'
  PROVE  AgreeInv'
BY UnseenIsNear, AsItWas DEF Unseen

\* It ends; what was disturbed still is.
LEMMA QuietEnds ==
  ASSUME DatabasesInv, AgreeInv, Unseen, NEW r \in Requests, Succeed(r, {}),
         act[r].pc \in OnDatabase \ {"createdb", "store"}, ~Between(r)
  PROVE  AgreeInv'
<1>1. Finishes(r) /\ act'[r].pc = "done" /\ \A q \in Requests \ {r} : Stays(q)
  BY Invariants, SucceedMoves
<1>2. act'[r].pc \notin OnDatabase
  BY <1>1 DEF OnDatabase
<1> QED BY <1>1, <1>2, UnseenIsNear, AsItWas DEF Unseen

\* What a step of r keeps of its progress while nothing changes.
LEMMA QuietProgress ==
  ASSUME DatabasesInv, AgreeInv, Unseen, NEW r \in Requests, Continues(r), act[r].pc \in OnDatabase, act'[r].alone,
         \/ act'[r].pc \in {"alter", "drop"}
         \/ act'[r].pc = "owner" /\ act[r].op # "password"
         \/ act'[r].pc \in {"recreate", "mongo"} /\ act[r].pc = "download"
  PROVE  Progress(r)'
<1>1. PICK d \in DBs : d = act[r].db
  BY Walks
<1>2. act[r].alone /\ act'[r].db = d /\ act'[r].foot = act[r].foot
  BY <1>1 DEF Continues
<1>3. Progress(r)
  BY <1>2 DEF AgreeInv, ProgressOK
<1>4. UsersOf(d)' \subseteq act[r].foot
  BY <1>1, <1>3 DEF Unseen, SameDb, Progress, UsersOf
<1>5. UNCHANGED <<catalog, creds>>
  BY DEF Unseen
<1> QED BY <1>1, <1>2, <1>3, <1>4, <1>5 DEF Progress, Continues

LEMMA RoleExistsAgrees ==
  ASSUME DatabasesInv, AgreeInv, NEW r \in Requests, RoleExists(r)
  PROVE  AgreeInv'
<1>1. /\ act[r].pc = "role" /\ act[r].pc \in OnDatabase /\ TypesOK
      /\ UNCHANGED <<catalog, vol, creds, backups, place>>
  BY Invariants DEF RoleExists, OnDatabase
<1>2. CASE Fail(r)
  BY <1>1, <1>2, StillFails
<1>3. CASE /\ act' = [act EXCEPT ![r].known = (engine.roles[Role(act[r].db, act[r].user)] # NoRole), ![r].pc = "alter"]
           /\ UNCHANGED tainted
  <2> DEFINE b == engine.roles[Role(act[r].db, act[r].user)] # NoRole
  <2>1. act' = [act EXCEPT ![r].known = b, ![r].pc = "alter"]
    BY <1>3
  <2> HIDE DEF b
  <2>2. PICK k \in Local : act[r] = k
    BY <1>1 DEF TypesOK
  <2> DEFINE x == [k EXCEPT !.known = b, !.pc = "alter"]
  <2>3. act' = [act EXCEPT ![r] = x]
    BY <1>1, <2>1, <2>2 DEF TypesOK
  <2>4. /\ x.pc = "alter" /\ x.op = k.op /\ x.db = k.db /\ x.user = k.user /\ x.pass = k.pass /\ x.foot = k.foot
        /\ x.alone = k.alone
    BY DEF Local
  <2> HIDE DEF x
  <2>5. act'[r] = x /\ \A q \in Requests \ {r} : Stays(q)
    BY <1>1, <2>3 DEF TypesOK, Stays
  <2>6. Continues(r) /\ act'[r].pc = "alter"
    BY <2>2, <2>4, <2>5 DEF Continues, OnDatabase
  <2>7. Unseen
    BY <1>1, <1>3, EngineSame DEF engine, place
  <2>8. Footed(act'[r])
    <3>1. Footed(act[r])
      BY <1>1, Onward DEF AgreeInv, FeetOK
    <3> QED BY <1>1, <2>6, <3>1 DEF Footed, Continues
  <2>9. act'[r].alone => Progress(r)'
    BY <1>1, <2>6, <2>7, QuietProgress
  <2> QED BY <1>1, <2>5, <2>6, <2>7, <2>8, <2>9, QuietGoes DEF Between
<1> QED BY <1>2, <1>3 DEF RoleExists

LEMMA PurgeBlobsAgrees ==
  ASSUME DatabasesInv, AgreeInv, NEW r \in Requests, PurgeBlobs(r)
  PROVE  AgreeInv'
<1>1. PICK pc \in {"owner", "drop"} : Goto(r, pc)
  BY DEF PurgeBlobs
<1>2. act[r].pc = "purge" /\ act[r].pc \in OnDatabase /\ pc \in OnDatabase /\ TypesOK
  BY Invariants DEF PurgeBlobs, OnDatabase
<1>3. Continues(r) /\ act'[r].pc = pc /\ tainted' = tainted /\ \A q \in Requests \ {r} : Stays(q)
  BY <1>1, <1>2, GotoMoves
<1>4. Unseen
  BY <1>3, EngineSame DEF PurgeBlobs, engine, place
<1>5. Footed(act[r])
  BY <1>2, Onward DEF AgreeInv, FeetOK
<1>6. Footed(act'[r])
  BY <1>1, <1>2, <1>3, <1>5 DEF Footed, Continues
<1>7. act[r].op # "password"
  BY <1>2, <1>5 DEF Footed
<1>8. act'[r].alone => Progress(r)'
  BY <1>1, <1>2, <1>3, <1>4, <1>7, QuietProgress
<1> QED BY <1>2, <1>3, <1>4, <1>6, <1>8, QuietGoes DEF Between

LEMMA DownloadAgrees ==
  ASSUME DatabasesInv, AgreeInv, NEW r \in Requests, Download(r)
  PROVE  AgreeInv'
<1>1. /\ act[r].pc = "download" /\ act[r].pc \in OnDatabase /\ TypesOK
      /\ UNCHANGED <<catalog, vol, creds, backups, place>> /\ engine' = engine
  BY Invariants DEF Download, OnDatabase, engine, place
<1>2. CASE Succeed(r, {})
  <2>1. tainted \subseteq tainted'
    BY <1>1, <1>2, SucceedMoves
  <2>2. Unseen
    BY <1>1, <2>1, EngineSame
  <2> QED BY <1>1, <1>2, <2>2, QuietEnds DEF Between
<1>3. ASSUME NEW rows, NEW pc \in {"recreate", "mongo"},
             act' = [act EXCEPT ![r].rows = rows, ![r].pc = pc], UNCHANGED tainted
      PROVE  AgreeInv'
  <2>2. PICK k \in Local : act[r] = k
    BY <1>1 DEF TypesOK
  <2> DEFINE x == [k EXCEPT !.rows = rows, !.pc = pc]
  <2>3. act' = [act EXCEPT ![r] = x]
    BY <1>1, <1>3, <2>2 DEF TypesOK
  <2>4. /\ x.pc = pc /\ x.op = k.op /\ x.db = k.db /\ x.user = k.user /\ x.pass = k.pass /\ x.foot = k.foot
        /\ x.alone = k.alone
    BY DEF Local
  <2> HIDE DEF x
  <2>5. act'[r] = x /\ \A q \in Requests \ {r} : Stays(q)
    BY <1>1, <2>3 DEF TypesOK, Stays
  <2>6. Continues(r) /\ act'[r].pc = pc
    BY <2>2, <2>4, <2>5 DEF Continues, OnDatabase
  <2>7. Unseen
    BY <1>1, <1>3, EngineSame
  <2>8. Footed(act'[r])
    <3>1. Footed(act[r])
      BY <1>1, Onward DEF AgreeInv, FeetOK
    <3> QED BY <1>1, <2>6, <3>1 DEF Footed, Continues
  <2>9. act'[r].alone => Progress(r)'
    BY <1>1, <2>6, <2>7, QuietProgress
  <2> QED BY <1>1, <2>5, <2>6, <2>7, <2>8, <2>9, QuietGoes DEF Between
<1>4. apply_restore \in {"recreate", "mongo"}
  BY DEF apply_restore
<1>5. \/ Succeed(r, {})
      \/ \E rows : act' = [act EXCEPT ![r].rows = rows, ![r].pc = apply_restore] /\ UNCHANGED tainted
  BY DEF Download
<1> QED BY <1>2, <1>3, <1>4, <1>5

\* A cluster whose databases and passwords are those of the engine.
LEMMA LooksSame ==
  ASSUME NEW c, engine' = c, c.dbs = engine.dbs, UNCHANGED <<catalog, creds>>, tainted \subseteq tainted',
         \A x \in DBs, v \in Users : c.roles[Role(x, v)].pass = engine.roles[Role(x, v)].pass
  PROVE  Unseen
BY DEF Unseen, SameDb, SamePass, Role

LEMMA AlterPrivilegesAgrees ==
  ASSUME DatabasesInv, AgreeInv, NEW r \in Requests, AlterPrivileges(r)
  PROVE  AgreeInv'
<1>1. act[r].pc = "privilege" /\ act[r].pc \in OnDatabase /\ UNCHANGED <<catalog, creds, backups, place>>
  BY DEF AlterPrivileges, OnDatabase
<1>2. PICK d \in DBs, u \in Users \cup {NONE} : d = act[r].db /\ u = act[r].user
  BY <1>1, Walks
<1>3. CASE Refuse(r)
  BY <1>1, <1>3, RefuseAgrees
<1>4. ASSUME NEW on \in BOOLEAN,
             Exec(r, [engine EXCEPT !.roles[Role(d, u)].createdb = on], Succeed(r, {}))
      PROVE  AgreeInv'
  <2> DEFINE k == Role(d, u)
             c == [engine EXCEPT !.roles[k].createdb = on]
  <2>1. PICK e \in Cluster : e = engine
    BY EngineGood
  <2>2. c.dbs = e.dbs /\ \A y \in Roles : c.roles[y].pass = e.roles[y].pass
    <3> DEFINE f == [e.roles EXCEPT ![k].createdb = on]
    <3>1. e.roles \in [Roles -> RoleRow]
      BY DEF Cluster
    <3> HIDE DEF k
    <3>2. ASSUME NEW y \in Roles
          PROVE  f[y].pass = e.roles[y].pass
      <4>1. PICK row \in RoleRow : row = e.roles[y]
        BY <3>1
      <4>2. f[y] = row \/ f[y] = [row EXCEPT !.createdb = on]
        BY <3>1, <4>1
      <4> QED BY <4>1, <4>2 DEF RoleRow
    <3>3. c = [e EXCEPT !.roles = f]
      BY <2>1 DEF Cluster
    <3> HIDE DEF f
    <3>4. c.roles = f /\ c.dbs = e.dbs
      BY <3>3 DEF Cluster
    <3> QED BY <3>2, <3>4
  <2>3. \A x \in DBs, v \in Users : c.roles[Role(x, v)].pass = engine.roles[Role(x, v)].pass
    BY <2>1, <2>2, RoleKey
  <2>4. Exec(r, c, Succeed(r, {}))
    BY <1>4
  <2> HIDE DEF c, k
  <2>5. CASE vol' = [vol EXCEPT ![home] = c] /\ Succeed(r, {})
    <3>1. engine' = c
      BY <1>1, <2>5, Becomes
    <3>2. tainted \subseteq tainted'
      BY <2>5, Invariants, SucceedMoves
    <3>3. Unseen
      BY <1>1, <2>1, <2>2, <2>3, <3>1, <3>2, LooksSame
    <3> QED BY <1>1, <2>5, <3>3, QuietEnds DEF Between
  <2>6. CASE vol' \in {vol, [vol EXCEPT ![home] = c]} /\ Fail(r)
    <3>1. Around(r, c)
      BY <2>1, <2>2, <2>3, AroundItself DEF Around
    <3> QED BY <1>1, <2>6, <3>1, FailAgrees
  <2> QED BY <2>4, <2>5, <2>6 DEF Exec
<1> QED BY <1>2, <1>3, <1>4 DEF AlterPrivileges


-----------------------------------------------------------------------------
(* Commands.                                                                 *)

\* A command of r has left cluster c and r goes on to step pc.
Commanded(r, c, pc) ==
  /\ StepOf(r) /\ SharedOK' /\ engine' = c /\ Continues(r) /\ act'[r].pc = pc /\ tainted' = tainted
  /\ UNCHANGED <<catalog, creds>>

LEMMA CommandGoes ==
  ASSUME DatabasesInv, AgreeInv, NEW r \in Requests, act[r].pc \in OnDatabase, NEW c, Around(r, c),
         vol' = [vol EXCEPT ![home] = c], UNCHANGED <<catalog, creds, backups, place>>,
         NEW pc \in OnDatabase, Goto(r, pc)
  PROVE  Commanded(r, c, pc)
<1>1. /\ Continues(r) /\ act'[r].pc = pc /\ tainted' = tainted
      /\ \A q \in Requests \ {r} : Stays(q)
  BY Invariants, GotoMoves
<1>2. engine' = c
  BY Becomes
<1>3. StepOf(r) /\ SharedOK'
  BY <1>1, <1>2, NearStep
<1> QED BY <1>1, <1>2, <1>3 DEF Commanded

\* A command of r has left cluster c and r has ended.
Answered(r, c, settled) ==
  /\ StepOf(r) /\ SharedOK' /\ engine' = c /\ act'[r].pc = "done" /\ tainted \subseteq tainted' \cup settled
  /\ act[r].alone => tainted' = tainted \ settled
  /\ UNCHANGED <<catalog, creds>>

LEMMA CommandAnswers ==
  ASSUME DatabasesInv, AgreeInv, NEW r \in Requests, act[r].pc \in OnDatabase, NEW c, Around(r, c),
         vol' = [vol EXCEPT ![home] = c], UNCHANGED <<catalog, creds, backups, place>>,
         NEW settled \in SUBSET {act[r].db, act[r].user}, Succeed(r, settled)
  PROVE  Answered(r, c, settled)
<1>1. /\ Finishes(r) /\ act'[r].pc = "done" /\ tainted \subseteq tainted' \cup settled
      /\ act[r].alone => tainted' = tainted \ settled
      /\ \A q \in Requests \ {r} : Stays(q)
  BY Invariants, SucceedMoves
<1>2. engine' = c
  BY Becomes
<1>3. StepOf(r) /\ SharedOK'
  BY <1>1, <1>2, NearStep
<1> QED BY <1>1, <1>2, <1>3 DEF Answered

\* While r is between two steps its database is disturbed, and while it changes a password its user.
LEMMA StillBetween ==
  ASSUME NEW r \in Requests, Continues(r), Between(r)', NEW x \in act[r].foot
  PROVE  ~Undisturbed(x)'
<1>1. Works(r, x)'
  BY DEF Continues, Works, Active, OnDatabase
<1> QED BY <1>1 DEF Undisturbed

LEMMA StillChanges ==
  ASSUME NEW r \in Requests, Continues(r), act'[r].pc \in {"createdb", "store"}, act[r].user \in act[r].foot,
         NEW u, u = act[r].user
  PROVE  ~Trusted(u)'
<1>1. Works(r, u)' /\ Changes(r, u)'
  BY DEF Continues, Works, Active, OnDatabase, Changes
<1> QED BY <1>1 DEF Trusted

\* A database that shares the user, when the password stays.
LEMMA NeighbourKept ==
  ASSUME NEW r \in Requests, StepOf(r), act[r].pc \notin {"createdb", "store"},
         tainted \subseteq tainted' \cup {act[r].db}, NEW u \in Users \cup {NONE},
         NEW x \in DBs \ {act[r].db}, ~Mongo, Undisturbed(x)', Trusted(u)', creds'[x] # NONE, creds'[x].user = u,
         creds'[x] = creds[x], SamePass(x, u)
  PROVE  PassOK(x)'
<1>1. Undisturbed(x)
  BY Elsewhere
<1>2. Certain(x)'
  BY DEF Certain, Mongo, StepOf, Nearby
<1> QED BY <1>1, <1>2, PassKept

\* A request goes on knowing all users of its database.
LEMMA KnowsStill ==
  ASSUME DatabasesInv, AgreeInv, NEW r \in Requests, act[r].pc \in OnDatabase, act[r].alone, NEW d \in DBs, d = act[r].db,
         creds'[d] = creds[d],
         engine'.dbs[d] # NONE => \/ engine.dbs[d] # NONE /\ engine'.dbs[d].users \subseteq engine.dbs[d].users \cup act[r].foot
                                  \/ engine'.dbs[d].users \subseteq act[r].foot
  PROVE  UsersOf(d)' \subseteq act[r].foot
<1>1. UsersOf(d) \subseteq act[r].foot
  BY DEF AgreeInv, ProgressOK, Progress
<1> QED BY <1>1 DEF UsersOf

\* A request that goes on is as well footed as before, at most steps.
LEMMA FootedStill ==
  ASSUME DatabasesInv, AgreeInv, NEW r \in Requests, Continues(r), act[r].pc \in OnDatabase, UNCHANGED catalog,
         act'[r].pc = "dropuser" => act[r].user # NONE, act'[r].pc = "fix" => Postgres,
         act'[r].pc \notin {"change", "role", "purge", "alter"}, act'[r].pc = "createdb" => act[r].op = "create"
  PROVE  Footed(act'[r])
<1>1. Footed(act[r])
  BY Onward DEF AgreeInv, FeetOK
<1> QED BY <1>1 DEF Footed, Continues

LEMMA SyncTyped ==
  ASSUME NEW role \in RoleRow, NEW pass \in Passwords \cup {NONE}, NEW createdb \in BOOLEAN
  PROVE  pg_role_sql(role, pass, createdb) \in RoleRow /\ pg_role_sql(role, pass, createdb).pass = pass
BY DEF RoleRow, pg_role_sql

LEMMA AlterRoleAgrees ==
  ASSUME DatabasesInv, AgreeInv, NEW r \in Requests, AlterRole(r)
  PROVE  AgreeInv'
<1>1. act[r].pc = "alter" /\ act[r].pc \in OnDatabase /\ UNCHANGED <<catalog, creds, backups, place>>
  BY DEF AlterRole, OnDatabase
<1>2. PICK d \in DBs, u \in Users : d = act[r].db /\ u = act[r].user
  BY <1>1, Walks, Invariants DEF ShapeOf, WithUser
<1>3. CASE Refuse(r)
  BY <1>1, <1>3, RefuseAgrees
<1>4. ASSUME NEW createdb \in BOOLEAN,
             Exec(r, [engine EXCEPT !.roles[Role(d, u)] = pg_role_sql(@, r, createdb)], Goto(r, "createdb"))
      PROVE  AgreeInv'
  <2>0. PICK role \in RoleRow : role = pg_role_sql(engine.roles[Role(d, u)], r, createdb)
    BY SyncTyped, RoleTyped DEF Passwords
  <2>1. PICK c : c = PutRole(engine, Role(d, u), role)
    OBVIOUS
  <2>2. Exec(r, c, Goto(r, "createdb"))
    BY <1>4, <2>0, <2>1 DEF PutRole
  <2>3. role.pass = r
    BY <2>0 DEF pg_role_sql
  <2>4. Around(r, c) /\ c.roles[Role(d, u)] = role /\ c.dbs = engine.dbs
    BY <1>2, <2>1, EngineGood, AroundItself, RoleAround
  <2>5. CASE vol' = [vol EXCEPT ![home] = c] /\ Goto(r, "createdb")
    <3>1. Commanded(r, c, "createdb")
      BY <1>1, <2>4, <2>5, CommandGoes DEF OnDatabase
    <3>2. /\ StepOf(r) /\ SharedOK' /\ engine' = c /\ Continues(r) /\ act'[r].pc = "createdb"
          /\ UNCHANGED <<catalog, creds>>
      BY <3>1 DEF Commanded
    <3>3. d \in act[r].foot /\ u \in act[r].foot
      BY <1>1, <1>2, Walks, Names
    <3>4. ~Undisturbed(d)'
      BY <3>2, <3>3, StillBetween DEF Between
    <3>5. ~Trusted(u)'
      BY <1>2, <3>2, <3>3, StillChanges
    <3>6. Footed(act'[r])
      <4>1. act[r].op = "create"
        BY <1>1, Onward DEF AgreeInv, FeetOK, Footed
      <4> QED BY <1>1, <3>2, <4>1, FootedStill
    <3>7. ASSUME act'[r].alone
          PROVE  Progress(r)'
      <4>1. act[r].alone /\ act'[r].db = d /\ act'[r].user = u /\ act'[r].foot = act[r].foot
        BY <1>2, <3>2, <3>7 DEF Continues
      <4>2. UsersOf(d)' \subseteq act[r].foot
        BY <1>1, <1>2, <2>4, <3>2, <4>1, KnowsStill
      <4>3. (engine.roles[Role(d, u)].pass)' = r
        BY <2>3, <2>4, <3>2 DEF Role
      <4> QED BY <3>2, <4>1, <4>2, <4>3 DEF Progress
    <3> QED BY <1>2, <3>2, <3>4, <3>5, <3>6, <3>7, Confined
  <2>6. CASE vol' \in {vol, [vol EXCEPT ![home] = c]} /\ Fail(r)
    BY <1>1, <2>4, <2>6, FailAgrees
  <2> QED BY <2>2, <2>5, <2>6 DEF Exec
<1> QED BY <1>2, <1>3, <1>4 DEF AlterRole


LEMMA FreshRow ==
  ASSUME NEW d \in DBs, NEW u \in Users
  PROVE  /\ Database({u}, Empty(d)) \in DatabaseRow /\ Database({u}, Empty(d)) # NONE
         /\ Database({u}, Empty(d)).users = {u} /\ Database({u}, Empty(d)).objects = "users"
<1>1. Database({u}, Empty(d)) \in DatabaseRow
  BY EmptyFits
<1> QED BY <1>1, NoneIsNothing DEF Database

LEMMA GrantedRow ==
  ASSUME NEW x \in DatabaseRow, NEW u \in Users
  PROVE  /\ [x EXCEPT !.users = @ \cup {u}] \in DatabaseRow /\ [x EXCEPT !.users = @ \cup {u}] # NONE
         /\ [x EXCEPT !.users = @ \cup {u}].users = x.users \cup {u}
         /\ [x EXCEPT !.users = @ \cup {u}].objects = x.objects
<1>1. [x EXCEPT !.users = @ \cup {u}] \in DatabaseRow
  BY DEF DatabaseRow
<1> QED BY <1>1, NoneIsNothing DEF DatabaseRow

LEMMA FreshRole ==
  ASSUME NEW r \in Requests
  PROVE  [NoRole EXCEPT !.pass = r] \in RoleRow /\ [NoRole EXCEPT !.pass = r].pass = r
BY DEF NoRole, RoleRow, Passwords

\* CREATE DATABASE has run: the database is the user's, and its password the new one.
LEMMA CreatedAgrees ==
  ASSUME DatabasesInv, AgreeInv, NEW r \in Requests, act[r].pc = "createdb", NEW d \in DBs, d = act[r].db,
         NEW u \in Users, u = act[r].user, NEW c, Around(r, c), Exec(r, c, Goto(r, "store")),
         UNCHANGED <<catalog, creds, backups, place>>,
         c.dbs[d] # NONE, u \in c.dbs[d].users, c.dbs[d].objects = "users",
         \/ engine.dbs[d] # NONE /\ c.dbs[d].users \subseteq engine.dbs[d].users \cup {u}
         \/ c.dbs[d].users \subseteq {u},
         catalog # "mysql" /\ act[r].alone => c.roles[Role(d, u)].pass = r
  PROVE  AgreeInv'
<1>1. act[r].pc \in OnDatabase
  BY DEF OnDatabase
<1>2. CASE vol' = [vol EXCEPT ![home] = c] /\ Goto(r, "store")
  <2>1. Commanded(r, c, "store")
    BY <1>1, <1>2, CommandGoes DEF OnDatabase
  <2>2. /\ StepOf(r) /\ SharedOK' /\ engine' = c /\ Continues(r) /\ act'[r].pc = "store"
        /\ UNCHANGED <<catalog, creds>>
    BY <2>1 DEF Commanded
  <2>3. d \in act[r].foot /\ u \in act[r].foot
    BY <1>1, Walks, Names
  <2>4. act[r].op = "create"
    BY <1>1, Onward DEF AgreeInv, FeetOK, Footed
  <2>5. ~Undisturbed(d)'
    BY <2>2, <2>3, <2>4, StillBetween DEF Between, Continues
  <2>6. ~Trusted(u)'
    BY <2>2, <2>3, StillChanges
  <2>7. Footed(act'[r])
    BY <1>1, <2>2, FootedStill
  <2>8. ASSUME act'[r].alone
        PROVE  Progress(r)'
    <3>1. act[r].alone /\ act'[r].db = d /\ act'[r].user = u /\ act'[r].foot = act[r].foot /\ act'[r].op = "create"
      BY <2>2, <2>4, <2>8 DEF Continues
    <3>2. UsersOf(d)' \subseteq act[r].foot
      BY <1>1, <2>2, <2>3, <3>1, KnowsStill
    <3>3. catalog' # "mysql" => (engine.roles[Role(d, u)].pass)' = r
      BY <2>2, <3>1 DEF Role
    <3> QED BY <2>2, <3>1, <3>2, <3>3 DEF Progress
  <2> QED BY <2>2, <2>5, <2>6, <2>7, <2>8, Confined
<1>3. CASE vol' \in {vol, [vol EXCEPT ![home] = c]} /\ Fail(r)
  BY <1>1, <1>3, FailAgrees
<1> QED BY <1>2, <1>3 DEF Exec

LEMMA CreateInEngineAgrees ==
  ASSUME DatabasesInv, AgreeInv, NEW r \in Requests, CreateInEngine(r)
  PROVE  AgreeInv'
<1>1. act[r].pc = "createdb" /\ act[r].pc \in OnDatabase /\ UNCHANGED <<catalog, creds, backups, place>>
  BY DEF CreateInEngine, OnDatabase
<1>2. PICK d \in DBs, u \in Users : d = act[r].db /\ u = act[r].user
  BY <1>1, Walks, Invariants DEF ShapeOf, WithUser
<1>3. CASE Refuse(r)
  BY <1>1, <1>3, RefuseAgrees
<1>4. PICK e \in Cluster : e = engine /\ Around(r, e)
  BY EngineGood, AroundItself
<1>5. PICK fresh \in DatabaseRow :
        /\ fresh = Database({u}, Empty(d)) /\ fresh # NONE /\ fresh.users = {u} /\ fresh.objects = "users"
  BY FreshRow
<1>6. e.dbs[d] \in DatabaseRow \cup {NONE} /\ Role(d, u) \in Roles /\ e.roles[Role(d, u)] \in RoleRow
  BY <1>4, RoleTyped, RowTyped
<1>7. fresh \in DatabaseRow \cup {NONE} /\ (~Postgres /\ fresh # NONE => fresh.objects = "users")
  BY <1>5
<1>8. CASE Postgres /\ ~Refuse(r)
  <2>1. PICK c : c = PutDb(e, d, fresh)
    OBVIOUS
  <2>2. Around(r, c) /\ c.dbs[d] = fresh /\ c.roles = e.roles
    BY <1>2, <1>4, <1>7, <2>1, DbAround
  <2>3. /\ engine.dbs[d] = NONE
        /\ Exec(r, [engine EXCEPT !.dbs[d] = Database({u}, Empty(d))], Goto(r, "store"))
    BY <1>2, <1>8 DEF CreateInEngine, Postgres
  <2>4. Exec(r, c, Goto(r, "store"))
    BY <1>4, <1>5, <2>1, <2>3 DEF PutDb
  <2>5. catalog # "mysql" /\ act[r].alone => c.roles[Role(d, u)].pass = r
    <3>1. act[r].alone => engine.roles[Role(d, u)].pass = r
      BY <1>1, <1>2, <1>8 DEF AgreeInv, ProgressOK, Progress
    <3> QED BY <1>4, <2>2, <3>1
  <2>6. c.dbs[d] # NONE /\ u \in c.dbs[d].users /\ c.dbs[d].objects = "users" /\ c.dbs[d].users \subseteq {u}
    BY <1>5, <2>2
  <2> QED BY <1>1, <1>2, <2>2, <2>4, <2>5, <2>6, CreatedAgrees
<1>9. ASSUME ~Postgres, NEW role \in RoleRow, role.pass = r \/ catalog = "mysql", NEW x \in DatabaseRow,
             x = IF engine.dbs[d] = NONE THEN fresh ELSE [engine.dbs[d] EXCEPT !.users = @ \cup {u}],
             Exec(r, [engine EXCEPT !.dbs[d] = x, !.roles[Role(d, u)] = role], Goto(r, "store"))
      PROVE  AgreeInv'
  <2>1. /\ x # NONE /\ u \in x.users /\ x.objects = "users"
        /\ (engine.dbs[d] # NONE /\ x.users \subseteq engine.dbs[d].users \cup {u}) \/ x.users \subseteq {u}
    <3>1. CASE engine.dbs[d] = NONE
      BY <1>5, <1>9, <3>1
    <3>2. CASE engine.dbs[d] # NONE
      <4>1. PICK y \in DatabaseRow : y = engine.dbs[d]
        BY <3>2, RowTyped
      <4>2. x = [y EXCEPT !.users = @ \cup {u}] /\ y.objects = "users"
        BY <1>9, <3>2, <4>1 DEF AgreeInv, SharedOK
      <4>3. x # NONE /\ x.users = y.users \cup {u} /\ x.objects = y.objects
        BY <4>2, GrantedRow
      <4> QED BY <3>2, <4>1, <4>2, <4>3
    <3> QED BY <3>1, <3>2
  <2>2. PICK b : b = PutDb(e, d, x)
    OBVIOUS
  <2>3. b \in Cluster /\ Around(r, b) /\ b.dbs[d] = x
    <3>1. x \in DatabaseRow \cup {NONE}
      BY <1>9
    <3> QED BY <1>2, <1>4, <2>1, <2>2, <3>1, DbAround
  <2>4. PICK c : c = PutRole(b, Role(d, u), role)
    OBVIOUS
  <2>5. Around(r, c) /\ c.roles[Role(d, u)] = role /\ c.dbs = b.dbs
    BY <1>2, <2>3, <2>4, RoleAround
  <2>6. Exec(r, c, Goto(r, "store"))
    <3>1. [e EXCEPT !.dbs[d] = x, !.roles[Role(d, u)] = role] = c
      BY <2>2, <2>4 DEF PutDb, PutRole, Cluster
    <3> QED BY <1>4, <1>9, <3>1
  <2>7. c.dbs[d] = x
    BY <2>3, <2>5
  <2>8. catalog # "mysql" /\ act[r].alone => c.roles[Role(d, u)].pass = r
    BY <1>9, <2>5
  <2> QED BY <1>1, <1>2, <2>1, <2>5, <2>6, <2>7, <2>8, CreatedAgrees
<1>10. PICK new \in RoleRow : new = [NoRole EXCEPT !.pass = r] /\ new.pass = r
  BY FreshRole
<1>11. PICK x \in DatabaseRow :
         x = IF engine.dbs[d] = NONE THEN fresh ELSE [engine.dbs[d] EXCEPT !.users = @ \cup {u}]
  BY GrantedRow, RowTyped
<1>12. CASE catalog = "mysql" /\ ~Refuse(r)
  <2>1. PICK role \in RoleRow : role = IF engine.roles[Role(d, u)] = NoRole THEN new ELSE engine.roles[Role(d, u)]
    BY <1>4, <1>6
  <2>2. Exec(r, [engine EXCEPT !.dbs[d] = IF engine.dbs[d] = NONE THEN Database({u}, Empty(d))
                                          ELSE [engine.dbs[d] EXCEPT !.users = @ \cup {u}],
                               !.roles[Role(d, u)] = IF engine.roles[Role(d, u)] = NoRole THEN [NoRole EXCEPT !.pass = r]
                                                     ELSE engine.roles[Role(d, u)]], Goto(r, "store"))
    BY <1>2, <1>12 DEF CreateInEngine, Postgres
  <2>3. Exec(r, [engine EXCEPT !.dbs[d] = x, !.roles[Role(d, u)] = role], Goto(r, "store"))
    BY <1>5, <1>10, <1>11, <2>1, <2>2
  <2>4. ~Postgres
    BY <1>12 DEF Postgres
  <2> QED BY <1>9, <1>11, <1>12, <2>3, <2>4
<1>13. CASE catalog = "mongodb" /\ ~Refuse(r)
  <2>1. Exec(r, [engine EXCEPT !.dbs[d] = IF engine.dbs[d] = NONE THEN Database({u}, Empty(d))
                                          ELSE [engine.dbs[d] EXCEPT !.users = @ \cup {u}],
                               !.roles[Role(d, u)] = [NoRole EXCEPT !.pass = r]], Goto(r, "store"))
    BY <1>2, <1>13 DEF CreateInEngine, Postgres
  <2>2. Exec(r, [engine EXCEPT !.dbs[d] = x, !.roles[Role(d, u)] = new], Goto(r, "store"))
    BY <1>5, <1>10, <1>11, <2>1
  <2>3. ~Postgres
    BY <1>13 DEF Postgres
  <2> QED BY <1>9, <1>10, <1>11, <2>2, <2>3
<1>14. Postgres \/ catalog = "mysql" \/ catalog = "mongodb"
  BY DatabaseConstants DEF DatabasesInv, TypesOK, Postgres
<1> QED BY <1>3, <1>8, <1>12, <1>13, <1>14


-----------------------------------------------------------------------------
(* Credentials are stored.                                                   *)

\* The row of d is the user's with password p, and so is every row of a user that is shared.
StoredFor(d, u, p) ==
  /\ creds'[d] # NONE /\ creds'[d].user = u /\ creds'[d].pass = p
  /\ \A x \in DBs \ {d} : ~Mongo /\ creds'[x] # NONE /\ creds'[x].user = u => creds'[x].pass = p

LEMMA CredentialRow ==
  ASSUME NEW u \in Users, NEW p \in Passwords, NEW row \in Credentials
  PROVE  /\ [user |-> u, pass |-> p] # NONE /\ [row EXCEPT !.pass = p] # NONE
         /\ [row EXCEPT !.pass = p].user = row.user /\ [row EXCEPT !.pass = p].pass = p
<1>1. [user |-> u, pass |-> p] \in Credentials /\ [row EXCEPT !.pass = p] \in Credentials
  BY DEF Credentials
<1> QED BY <1>1, NoneIsNothing DEF Credentials

LEMMA StoreStep ==
  ASSUME DatabasesInv, AgreeInv, NEW r \in Requests, act[r].pc = "store", NEW d \in DBs, d = act[r].db,
         NEW u \in Users, u = act[r].user, creds' = store_credentials(d, u, r),
         UNCHANGED <<catalog, vol, backups, place>>, Finishes(r), \A q \in Requests \ {r} : Stays(q),
         tainted \subseteq tainted' \cup {d, u}
  PROVE  StepOf(r) /\ SharedOK' /\ engine' = engine /\ StoredFor(d, u, r)
<1>1. creds'[d] = [user |-> u, pass |-> r]
  BY DEF store_credentials
<1>2. ASSUME NEW x \in DBs \ {d}
      PROVE  \/ creds'[x] = creds[x] /\ (Mongo \/ creds[x] = NONE \/ creds[x].user # u)
             \/ /\ ~Mongo /\ creds[x] # NONE /\ creds[x].user = u
                /\ creds'[x] # NONE /\ creds'[x].user = u /\ creds'[x].pass = r
  <2>1. creds'[x] = IF creds[x] # NONE /\ creds[x].user = u /\ catalog # "mongodb"
                    THEN [creds[x] EXCEPT !.pass = r] ELSE creds[x]
    BY DEF store_credentials
  <2>2. CASE creds[x] # NONE /\ creds[x].user = u /\ ~Mongo
    <3>1. PICK row \in Credentials : row = creds[x]
      BY <2>2 DEF DatabasesInv, TypesOK
    <3>2. creds'[x] = [row EXCEPT !.pass = r]
      BY <2>1, <2>2, <3>1 DEF Mongo
    <3>3. r \in Passwords
      BY DEF Passwords
    <3> QED BY <2>2, <3>1, <3>2, <3>3, CredentialRow
  <2>3. CASE ~(creds[x] # NONE /\ creds[x].user = u /\ ~Mongo)
    BY <2>1, <2>3 DEF Mongo
  <2> QED BY <2>2, <2>3
<1>3. creds'[d] # NONE /\ creds'[d].user = u /\ creds'[d].pass = r
  <2>1. [user |-> u, pass |-> r] \in Credentials
    BY DEF Credentials, Passwords
  <2> QED BY <1>1, <2>1, NoneIsNothing
<1>4. StoredFor(d, u, r)
  BY <1>2, <1>3 DEF StoredFor
<1>5. engine' = engine
  BY DEF engine, place
<1>6. Mongo' = Mongo /\ Postgres' = Postgres
  BY DEF Mongo, Postgres
<1>7. SharedOK'
  <2>1. ASSUME ~Mongo, NEW x \in DBs, creds'[x] # NONE
        PROVE  \/ creds'[x].user = u /\ creds'[x].pass = r
               \/ creds'[x].user # u /\ creds'[x] = creds[x]
    BY <1>2, <1>3, <2>1
  <2>2. ASSUME ~Mongo, NEW x \in DBs, NEW y \in DBs, creds'[x] # NONE, creds'[y] # NONE, creds'[x].user = creds'[y].user
        PROVE  creds'[x].pass = creds'[y].pass
    BY <2>1, <2>2 DEF AgreeInv, SharedOK
  <2>3. ~Postgres => \A x \in DBs : engine.dbs[x] # NONE => engine.dbs[x].objects = "users"
    BY DEF AgreeInv, SharedOK
  <2> QED BY <1>5, <1>6, <2>2, <2>3 DEF SharedOK
<1>8. Nearby(r)
  <2>1. \A x \in DBs : SameDb(x)
    BY <1>5 DEF SameDb
  <2>2. \A x \in DBs, v \in Users : SamePass(x, v)
    BY <1>5 DEF SamePass, Role
  <2> QED BY <1>2, <2>1, <2>2 DEF Nearby
<1>9. act[r].pc \in OnDatabase
  BY DEF OnDatabase
<1>10. StepOf(r)
  BY <1>8, <1>9 DEF StepOf
<1> QED BY <1>4, <1>5, <1>7, <1>10

\* The engine has the password that was stored.
LEMMA StoredWorks ==
  ASSUME NEW r \in Requests, NEW d \in DBs, NEW u \in Users, UNCHANGED catalog, engine' = engine, StoredFor(d, u, r),
         engine.roles[Role(d, u)].pass = r
  PROVE  PassOK(d)' /\ \A x \in DBs \ {d} : ~Mongo /\ creds'[x] # NONE /\ creds'[x].user = u => PassOK(x)'
<1>1. Role(d, u)' = Role(d, u) /\ \A x \in DBs : ~Mongo => Role(x, u)' = Role(d, u)
  BY DEF Role, Mongo
<1>2. PassOK(d)'
  BY <1>1 DEF StoredFor, PassOK, Role
<1>3. ASSUME NEW x \in DBs \ {d}, ~Mongo, creds'[x] # NONE, creds'[x].user = u
      PROVE  PassOK(x)'
  <2>1. creds'[x].pass = r
    BY <1>3 DEF StoredFor
  <2> QED BY <1>1, <1>3, <2>1 DEF PassOK, Role, Mongo
<1> QED BY <1>2, <1>3

LEMMA StoreCreatedAgrees ==
  ASSUME DatabasesInv, AgreeInv, NEW r \in Requests, StoreCreated(r)
  PROVE  AgreeInv'
<1>1. act[r].pc = "store" /\ act[r].op = "create" /\ UNCHANGED <<catalog, vol, backups, place>> /\ TypesOK
      /\ act[r].pc \in OnDatabase
  BY Invariants DEF StoreCreated, OnDatabase
<1>2. PICK d \in DBs, u \in Users : d = act[r].db /\ u = act[r].user
  BY <1>1, Walks, Invariants DEF ShapeOf, WithUser
<1>3. creds' = store_credentials(d, u, r)
  BY <1>2 DEF StoreCreated
<1>4. CASE Fail(r)
  <2>1. Finishes(r) /\ act'[r].pc = "done" /\ act[r].foot \subseteq tainted' /\ tainted \subseteq tainted'
        /\ \A q \in Requests \ {r} : Stays(q)
    BY <1>1, <1>4, FailMoves
  <2>3. tainted \subseteq tainted' \cup {d, u}
    BY <2>1
  <2>2. StepOf(r) /\ SharedOK'
    BY <1>1, <1>2, <1>3, <2>1, <2>3, StoreStep
  <2> QED BY <2>1, <2>2, EndsBadly
<1>5. CASE Succeed(r, {d, u}) /\ (catalog = "mysql" => engine.roles[Role(d, u)].pass = r)
  <2>1. Finishes(r) /\ act'[r].pc = "done" /\ tainted \subseteq tainted' \cup {d, u}
        /\ \A q \in Requests \ {r} : Stays(q)
    BY <1>1, <1>5, SucceedMoves
  <2>2. StepOf(r) /\ SharedOK' /\ engine' = engine /\ StoredFor(d, u, r)
    BY <1>1, <1>2, <1>3, <2>1, StoreStep
  <2>3. ASSUME act[r].alone
        PROVE  DbOK(d)' /\ engine.roles[Role(d, u)].pass = r
    <3>1. Progress(r)
      BY <1>1, <2>3 DEF AgreeInv, ProgressOK
    <3>2. engine.dbs[d] # NONE /\ u \in engine.dbs[d].users /\ engine.dbs[d].objects = "users"
          /\ (catalog # "mysql" => engine.roles[Role(d, u)].pass = r)
      BY <1>1, <1>2, <3>1 DEF Progress
    <3> QED BY <1>5, <2>2, <3>2 DEF DbOK, StoredFor
  <2>4. act'[r].pc \notin OnDatabase
    BY <2>1 DEF OnDatabase
  <2>5. ASSUME act[r].alone
        PROVE  PassOK(d)' /\ \A x \in DBs \ {d} : ~Mongo /\ creds'[x] # NONE /\ creds'[x].user = u => PassOK(x)'
    BY <1>1, <2>2, <2>3, <2>5, StoredWorks
  <2> QED BY <1>2, <2>2, <2>3, <2>4, <2>5, Confined
<1> QED BY <1>2, <1>4, <1>5 DEF StoreCreated, Fail

LEMMA StoreChangedAgrees ==
  ASSUME DatabasesInv, AgreeInv, NEW r \in Requests, StoreChanged(r)
  PROVE  AgreeInv'
<1>1. act[r].pc = "store" /\ act[r].op = "password" /\ UNCHANGED <<catalog, vol, backups, place>> /\ TypesOK
      /\ act[r].pc \in OnDatabase
  BY Invariants DEF StoreChanged, OnDatabase
<1>2. PICK d \in DBs, u \in Users : d = act[r].db /\ u = act[r].user
  BY <1>1, Walks, Invariants DEF ShapeOf, WithUser
<1>3. creds' = store_credentials(d, u, r) /\ Succeed(r, {u})
  BY <1>2 DEF StoreChanged
<1>4. Finishes(r) /\ act'[r].pc = "done" /\ tainted \subseteq tainted' \cup {u}
      /\ \A q \in Requests \ {r} : Stays(q)
  BY <1>1, <1>3, SucceedMoves
<1>5. tainted \subseteq tainted' \cup {d, u}
  BY <1>4
<1>6. StepOf(r) /\ SharedOK' /\ engine' = engine /\ StoredFor(d, u, r)
  BY <1>1, <1>2, <1>3, <1>4, <1>5, StoreStep
<1>7. ASSUME act[r].alone
      PROVE  (Undisturbed(d)' => DbOK(d)') /\ engine.roles[Role(d, u)].pass = r
  <2>1. Progress(r)
    BY <1>1, <1>7 DEF AgreeInv, ProgressOK
  <2>2. ASSUME Undisturbed(d)'
        PROVE  DbOK(d)'
    <3>1. d \notin tainted
      BY <1>4, <2>2, Names DEF Undisturbed
    <3>2. creds[d] # NONE /\ creds[d].user = u
      BY <1>1, <1>2, <2>1, <3>1 DEF Progress
    <3>3. ~Between(r)
      BY <1>1 DEF Between
    <3>4. DbOK(d)
      BY <1>1, <1>2, <1>7, <3>1, <3>3, InOrder
    <3> QED BY <1>6, <3>2, <3>4 DEF DbOK, StoredFor
  <2> QED BY <1>1, <1>2, <2>1, <2>2 DEF Progress
<1>8. act'[r].pc \notin OnDatabase
  BY <1>4 DEF OnDatabase
<1>9. ASSUME act[r].alone
      PROVE  PassOK(d)' /\ \A x \in DBs \ {d} : ~Mongo /\ creds'[x] # NONE /\ creds'[x].user = u => PassOK(x)'
  BY <1>1, <1>6, <1>7, <1>9, StoredWorks
<1> QED BY <1>2, <1>6, <1>7, <1>8, <1>9, Confined


-----------------------------------------------------------------------------
(* A database is deleted.                                                    *)

\* What DROP DATABASE leaves; in MongoDB the users go with their database.
Without(d) ==
  [engine EXCEPT !.dbs[d] = NONE,
                 !.roles = [k \in Roles |-> IF catalog = "mongodb" /\ k[1] = d THEN NoRole ELSE @[k]]]

LEMMA WithoutAround ==
  ASSUME DatabasesInv, AgreeInv, NEW r \in Requests, NEW d \in DBs, d = act[r].db, NEW c, c = Without(d)
  PROVE  /\ Around(r, c) /\ c.dbs[d] = NONE
         /\ ~Mongo => \A x \in DBs, v \in Users : c.roles[Role(x, v)] = engine.roles[Role(x, v)]
<1>1. PICK e \in Cluster : e = engine
  BY EngineGood
<1> DEFINE f == [e.dbs EXCEPT ![d] = NONE]
           g == [k \in Roles |-> IF catalog = "mongodb" /\ k[1] = d THEN NoRole ELSE e.roles[k]]
<1>2. f[d] = NONE /\ \A y \in DBs \ {d} : f[y] = e.dbs[y]
  BY DEF Cluster
<1>3. \A x \in DBs, v \in Users : g[Role(x, v)] = e.roles[Role(x, v)] \/ (Mongo /\ x = d)
  <2>1. ASSUME NEW x \in DBs, NEW v \in Users, ~(Mongo /\ x = d)
        PROVE  g[Role(x, v)] = e.roles[Role(x, v)]
    <3>1. Role(x, v) \in Roles
      BY RoleKey
    <3>2. ~(catalog = "mongodb" /\ Role(x, v)[1] = d)
      BY <2>1 DEF Role, Mongo
    <3> QED BY <3>1, <3>2
  <2> QED BY <2>1
<1>4. c = [e EXCEPT !.dbs = f, !.roles = g]
  BY <1>1 DEF Without, Cluster
<1> HIDE DEF f, g
<1>5. c.dbs = f /\ c.roles = g
  BY <1>4 DEF Cluster
<1>6. ~Postgres => \A y \in DBs : e.dbs[y] # NONE => e.dbs[y].objects = "users"
  BY <1>1, AroundItself DEF Around
<1> QED BY <1>1, <1>2, <1>3, <1>5, <1>6 DEF Around

LEMMA DropDatabaseAgrees ==
  ASSUME DatabasesInv, AgreeInv, NEW r \in Requests, DropDatabase(r)
  PROVE  AgreeInv'
<1>1. act[r].pc = "drop" /\ act[r].pc \in OnDatabase /\ UNCHANGED <<catalog, creds, backups, place>> /\ TypesOK
  BY Invariants DEF DropDatabase, OnDatabase
<1>2. PICK d \in DBs, u \in Users \cup {NONE} : d = act[r].db /\ u = act[r].user
  BY <1>1, Walks
<1>3. PICK next \in {"dropuser", "forget"} : next = IF u # NONE THEN "dropuser" ELSE "forget"
  OBVIOUS
<1>4. next \in OnDatabase /\ (next = "dropuser" => u # NONE)
  BY <1>3 DEF OnDatabase
<1>5. PICK c : c = Without(d)
  OBVIOUS
<1>6. /\ Around(r, c) /\ c.dbs[d] = NONE
      /\ ~Mongo => \A x \in DBs, v \in Users : c.roles[Role(x, v)] = engine.roles[Role(x, v)]
  BY <1>2, <1>5, WithoutAround
<1>7. CASE vol' = [vol EXCEPT ![home] = c] /\ Goto(r, next)
  <2>1. Commanded(r, c, next)
    BY <1>1, <1>4, <1>6, <1>7, CommandGoes
  <2>2. /\ StepOf(r) /\ SharedOK' /\ engine' = c /\ Continues(r) /\ act'[r].pc = next /\ tainted' = tainted
        /\ UNCHANGED <<catalog, creds>>
    BY <2>1 DEF Commanded
  <2>3. ~Undisturbed(d)'
    <3>1. d \in act[r].foot
      BY <1>1, <1>2, Walks
    <3> QED BY <2>2, <3>1, StillBetween DEF Between
  <2>4. ASSUME NEW x \in DBs \ {d}, ~Mongo, Undisturbed(x)', Trusted(u)', creds'[x] # NONE, creds'[x].user = u
        PROVE  PassOK(x)'
    <3>1. SamePass(x, u)
      <4>1. u \in Users
        BY <1>1, <2>4, StoredUser
      <4> QED BY <1>1, <1>6, <2>2, <2>4, <4>1 DEF SamePass, Role
    <3>2. tainted \subseteq tainted' \cup {act[r].db} /\ act[r].pc \notin {"createdb", "store"} /\ creds'[x] = creds[x]
      BY <1>1, <2>2
    <3> QED BY <1>2, <2>2, <2>4, <3>1, <3>2, NeighbourKept
  <2>5. Footed(act'[r])
    BY <1>1, <1>2, <1>4, <2>2, FootedStill
  <2>6. ASSUME act'[r].alone
        PROVE  Progress(r)'
    <3>1. act[r].alone /\ act'[r].db = d /\ act'[r].user = u /\ act'[r].foot = act[r].foot
      BY <1>2, <2>2, <2>6 DEF Continues
    <3>2. UsersOf(d)' \subseteq act[r].foot
      BY <1>1, <1>2, <1>6, <2>2, <3>1, KnowsStill
    <3> QED BY <1>6, <2>2, <3>1, <3>2 DEF Progress
  <2> QED BY <1>2, <2>2, <2>3, <2>4, <2>5, <2>6, Confined
<1>8. CASE UNCHANGED <<vol, tainted>> /\ act' = [act EXCEPT ![r].pc = next, ![r].alone = FALSE]
  <2>1. PICK k \in Local : act[r] = k
    BY <1>1 DEF TypesOK
  <2> DEFINE x == [k EXCEPT !.pc = next, !.alone = FALSE]
  <2>2. act' = [act EXCEPT ![r] = x]
    BY <1>1, <1>8, <2>1 DEF TypesOK
  <2>3. /\ x.pc = next /\ x.op = k.op /\ x.db = k.db /\ x.user = k.user /\ x.pass = k.pass /\ x.foot = k.foot
        /\ ~x.alone
    BY DEF Local
  <2> HIDE DEF x
  <2>4. act'[r] = x /\ \A q \in Requests \ {r} : Stays(q)
    BY <1>1, <2>2 DEF TypesOK, Stays
  <2>5. Continues(r) /\ act'[r].pc = next /\ ~act'[r].alone
    BY <1>4, <2>1, <2>3, <2>4 DEF Continues
  <2>6. Unseen
    BY <1>1, <1>8, EngineSame DEF engine, place
  <2>7. Footed(act'[r])
    BY <1>1, <1>2, <1>4, <2>5, FootedStill
  <2> QED BY <1>1, <2>4, <2>5, <2>6, <2>7, QuietGoes DEF Between
<1> QED BY <1>2, <1>3, <1>5, <1>7, <1>8 DEF DropDatabase, Without

LEMMA NoRoleTyped == NoRole \in RoleRow
BY DEF NoRole, RoleRow

\* DROP USER takes the role, or it is refused and nothing changes.
LEMMA UserGone ==
  ASSUME DatabasesInv, AgreeInv, NEW r \in Requests, act[r].pc = "dropuser", NEW d \in DBs, d = act[r].db,
         NEW u \in Users, u = act[r].user, DropUser(r)
  PROVE  \E c : /\ engine' = c /\ Around(r, c) /\ c.dbs = engine.dbs
                /\ c = engine \/ \A x \in DBs : ~(engine.dbs[x] # NONE /\ u \in engine.dbs[x].users)
<1>1. UNCHANGED <<catalog, creds, backups, place>>
  BY DEF DropUser
<1>2. PICK owns \in BOOLEAN : owns <=> \E x \in DBs : engine.dbs[x] # NONE /\ u \in engine.dbs[x].users
  OBVIOUS
<1>3. vol' = IF owns THEN vol ELSE [vol EXCEPT ![home].roles[<<Server, u>>] = NoRole]
  BY <1>2 DEF DropUser
<1>4. CASE owns
  <2>1. engine' = engine
    BY <1>1, <1>3, <1>4 DEF engine, place
  <2> QED BY <2>1, AroundItself
<1>5. CASE ~owns
  <2>1. PICK e \in Cluster : e = engine /\ Around(r, e)
    BY EngineGood, AroundItself
  <2>2. PICK c : c = PutRole(e, <<Server, u>>, NoRole)
    OBVIOUS
  <2>3. vol' = [vol EXCEPT ![home] = c]
    <3>1. vol \in [Volumes -> Cluster \cup {NONE, Torn}] /\ home \in Volumes
      BY DEF DatabasesInv, TypesOK
    <3> QED BY <1>3, <1>5, <2>1, <2>2, <3>1 DEF PutRole, engine
  <2>4. engine' = c
    BY <1>1, <2>3, Becomes
  <2>5. Around(r, c) /\ c.dbs = engine.dbs
    <3>1. CASE ~Mongo
      <4>1. Role(d, u) = <<Server, u>>
        BY <3>1, RoleKey
      <4> QED BY <2>1, <2>2, <4>1, NoRoleTyped, RoleAround
    <3>2. CASE Mongo
      <4> DEFINE k == <<Server, u>>
                 f == [e.roles EXCEPT ![k] = NoRole]
      <4>1. c = [e EXCEPT !.roles = f]
        BY <2>2 DEF PutRole, Cluster
      <4>2. \A x \in DBs, v \in Users : f[Role(x, v)] = e.roles[Role(x, v)]
        <5>1. ASSUME NEW x \in DBs, NEW v \in Users
              PROVE  Role(x, v) \in Roles /\ Role(x, v) # k
          BY <3>2, RoleKey, DatabaseConstants
        <5>2. e.roles \in [Roles -> RoleRow]
          BY DEF Cluster
        <5> HIDE DEF k
        <5> QED BY <5>1, <5>2
      <4> HIDE DEF f
      <4>3. c.roles = f /\ c.dbs = e.dbs
        BY <4>1 DEF Cluster
      <4> QED BY <2>1, <4>2, <4>3 DEF Around
    <3> QED BY <3>1, <3>2
  <2> QED BY <1>2, <1>5, <2>4, <2>5
<1> QED BY <1>4, <1>5

LEMMA DropUserAgrees ==
  ASSUME DatabasesInv, AgreeInv, NEW r \in Requests, DropUser(r)
  PROVE  AgreeInv'
<1>1. act[r].pc = "dropuser" /\ act[r].pc \in OnDatabase /\ UNCHANGED <<catalog, creds, backups, place>> /\ TypesOK
      /\ Goto(r, "forget") /\ "forget" \in OnDatabase
  BY Invariants DEF DropUser, OnDatabase
<1>2. PICK d \in DBs, u \in Users : d = act[r].db /\ u = act[r].user
  <2>1. act[r].user # NONE
    BY <1>1, Onward DEF AgreeInv, FeetOK, Footed
  <2> QED BY <1>1, <2>1, Walks
<1>3. PICK c : /\ engine' = c /\ Around(r, c) /\ c.dbs = engine.dbs
               /\ c = engine \/ \A x \in DBs : ~(engine.dbs[x] # NONE /\ u \in engine.dbs[x].users)
  BY <1>1, <1>2, UserGone
<1>4. /\ Continues(r) /\ act'[r].pc = "forget" /\ tainted' = tainted
      /\ \A q \in Requests \ {r} : Stays(q)
  BY <1>1, GotoMoves
<1>5. StepOf(r) /\ SharedOK'
  BY <1>1, <1>3, <1>4, NearStep
<1>6. ~Undisturbed(d)'
  <2>1. d \in act[r].foot
    BY <1>1, <1>2, Walks
  <2> QED BY <1>4, <2>1, StillBetween DEF Between
<1>7. ASSUME NEW x \in DBs \ {d}, ~Mongo, Undisturbed(x)', Trusted(u)', creds'[x] # NONE, creds'[x].user = u
      PROVE  PassOK(x)'
  <2>1. DbOK(x) /\ creds'[x] = creds[x]
    BY <1>1, <1>2, <1>5, <1>7, Elsewhere
  <2>2. engine.dbs[x] # NONE /\ u \in engine.dbs[x].users
    BY <1>7, <2>1 DEF DbOK
  <2>3. SamePass(x, u)
    BY <1>1, <1>3, <2>2 DEF SamePass, Role
  <2>4. tainted \subseteq tainted' \cup {act[r].db} /\ act[r].pc \notin {"createdb", "store"}
    BY <1>1, <1>4
  <2> QED BY <1>2, <1>5, <1>7, <2>1, <2>3, <2>4, NeighbourKept
<1>8. Footed(act'[r])
  BY <1>1, <1>4, FootedStill
<1>9. ASSUME act'[r].alone
      PROVE  Progress(r)'
  <2>1. act[r].alone /\ act'[r].db = d /\ act'[r].user = u /\ act'[r].foot = act[r].foot
    BY <1>2, <1>4, <1>9 DEF Continues
  <2>2. UsersOf(d)' \subseteq act[r].foot
    BY <1>1, <1>2, <1>3, <2>1, KnowsStill
  <2>3. engine.dbs[d] = NONE
    BY <1>1, <1>2, <2>1 DEF AgreeInv, ProgressOK, Progress
  <2> QED BY <1>3, <1>4, <2>1, <2>2, <2>3 DEF Progress
<1> QED BY <1>2, <1>5, <1>6, <1>7, <1>8, <1>9, Confined

LEMMA ForgetDatabaseAgrees ==
  ASSUME DatabasesInv, AgreeInv, NEW r \in Requests, ForgetDatabase(r)
  PROVE  AgreeInv'
<1>1. act[r].pc = "forget" /\ act[r].pc \in OnDatabase /\ UNCHANGED <<catalog, vol, place>> /\ TypesOK
  BY Invariants DEF ForgetDatabase, OnDatabase
<1>2. PICK d \in DBs, u \in Users \cup {NONE} : d = act[r].db /\ u = act[r].user
  BY <1>1, Walks
<1>3. creds' = [creds EXCEPT ![d] = NONE] /\ Succeed(r, {d})
  BY <1>2 DEF ForgetDatabase
<1>4. /\ Finishes(r) /\ act'[r].pc = "done" /\ tainted \subseteq tainted' \cup {d}
      /\ \A q \in Requests \ {r} : Stays(q)
  BY <1>1, <1>3, SucceedMoves
<1>5. creds'[d] = NONE /\ (\A x \in DBs \ {d} : creds'[x] = creds[x]) /\ engine' = engine
  BY <1>1, <1>3 DEF TypesOK, engine, place
<1>6. SharedOK'
  BY <1>1, <1>5 DEF AgreeInv, SharedOK, Mongo, Postgres
<1>7. StepOf(r)
  <2>1. \A x \in DBs : SameDb(x)
    BY <1>5 DEF SameDb
  <2>2. \A x \in DBs, v \in Users : SamePass(x, v)
    BY <1>1, <1>5 DEF SamePass, Role
  <2>3. Nearby(r)
    BY <1>1, <1>2, <1>4, <1>5, <2>1, <2>2 DEF Nearby
  <2> QED BY <1>1, <1>4, <2>3 DEF StepOf
<1>8. ASSUME act[r].alone
      PROVE  DbOK(d)'
  <2>1. engine.dbs[d] = NONE
    BY <1>1, <1>2, <1>8 DEF AgreeInv, ProgressOK, Progress
  <2> QED BY <1>5, <2>1 DEF DbOK
<1>9. ASSUME NEW x \in DBs \ {d}, ~Mongo, Undisturbed(x)', Trusted(u)', creds'[x] # NONE, creds'[x].user = u
      PROVE  PassOK(x)'
  <2>1. SamePass(x, u)
    BY <1>1, <1>5 DEF SamePass, Role
  <2>2. tainted \subseteq tainted' \cup {act[r].db} /\ act[r].pc \notin {"createdb", "store"} /\ creds'[x] = creds[x]
    BY <1>1, <1>2, <1>4, <1>5
  <2> QED BY <1>2, <1>7, <1>9, <2>1, <2>2, NeighbourKept
<1>10. act'[r].pc \notin OnDatabase
  BY <1>4 DEF OnDatabase
<1> QED BY <1>2, <1>5, <1>6, <1>7, <1>8, <1>9, <1>10, Confined


-----------------------------------------------------------------------------
(* A password is changed.                                                    *)

LEMMA ChangedRole ==
  ASSUME NEW role \in RoleRow, NEW p \in Passwords
  PROVE  [role EXCEPT !.pass = p] \in RoleRow /\ [role EXCEPT !.pass = p].pass = p
BY DEF RoleRow

LEMMA AlterUserAgrees ==
  ASSUME DatabasesInv, AgreeInv, NEW r \in Requests, AlterUser(r)
  PROVE  AgreeInv'
<1>1. act[r].pc = "change" /\ act[r].pc \in OnDatabase /\ UNCHANGED <<catalog, creds, backups, place>>
  BY DEF AlterUser, OnDatabase
<1>2. PICK d \in DBs, u \in Users : d = act[r].db /\ u = act[r].user
  BY <1>1, Walks, Invariants DEF ShapeOf, WithUser
<1>3. CASE Refuse(r)
  BY <1>1, <1>3, RefuseAgrees
<1>4. CASE Exec(r, [engine EXCEPT !.roles[Role(d, u)].pass = r], Goto(r, "store"))
  <2>1. PICK e \in Cluster : e = engine /\ Around(r, e)
    BY EngineGood, AroundItself
  <2>2. PICK old \in RoleRow : old = e.roles[Role(d, u)]
    BY <2>1, RoleTyped
  <2>3. PICK role \in RoleRow : role = [old EXCEPT !.pass = r] /\ role.pass = r
    <3>1. r \in Passwords
      BY DEF Passwords
    <3> QED BY <3>1, ChangedRole
  <2>4. PICK c : c = PutRole(e, Role(d, u), role)
    OBVIOUS
  <2>5. [engine EXCEPT !.roles[Role(d, u)].pass = r] = c
    BY <2>1, <2>2, <2>3, <2>4 DEF PutRole
  <2>6. Around(r, c) /\ c.roles[Role(d, u)] = role /\ c.dbs = engine.dbs
    BY <1>2, <2>1, <2>4, RoleAround
  <2>7. CASE vol' = [vol EXCEPT ![home] = c] /\ Goto(r, "store")
    <3>1. Commanded(r, c, "store")
      BY <1>1, <2>6, <2>7, CommandGoes DEF OnDatabase
    <3>2. /\ StepOf(r) /\ SharedOK' /\ engine' = c /\ Continues(r) /\ act'[r].pc = "store" /\ tainted' = tainted
          /\ UNCHANGED <<catalog, creds>>
      BY <3>1 DEF Commanded
    <3>3. d \in act[r].foot /\ u \in act[r].foot /\ act[r].op = "password"
      <4>1. Footed(act[r])
        BY <1>1, Onward DEF AgreeInv, FeetOK
      <4> QED BY <1>1, <1>2, <4>1, Walks, Names DEF Footed
    <3>4. ~Trusted(u)'
      BY <1>2, <3>2, <3>3, StillChanges
    <3>5. ASSUME act[r].alone
          PROVE  d \notin tainted => creds[d] # NONE /\ creds[d].user = u
      BY <1>1, <1>2, <3>3, <3>5 DEF AgreeInv, ProgressOK, Progress
    <3>6. ASSUME Undisturbed(d)'
          PROVE  DbOK(d)'
      <4>1. d \notin tainted /\ ~Between(r)
        BY <1>1, <3>2, <3>6 DEF Undisturbed, Between
      <4>2. DbOK(d)
        BY <3>2, <3>6, <4>1, UndisturbedBefore DEF AgreeInv, DbsOK
      <4> QED BY <2>6, <3>2, <4>2 DEF DbOK
    <3>7. ASSUME act[r].alone, Undisturbed(d)', creds'[d] # NONE, Certain(d)'
          PROVE  PassOK(d)'
      <4>1. d \notin tainted
        BY <3>2, <3>7 DEF Undisturbed
      <4>2. creds'[d].user = u
        BY <3>2, <3>5, <3>7, <4>1
      <4>3. Works(r, d)' /\ act'[r].pc = "store"
        BY <3>2, <3>3 DEF Works, Active, Continues
      <4>4. ~Certain(d)'
        BY <3>4, <4>2, <4>3 DEF Certain
      <4> QED BY <3>7, <4>4
    <3>8. Footed(act'[r])
      BY <1>1, <3>2, FootedStill
    <3>9. ASSUME act'[r].alone
          PROVE  Progress(r)'
      <4>1. act[r].alone /\ act'[r].db = d /\ act'[r].user = u /\ act'[r].foot = act[r].foot /\ act'[r].op = "password"
        BY <1>2, <3>2, <3>3, <3>9 DEF Continues
      <4>2. UsersOf(d)' \subseteq act[r].foot
        BY <1>1, <1>2, <2>6, <3>2, <4>1, KnowsStill
      <4>3. (engine.roles[Role(d, u)].pass)' = r
        BY <2>3, <2>6, <3>2 DEF Role
      <4>4. d \notin tainted' => creds'[d] # NONE /\ creds'[d].user = u
        BY <3>2, <3>5, <4>1
      <4> QED BY <3>2, <4>1, <4>2, <4>3, <4>4 DEF Progress
    <3> QED BY <1>2, <3>2, <3>4, <3>6, <3>7, <3>8, <3>9, Confined
  <2>8. CASE vol' \in {vol, [vol EXCEPT ![home] = c]} /\ Fail(r)
    BY <1>1, <2>6, <2>8, FailAgrees
  <2>9. Exec(r, c, Goto(r, "store"))
    BY <1>4, <2>5
  <2> QED BY <2>7, <2>8, <2>9 DEF Exec
<1> QED BY <1>2, <1>3, <1>4 DEF AlterUser

-----------------------------------------------------------------------------
(* A PostgreSQL database is restored.                                        *)

\* A client that failed, whatever part of its work is there.
LEMMA PartLeft ==
  ASSUME DatabasesInv, AgreeInv, NEW r \in Requests, act[r].pc \in OnDatabase, Fail(r),
         NEW parts, \A c \in parts : Around(r, c), vol' \in {[vol EXCEPT ![home] = c] : c \in parts},
         UNCHANGED <<catalog, creds, backups, place>>
  PROVE  AgreeInv'
<1>1. PICK c \in parts : vol' = [vol EXCEPT ![home] = c]
  OBVIOUS
<1>2. PICK b : b = c /\ Around(r, b)
  BY <1>1
<1>3. vol' = vol \/ vol' = [vol EXCEPT ![home] = b]
  BY <1>1, <1>2
<1> QED BY <1>2, <1>3, FailAgrees

\* The user's password is the one on file, and every database of the user knows it.
LEMMA FiledPassword ==
  ASSUME DatabasesInv, AgreeInv, NEW r \in Requests, act[r].alone, NEW d \in DBs, d = act[r].db,
         act[r].pc \in {"download", "recreate", "load", "fix", "mongo"}, NEW u, u = act[r].user,
         UNCHANGED <<catalog, creds>>, (engine.roles[Role(d, u)].pass)' = act[r].pass
  PROVE  /\ creds'[d] # NONE /\ creds'[d].user = u /\ creds'[d].pass = act[r].pass /\ PassOK(d)'
         /\ \A x \in DBs : ~Mongo /\ creds'[x] # NONE /\ creds'[x].user = u => PassOK(x)'
<1>1. act[r].pc \in OnDatabase
  BY DEF OnDatabase
<1>2. Progress(r)
  BY <1>1 DEF AgreeInv, ProgressOK
<1>3. creds'[d] # NONE /\ creds'[d].user = u /\ creds'[d].pass = act[r].pass
  BY <1>2 DEF Progress
<1>4. PassOK(d)'
  BY <1>3 DEF PassOK, Role
<1>5. ASSUME NEW x \in DBs, ~Mongo, creds'[x] # NONE, creds'[x].user = u
      PROVE  PassOK(x)'
  <2>1. creds[x].pass = creds[d].pass
    BY <1>3, <1>5 DEF AgreeInv, SharedOK
  <2>2. Role(x, u)' = Role(d, u)'
    BY <1>5 DEF Role, Mongo
  <2> QED BY <1>3, <1>5, <2>1, <2>2 DEF PassOK
<1> QED BY <1>3, <1>4, <1>5

LEMMA RecreatePgAgrees ==
  ASSUME DatabasesInv, AgreeInv, NEW r \in Requests, drop_and_recreate_pg_db(r)
  PROVE  AgreeInv'
<1>1. act[r].pc = "recreate" /\ Postgres /\ act[r].pc \in OnDatabase /\ UNCHANGED <<catalog, creds, backups, place>>
  BY DEF drop_and_recreate_pg_db, OnDatabase
<1>2. PICK d \in DBs, u \in Users : d = act[r].db /\ u = act[r].user
  BY <1>1, Walks, Invariants DEF ShapeOf, WithUser
<1>3. PICK pass \in Passwords \cup {NONE} : pass = act[r].pass
  BY Invariants DEF Local
<1>4. PICK e \in Cluster : e = engine /\ Around(r, e)
  BY EngineGood, AroundItself
<1>5. PICK role \in RoleRow : role = pg_role_sql(e.roles[Role(d, u)], pass, FALSE) /\ role.pass = pass
  <2>1. e.roles[Role(d, u)] \in RoleRow
    BY <1>4, RoleTyped
  <2> QED BY <2>1, SyncTyped
<1>6. PICK synced : synced = PutRole(e, Role(d, u), role)
  OBVIOUS
<1>7. synced \in Cluster /\ Around(r, synced) /\ synced.roles[Role(d, u)] = role /\ synced.dbs = engine.dbs
  BY <1>2, <1>4, <1>6, RoleAround
<1>8. PICK dropped : dropped = PutDb(synced, d, NONE)
  OBVIOUS
<1>9. dropped \in Cluster /\ Around(r, dropped) /\ dropped.roles = synced.roles
  <2>1. PICK none \in DatabaseRow \cup {NONE} : none = NONE
    OBVIOUS
  <2>2. ~Postgres /\ none # NONE => none.objects = "users"
    BY <2>1
  <2>3. dropped = PutDb(synced, d, none)
    BY <1>8, <2>1
  <2> QED BY <1>2, <1>7, <2>2, <2>3, DbAround
<1>10. PICK fresh \in DatabaseRow :
         /\ fresh = Database({u}, Empty(d)) /\ fresh # NONE /\ fresh.users = {u} /\ fresh.objects = "users"
  BY FreshRow
<1>11. PICK created : created = PutDb(dropped, d, fresh)
  OBVIOUS
<1>12. Around(r, created) /\ created.roles = synced.roles /\ created.dbs[d] = fresh
  <2>1. fresh \in DatabaseRow \cup {NONE}
    OBVIOUS
  <2> QED BY <1>1, <1>2, <1>9, <1>11, <2>1, DbAround
<1>13. pipe_to_docker(r, created, {synced, dropped}, Goto(r, "load"))
  <2>1. synced = build_role_sync_sql(engine, Role(d, u), act[r].pass)
    BY <1>3, <1>4, <1>5, <1>6 DEF build_role_sync_sql, PutRole
  <2>2. dropped = [synced EXCEPT !.dbs[d] = NONE]
    BY <1>8 DEF PutDb
  <2>3. created = [dropped EXCEPT !.dbs[d] = Database({u}, Empty(d))]
    BY <1>10, <1>11 DEF PutDb
  <2> QED BY <1>2, <2>1, <2>2, <2>3 DEF drop_and_recreate_pg_db
<1>14. CASE vol' \in {[vol EXCEPT ![home] = c] : c \in {engine, created} \cup {synced, dropped}} /\ Fail(r)
  <2>1. PICK parts : parts = {engine, created} \cup {synced, dropped}
    OBVIOUS
  <2>2. \A c \in parts : Around(r, c)
    BY <1>4, <1>7, <1>9, <1>12, <2>1
  <2>3. vol' \in {[vol EXCEPT ![home] = c] : c \in parts} /\ Fail(r)
    BY <1>14, <2>1
  <2> QED BY <1>1, <2>2, <2>3, PartLeft
<1>15. CASE vol' = [vol EXCEPT ![home] = created] /\ Goto(r, "load")
  <2>1. Commanded(r, created, "load")
    BY <1>1, <1>12, <1>15, CommandGoes DEF OnDatabase
  <2>2. /\ StepOf(r) /\ SharedOK' /\ engine' = created /\ Continues(r) /\ act'[r].pc = "load" /\ tainted' = tainted
        /\ UNCHANGED <<catalog, creds>>
    BY <2>1 DEF Commanded
  <2>3. d \in act[r].foot /\ u \in act[r].foot
    BY <1>1, <1>2, Walks, Names
  <2>4. ~Undisturbed(d)'
    <3>1. Between(r)'
      BY <1>1, <2>2 DEF Between, Postgres
    <3> QED BY <2>2, <2>3, <3>1, StillBetween
  <2>5. (engine.roles[Role(d, u)].pass)' = act[r].pass
    BY <1>3, <1>5, <1>7, <1>12, <2>2 DEF Role
  <2>6. ASSUME act[r].alone
        PROVE  /\ creds'[d] # NONE /\ creds'[d].user = u /\ creds'[d].pass = act[r].pass
               /\ \A x \in DBs : ~Mongo /\ creds'[x] # NONE /\ creds'[x].user = u => PassOK(x)'
    BY <1>1, <1>2, <2>2, <2>5, <2>6, FiledPassword
  <2>7. Footed(act'[r])
    BY <1>1, <2>2, FootedStill
  <2>8. ASSUME act'[r].alone
        PROVE  Progress(r)'
    <3>1. /\ act[r].alone /\ act'[r].db = d /\ act'[r].user = u /\ act'[r].foot = act[r].foot
          /\ act'[r].pass = act[r].pass
      BY <1>2, <2>2, <2>8 DEF Continues
    <3>2. UsersOf(d)' \subseteq act[r].foot
      <4>1. engine'.dbs[d].users \subseteq act[r].foot
        BY <1>10, <1>12, <2>2, <2>3
      <4> QED BY <1>1, <1>2, <2>2, <3>1, <4>1, KnowsStill
    <3>3. engine'.dbs[d] # NONE /\ u \in engine'.dbs[d].users
      BY <1>10, <1>12, <2>2
    <3> QED BY <2>2, <2>5, <2>6, <3>1, <3>2, <3>3 DEF Progress
  <2> QED BY <1>2, <2>2, <2>4, <2>6, <2>7, <2>8, Confined
<1> QED BY <1>13, <1>14, <1>15 DEF pipe_to_docker


\* A row with the rows of a dump, and one that has its objects handed over.
LEMMA LoadedRow ==
  ASSUME NEW y \in DatabaseRow, NEW rows \in Rows, NEW ver \in Versions, NEW o \in {"users", "superuser"}
  PROVE  /\ [rows EXCEPT !.ver = ver] \in Rows
         /\ [y EXCEPT !.rows = [rows EXCEPT !.ver = ver], !.objects = o] \in DatabaseRow
         /\ [y EXCEPT !.rows = [rows EXCEPT !.ver = ver], !.objects = o] # NONE
         /\ [y EXCEPT !.rows = [rows EXCEPT !.ver = ver], !.objects = o].users = y.users
<1>1. PICK loaded \in Rows : loaded = [rows EXCEPT !.ver = ver]
  BY DEF Rows
<1>2. [y EXCEPT !.rows = loaded, !.objects = o] \in DatabaseRow
  BY DEF DatabaseRow
<1>3. [y EXCEPT !.rows = loaded, !.objects = o].users = y.users
  BY DEF DatabaseRow
<1> QED BY <1>1, <1>2, <1>3, NoneIsNothing

LEMMA HandedRow ==
  ASSUME NEW y \in DatabaseRow, NEW o \in {"users", "superuser"}
  PROVE  /\ [y EXCEPT !.objects = o] \in DatabaseRow /\ [y EXCEPT !.objects = o] # NONE
         /\ [y EXCEPT !.objects = o].users = y.users /\ [y EXCEPT !.objects = o].objects = o
<1>1. [y EXCEPT !.objects = o] \in DatabaseRow
  BY DEF DatabaseRow
<1> QED BY <1>1, NoneIsNothing DEF DatabaseRow

\* The rows a request loads, at either end of a load.
LEMMA Loads ==
  ASSUME DatabasesInv, NEW r \in Requests, act[r].rows \in Rows
  PROVE  act[r].rows.ver \in Versions /\ "part" \in Versions
BY DEF Rows, Versions

\* In PostgreSQL any row may be put at the database of r.
LEMMA PgAround ==
  ASSUME NEW r \in Requests, NEW d \in DBs, d = act[r].db, NEW b \in Cluster, Around(r, b), Postgres, NEW x \in DatabaseRow,
         NEW c, c = PutDb(b, d, x)
  PROVE  Around(r, c) /\ c.dbs[d] = x /\ c.roles = b.roles
<1>1. x \in DatabaseRow \cup {NONE} /\ (~Postgres /\ x # NONE => x.objects = "users")
  OBVIOUS
<1> QED BY <1>1, DbAround

LEMMA RestorePgAgrees ==
  ASSUME DatabasesInv, AgreeInv, NEW r \in Requests, restore_postgres(r)
  PROVE  AgreeInv'
<1>1. act[r].pc = "load" /\ Postgres /\ act[r].pc \in OnDatabase /\ UNCHANGED <<catalog, creds, backups, place>>
  BY DEF restore_postgres, OnDatabase
<1>2. PICK d \in DBs, u \in Users \cup {NONE} : d = act[r].db /\ u = act[r].user
  BY <1>1, Walks
<1>3. CASE Refuse(r)
  BY <1>1, <1>3, RefuseAgrees
<1>4. PICK e \in Cluster : e = engine /\ Around(r, e)
  BY EngineGood, AroundItself
<1>5. PICK rows \in Rows : rows = act[r].rows /\ rows.ver \in Versions /\ "part" \in Versions
  BY <1>1, Invariants, Loads DEF ShapeOf
<1>6. ASSUME e.dbs[d] # NONE, NEW ver \in Versions, NEW c,
             c = [e EXCEPT !.dbs[d] = [e.dbs[d] EXCEPT !.rows = [rows EXCEPT !.ver = ver], !.objects = "superuser"]]
      PROVE  /\ Around(r, c) /\ c.roles = e.roles
             /\ c.dbs[d] # NONE /\ c.dbs[d].users = e.dbs[d].users
  <2>1. PICK y \in DatabaseRow : y = e.dbs[d]
    BY <1>4, <1>6, RowTyped
  <2>2. PICK x : x = [y EXCEPT !.rows = [rows EXCEPT !.ver = ver], !.objects = "superuser"]
    OBVIOUS
  <2>5. x \in DatabaseRow /\ x # NONE /\ x.users = y.users
    <3>1. "superuser" \in {"users", "superuser"} /\ ver \in Versions
      BY <1>6
    <3> QED BY <2>2, <3>1, LoadedRow
  <2>3. c = PutDb(e, d, x)
    BY <1>6, <2>1, <2>2 DEF PutDb
  <2>6. Around(r, c) /\ c.dbs[d] = x /\ c.roles = e.roles
    BY <1>1, <1>2, <1>4, <2>3, <2>5, PgAround
  <2> QED BY <2>1, <2>5, <2>6
<1>7. CASE ~Refuse(r)
  <2> DEFINE with(ver) == [e EXCEPT !.dbs[d] = [e.dbs[d] EXCEPT !.rows = [rows EXCEPT !.ver = ver], !.objects = "superuser"]]
  <2>1. engine.dbs[d] # NONE /\ pipe_to_docker(r, with(rows.ver), {with("part")}, Goto(r, "fix"))
    BY <1>1, <1>2, <1>4, <1>5, <1>7 DEF restore_postgres
  <2>2. PICK part : part = with("part") /\ Around(r, part)
    BY <1>4, <1>5, <1>6, <2>1
  <2>3. PICK c : c = with(rows.ver) /\ Around(r, c) /\ c.roles = e.roles /\ c.dbs[d] # NONE /\ c.dbs[d].users = e.dbs[d].users
    BY <1>4, <1>5, <1>6, <2>1
  <2>4. pipe_to_docker(r, c, {part}, Goto(r, "fix"))
    BY <2>1, <2>2, <2>3
  <2> HIDE DEF with
  <2>5. CASE vol' \in {[vol EXCEPT ![home] = x] : x \in {engine, c} \cup {part}} /\ Fail(r)
    <3>1. PICK parts : parts = {engine, c} \cup {part}
      OBVIOUS
    <3>2. \A x \in parts : Around(r, x)
      BY <1>4, <2>2, <2>3, <3>1
    <3>3. vol' \in {[vol EXCEPT ![home] = x] : x \in parts} /\ Fail(r)
      BY <2>5, <3>1
    <3> QED BY <1>1, <3>2, <3>3, PartLeft
  <2>6. CASE vol' = [vol EXCEPT ![home] = c] /\ Goto(r, "fix")
    <3>1. Commanded(r, c, "fix")
      BY <1>1, <2>3, <2>6, CommandGoes DEF OnDatabase
    <3>2. /\ StepOf(r) /\ SharedOK' /\ engine' = c /\ Continues(r) /\ act'[r].pc = "fix" /\ tainted' = tainted
          /\ UNCHANGED <<catalog, creds>>
      BY <3>1 DEF Commanded
    <3>3. d \in act[r].foot
      BY <1>1, <1>2, Walks
    <3>4. ~Undisturbed(d)'
      <4>1. Between(r)'
        BY <1>1, <3>2 DEF Between, Postgres
      <4> QED BY <3>2, <3>3, <4>1, StillBetween
    <3>5. (engine.roles[Role(d, u)].pass)' = engine.roles[Role(d, u)].pass
      BY <1>4, <2>3, <3>2 DEF Role
    <3>6. ASSUME act[r].alone
          PROVE  /\ creds'[d] # NONE /\ creds'[d].user = u /\ creds'[d].pass = act[r].pass
                 /\ \A x \in DBs : ~Mongo /\ creds'[x] # NONE /\ creds'[x].user = u => PassOK(x)'
                 /\ u \in engine.dbs[d].users /\ (engine.roles[Role(d, u)].pass)' = act[r].pass
      <4>1. Progress(r)
        BY <1>1, <3>6 DEF AgreeInv, ProgressOK
      <4>2. u \in engine.dbs[d].users /\ (engine.roles[Role(d, u)].pass)' = act[r].pass
        BY <1>1, <1>2, <3>5, <4>1 DEF Progress
      <4> QED BY <1>1, <1>2, <3>2, <3>6, <4>2, FiledPassword
    <3>7. Footed(act'[r])
      BY <1>1, <3>2, FootedStill
    <3>8. ASSUME act'[r].alone
          PROVE  Progress(r)'
      <4>1. /\ act[r].alone /\ act'[r].db = d /\ act'[r].user = u /\ act'[r].foot = act[r].foot
            /\ act'[r].pass = act[r].pass
        BY <1>2, <3>2, <3>8 DEF Continues
      <4>2. UsersOf(d)' \subseteq act[r].foot
        <5>1. engine'.dbs[d].users \subseteq engine.dbs[d].users \cup act[r].foot
          BY <1>4, <2>3, <3>2
        <5> QED BY <1>1, <1>2, <2>1, <3>2, <4>1, <5>1, KnowsStill
      <4>3. engine'.dbs[d] # NONE /\ u \in engine'.dbs[d].users
        BY <1>4, <2>3, <3>2, <3>6, <4>1
      <4> QED BY <3>2, <3>6, <4>1, <4>2, <4>3 DEF Progress
    <3> QED BY <1>2, <3>2, <3>4, <3>6, <3>7, <3>8, Confined
  <2> QED BY <2>4, <2>5, <2>6 DEF pipe_to_docker
<1> QED BY <1>3, <1>7

LEMMA FixOwnershipAgrees ==
  ASSUME DatabasesInv, AgreeInv, NEW r \in Requests, fix_object_ownership(r)
  PROVE  AgreeInv'
<1>1. act[r].pc = "fix" /\ act[r].pc \in OnDatabase /\ UNCHANGED <<catalog, creds, backups, place>>
  BY DEF fix_object_ownership, OnDatabase
<1>2. PICK d \in DBs, u \in Users \cup {NONE} : d = act[r].db /\ u = act[r].user
  BY <1>1, Walks
<1>3. CASE Refuse(r)
  BY <1>1, <1>3, RefuseAgrees
<1>4. CASE ~Refuse(r)
  <2>1. /\ engine.dbs[d] # NONE
        /\ pipe_to_docker(r, [engine EXCEPT !.dbs[d].objects = "users"], {}, Succeed(r, {d, u}))
    BY <1>2, <1>4 DEF fix_object_ownership, build_owner_reassignment_sql
  <2>2. PICK e \in Cluster : e = engine /\ Around(r, e)
    BY EngineGood, AroundItself
  <2>3. PICK y \in DatabaseRow : y = e.dbs[d]
    BY <2>1, <2>2, RowTyped
  <2>4. PICK x \in DatabaseRow : x = [y EXCEPT !.objects = "users"] /\ x # NONE /\ x.users = y.users /\ x.objects = "users"
    BY HandedRow
  <2>5. PICK c : c = PutDb(e, d, x)
    OBVIOUS
  <2>6. [engine EXCEPT !.dbs[d].objects = "users"] = c
    BY <2>2, <2>3, <2>4, <2>5 DEF PutDb
  <2>7. Around(r, c) /\ c.dbs[d] = x /\ c.roles = e.roles
    <3>1. x \in DatabaseRow \cup {NONE} /\ (~Postgres /\ x # NONE => x.objects = "users")
      BY <2>4
    <3> QED BY <1>2, <2>2, <2>5, <3>1, DbAround
  <2>8. pipe_to_docker(r, c, {}, Succeed(r, {d, u}))
    BY <2>1, <2>6
  <2>9. CASE vol' \in {[vol EXCEPT ![home] = z] : z \in {engine, c} \cup {}} /\ Fail(r)
    <3>1. PICK parts : parts = {engine, c} \cup {}
      OBVIOUS
    <3>2. \A z \in parts : Around(r, z)
      BY <2>2, <2>7, <3>1
    <3>3. vol' \in {[vol EXCEPT ![home] = z] : z \in parts} /\ Fail(r)
      BY <2>9, <3>1
    <3> QED BY <1>1, <3>2, <3>3, PartLeft
  <2>10. CASE vol' = [vol EXCEPT ![home] = c] /\ Succeed(r, {d, u})
    <3>1. Answered(r, c, {d, u})
      <4>1. {d, u} \in SUBSET {act[r].db, act[r].user}
        BY <1>2
      <4> QED BY <1>1, <2>7, <2>10, <4>1, CommandAnswers
    <3>2. /\ StepOf(r) /\ SharedOK' /\ engine' = c /\ act'[r].pc = "done" /\ UNCHANGED <<catalog, creds>>
      BY <3>1 DEF Answered
    <3>3. ASSUME act[r].alone
          PROVE  /\ DbOK(d)' /\ PassOK(d)'
                 /\ \A z \in DBs : ~Mongo /\ creds'[z] # NONE /\ creds'[z].user = u => PassOK(z)'
      <4>1. Progress(r)
        BY <1>1, <3>3 DEF AgreeInv, ProgressOK
      <4>2. Postgres
        BY <1>1, Onward DEF AgreeInv, FeetOK, Footed
      <4>3. creds[d] # NONE /\ creds[d].user = u /\ u \in engine.dbs[d].users
            /\ engine.roles[Role(d, u)].pass = act[r].pass
        BY <1>1, <1>2, <4>1, <4>2 DEF Progress
      <4>4. (engine.roles[Role(d, u)].pass)' = act[r].pass
        BY <2>2, <2>7, <3>2, <4>3 DEF Role
      <4>5. DbOK(d)'
        BY <2>2, <2>3, <2>4, <2>7, <3>2, <4>3 DEF DbOK
      <4> QED BY <1>1, <1>2, <3>2, <3>3, <4>4, <4>5, FiledPassword
    <3>4. act'[r].pc \notin OnDatabase
      BY <3>2 DEF OnDatabase
    <3> QED BY <1>2, <3>2, <3>3, <3>4, Confined
  <2> QED BY <2>8, <2>9, <2>10 DEF pipe_to_docker
<1> QED BY <1>3, <1>4


-----------------------------------------------------------------------------
(* A MySQL or MongoDB database is restored.                                  *)

\* A row whose objects are its users' may be put at the database of r in any engine.
LEMMA UsersAround ==
  ASSUME NEW r \in Requests, NEW d \in DBs, d = act[r].db, NEW b \in Cluster, Around(r, b), NEW x \in DatabaseRow,
         x.objects = "users", NEW c, c = PutDb(b, d, x)
  PROVE  c \in Cluster /\ Around(r, c) /\ c.dbs[d] = x /\ c.roles = b.roles
<1>1. x \in DatabaseRow \cup {NONE} /\ (~Postgres /\ x # NONE => x.objects = "users")
  OBVIOUS
<1> QED BY <1>1, DbAround

LEMMA DropAround ==
  ASSUME NEW r \in Requests, NEW d \in DBs, d = act[r].db, NEW b \in Cluster, Around(r, b), NEW c, c = PutDb(b, d, NONE)
  PROVE  Around(r, c)
<1>1. PICK none \in DatabaseRow \cup {NONE} : none = NONE
  OBVIOUS
<1>2. ~Postgres /\ none # NONE => none.objects = "users"
  BY <1>1
<1>3. c = PutDb(b, d, none)
  BY <1>1
<1> QED BY <1>2, <1>3, DbAround

\* The users a database has, if it is there.
LEMMA UsersThere ==
  ASSUME DatabasesInv, NEW d \in DBs
  PROVE  (IF engine.dbs[d] = NONE THEN {} ELSE engine.dbs[d].users) \in SUBSET Users
<1>1. CASE engine.dbs[d] # NONE
  <2>1. engine.dbs[d] \in DatabaseRow
    BY <1>1, RowTyped
  <2> QED BY <1>1, <2>1 DEF DatabaseRow
<1> QED BY <1>1

LEMMA BlankRow ==
  ASSUME ~Postgres, NEW d \in DBs, NEW us \in SUBSET Users
  PROVE  /\ Database(us, Empty(d)) \in DatabaseRow /\ Database(us, Empty(d)) # NONE
         /\ Database(us, Empty(d)).users = us /\ Database(us, Empty(d)).objects = "users"
<1>1. Database(us, Empty(d)) \in DatabaseRow
  BY EmptyFits
<1> QED BY <1>1, NoneIsNothing DEF Database

LEMMA RestoreMysqlAgrees ==
  ASSUME DatabasesInv, AgreeInv, NEW r \in Requests, restore_mysql(r)
  PROVE  AgreeInv'
<1>1. /\ act[r].pc = "recreate" /\ catalog = "mysql" /\ ~Postgres /\ act[r].pc \in OnDatabase
      /\ UNCHANGED <<catalog, creds, backups, place>>
  BY DEF restore_mysql, OnDatabase, Postgres
<1>2. PICK d \in DBs, u \in Users : d = act[r].db /\ u = act[r].user
  BY <1>1, Walks, Invariants DEF ShapeOf, WithUser
<1>3. PICK e \in Cluster : e = engine /\ Around(r, e)
  BY EngineGood, AroundItself
<1>4. PICK us \in SUBSET Users : us = IF engine.dbs[d] = NONE THEN {} ELSE engine.dbs[d].users
  BY UsersThere
<1>5. PICK blank \in DatabaseRow :
        /\ blank = Database(us, Empty(d)) /\ blank # NONE /\ blank.users = us /\ blank.objects = "users"
  BY <1>1, BlankRow
<1>6. PICK full \in DatabaseRow :
        /\ full = [blank EXCEPT !.users = @ \cup {u}] /\ full # NONE /\ full.users = us \cup {u} /\ full.objects = "users"
  <2>1. PICK x : x = [blank EXCEPT !.users = @ \cup {u}]
    OBVIOUS
  <2>2. x \in DatabaseRow /\ x # NONE /\ x.users = blank.users \cup {u} /\ x.objects = blank.objects
    BY <2>1, GrantedRow
  <2> QED BY <1>5, <2>1, <2>2
<1>7. PICK dropped : dropped = PutDb(e, d, NONE) /\ Around(r, dropped)
  BY <1>2, <1>3, DropAround
<1>8. PICK created : created = PutDb(e, d, blank)
  OBVIOUS
<1>9. created \in Cluster /\ Around(r, created) /\ created.dbs[d] = blank /\ created.roles = e.roles
  BY <1>2, <1>3, <1>5, <1>8, UsersAround
<1>10. PICK granted : granted = PutDb(created, d, full)
  OBVIOUS
<1>11. granted \in Cluster /\ Around(r, granted) /\ granted.dbs[d] = full /\ granted.roles = e.roles
  <2>1. PICK b \in Cluster : b = created /\ Around(r, b)
    BY <1>9
  <2>2. granted = PutDb(b, d, full)
    BY <1>10, <2>1
  <2>3. granted \in Cluster /\ Around(r, granted) /\ granted.dbs[d] = full /\ granted.roles = b.roles
    <3>1. d = act[r].db /\ full.objects = "users" /\ Around(r, b)
      BY <1>2, <1>6, <2>1
    <3>2. \A c : c = PutDb(b, d, full) => c \in Cluster /\ Around(r, c) /\ c.dbs[d] = full /\ c.roles = b.roles
      BY <3>1, UsersAround
    <3> QED BY <2>2, <3>2
  <2> QED BY <1>9, <2>1, <2>3
<1>12. \/ pipe_to_docker(r, granted, {dropped, created}, Goto(r, "load"))
       \/ pipe_to_docker(r, created, {dropped}, Fail(r))
  <2>1. dropped = [engine EXCEPT !.dbs[d] = NONE]
    BY <1>3, <1>7 DEF PutDb
  <2>2. created = [engine EXCEPT !.dbs[d] = Database(IF engine.dbs[d] = NONE THEN {} ELSE engine.dbs[d].users, Empty(d))]
    BY <1>3, <1>4, <1>5, <1>8 DEF PutDb
  <2>3. granted = [created EXCEPT !.dbs[d].users = @ \cup {u}]
    BY <1>6, <1>9, <1>10 DEF PutDb
  <2> QED BY <1>2, <2>1, <2>2, <2>3 DEF restore_mysql
<1>13. PICK parts : parts = {engine, granted, created, dropped}
  OBVIOUS
<1>14. \A c \in parts : Around(r, c)
  BY <1>3, <1>7, <1>9, <1>11, <1>13
<1>15. CASE Fail(r) /\ vol' \in {[vol EXCEPT ![home] = c] : c \in parts}
  BY <1>1, <1>14, <1>15, PartLeft
<1>16. CASE vol' = [vol EXCEPT ![home] = granted] /\ Goto(r, "load")
  <2>1. Commanded(r, granted, "load")
    BY <1>1, <1>11, <1>16, CommandGoes DEF OnDatabase
  <2>2. /\ StepOf(r) /\ SharedOK' /\ engine' = granted /\ Continues(r) /\ act'[r].pc = "load" /\ tainted' = tainted
        /\ UNCHANGED <<catalog, creds>>
    BY <2>1 DEF Commanded
  <2>3. d \in act[r].foot /\ u \in act[r].foot
    BY <1>1, <1>2, Walks, Names
  <2>4. ASSUME act[r].alone
        PROVE  creds[d] # NONE /\ creds[d].user = u /\ creds[d].pass = act[r].pass
    BY <1>1, <1>2, <2>4 DEF AgreeInv, ProgressOK, Progress
  <2>5. act[r].alone => DbOK(d)'
    BY <1>6, <1>11, <2>2, <2>4 DEF DbOK
  <2>6. \A x \in DBs, v \in Users : SamePass(x, v)
    BY <1>3, <1>11, <2>2 DEF SamePass, Role
  <2>7. tainted \subseteq tainted' \cup {act[r].db} /\ act[r].pc \notin {"createdb", "store"}
    BY <1>1, <2>2
  <2>8. ASSUME act[r].alone, Undisturbed(d)', creds'[d] # NONE, Certain(d)'
        PROVE  PassOK(d)'
    <3>1. d \notin tainted /\ ~Between(r)
      BY <1>1, <2>2, <2>8 DEF Undisturbed, Between
    <3>2. Undisturbed(d)
      BY <2>2, <2>8, <3>1, UndisturbedBefore
    <3>3. SamePass(d, creds[d].user) /\ creds'[d] = creds[d] /\ creds[d] # NONE
      BY <2>2, <2>4, <2>6, <2>8
    <3> QED BY <2>2, <2>7, <2>8, <3>2, <3>3, PassKept
  <2>9. ASSUME NEW x \in DBs \ {d}, ~Mongo, Undisturbed(x)', Trusted(u)', creds'[x] # NONE, creds'[x].user = u
        PROVE  PassOK(x)'
    <3>1. SamePass(x, u) /\ creds'[x] = creds[x]
      BY <2>2, <2>6
    <3> QED BY <1>2, <2>2, <2>7, <2>9, <3>1, NeighbourKept
  <2>10. Footed(act'[r])
    BY <1>1, <2>2, FootedStill
  <2>11. ASSUME act'[r].alone
         PROVE  Progress(r)'
    <3>1. /\ act[r].alone /\ act'[r].db = d /\ act'[r].user = u /\ act'[r].foot = act[r].foot
          /\ act'[r].pass = act[r].pass
      BY <1>2, <2>2, <2>11 DEF Continues
    <3>2. UsersOf(d)' \subseteq act[r].foot
      <4>1. \/ engine.dbs[d] # NONE /\ engine'.dbs[d].users \subseteq engine.dbs[d].users \cup act[r].foot
            \/ engine'.dbs[d].users \subseteq act[r].foot
        BY <1>4, <1>6, <1>11, <2>2, <2>3
      <4> QED BY <1>1, <1>2, <2>2, <3>1, <4>1, KnowsStill
    <3>3. ~Postgres'
      BY <1>1 DEF Postgres
    <3> QED BY <2>2, <2>4, <3>1, <3>2, <3>3 DEF Progress
  <2> QED BY <1>2, <2>2, <2>5, <2>8, <2>9, <2>10, <2>11, Confined
<1>17. CASE pipe_to_docker(r, granted, {dropped, created}, Goto(r, "load"))
  <2>1. {engine, granted} \cup {dropped, created} = parts
    BY <1>13
  <2> QED BY <1>15, <1>16, <1>17, <2>1 DEF pipe_to_docker
<1>18. CASE pipe_to_docker(r, created, {dropped}, Fail(r))
  <2>1. ({engine, created} \cup {dropped}) \subseteq parts /\ created \in parts
    BY <1>13
  <2>2. Fail(r) /\ vol' \in {[vol EXCEPT ![home] = c] : c \in parts}
    BY <1>18, <2>1 DEF pipe_to_docker
  <2> QED BY <1>15, <2>2
<1> QED BY <1>12, <1>17, <1>18

LEMMA RunMysqlAgrees ==
  ASSUME DatabasesInv, AgreeInv, NEW r \in Requests, run_mysql(r)
  PROVE  AgreeInv'
<1>1. /\ act[r].pc = "load" /\ catalog = "mysql" /\ ~Postgres /\ act[r].pc \in OnDatabase
      /\ UNCHANGED <<catalog, creds, backups, place>>
  BY DEF run_mysql, OnDatabase, Postgres
<1>2. PICK d \in DBs, u \in Users \cup {NONE} : d = act[r].db /\ u = act[r].user
  BY <1>1, Walks
<1>3. CASE Refuse(r)
  BY <1>1, <1>3, RefuseAgrees
<1>4. PICK e \in Cluster : e = engine /\ Around(r, e)
  BY EngineGood, AroundItself
<1>5. PICK rows \in Rows : rows = act[r].rows /\ rows.ver \in Versions /\ "part" \in Versions
  BY <1>1, Invariants, Loads DEF ShapeOf
<1>6. ASSUME e.dbs[d] # NONE, NEW ver \in Versions, NEW c, c = [e EXCEPT !.dbs[d].rows = [rows EXCEPT !.ver = ver]]
      PROVE  /\ Around(r, c) /\ c.roles = e.roles
             /\ c.dbs[d] # NONE /\ c.dbs[d].users = e.dbs[d].users /\ c.dbs[d].objects = e.dbs[d].objects
  <2>1. PICK y \in DatabaseRow : y = e.dbs[d]
    BY <1>4, <1>6, RowTyped
  <2>2. y.objects = "users"
    BY <1>1, <1>4, <1>6, <2>1 DEF AgreeInv, SharedOK
  <2>3. PICK x : x = [y EXCEPT !.rows = [rows EXCEPT !.ver = ver]]
    OBVIOUS
  <2>4. x \in DatabaseRow /\ x # NONE /\ x.users = y.users /\ x.objects = "users"
    <3>1. x \in DatabaseRow
      BY <1>6, <2>3 DEF Rows, DatabaseRow
    <3> QED BY <2>2, <2>3, <3>1, NoneIsNothing DEF DatabaseRow
  <2>5. c = PutDb(e, d, x)
    BY <1>6, <2>1, <2>3 DEF PutDb
  <2>6. Around(r, c) /\ c.dbs[d] = x /\ c.roles = e.roles
    BY <1>2, <1>4, <2>4, <2>5, UsersAround
  <2> QED BY <2>1, <2>2, <2>4, <2>6
<1>7. CASE ~Refuse(r)
  <2> DEFINE with(ver) == [e EXCEPT !.dbs[d].rows = [rows EXCEPT !.ver = ver]]
  <2>1. engine.dbs[d] # NONE /\ pipe_to_docker(r, with(rows.ver), {with("part")}, Succeed(r, {}))
    BY <1>1, <1>2, <1>4, <1>5, <1>7 DEF run_mysql
  <2>2. PICK part : part = with("part") /\ Around(r, part)
    BY <1>4, <1>5, <1>6, <2>1
  <2>3. PICK c : /\ c = with(rows.ver) /\ Around(r, c) /\ c.roles = e.roles
                 /\ c.dbs[d] # NONE /\ c.dbs[d].users = e.dbs[d].users /\ c.dbs[d].objects = e.dbs[d].objects
    BY <1>4, <1>5, <1>6, <2>1
  <2>4. pipe_to_docker(r, c, {part}, Succeed(r, {}))
    BY <2>1, <2>2, <2>3
  <2> HIDE DEF with
  <2>5. CASE vol' \in {[vol EXCEPT ![home] = x] : x \in {engine, c} \cup {part}} /\ Fail(r)
    <3>1. PICK parts : parts = {engine, c} \cup {part}
      OBVIOUS
    <3>2. \A x \in parts : Around(r, x)
      BY <1>4, <2>2, <2>3, <3>1
    <3>3. vol' \in {[vol EXCEPT ![home] = x] : x \in parts} /\ Fail(r)
      BY <2>5, <3>1
    <3> QED BY <1>1, <3>2, <3>3, PartLeft
  <2>6. CASE vol' = [vol EXCEPT ![home] = c] /\ Succeed(r, {})
    <3>1. engine' = c
      BY <1>1, <2>6, Becomes
    <3>2. tainted \subseteq tainted'
      BY <2>6, Invariants, SucceedMoves
    <3>3. \A x \in DBs : SameDb(x)
      BY <1>2, <1>4, <2>1, <2>3, <3>1 DEF SameDb, Around
    <3>4. Unseen
      BY <1>1, <1>4, <2>3, <3>1, <3>2, <3>3 DEF Unseen, SamePass, Role
    <3> QED BY <1>1, <2>6, <3>4, QuietEnds DEF Between
  <2> QED BY <2>4, <2>5, <2>6 DEF pipe_to_docker
<1> QED BY <1>3, <1>7


\* What mongorestore leaves: the database has the users it had, and objects of theirs, or is as it was.
Reloaded(d, c) ==
  /\ c.roles = engine.roles
  /\ c = engine \/ (/\ c.dbs[d] # NONE /\ c.dbs[d].objects = "users"
                    /\ engine.dbs[d] # NONE => c.dbs[d].users = engine.dbs[d].users)

LEMMA MongoRow ==
  ASSUME ~Postgres, NEW us \in SUBSET Users, NEW rows \in Rows, NEW ver \in Versions
  PROVE  /\ Database(us, [rows EXCEPT !.ver = ver]) \in DatabaseRow /\ Database(us, [rows EXCEPT !.ver = ver]) # NONE
         /\ Database(us, [rows EXCEPT !.ver = ver]).users = us /\ Database(us, [rows EXCEPT !.ver = ver]).objects = "users"
<1>1. PICK loaded \in Rows : loaded = [rows EXCEPT !.ver = ver]
  BY DEF Rows
<1>2. Database(us, loaded) \in DatabaseRow
  BY DEF Database, DatabaseRow
<1> QED BY <1>1, <1>2, NoneIsNothing DEF Database

LEMMA MongoLeaves ==
  ASSUME DatabasesInv, AgreeInv, NEW r \in Requests, act[r].pc \in OnDatabase, NEW d \in DBs, d = act[r].db, execute_mongo_restore(r)
  PROVE  \E c, part : /\ pipe_to_docker(r, c, {part}, Succeed(r, {}))
                      /\ Around(r, c) /\ Around(r, part) /\ Reloaded(d, c)
<1>1. act[r].pc = "mongo"
  BY DEF execute_mongo_restore
<1>2. ~Postgres /\ (act[r].rows = NONE \/ act[r].rows \in Rows)
  BY <1>1, Invariants DEF ShapeOf
<1>3. PICK e \in Cluster : e = engine /\ Around(r, e)
  BY EngineGood, AroundItself
<1>4. CASE act[r].rows = NONE
  <2>1. pipe_to_docker(r, e, {e}, Succeed(r, {}))
    BY <1>3, <1>4 DEF execute_mongo_restore
  <2>2. Reloaded(d, e)
    BY <1>3 DEF Reloaded
  <2> QED BY <1>3, <2>1, <2>2
<1>5. CASE act[r].rows # NONE
  <2>1. PICK rows \in Rows : rows = act[r].rows /\ rows.ver \in Versions /\ "part" \in Versions
    BY <1>2, <1>5, Loads
  <2>2. PICK us \in SUBSET Users : us = IF engine.dbs[d] = NONE THEN {} ELSE engine.dbs[d].users
    BY UsersThere
  <2> DEFINE with(ver) == [e EXCEPT !.dbs[d] = Database(us, [rows EXCEPT !.ver = ver])]
  <2>3. pipe_to_docker(r, with(rows.ver), {with("part")}, Succeed(r, {}))
    BY <1>3, <1>5, <2>1, <2>2 DEF execute_mongo_restore
  <2>4. ASSUME NEW ver \in Versions, NEW c, c = with(ver)
        PROVE  Around(r, c) /\ Reloaded(d, c)
    <3>1. PICK x : x = Database(us, [rows EXCEPT !.ver = ver])
      OBVIOUS
    <3>2. x \in DatabaseRow /\ x # NONE /\ x.users = us /\ x.objects = "users"
      BY <1>2, <3>1, MongoRow
    <3>3. c = PutDb(e, d, x)
      BY <2>4, <3>1 DEF PutDb
    <3>4. Around(r, c) /\ c.dbs[d] = x /\ c.roles = e.roles
      BY <1>3, <3>2, <3>3, UsersAround
    <3> QED BY <1>3, <2>2, <3>2, <3>4 DEF Reloaded
  <2> HIDE DEF with
  <2> QED BY <2>1, <2>3, <2>4
<1> QED BY <1>4, <1>5

LEMMA MongoAgrees ==
  ASSUME DatabasesInv, AgreeInv, NEW r \in Requests, execute_mongo_restore(r)
  PROVE  AgreeInv'
<1>1. act[r].pc = "mongo" /\ act[r].pc \in OnDatabase /\ UNCHANGED <<catalog, creds, backups, place>>
  BY DEF execute_mongo_restore, OnDatabase
<1>2. PICK d \in DBs, u \in Users \cup {NONE} : d = act[r].db /\ u = act[r].user
  BY <1>1, Walks
<1>3. PICK c, part : /\ pipe_to_docker(r, c, {part}, Succeed(r, {}))
                     /\ Around(r, c) /\ Around(r, part) /\ Reloaded(d, c)
  BY <1>1, <1>2, MongoLeaves
<1>4. CASE vol' \in {[vol EXCEPT ![home] = x] : x \in {engine, c} \cup {part}} /\ Fail(r)
  <2>1. PICK parts : parts = {engine, c} \cup {part}
    OBVIOUS
  <2>2. \A x \in parts : Around(r, x)
    BY <1>3, <2>1, AroundItself
  <2>3. vol' \in {[vol EXCEPT ![home] = x] : x \in parts} /\ Fail(r)
    BY <1>4, <2>1
  <2> QED BY <1>1, <2>2, <2>3, PartLeft
<1>5. CASE vol' = [vol EXCEPT ![home] = c] /\ Succeed(r, {})
  <2>1. Answered(r, c, {})
    BY <1>1, <1>3, <1>5, CommandAnswers
  <2>2. /\ StepOf(r) /\ SharedOK' /\ engine' = c /\ act'[r].pc = "done" /\ UNCHANGED <<catalog, creds>>
        /\ tainted \subseteq tainted'
    BY <2>1 DEF Answered
  <2>3. \A x \in DBs, v \in Users : SamePass(x, v)
    BY <1>3, <2>2 DEF Reloaded, SamePass, Role
  <2>4. tainted \subseteq tainted' \cup {act[r].db} /\ act[r].pc \notin {"createdb", "store"} /\ ~Between(r)
    BY <1>1, <2>2 DEF Between
  <2>5. ASSUME act[r].alone
        PROVE  creds[d] # NONE /\ creds[d].user \in Users
    <3>1. creds[d] # NONE
      BY <1>1, <1>2, <2>5 DEF AgreeInv, ProgressOK, Progress
    <3> QED BY <3>1, StoredUser
  <2>6. ASSUME Undisturbed(d)'
        PROVE  Undisturbed(d) /\ DbOK(d)
    <3>1. d \notin tainted
      BY <2>2, <2>6 DEF Undisturbed
    <3>2. Undisturbed(d)
      BY <2>2, <2>4, <2>6, <3>1, UndisturbedBefore
    <3> QED BY <3>2 DEF AgreeInv, DbsOK
  <2>7. ASSUME act[r].alone, Undisturbed(d)'
        PROVE  DbOK(d)'
    <3>1. engine.dbs[d] # NONE /\ creds[d].user \in engine.dbs[d].users /\ engine.dbs[d].objects = "users"
      BY <2>5, <2>6, <2>7 DEF DbOK
    <3> QED BY <1>3, <2>2, <2>5, <2>7, <3>1 DEF Reloaded, DbOK
  <2>8. ASSUME act[r].alone, Undisturbed(d)', creds'[d] # NONE, Certain(d)'
        PROVE  PassOK(d)'
    <3>1. Undisturbed(d) /\ creds'[d] = creds[d] /\ creds[d] # NONE /\ SamePass(d, creds[d].user)
      BY <2>2, <2>3, <2>5, <2>6, <2>8
    <3> QED BY <2>2, <2>4, <2>8, <3>1, PassKept
  <2>9. ASSUME NEW x \in DBs \ {d}, ~Mongo, Undisturbed(x)', Trusted(u)', creds'[x] # NONE, creds'[x].user = u
        PROVE  PassOK(x)'
    <3>1. creds'[x] = creds[x] /\ u \in Users
      BY <2>2, <2>9, StoredUser
    <3>2. SamePass(x, u)
      BY <2>3, <3>1
    <3> QED BY <1>2, <2>2, <2>4, <2>9, <3>1, <3>2, NeighbourKept
  <2>10. act'[r].pc \notin OnDatabase
    BY <2>2 DEF OnDatabase
  <2> QED BY <1>2, <2>2, <2>7, <2>8, <2>9, <2>10, Confined
<1> QED BY <1>3, <1>4, <1>5 DEF pipe_to_docker

-----------------------------------------------------------------------------
(* Credentials and databases agree.                                          *)

LEMMA StutterAgrees ==
  ASSUME DatabasesInv, AgreeInv, UNCHANGED vars
  PROVE  AgreeInv'
<1>1. UNCHANGED <<catalog, creds, act, tainted>> /\ engine' = engine
  BY DEF vars, engine
<1>2. Unseen
  BY <1>1, EngineSame
<1>3. \A q \in Requests : Stays(q) /\ Holds(q)
  BY <1>1, StaysHolds DEF Stays
<1>4. SharedOK' /\ DbsOK' /\ PassesOK'
  BY <1>2, <1>3, UnseenKeeps
<1>5. ProgressOK'
  BY <1>2, <1>3, StaysProgress DEF ProgressOK
<1>6. FeetOK' /\ AlonesOK'
  BY <1>1 DEF AgreeInv, FeetOK, AlonesOK, Footed, Active, Postgres
<1> QED BY <1>4, <1>5, <1>6 DEF AgreeInv

LEMMA NextAgrees ==
  ASSUME DatabasesInv, AgreeInv, [Next]_vars
  PROVE  AgreeInv'
<1>1. CASE \E d \in DBs : Write(d)
  BY <1>1, WriteAgrees
<1>2. ASSUME NEW r \in Requests,
             \/ Create(r) \/ Delete(r) \/ ChangePassword(r) \/ SetPrivileges(r)
             \/ Backup(r) \/ Restore(r) \/ RestoreUpload(r) \/ Repair(r) \/ UpdateEnv(r)
      PROVE  AgreeInv'
  BY <1>2, CreateAgrees, DeleteAgrees, ChangePasswordAgrees, SetPrivilegesAgrees, BackupAgrees, RestoreAgrees,
     RestoreUploadAgrees, RepairAgrees, UpdateEnvAgrees
<1>3. ASSUME NEW r \in Requests,
             \/ RoleExists(r) \/ AlterRole(r) \/ CreateInEngine(r) \/ StoreCreated(r)
             \/ PurgeBlobs(r) \/ ReadOwner(r) \/ DropDatabase(r) \/ DropUser(r) \/ ForgetDatabase(r)
             \/ OwnerOf(r) \/ AlterUser(r) \/ StoreChanged(r) \/ OwnerToAlter(r) \/ AlterPrivileges(r)
      PROVE  AgreeInv'
  BY <1>3, RoleExistsAgrees, AlterRoleAgrees, CreateInEngineAgrees, StoreCreatedAgrees, PurgeBlobsAgrees,
     ReadOwnerAgrees, DropDatabaseAgrees, DropUserAgrees, ForgetDatabaseAgrees, OwnerOfAgrees, AlterUserAgrees,
     StoreChangedAgrees, OwnerToAlterAgrees, AlterPrivilegesAgrees
<1>4. ASSUME NEW r \in Requests,
             \/ execute_cluster_backup(r) \/ SaveDump(r)
             \/ Download(r) \/ drop_and_recreate_pg_db(r) \/ restore_postgres(r) \/ fix_object_ownership(r)
             \/ restore_mysql(r) \/ run_mysql(r) \/ execute_mongo_restore(r)
      PROVE  AgreeInv'
  BY <1>4, DumpAgrees, SaveDumpAgrees, DownloadAgrees, RecreatePgAgrees, RestorePgAgrees, FixOwnershipAgrees,
     RestoreMysqlAgrees, RunMysqlAgrees, MongoAgrees
<1>5. ASSUME NEW r \in Requests,
             \/ Quiesce(r) \/ run_copy_container(r) \/ apply_env_update(r) \/ Redeploy(r)
             \/ NotRunning(r)
      PROVE  AgreeInv'
  BY <1>5, QuiesceAgrees, CopyAgrees, ApplyEnvAgrees, RedeployAgrees, NotRunningAgrees
<1>6. CASE UNCHANGED vars
  BY <1>6, StutterAgrees
<1> QED BY <1>1, <1>2, <1>3, <1>4, <1>5, <1>6 DEF Next


LEMMA InitAgrees ==
  ASSUME Init
  PROVE  AgreeInv
<1>1. PICK mine \in SUBSET DBs, u \in Users :
        LET old == [x \in DBs |-> IF x \in mine THEN [of |-> x, ver |-> "old"] ELSE NONE] IN
        /\ vol = [v \in Volumes |->
             IF v # (IF Postgres THEN "anon" ELSE "named") THEN NONE
             ELSE [roles |-> [k \in Roles |-> IF \E x \in mine : k = Role(x, u) THEN [NoRole EXCEPT !.pass = First] ELSE NoRole],
                   dbs |-> [x \in DBs |-> IF x \in mine THEN Database({u}, old[x]) ELSE NONE]]]
        /\ creds = [x \in DBs |-> IF x \in mine THEN [user |-> u, pass |-> First] ELSE NONE]
  BY DEF Init
<1> DEFINE old == [x \in DBs |-> IF x \in mine THEN [of |-> x, ver |-> "old"] ELSE NONE]
           roles == [k \in Roles |-> IF \E x \in mine : k = Role(x, u) THEN [NoRole EXCEPT !.pass = First] ELSE NoRole]
           dbs == [x \in DBs |-> IF x \in mine THEN Database({u}, old[x]) ELSE NONE]
           c == [roles |-> roles, dbs |-> dbs]
<1>2. home = (IF Postgres THEN "anon" ELSE "named") /\ act = [r \in Requests |-> Idle]
  BY DEF Init
<1>3. engine = c
  <2>1. vol = [v \in Volumes |-> IF v # (IF Postgres THEN "anon" ELSE "named") THEN NONE ELSE c]
    BY <1>1
  <2>2. home \in Volumes
    BY <1>2 DEF Volumes
  <2> HIDE DEF c
  <2> QED BY <1>2, <2>1, <2>2 DEF engine
<1>4. \A r \in Requests : act[r].pc = "new"
  BY <1>2 DEF Idle
<1>5. ASSUME NEW x \in DBs
      PROVE  IF x \in mine
             THEN /\ creds[x] # NONE /\ creds[x].user = u /\ creds[x].pass = First
                  /\ engine.dbs[x] # NONE /\ engine.dbs[x].users = {u} /\ engine.dbs[x].objects = "users"
                  /\ engine.roles[Role(x, u)].pass = First
             ELSE creds[x] = NONE /\ engine.dbs[x] = NONE
  <2>1. CASE x \notin mine
    <3>1. engine.dbs[x] = NONE
      BY <1>3, <2>1
    <3> QED BY <1>1, <2>1, <3>1
  <2>2. CASE x \in mine
    <3>1. creds[x] # NONE /\ creds[x].user = u /\ creds[x].pass = First
      <4>1. [user |-> u, pass |-> First] \in Credentials
        BY DEF Credentials, Passwords
      <4>2. creds[x] = [user |-> u, pass |-> First]
        BY <1>1, <2>2
      <4> QED BY <4>1, <4>2, NoneIsNothing
    <3>2. engine.dbs[x] # NONE /\ engine.dbs[x].users = {u} /\ engine.dbs[x].objects = "users"
      <4> DEFINE o == old[x]
      <4>1. o \in Rows
        BY <2>2 DEF Rows, Versions
      <4>2. engine.dbs[x] = Database({u}, o)
        BY <1>3, <2>2
      <4> HIDE DEF o
      <4>3. Database({u}, o) \in DatabaseRow
        BY <4>1 DEF Database, DatabaseRow
      <4> QED BY <4>2, <4>3, NoneIsNothing DEF Database
    <3>3. engine.roles[Role(x, u)].pass = First
      <4>1. PICK k \in Roles : k = Role(x, u)
        BY RoleKey
      <4>2. roles[k] = [NoRole EXCEPT !.pass = First]
        BY <2>2, <4>1
      <4>3. engine.roles = roles
        BY <1>3
      <4> HIDE DEF roles
      <4> QED BY <4>1, <4>2, <4>3 DEF NoRole
    <3> QED BY <2>2, <3>1, <3>2, <3>3
  <2> QED BY <2>1, <2>2
<1> HIDE DEF old, roles, dbs, c
<1>6. SharedOK
  BY <1>5 DEF SharedOK
<1>7. FeetOK /\ AlonesOK /\ ProgressOK
  BY <1>4 DEF FeetOK, AlonesOK, ProgressOK, Active, OnDatabase
<1>8. DbsOK
  BY <1>5 DEF DbsOK, DbOK
<1>9. PassesOK
  BY <1>5 DEF PassesOK, PassOK
<1> QED BY <1>6, <1>7, <1>8, <1>9 DEF AgreeInv

\* The two invariants hold in every state.
THEOREM DatabasesAgreeInductive == Spec => [](DatabasesInv /\ AgreeInv)
<1>1. Init => DatabasesInv /\ AgreeInv
  BY InitHolds, InitAgrees
<1>2. (DatabasesInv /\ AgreeInv) /\ [Next]_vars => (DatabasesInv /\ AgreeInv)'
  BY NextKeeps, NextAgrees
<1> QED BY <1>1, <1>2, PTL DEF Spec

LEMMA SettledIs ==
  ASSUME NEW x, Settled(x)
  PROVE  Undisturbed(x) /\ Trusted(x)
BY DEF Settled, Undisturbed, Trusted, Works

\* Credentials: once every request on a database and on its user has answered ok and none
\* overlapped, the password the panel keeps opens it: store_credentials and the command in the
\* container go together in create, change_password, delete and restore, whoever shares the user.
THEOREM StoredCredentialsWork == Spec => []CredentialsWork
<1>1. DatabasesInv /\ AgreeInv => CredentialsWork
  <2> SUFFICES ASSUME DatabasesInv, AgreeInv, NEW d \in DBs, creds[d] # NONE, Settled(d), Settled(creds[d].user)
               PROVE  engine.roles[Role(d, creds[d].user)].pass = creds[d].pass
    BY DEF CredentialsWork
  <2>1. Undisturbed(d) /\ Trusted(creds[d].user)
    BY SettledIs
  <2>2. Certain(d)
    BY <2>1 DEF Certain, Settled, Works
  <2>3. PassOK(d)
    BY <2>1, <2>2 DEF AgreeInv, PassesOK
  <2> QED BY <2>3 DEF PassOK
<1> QED BY <1>1, DatabasesAgreeInductive, PTL

\* Agreement: a database whose requests all answered ok and did not overlap has credentials exactly
\* when it exists, its user may use it, and its objects are the user's (create_database,
\* delete_database, fix_object_ownership after a restore as the superuser).
THEOREM PanelAndEngineAgree == Spec => []CalmDatabasesAgree
<1>1. DatabasesInv /\ AgreeInv => CalmDatabasesAgree
  <2> SUFFICES ASSUME AgreeInv, NEW d \in DBs, Settled(d)
               PROVE  DbOK(d)
    BY DEF CalmDatabasesAgree, DbOK
  <2>1. Undisturbed(d)
    BY SettledIs
  <2> QED BY <2>1 DEF AgreeInv, DbsOK
<1> QED BY <1>1, DatabasesAgreeInductive, PTL
=============================================================================
