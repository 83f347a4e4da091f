---------------------------- MODULE ProxyProofs ----------------------------
(* Theorems about Proxy, for any set of services, hosts and requests.         *)
EXTENDS Proxy, TLAPS

USE DEF routing, traefik

-----------------------------------------------------------------------------
(* The inductive invariant.                                                  *)

OpNames == {"none", "create", "generate", "update", "activate", "deactivate", "remove", "deploy", "balance",
            "cascade", "remove_service", "remove_stack", "enable", "contact", "platform", "disable", "upgrade",
            "heal", "fallback", "boot"}

\* Steps about a service, those that hold a keep list, and all of them.
Serving == {"insert", "write", "regenerate", "targets", "file", "domains", "balanced", "forget"}
Keeping == {"lock", "pull", "swap"}
Steps == Serving \cup Keeping \cup {"new", "done", "sleep", "begin", "start", "deployed", "failed", "router",
                                    "wait", "stop", "disabled", "status", "heal"}

Local == [op : OpNames, pc : Steps, svc : Services \cup {NONE}, host : Hosts \cup {NONE},
          row : Requests \cup {NONE}, target : Targets, node : {"core", "agent"},
          hosts : SUBSET (Hosts \cup {Panel}), alone : BOOLEAN, version : Versions \cup {NONE},
          back : Versions \cup {NONE}, keep : {NONE} \cup SUBSET (Hosts \cup {Panel})]

\* The columns, the files, and the locals of every actor.
TypesOK ==
  /\ services \subseteq Services
  /\ rows \in [Hosts -> {NoRow} \cup Row]
  /\ core \in [Services -> SUBSET Hosts] /\ agent \in [Services -> SUBSET Hosts]
  /\ panel \in [domain : BOOLEAN, file : BOOLEAN]
  /\ certs \subseteq Hosts \cup {Panel} /\ up \in BOOLEAN
  /\ settings \in [enabled : BOOLEAN, version : Versions, previous : Versions \cup {NONE}]
  /\ dog \in [streak : 0..DownChecksBeforeHeal, backoff : BOOLEAN]
  /\ calm \in [Services -> BOOLEAN]
  /\ act \in [Actors -> Local]

\* What an actor carries at each step.
ShapeOf(q) ==
  /\ q.pc \in Serving => q.svc \in Services /\ q.hosts \subseteq Hosts
  /\ q.pc = "write" => q.host \in Hosts
  /\ q.pc = "targets" \/ (q.pc = "file" /\ q.node = "agent") => q.svc \in Remote
  /\ q.op = "fallback" => q.version \in Versions
ShapesOK == \A a \in Actors : ShapeOf(act[a])

\* The deploy lock has one holder.
LockOK == \A a \in Actors : act[a].pc \in Critical <=> lock = a

\* A row is inserted once and keeps its service: a request that finds the row it read
\* finds it with the service it read.
Started(r) == act[r].pc \notin {"new", "insert"}
RowsOK ==
  /\ \A h \in Hosts : rows[h] # NoRow /\ rows[h].id \in Requests => Started(rows[h].id)
  /\ \A r \in Requests : act[r].pc = "write" =>
       /\ act[r].row \in Requests => Started(act[r].row)
       /\ SameRow(r) => rows[act[r].host].svc = act[r].svc

\* A request that is alone is the only one at work on its service.
AloneOK ==
  \A r \in Requests : act[r].pc \in Serving /\ act[r].alone =>
    \A q \in Requests \ {r} : ~(Active(q) /\ act[q].svc = act[r].svc)

\* A request at one of these steps may have moved rows and file of its service apart; it
\* says so when it ends.
Dirty == {"regenerate", "targets", "file", "forget"}
FilesOK ==
  /\ \A s \in services \ Remote :
       calm[s] /\ (\A r \in Requests : act[r].pc \in Dirty => act[r].svc # s) => core[s] = ActiveHosts(s)
  /\ \A r \in Requests : act[r].pc = "file" /\ act[r].node = "core" /\ act[r].alone =>
       act[r].hosts = ActiveHosts(act[r].svc)

\* A keep list in use lacks only hosts whose row is younger.
KeepsOK ==
  \A a \in Actors : act[a].pc \in Keeping /\ act[a].keep # NONE =>
    \A h \in Hosts : rows[h] # NoRow => h \in act[a].keep \cup young

\* The watchdog is not started before the deploy at the start has ended.
BootOK == act[BootTask].pc # "new" => act[Watchdog].pc = "new"

ProxyInv == TypesOK /\ ShapesOK /\ LockOK /\ RowsOK /\ AloneOK /\ FilesOK /\ KeepsOK /\ BootOK

-----------------------------------------------------------------------------
(* What a step does to the actors.                                           *)

\* Actor b stays where it is, though it may have company now.
Same(b) ==
  /\ act'[b].op = act[b].op /\ act'[b].pc = act[b].pc /\ act'[b].svc = act[b].svc /\ act'[b].host = act[b].host
  /\ act'[b].row = act[b].row /\ act'[b].node = act[b].node /\ act'[b].hosts = act[b].hosts
  /\ act'[b].version = act[b].version /\ act'[b].keep = act[b].keep
  /\ act'[b].alone => act[b].alone

\* Only actor a moves.
Only(a) == act' \in [Actors -> Local] /\ \A b \in Actors \ {a} : Same(b)

\* It keeps what it carries and goes on to step pc.
Proceeds(a, pc) ==
  /\ act'[a].pc = pc /\ act'[a].op = act[a].op /\ act'[a].svc = act[a].svc /\ act'[a].host = act[a].host
  /\ act'[a].row = act[a].row /\ act'[a].node = act[a].node /\ act'[a].hosts = act[a].hosts
  /\ act'[a].version = act[a].version /\ act'[a].keep = act[a].keep /\ act'[a].alone = act[a].alone

\* It is at step pc and has dropped what it carried.
Resets(a, pc) == act'[a] = [Idle EXCEPT !.pc = pc]

LEMMA IdleLocal ==
  ASSUME NEW pc \in Steps
  PROVE  /\ Idle \in Local /\ [Idle EXCEPT !.pc = pc] \in Local
         /\ [Idle EXCEPT !.pc = pc].pc = pc /\ [Idle EXCEPT !.pc = pc].op = "none"
         /\ [Idle EXCEPT !.pc = pc].svc = NONE /\ [Idle EXCEPT !.pc = pc].hosts = {}
<1>1. Idle \in Local
  BY DEF Idle, Local, OpNames, Steps, Targets
<1> QED BY <1>1 DEF Idle, Local

LEMMA ActorsDistinct ==
  /\ NONE \notin Actors /\ Requests \subseteq Actors /\ BootTask \in Actors /\ Watchdog \in Actors
  /\ BootTask \notin Requests /\ Watchdog \notin Requests /\ BootTask # Watchdog
  /\ NONE \notin Services /\ NONE \notin Hosts /\ NONE \notin Requests
BY ProxyConstants DEF Actors

LEMMA NothingMoves ==
  ASSUME TypesOK, UNCHANGED act, NEW a
  PROVE  Only(a)
BY DEF TypesOK, Only, Same

LEMMA Goes ==
  ASSUME TypesOK, NEW a \in Actors, NEW pc \in Steps, Goto(a, pc)
  PROVE  Only(a) /\ Proceeds(a, pc)
<1>1. act \in [Actors -> Local] /\ act[a] \in Local
  BY DEF TypesOK
<1> DEFINE x == [act[a] EXCEPT !.pc = pc]
<1>2. act' = [act EXCEPT ![a] = x]
  BY DEF Goto
<1>3. /\ x \in Local /\ x.pc = pc /\ x.op = act[a].op /\ x.svc = act[a].svc /\ x.host = act[a].host
      /\ x.row = act[a].row /\ x.node = act[a].node /\ x.hosts = act[a].hosts
      /\ x.version = act[a].version /\ x.keep = act[a].keep /\ x.alone = act[a].alone
  BY <1>1 DEF Local
<1> HIDE DEF x
<1> QED BY <1>1, <1>2, <1>3 DEF Only, Same, Proceeds

LEMMA Ends ==
  ASSUME TypesOK, NEW a \in Actors, End(a)
  PROVE  Only(a) /\ Resets(a, "done")
<1> DEFINE x == [Idle EXCEPT !.pc = "done"]
<1>1. x \in Local
  BY IdleLocal DEF Steps
<1>2. act' = [act EXCEPT ![a] = x]
  BY DEF End
<1> HIDE DEF x
<1>3. act'[a] = x
  BY <1>2 DEF TypesOK
<1> QED BY <1>1, <1>2, <1>3 DEF TypesOK, Only, Same, Resets, x

LEMMA CompanyLocal ==
  ASSUME NEW q \in Local
  PROVE  [q EXCEPT !.alone = FALSE] \in Local
BY DEF Local

\* A request for service s arrives with the locals it begins with.
LEMMA Arrived ==
  ASSUME TypesOK, NEW r \in Requests, NEW op \in OpNames, NEW s \in Services \cup {NONE}, NEW local \in Local,
         Arrives(r, op, s, local)
  PROVE  /\ Only(r) /\ act[r].pc = "new"
         /\ act'[r].op = op /\ act'[r].svc = s /\ act'[r].pc = local.pc /\ act'[r].host = local.host
         /\ act'[r].row = local.row /\ act'[r].node = local.node /\ act'[r].hosts = local.hosts
         /\ act'[r].version = local.version /\ act'[r].keep = local.keep
         /\ act'[r].alone => \A q \in Requests \ {r} : ~(Active(q) /\ act[q].svc = s)
         /\ s # NONE => \A q \in Requests \ {r} : Active(q) /\ act[q].svc = s => ~act'[q].alone
<1> DEFINE lonely == \A q \in Requests \ {r} : ~(Active(q) /\ act[q].svc = s)
<1> DEFINE x == [local EXCEPT !.op = op, !.svc = s, !.alone = lonely]
<1> DEFINE company(a) == [act[a] EXCEPT !.alone = FALSE]
<1>1. act \in [Actors -> Local] /\ r \in Actors /\ Requests \subseteq Actors
  BY DEF TypesOK, Actors
<1>2. /\ act[r].pc = "new"
      /\ act' = [a \in Actors |-> IF a = r THEN x
                                  ELSE IF Active(a) /\ s # NONE /\ act[a].svc = s THEN company(a) ELSE act[a]]
  BY DEF Arrives
<1>3. lonely \in BOOLEAN
  OBVIOUS
<1>l. lonely => \A q \in Requests \ {r} : ~(Active(q) /\ act[q].svc = s)
  OBVIOUS
<1> HIDE DEF lonely
<1>4. /\ x \in Local /\ x.op = op /\ x.svc = s /\ x.alone = lonely /\ x.pc = local.pc /\ x.host = local.host
      /\ x.row = local.row /\ x.node = local.node /\ x.hosts = local.hosts
      /\ x.version = local.version /\ x.keep = local.keep
  BY <1>3 DEF Local
<1>5. ASSUME NEW a \in Actors
      PROVE  /\ company(a) \in Local /\ company(a).alone = FALSE
             /\ company(a).op = act[a].op /\ company(a).pc = act[a].pc /\ company(a).svc = act[a].svc
             /\ company(a).host = act[a].host /\ company(a).row = act[a].row /\ company(a).node = act[a].node
             /\ company(a).hosts = act[a].hosts /\ company(a).version = act[a].version
             /\ company(a).keep = act[a].keep
  <2>1. act[a] \in Local
    BY <1>1
  <2>2. company(a) \in Local
    BY <2>1, CompanyLocal
  <2>3. company(a).alone = FALSE
    BY <2>1 DEF Local
  <2> QED BY <2>1, <2>2, <2>3 DEF Local
<1> HIDE DEF x, company
<1>6. act' \in [Actors -> Local]
  BY <1>1, <1>2, <1>4, <1>5
<1>7. ASSUME NEW b \in Actors \ {r}
      PROVE  Same(b) /\ (Active(b) /\ s # NONE /\ act[b].svc = s => ~act'[b].alone)
  <2>1. CASE Active(b) /\ s # NONE /\ act[b].svc = s
    <3>1. act'[b] = company(b) /\ act'[b].alone = FALSE
      BY <1>2, <1>5, <2>1
    <3>2. /\ act'[b].op = act[b].op /\ act'[b].pc = act[b].pc /\ act'[b].svc = act[b].svc
          /\ act'[b].host = act[b].host /\ act'[b].row = act[b].row /\ act'[b].node = act[b].node
      BY <1>5, <3>1
    <3>3. act'[b].hosts = act[b].hosts /\ act'[b].version = act[b].version /\ act'[b].keep = act[b].keep
      BY <1>5, <3>1
    <3> QED BY <3>1, <3>2, <3>3 DEF Same
  <2>2. CASE ~(Active(b) /\ s # NONE /\ act[b].svc = s)
    <3>1. act'[b] = act[b]
      BY <1>2, <2>2
    <3> QED BY <2>2, <3>1 DEF Same
  <2> QED BY <2>1, <2>2
<1>8. act'[r] = x
  BY <1>1, <1>2
<1> QED BY <1>1, <1>2, <1>4, <1>6, <1>7, <1>8, <1>l DEF Only

-----------------------------------------------------------------------------
(* What keeps each part of the invariant.                                    *)

LEMMA ShapesKept ==
  ASSUME ShapesOK, NEW a \in Actors, Only(a), ShapeOf(act'[a])
  PROVE  ShapesOK'
<1> SUFFICES ASSUME NEW b \in Actors PROVE ShapeOf(act'[b])
  BY DEF ShapesOK
<1>1. CASE b # a
  <2>1. ShapeOf(act[b]) /\ Same(b)
    BY <1>1 DEF ShapesOK, Only
  <2> QED BY <2>1 DEF ShapeOf, Same
<1> QED BY <1>1

\* The lock stays, is taken, or is given back.
LockStep(a) ==
  \/ lock' = lock /\ (act'[a].pc \in Critical <=> act[a].pc \in Critical)
  \/ lock = NONE /\ lock' = a /\ act'[a].pc \in Critical
  \/ act[a].pc \in Critical /\ lock' = NONE /\ act'[a].pc \notin Critical

LEMMA LockKept ==
  ASSUME LockOK, NEW a \in Actors, Only(a), LockStep(a)
  PROVE  LockOK'
<1> SUFFICES ASSUME NEW b \in Actors PROVE act'[b].pc \in Critical <=> lock' = b
  BY DEF LockOK
<1>1. /\ act[a].pc \in Critical <=> lock = a
      /\ act[b].pc \in Critical <=> lock = b
      /\ a # NONE /\ b # NONE
  BY ActorsDistinct DEF LockOK
<1>2. CASE b = a
  BY <1>1, <1>2 DEF LockStep
<1>3. CASE b # a
  <2>1. act'[b].pc = act[b].pc
    BY <1>3 DEF Only, Same
  <2> QED BY <1>1, <1>3, <2>1 DEF LockStep
<1> QED BY <1>2, <1>3

\* A row stays, goes, changes without changing its service, or is inserted by a.
RowStep(h, a) ==
  \/ rows'[h] = rows[h] \/ rows'[h] = NoRow
  \/ rows[h] # NoRow /\ rows'[h].id = rows[h].id /\ rows'[h].svc = rows[h].svc
  \/ rows'[h].id = a /\ a \in Requests /\ act[a].pc = "insert" /\ Started(a)'

\* Actor a has just read a row.
Reads(a) ==
  LET h == act'[a].host IN
  /\ h \in Hosts /\ rows[h] # NoRow /\ rows' = rows
  /\ act'[a].row = rows[h].id /\ act'[a].svc = rows[h].svc

LEMMA RowsKept ==
  ASSUME RowsOK, ShapesOK, NEW a \in Actors, Only(a),
         a \in Requests /\ Started(a) => Started(a)',
         a \in Requests /\ act'[a].pc = "write" => Reads(a),
         \A h \in Hosts : RowStep(h, a)
  PROVE  RowsOK'
<1>1. ASSUME NEW q \in Requests, Started(q) PROVE Started(q)'
  <2>1. q \in Actors
    BY ActorsDistinct
  <2> QED BY <1>1, <2>1 DEF Started, Only, Same
<1>2. ASSUME NEW h \in Hosts, rows'[h] # NoRow, rows'[h].id \in Requests
      PROVE  Started(rows[h].id)'
  <2>1. RowStep(h, a)
    OBVIOUS
  <2>2. PICK q \in Requests : q = rows'[h].id
    BY <1>2
  <2>3. CASE rows[h] # NoRow /\ rows[h].id = q
    <3>1. Started(q)
      BY <2>3 DEF RowsOK
    <3> QED BY <1>1, <2>2, <3>1 DEF Started
  <2>4. CASE q = a /\ Started(a)'
    BY <2>2, <2>4 DEF Started
  <2> QED BY <1>2, <2>1, <2>2, <2>3, <2>4 DEF RowStep
<1>3. ASSUME NEW r \in Requests, act'[r].pc = "write"
      PROVE  /\ act'[r].row \in Requests => Started(act[r].row)'
             /\ SameRow(r)' => rows'[act'[r].host].svc = act'[r].svc
  <2>0. r \in Actors
    BY ActorsDistinct
  <2>1. CASE r = a
    <3>1. PICK h \in Hosts : /\ h = act'[a].host /\ rows[h] # NoRow /\ rows' = rows
                             /\ act'[a].row = rows[h].id /\ act'[a].svc = rows[h].svc
      BY <1>3, <2>1 DEF Reads
    <3>2. act'[r].row \in Requests => Started(act[r].row)'
      <4> SUFFICES ASSUME act'[r].row \in Requests PROVE Started(act[r].row)'
        OBVIOUS
      <4>1. PICK q \in Requests : q = act'[r].row
        OBVIOUS
      <4>2. Started(q)
        BY <2>1, <3>1, <4>1 DEF RowsOK
      <4> QED BY <1>1, <4>1, <4>2 DEF Started
    <3> QED BY <2>1, <3>1, <3>2
  <2>2. CASE r # a
    <3>1. /\ act[r].pc = "write" /\ act'[r].row = act[r].row /\ act'[r].host = act[r].host
          /\ act'[r].svc = act[r].svc /\ act[r].host \in Hosts
      BY <1>3, <2>0, <2>2 DEF Only, Same, ShapesOK, ShapeOf
    <3>2. /\ act[r].row \in Requests => Started(act[r].row)
          /\ SameRow(r) => rows[act[r].host].svc = act[r].svc
      BY <3>1 DEF RowsOK
    <3>3. act'[r].row \in Requests => Started(act[r].row)'
      <4> SUFFICES ASSUME act'[r].row \in Requests PROVE Started(act[r].row)'
        OBVIOUS
      <4>1. PICK q \in Requests : q = act'[r].row
        OBVIOUS
      <4>2. Started(q)
        BY <3>1, <3>2, <4>1
      <4> QED BY <1>1, <4>1, <4>2 DEF Started
    <3>4. PICK h \in Hosts : h = act[r].host
      BY <3>1
    <3>5. SameRow(r)' => rows'[h].svc = act[r].svc
      <4> SUFFICES ASSUME rows'[h] # NoRow, rows'[h].id = act[r].row PROVE rows'[h].svc = act[r].svc
        BY <3>1, <3>4 DEF SameRow
      <4>1. RowStep(h, a)
        OBVIOUS
      <4>2. CASE rows[h] # NoRow /\ rows'[h].id = rows[h].id /\ rows'[h].svc = rows[h].svc
        BY <3>2, <3>4, <4>2 DEF SameRow
      <4>3. CASE rows'[h].id = a /\ a \in Requests /\ act[a].pc = "insert"
        BY <3>2, <4>3 DEF Started
      <4> QED BY <4>1, <4>2, <4>3 DEF RowStep
    <3> QED BY <3>1, <3>3, <3>4, <3>5
  <2> QED BY <2>1, <2>2
<1> QED BY <1>2, <1>3 DEF RowsOK

\* Actor a leaves, goes on about its service, or arrives and is seen by the others.
AloneStep(a) ==
  \/ a \notin Requests
  \/ ~Active(a)'
  \/ /\ Active(a) /\ act'[a].svc = act[a].svc /\ (act'[a].alone => act[a].alone)
     /\ act'[a].pc \in Serving => act[a].pc \in Serving
  \/ /\ act'[a].alone => \A q \in Requests \ {a} : ~(Active(q) /\ act[q].svc = act'[a].svc)
     /\ act'[a].svc # NONE => \A q \in Requests \ {a} : Active(q) /\ act[q].svc = act'[a].svc => ~act'[q].alone

LEMMA ServingIsActive ==
  ASSUME NEW r, act[r].pc \in Serving
  PROVE  Active(r)
BY DEF Serving, Active

LEMMA AloneKept ==
  ASSUME AloneOK, ShapesOK, NEW a \in Actors, Only(a), AloneStep(a)
  PROVE  AloneOK'
<1> SUFFICES ASSUME NEW r \in Requests, act'[r].pc \in Serving, act'[r].alone, NEW q \in Requests \ {r}, Active(q)',
                    act'[q].svc = act'[r].svc
             PROVE  FALSE
  BY DEF AloneOK
<1>0. r \in Actors /\ q \in Actors /\ Active(r)'
  BY ActorsDistinct DEF Serving, Active
<1>1. CASE a \notin {r, q}
  <2>1. /\ act[r].pc \in Serving /\ act[r].alone /\ act[q].svc = act[r].svc /\ Active(q)
    BY <1>0, <1>1 DEF Only, Same, Active
  <2> QED BY <2>1 DEF AloneOK
<1>2. CASE a = r
  <2>1. Active(q) /\ act[q].svc = act'[a].svc
    BY <1>0, <1>2 DEF Only, Same, Active
  <2>2. CASE Active(a) /\ act'[a].svc = act[a].svc /\ act[a].alone /\ act[a].pc \in Serving
    BY <1>2, <2>1, <2>2 DEF AloneOK
  <2> QED BY <1>0, <1>2, <2>1, <2>2 DEF AloneStep
<1>3. CASE a = q
  <2>1. act[r].pc \in Serving /\ act[r].alone /\ act[r].svc = act'[q].svc /\ act[r].svc \in Services
    BY <1>0, <1>3 DEF Only, Same, ShapesOK, ShapeOf
  <2>2. Active(r) /\ act'[a].svc # NONE
    BY <1>3, <2>1, ServingIsActive, ActorsDistinct
  <2>3. CASE Active(a) /\ act'[a].svc = act[a].svc
    BY <1>3, <2>1, <2>3 DEF AloneOK
  <2> QED BY <1>0, <1>3, <2>1, <2>2, <2>3 DEF AloneStep
<1> QED BY <1>1, <1>2, <1>3

\* What a step of a may do to the routes of service s: leave rows and file alone, find
\* them in order, or leave a trace.
RouteStep(s, a) ==
  \/ /\ calm'[s] => calm[s]
     /\ core'[s] = core[s] /\ ActiveHosts(s)' = ActiveHosts(s)
     /\ a \in Requests /\ act[a].pc \in Dirty /\ act[a].svc = s => act'[a].pc \in Dirty /\ act'[a].svc = s
  \/ ~calm'[s]
  \/ a \in Requests /\ act'[a].pc \in Dirty /\ act'[a].svc = s
  \/ core'[s] = ActiveHosts(s)'

\* The rows of the service of another request stay, unless that one is not alone.
OthersStay(a) ==
  \A r \in Requests \ {a} : act'[r].pc = "file" /\ act'[r].alone =>
    \A s \in Services : s = act[r].svc => ActiveHosts(s)' = ActiveHosts(s)

\* The targets that request a is to write.
FileRight(a) == act[a].pc = "file" /\ act[a].node = "core" /\ act[a].alone => act[a].hosts = ActiveHosts(act[a].svc)

LEMMA FilesKept ==
  ASSUME FilesOK, ShapesOK, NEW a \in Actors, Only(a), services' \subseteq services,
         \A s \in services' \ Remote : RouteStep(s, a),
         OthersStay(a),
         a \in Requests => FileRight(a)'
  PROVE  FilesOK'
<1>1. ASSUME NEW s \in services' \ Remote, calm'[s], \A r \in Requests : act'[r].pc \in Dirty => act'[r].svc # s
      PROVE  core'[s] = ActiveHosts(s)'
  <2>1. RouteStep(s, a) /\ s \in services \ Remote
    OBVIOUS
  <2>2. CASE /\ calm[s] /\ core'[s] = core[s] /\ ActiveHosts(s)' = ActiveHosts(s)
             /\ a \in Requests /\ act[a].pc \in Dirty /\ act[a].svc = s => act'[a].pc \in Dirty /\ act'[a].svc = s
    <3>1. ASSUME NEW r \in Requests, act[r].pc \in Dirty PROVE act[r].svc # s
      <4>1. r \in Actors
        BY ActorsDistinct
      <4> QED BY <1>1, <2>2, <3>1, <4>1 DEF Only, Same
    <3> QED BY <2>1, <2>2, <3>1 DEF FilesOK
  <2> QED BY <1>1, <2>1, <2>2 DEF RouteStep
<1>2. ASSUME NEW r \in Requests PROVE FileRight(r)'
  <2>1. CASE r = a
    BY <2>1
  <2>2. CASE r # a
    <3>1. Same(r) /\ r \in Actors
      BY <2>2, ActorsDistinct DEF Only
    <3> SUFFICES ASSUME act'[r].pc = "file", act'[r].node = "core", act'[r].alone
                 PROVE  act'[r].hosts = ActiveHosts(act[r].svc)'
      BY DEF FileRight
    <3>2. PICK s \in Services : s = act[r].svc
      BY <3>1 DEF Same, ShapesOK, ShapeOf, Serving
    <3>3. act[r].hosts = ActiveHosts(s)
      BY <3>1, <3>2 DEF FilesOK, Same
    <3>4. ActiveHosts(s)' = ActiveHosts(s)
      BY <2>2, <3>2 DEF OthersStay
    <3>5. act'[r].svc = s /\ act'[r].hosts = act[r].hosts
      BY <3>1, <3>2 DEF Same
    <3> QED BY <3>3, <3>4, <3>5
  <2> QED BY <2>1, <2>2
<1> QED BY <1>1, <1>2 DEF FilesOK, FileRight

\* A step of an active request that leaves the rows of other services alone.
LEMMA OwnRowsOnly ==
  ASSUME AloneOK, NEW a \in Requests, Only(a), Active(a),
         \A s \in Services : s # act[a].svc => ActiveHosts(s)' = ActiveHosts(s)
  PROVE  OthersStay(a)
<1> SUFFICES ASSUME NEW r \in Requests \ {a}, act'[r].pc = "file", act'[r].alone,
                    NEW s \in Services, s = act[r].svc
             PROVE  s # act[a].svc
  BY DEF OthersStay
<1>1. r \in Actors /\ act[r].pc \in Serving /\ act[r].alone
  BY ActorsDistinct DEF Only, Same, Serving
<1> QED BY <1>1 DEF AloneOK

LEMMA RowsStay ==
  ASSUME rows' = rows, NEW s
  PROVE  ActiveHosts(s)' = ActiveHosts(s) /\ RowsOf(s)' = RowsOf(s)
BY DEF ActiveHosts, RowsOf

LEMMA BootKept ==
  ASSUME BootOK, NEW a \in Actors, Only(a), a \in Requests \/ act[a].pc # "new" \/ act' = act
  PROVE  BootOK'
<1>1. BootTask \in Actors /\ Watchdog \in Actors /\ BootTask \notin Requests /\ Watchdog \notin Requests
  BY ActorsDistinct
<1>2. (a # BootTask => act'[BootTask].pc = act[BootTask].pc) /\ (a # Watchdog => act'[Watchdog].pc = act[Watchdog].pc)
  BY <1>1 DEF Only, Same
<1> QED BY <1>1, <1>2, ActorsDistinct DEF BootOK

LEMMA KeepsKept ==
  ASSUME KeepsOK, NEW a \in Actors, Only(a),
         \A h \in Hosts : rows'[h] # NoRow => rows[h] # NoRow \/ h \in young',
         young \subseteq young' \/ \A b \in Actors \ {a} : act[b].pc \notin Keeping,
         act'[a].pc \in Keeping =>
           \/ act[a].pc \in Keeping /\ act'[a].keep = act[a].keep /\ young \subseteq young'
           \/ act'[a].keep = domain_hosts /\ rows' = rows
  PROVE  KeepsOK'
<1> SUFFICES ASSUME NEW b \in Actors, act'[b].pc \in Keeping, act'[b].keep # NONE, NEW h \in Hosts, rows'[h] # NoRow
             PROVE  h \in act'[b].keep \cup young'
  BY DEF KeepsOK
<1>1. CASE b # a
  <2>1. act[b].pc \in Keeping /\ act'[b].keep = act[b].keep
    BY <1>1 DEF Only, Same
  <2> QED BY <1>1, <2>1 DEF KeepsOK
<1>2. CASE b = a /\ act[a].pc \in Keeping /\ act'[a].keep = act[a].keep /\ young \subseteq young'
  BY <1>2 DEF KeepsOK
<1>3. CASE b = a /\ act'[a].keep = domain_hosts /\ rows' = rows
  <2>1. rows[h] # NoRow
    BY <1>3
  <2>2. domain_hosts = {x \in Hosts : rows[x] # NoRow} \cup IF panel.domain THEN {Panel} ELSE {}
    BY <2>1 DEF domain_hosts
  <2> QED BY <1>3, <2>1, <2>2
<1> QED BY <1>1, <1>2, <1>3

-----------------------------------------------------------------------------
(* The invariant holds at the start.                                         *)

LEMMA NoRowIsNoRow == NoRow \notin Row
<1>1. \A x \in Row : x.svc \in Services
  BY DEF Row
<1>2. NoRow.svc = NONE
  BY DEF NoRow
<1> QED BY <1>1, <1>2, ActorsDistinct

LEMMA InitHolds == Init => ProxyInv
<1> SUFFICES ASSUME Init PROVE ProxyInv
  OBVIOUS
<1> DEFINE h == CHOOSE x \in Hosts : TRUE
<1>1. h \in Hosts
  BY ProxyConstants
<1> HIDE DEF h
<1>2. PICK live \in BOOLEAN, s \in Services :
        /\ services = Services
        /\ rows = [x \in Hosts |-> IF x = h THEN [id |-> NONE, svc |-> s, active |-> live, generated |-> FALSE, target |-> "web"]
                                   ELSE NoRow]
        /\ core = [x \in Services |-> IF x = s /\ s \notin Remote THEN IF live THEN {h} ELSE {} ELSE {}]
        /\ agent = [x \in Services |-> IF x = s /\ s \in Remote THEN IF live THEN {h} ELSE {} ELSE {}]
        /\ panel = [domain |-> TRUE, file |-> TRUE]
        /\ certs = Hosts \cup {Panel}
        /\ up = TRUE
        /\ settings = [enabled |-> TRUE, version |-> Default, previous |-> NONE]
        /\ lock = NONE
        /\ act = [a \in Actors |-> IF a = Watchdog THEN [Idle EXCEPT !.pc = "sleep"] ELSE Idle]
        /\ dog = [streak |-> 0, backoff |-> FALSE]
        /\ calm = [x \in Services |-> TRUE]
        /\ young = {}
  BY DEF Init, h
<1> DEFINE row == [id |-> NONE, svc |-> s, active |-> live, generated |-> FALSE, target |-> "web"]
<1>3. row \in Row /\ row # NoRow /\ row.id = NONE /\ row.svc = s /\ row.active = live
  <2>1. row \in Row
    BY DEF Row, Targets
  <2> HIDE DEF row
  <2>2. row # NoRow
    BY <2>1, NoRowIsNoRow
  <2> QED BY <2>1, <2>2 DEF row
<1>4. rows = [x \in Hosts |-> IF x = h THEN row ELSE NoRow]
  BY <1>2
<1> HIDE DEF row
<1>5. \A a \in Actors : /\ act[a] \in Local /\ act[a].pc \in {"new", "sleep"} /\ act[a].op = "none"
  BY <1>2, IdleLocal DEF Steps, Idle
<1>6. TypesOK
  <2>1. services \subseteq Services /\ rows \in [Hosts -> {NoRow} \cup Row]
    BY <1>2, <1>3, <1>4
  <2>2. core \in [Services -> SUBSET Hosts] /\ agent \in [Services -> SUBSET Hosts]
    BY <1>1, <1>2
  <2>3. panel \in [domain : BOOLEAN, file : BOOLEAN] /\ certs \subseteq Hosts \cup {Panel} /\ up \in BOOLEAN
    BY <1>2
  <2>4. settings \in [enabled : BOOLEAN, version : Versions, previous : Versions \cup {NONE}]
    BY <1>2 DEF Versions
  <2>5. dog \in [streak : 0..DownChecksBeforeHeal, backoff : BOOLEAN] /\ calm \in [Services -> BOOLEAN]
    BY <1>2 DEF DownChecksBeforeHeal
  <2>6. act \in [Actors -> Local]
    BY <1>2, <1>5
  <2> QED BY <2>1, <2>2, <2>3, <2>4, <2>5, <2>6 DEF TypesOK
<1>7. ShapesOK /\ LockOK /\ KeepsOK
  BY <1>2, <1>5, ActorsDistinct DEF ShapesOK, ShapeOf, Serving, LockOK, Critical, KeepsOK, Keeping
<1>8. RowsOK /\ AloneOK
  BY <1>3, <1>4, <1>5, ActorsDistinct DEF RowsOK, AloneOK, Serving
<1>9. FilesOK
  <2>1. ASSUME NEW x \in services \ Remote PROVE core[x] = ActiveHosts(x)
    <3>1. CASE x = s
      BY <1>1, <1>2, <1>3, <1>4, <2>1, <3>1 DEF ActiveHosts, RowsOf
    <3>2. CASE x # s
      BY <1>1, <1>2, <1>3, <1>4, <2>1, <3>2 DEF ActiveHosts, RowsOf
    <3> QED BY <3>1, <3>2
  <2> QED BY <1>5, <2>1, ActorsDistinct DEF FilesOK
<1>10. BootOK
  BY <1>2, ActorsDistinct DEF BootOK, Idle
<1> QED BY <1>6, <1>7, <1>8, <1>9, <1>10 DEF ProxyInv

-----------------------------------------------------------------------------
(* Steps that leave rows and files alone.                                    *)

RoutesStay ==
  /\ services' = services /\ rows' = rows /\ calm' = calm /\ young' = young
  /\ \A s \in services : core'[s] = core[s]

LEMMA ElsewhereKeeps ==
  ASSUME ProxyInv, TypesOK', NEW a \in Actors, Only(a), RoutesStay,
         ShapeOf(act'[a]), LockStep(a), AloneStep(a),
         a \in Requests \/ act[a].pc # "new" \/ act' = act,
         a \in Requests /\ Started(a) => Started(a)',
         a \in Requests /\ act'[a].pc = "write" => Reads(a),
         a \in Requests /\ act[a].pc \in Dirty => act'[a].pc \in Dirty /\ act'[a].svc = act[a].svc,
         a \in Requests => FileRight(a)',
         act'[a].pc \in Keeping => act[a].pc \in Keeping /\ act'[a].keep = act[a].keep
  PROVE  ProxyInv'
<1> USE DEF ProxyInv, RoutesStay
<1>1. ShapesOK' /\ LockOK' /\ AloneOK'
  BY ShapesKept, LockKept, AloneKept
<1>2. RowsOK'
  BY RowsKept DEF RowStep
<1>3. FilesOK'
  <2>1. ASSUME NEW s \in services' \ Remote PROVE RouteStep(s, a)
    BY RowsStay DEF RouteStep
  <2>2. OthersStay(a)
    BY RowsStay DEF OthersStay
  <2> QED BY <2>1, <2>2, FilesKept
<1>4. KeepsOK' /\ BootOK'
  BY KeepsKept, BootKept
<1> QED BY <1>1, <1>2, <1>3, <1>4

LEMMA NothingMovesKeeps ==
  ASSUME ProxyInv, TypesOK', UNCHANGED <<act, lock>>, RoutesStay
  PROVE  ProxyInv'
<1> DEFINE a == Watchdog
<1>1. a \in Actors /\ a \notin Requests
  BY ActorsDistinct
<1> HIDE DEF a
<1>2. Only(a)
  BY NothingMoves DEF ProxyInv
<1>3. ShapeOf(act'[a]) /\ LockStep(a) /\ AloneStep(a)
  BY <1>1 DEF ProxyInv, ShapesOK, LockStep, AloneStep
<1> QED BY <1>1, <1>2, <1>3, ElsewhereKeeps DEF ProxyInv, KeepsOK

\* A step of a task, of the deploy or of a handler that is about no service.
LEMMA TaskKeeps ==
  ASSUME ProxyInv, TypesOK', NEW a \in Actors, Only(a), RoutesStay, LockStep(a),
         act[a].pc \notin Serving \cup {"new"},
         act'[a].pc \notin Serving,
         act'[a].op = "fallback" => act'[a].version \in Versions,
         a \in Requests => act'[a].pc # "new" /\ (~Active(a)' \/ (Active(a) /\ act'[a].svc = act[a].svc /\ act'[a].alone = act[a].alone)),
         act'[a].pc \in Keeping => act[a].pc \in Keeping /\ act'[a].keep = act[a].keep
  PROVE  ProxyInv'
<1>1. ShapeOf(act'[a])
  BY DEF ShapeOf, Serving
<1>2. AloneStep(a)
  BY DEF AloneStep
<1>3. /\ a \in Requests => Started(a)'
      /\ act'[a].pc # "write" /\ act[a].pc \notin Dirty
      /\ FileRight(a)'
  BY DEF Started, Serving, Dirty, FileRight
<1> QED BY <1>1, <1>2, <1>3, ElsewhereKeeps

\* The same when the actor goes on, or ends.
LEMMA TaskGoes ==
  ASSUME ProxyInv, TypesOK', NEW a \in Actors, NEW pc \in Steps \ (Serving \cup {"new"}), Goto(a, pc), RoutesStay,
         act[a].pc \notin Serving \cup {"new", "done", "sleep"}, LockStep(a),
         pc \in Keeping => act[a].pc \in Keeping
  PROVE  ProxyInv'
<1>1. TypesOK /\ ShapeOf(act[a])
  BY DEF ProxyInv, ShapesOK
<1>2. Only(a) /\ Proceeds(a, pc)
  BY <1>1, Goes
<1> QED BY <1>1, <1>2, TaskKeeps DEF Proceeds, ShapeOf, Active

LEMMA TaskEnds ==
  ASSUME ProxyInv, TypesOK', NEW a \in Actors, End(a), RoutesStay,
         act[a].pc \notin Serving \cup {"new"} \cup Critical, lock' = lock
  PROVE  ProxyInv'
<1>1. Only(a) /\ Resets(a, "done")
  BY Ends DEF ProxyInv
<1>2. act'[a].pc = "done" /\ act'[a].op = "none"
  BY <1>1, IdleLocal DEF Resets, Steps
<1>3. LockStep(a)
  BY <1>2 DEF LockStep, Critical
<1> QED BY <1>1, <1>2, <1>3, TaskKeeps DEF Active, Serving, Keeping

-----------------------------------------------------------------------------
(* The deploy of Traefik.                                                    *)

LEMMA PruneTyped ==
  ASSUME TypesOK, NEW keep
  PROVE  prune_certificates(keep) \subseteq certs
BY DEF prune_certificates

LEMMA DeployKeeps ==
  ASSUME ProxyInv, NEW a \in Actors, DeployStep(a)
  PROVE  ProxyInv'
<1>0. TypesOK /\ LockOK
  BY DEF ProxyInv
<1> USE DEF Steps, Serving, Keeping, Critical
<1>1. CASE TakeLock(a)
  <2>1. /\ act[a].pc = "lock" /\ lock = NONE /\ lock' = a /\ Goto(a, "pull")
        /\ UNCHANGED <<routing, certs, up, settings, dog>>
    BY <1>1 DEF TakeLock
  <2>2. Only(a) /\ Proceeds(a, "pull")
    BY <1>0, <2>1, Goes
  <2>3. TypesOK'
    BY <1>0, <2>1, <2>2 DEF TypesOK, Only
  <2>4. RoutesStay /\ LockStep(a)
    BY <2>1, <2>2 DEF RoutesStay, LockStep, Proceeds
  <2> QED BY <2>1, <2>3, <2>4, TaskGoes
<1>2. CASE Pull(a)
  <2>1. /\ act[a].pc = "pull" /\ UNCHANGED <<routing, certs, up, settings, dog>>
        /\ \/ Goto(a, "swap") /\ UNCHANGED lock
           \/ Goto(a, "failed") /\ lock' = NONE
    BY <1>2 DEF Pull
  <2>2. CASE Goto(a, "swap") /\ UNCHANGED lock
    <3>1. Only(a) /\ Proceeds(a, "swap")
      BY <1>0, <2>2, Goes
    <3>2. TypesOK'
      BY <1>0, <2>1, <3>1 DEF TypesOK, Only
    <3>3. RoutesStay /\ LockStep(a)
      BY <2>1, <2>2, <3>1 DEF RoutesStay, LockStep, Proceeds
    <3> QED BY <2>1, <2>2, <3>2, <3>3, TaskGoes
  <2>3. CASE Goto(a, "failed") /\ lock' = NONE
    <3>1. Only(a) /\ Proceeds(a, "failed")
      BY <1>0, <2>3, Goes
    <3>2. TypesOK'
      BY <1>0, <2>1, <3>1 DEF TypesOK, Only
    <3>3. RoutesStay /\ LockStep(a)
      BY <2>1, <2>3, <3>1 DEF RoutesStay, LockStep, Proceeds
    <3> QED BY <2>1, <2>3, <3>2, <3>3, TaskGoes
  <2> QED BY <2>1, <2>2, <2>3
<1>3. CASE Swap(a)
  <2>1. /\ act[a].pc = "swap" /\ up' = FALSE /\ certs' = prune_certificates(act[a].keep) /\ Goto(a, "start")
        /\ UNCHANGED <<routing, settings, lock, dog>>
    BY <1>3 DEF Swap
  <2>2. Only(a) /\ Proceeds(a, "start")
    BY <1>0, <2>1, Goes
  <2>3. certs' \subseteq certs
    BY <1>0, <2>1, PruneTyped
  <2>4. TypesOK'
    BY <1>0, <2>1, <2>2, <2>3 DEF TypesOK, Only
  <2>5. RoutesStay /\ LockStep(a)
    BY <2>1, <2>2 DEF RoutesStay, LockStep, Proceeds
  <2> QED BY <2>1, <2>4, <2>5, TaskGoes
<1>4. CASE Start(a)
  <2>1. /\ act[a].pc = "start" /\ lock' = NONE /\ UNCHANGED <<routing, certs, settings, dog>>
        /\ up' \in BOOLEAN
        /\ \E pc \in {"failed", "deployed"} : Goto(a, pc)
    BY <1>0, <1>4 DEF Start, TypesOK
  <2>2. PICK pc \in {"failed", "deployed"} : Goto(a, pc)
    BY <2>1
  <2>3. Only(a) /\ Proceeds(a, pc)
    BY <1>0, <2>2, Goes
  <2>4. TypesOK'
    BY <1>0, <2>1, <2>3 DEF TypesOK, Only
  <2>5. RoutesStay /\ LockStep(a)
    BY <2>1, <2>2, <2>3 DEF RoutesStay, LockStep, Proceeds
  <2> QED BY <2>1, <2>2, <2>4, <2>5, TaskGoes
<1> QED BY <1>1, <1>2, <1>3, <1>4 DEF DeployStep

LEMMA OrphansTyped ==
  ASSUME TypesOK
  PROVE  /\ remove_orphan_service_configs(core) \in [Services -> SUBSET Hosts]
         /\ \A s \in services : remove_orphan_service_configs(core)[s] = core[s]
BY DEF TypesOK, remove_orphan_service_configs

\* redeploy_from_settings reads the keep list and waits for the lock.
LEMMA RedeployKeeps ==
  ASSUME ProxyInv, NEW a \in Actors, NEW version \in Versions \cup {NONE}, NEW back \in Versions \cup {NONE},
         Redeploy(a, version, back), act[a].pc = "begin", version = act[a].version, UNCHANGED traefik
  PROVE  ProxyInv'
<1>0. TypesOK /\ act[a] \in Local /\ act \in [Actors -> Local]
  BY DEF ProxyInv, TypesOK
<1> DEFINE x == [act[a] EXCEPT !.pc = "lock", !.version = version, !.back = back, !.keep = domain_hosts]
<1>1. /\ core' = remove_orphan_service_configs(core)
      /\ young' = IF \E b \in Actors \ {a} : act[b].pc \in {"lock", "pull", "swap"} THEN young ELSE {}
      /\ UNCHANGED <<services, rows, agent, panel, calm>>
  BY DEF Redeploy
<1>2. domain_hosts \in {NONE} \cup SUBSET (Hosts \cup {Panel})
  BY DEF domain_hosts
<1>3. act' = [act EXCEPT ![a] = x]
  BY DEF Redeploy
<1>4. /\ x \in Local /\ x.pc = "lock" /\ x.op = act[a].op /\ x.svc = act[a].svc /\ x.version = act[a].version
      /\ x.keep = domain_hosts /\ x.alone = act[a].alone
  <2>0. "lock" \in Steps
    BY DEF Steps, Keeping
  <2>1. x \in Local
    <3>1. PICK k \in Local : act[a] = k
      BY <1>0
    <3> DEFINE keep == domain_hosts
               y == [k EXCEPT !.pc = "lock", !.version = version, !.back = back, !.keep = keep]
    <3>2. keep \in {NONE} \cup SUBSET (Hosts \cup {Panel})
      BY <1>2
    <3>3. x = y
      BY <3>1
    <3> HIDE DEF keep
    <3>4. y \in Local
      BY <2>0, <3>2 DEF Local
    <3> HIDE DEF y, x
    <3> QED BY <3>3, <3>4
  <2>2. x.alone = act[a].alone
    BY <1>0 DEF Local
  <2>3. x.pc = "lock" /\ x.op = act[a].op /\ x.svc = act[a].svc
    BY <1>0 DEF Local
  <2>4. x.version = act[a].version /\ x.keep = domain_hosts
    BY <1>0 DEF Local
  <2> QED BY <2>1, <2>2, <2>3, <2>4
<1> HIDE DEF x
<1>5. Only(a) /\ act'[a] = x
  BY <1>0, <1>3, <1>4 DEF Only, Same
<1>6. TypesOK'
  BY <1>0, <1>1, <1>5, OrphansTyped DEF TypesOK, Only
<1>7. ShapeOf(act'[a])
  BY <1>4, <1>5 DEF ProxyInv, ShapesOK, ShapeOf, Serving
<1>8. LockStep(a) /\ AloneStep(a)
  BY <1>4, <1>5 DEF LockStep, AloneStep, Critical, Active, Serving
<1> USE DEF ProxyInv
<1>9. ShapesOK' /\ LockOK' /\ AloneOK'
  BY <1>5, <1>7, <1>8, ShapesKept, LockKept, AloneKept
<1>10. RowsOK'
  <2>1. Started(a)' /\ act'[a].pc # "write"
    BY <1>4, <1>5 DEF Started
  <2> QED BY <1>1, <1>5, <2>1, RowsKept DEF RowStep
<1>11. FilesOK'
  <2>1. ASSUME NEW s \in services' \ Remote PROVE RouteStep(s, a)
    <3>1. core'[s] = core[s] /\ calm' = calm /\ act[a].pc \notin Dirty
      BY <1>0, <1>1, OrphansTyped DEF Dirty
    <3> QED BY <1>1, <3>1, RowsStay DEF RouteStep
  <2>2. OthersStay(a)
    BY <1>1, RowsStay DEF OthersStay
  <2>3. FileRight(a)'
    BY <1>4, <1>5 DEF FileRight
  <2> QED BY <1>1, <1>5, <2>1, <2>2, <2>3, FilesKept
<1>12. KeepsOK'
  <2>1. young \subseteq young' \/ \A b \in Actors \ {a} : act[b].pc \notin Keeping
    BY <1>1 DEF Keeping
  <2> QED BY <1>1, <1>4, <1>5, <2>1, KeepsKept
<1>13. BootOK'
  BY <1>5, BootKept
<1> QED BY <1>6, <1>9, <1>10, <1>11, <1>12, <1>13

-----------------------------------------------------------------------------
(* Handlers of the proxy itself, and what nobody asks for.                   *)

Settings == [enabled : BOOLEAN, version : Versions, previous : Versions \cup {NONE}]

LEMMA SettingsTyped ==
  ASSUME TypesOK
  PROVE  /\ \A b \in BOOLEAN : [settings EXCEPT !.enabled = b] \in Settings
         /\ \A v \in Versions : [settings EXCEPT !.version = v] \in Settings
         /\ \A v \in Versions : [settings EXCEPT !.previous = settings.version, !.version = v] \in Settings
         /\ settings \in Settings /\ settings.version \in Versions /\ settings.previous \in Versions \cup {NONE}
<1>1. settings \in Settings
  BY DEF TypesOK, Settings
<1>2. \A b \in BOOLEAN : [settings EXCEPT !.enabled = b] \in Settings
  BY <1>1 DEF Settings
<1>3. \A v \in Versions : [settings EXCEPT !.version = v] \in Settings
  BY <1>1 DEF Settings
<1>4. \A v \in Versions : [settings EXCEPT !.previous = settings.version, !.version = v] \in Settings
  BY <1>1 DEF Settings
<1> QED BY <1>1, <1>2, <1>3, <1>4 DEF Settings

LEMMA PanelTyped ==
  ASSUME TypesOK
  PROVE  /\ \A b \in BOOLEAN : [panel EXCEPT !.domain = b] \in [domain : BOOLEAN, file : BOOLEAN]
         /\ \A b \in BOOLEAN : [panel EXCEPT !.file = b] \in [domain : BOOLEAN, file : BOOLEAN]
         /\ panel.domain \in BOOLEAN
BY DEF TypesOK

LEMMA HandlerKeeps ==
  ASSUME ProxyInv, NEW r \in Requests,
         \/ Begin(r) \/ FinishEnable(r) \/ WritePlatformRouter(r)
         \/ StopTraefik(r) \/ Stopped(r) \/ FinishDisable(r)
         \/ UpdateDeploys(r) \/ UpdateRollsBack(r) \/ FinishUpdate(r)
  PROVE  ProxyInv'
<1>0. TypesOK /\ r \in Actors /\ act[r] \in Local /\ ShapeOf(act[r])
  BY ActorsDistinct DEF ProxyInv, TypesOK, ShapesOK
<1>00. act[r].version \in Versions \cup {NONE} /\ act[r].back \in Versions \cup {NONE}
  BY <1>0 DEF Local
<1> USE DEF Steps, Serving, Keeping, Critical
<1>1. CASE Begin(r)
  <2>1. act[r].pc = "begin" /\ Redeploy(r, act[r].version, NONE) /\ UNCHANGED traefik
    BY <1>1 DEF Begin
  <2> QED BY <1>0, <1>00, <2>1, RedeployKeeps
<1>2. CASE UpdateDeploys(r)
  <2>1. act[r].pc = "begin" /\ Redeploy(r, act[r].version, act[r].back) /\ UNCHANGED traefik
    BY <1>2 DEF UpdateDeploys
  <2> QED BY <1>0, <1>00, <2>1, RedeployKeeps
<1>3. CASE FinishEnable(r)
  <2>1. /\ act[r].pc \in {"deployed", "failed"} /\ End(r) /\ UNCHANGED <<routing, certs, up, lock, dog>>
        /\ settings' \in Settings
    BY <1>0, <1>3, SettingsTyped DEF FinishEnable
  <2>2. Only(r)
    BY <1>0, <2>1, Ends
  <2>3. TypesOK'
    BY <1>0, <2>1, <2>2 DEF TypesOK, Only, Settings
  <2> QED BY <1>0, <2>1, <2>3, TaskEnds DEF RoutesStay
<1>4. CASE WritePlatformRouter(r)
  <2>1. /\ act[r].pc = "router" /\ End(r) /\ UNCHANGED <<services, rows, core, agent, calm, young, traefik>>
        /\ panel' \in [domain : BOOLEAN, file : BOOLEAN]
    BY <1>0, <1>4, PanelTyped DEF WritePlatformRouter
  <2>2. Only(r)
    BY <1>0, <2>1, Ends
  <2>3. TypesOK'
    BY <1>0, <2>1, <2>2 DEF TypesOK, Only
  <2> QED BY <1>0, <2>1, <2>3, TaskEnds DEF RoutesStay
<1>5. CASE StopTraefik(r)
  <2>1. /\ act[r].pc = "wait" /\ lock = NONE /\ lock' = r /\ Goto(r, "stop")
        /\ UNCHANGED <<routing, certs, up, settings, dog>>
    BY <1>5 DEF StopTraefik, MayStop
  <2>2. Only(r) /\ Proceeds(r, "stop")
    BY <1>0, <2>1, Goes
  <2>3. TypesOK'
    BY <1>0, <2>1, <2>2 DEF TypesOK, Only
  <2>4. RoutesStay /\ LockStep(r)
    BY <2>1, <2>2 DEF RoutesStay, LockStep, Proceeds
  <2> QED BY <1>0, <2>1, <2>3, <2>4, TaskGoes
<1>6. CASE Stopped(r)
  <2>1. /\ act[r].pc = "stop" /\ up' = FALSE /\ lock' = NONE /\ Goto(r, "disabled")
        /\ UNCHANGED <<routing, certs, settings, dog>>
    BY <1>6 DEF Stopped
  <2>2. Only(r) /\ Proceeds(r, "disabled")
    BY <1>0, <2>1, Goes
  <2>3. TypesOK'
    BY <1>0, <2>1, <2>2 DEF TypesOK, Only
  <2>4. RoutesStay /\ LockStep(r)
    BY <2>1, <2>2 DEF RoutesStay, LockStep, Proceeds
  <2> QED BY <1>0, <2>1, <2>3, <2>4, TaskGoes
<1>7. CASE FinishDisable(r)
  <2>1. /\ act[r].pc = "disabled" /\ End(r) /\ UNCHANGED <<routing, certs, up, lock, dog>>
        /\ settings' \in Settings
    BY <1>0, <1>7, SettingsTyped DEF FinishDisable
  <2>2. Only(r)
    BY <1>0, <2>1, Ends
  <2>3. TypesOK'
    BY <1>0, <2>1, <2>2 DEF TypesOK, Only, Settings
  <2> QED BY <1>0, <2>1, <2>3, TaskEnds DEF RoutesStay
<1>8. CASE UpdateRollsBack(r)
  <2> DEFINE x == [act[r] EXCEPT !.pc = "begin", !.version = act[r].back, !.back = NONE]
  <2>1. /\ act[r].pc = "failed" /\ act[r].op = "upgrade" /\ act[r].back # NONE
        /\ settings' = [settings EXCEPT !.version = act[r].back]
        /\ UNCHANGED <<routing, certs, up, lock, dog>>
    BY <1>8 DEF UpdateRollsBack
  <2>2. act[r].back \in Versions /\ settings' \in Settings
    BY <1>0, <1>00, <2>1, SettingsTyped
  <2>3. act' = [act EXCEPT ![r] = x]
    BY <1>8 DEF UpdateRollsBack
  <2>4. "begin" \in Steps
    OBVIOUS
  <2> HIDE DEF Steps
  <2>5. x \in Local
    BY <1>0, <2>2, <2>4 DEF Local
  <2>6. x.alone = act[r].alone
    BY <1>0 DEF Local
  <2>7. x.pc = "begin" /\ x.op = act[r].op /\ x.svc = act[r].svc
    BY <1>0 DEF Local
  <2> HIDE DEF x
  <2>8. Only(r) /\ act'[r] = x
    BY <1>0, <2>3, <2>5 DEF Only, Same, TypesOK
  <2>9. TypesOK'
    BY <1>0, <2>1, <2>2, <2>8 DEF TypesOK, Only, Settings
  <2>10. LockStep(r)
    BY <2>1, <2>7, <2>8 DEF LockStep
  <2> QED BY <1>0, <2>1, <2>6, <2>7, <2>8, <2>9, <2>10, TaskKeeps DEF RoutesStay, Active
<1>9. CASE FinishUpdate(r)
  <2>1. /\ act[r].pc \in {"deployed", "failed"} /\ End(r) /\ UNCHANGED <<routing, traefik>>
    BY <1>9 DEF FinishUpdate
  <2>2. Only(r)
    BY <1>0, <2>1, Ends
  <2>3. TypesOK'
    BY <1>0, <2>1, <2>2 DEF TypesOK, Only
  <2> QED BY <1>0, <2>1, <2>3, TaskEnds DEF RoutesStay
<1> QED BY <1>1, <1>2, <1>3, <1>4, <1>5, <1>6, <1>7, <1>8, <1>9

\* A step of the watchdog, which no request is.
LEMMA WatchdogMoves ==
  ASSUME ProxyInv, TypesOK', NEW x \in Local, act' = [act EXCEPT ![Watchdog] = x], RoutesStay, lock' = lock,
         act[Watchdog].pc \notin Serving \cup {"new"} \cup Critical,
         x.pc \notin Serving \cup Critical \cup Keeping,
         x.op = "fallback" => x.version \in Versions
  PROVE  ProxyInv'
<1>1. Watchdog \in Actors /\ Watchdog \notin Requests /\ TypesOK
  BY ActorsDistinct DEF ProxyInv
<1>2. Only(Watchdog) /\ act'[Watchdog] = x
  BY <1>1 DEF TypesOK, Only, Same
<1>3. LockStep(Watchdog)
  BY <1>2 DEF LockStep
<1> QED BY <1>1, <1>2, <1>3, TaskKeeps

LEMMA WatchdogKeeps ==
  ASSUME ProxyInv, WatchdogStep
  PROVE  ProxyInv'
<1>0. /\ TypesOK /\ Watchdog \in Actors /\ act[Watchdog] \in Local /\ ShapeOf(act[Watchdog])
      /\ act \in [Actors -> Local]
  BY ActorsDistinct DEF ProxyInv, TypesOK, ShapesOK
<1>00. act[Watchdog].version \in Versions \cup {NONE} /\ act[Watchdog].back \in Versions \cup {NONE}
  BY <1>0 DEF Local
<1>a. /\ "sleep" \in Steps /\ "status" \in Steps /\ "heal" \in Steps /\ "begin" \in Steps
      /\ "heal" \in OpNames /\ "fallback" \in OpNames
  BY DEF Steps, OpNames
<1>b. ASSUME NEW pc \in {"sleep", "status", "heal"}, Goto(Watchdog, pc), TypesOK', RoutesStay, lock' = lock,
             act[Watchdog].pc \in {"sleep", "status"}
      PROVE  ProxyInv'
  <2> DEFINE x == [act[Watchdog] EXCEPT !.pc = pc]
  <2>1. act' = [act EXCEPT ![Watchdog] = x]
    BY <1>b DEF Goto
  <2>2. pc \in Steps
    BY <1>a
  <2>3. x \in Local /\ x.pc = pc /\ x.op = act[Watchdog].op /\ x.version = act[Watchdog].version
    BY <1>0, <2>2 DEF Local
  <2> HIDE DEF x
  <2> QED BY <1>0, <1>b, <2>1, <2>3, WatchdogMoves DEF ShapeOf, Serving, Critical, Keeping
<1>c. ASSUME Rest, TypesOK', RoutesStay, lock' = lock, act[Watchdog].pc \in {"deployed", "failed"}
      PROVE  ProxyInv'
  <2> DEFINE x == [Idle EXCEPT !.pc = "sleep"]
  <2>1. x \in Local /\ x.pc = "sleep" /\ x.op = "none"
    BY <1>a, IdleLocal
  <2>2. act' = [act EXCEPT ![Watchdog] = x]
    BY <1>c DEF Rest
  <2> HIDE DEF x
  <2> QED BY <1>c, <2>1, <2>2, WatchdogMoves DEF Serving, Critical, Keeping
<1>d. ASSUME Rest PROVE act' \in [Actors -> Local]
  <2> DEFINE x == [Idle EXCEPT !.pc = "sleep"]
  <2>1. x \in Local
    BY <1>a, IdleLocal
  <2>2. act' = [act EXCEPT ![Watchdog] = x]
    BY <1>d DEF Rest
  <2> HIDE DEF x
  <2> QED BY <1>0, <2>1, <2>2
<1>1. CASE Check
  <2>1. /\ act[Watchdog].pc = "sleep" /\ UNCHANGED <<routing, certs, up, settings, lock>>
        /\ \/ Goto(Watchdog, "status") /\ UNCHANGED dog
           \/ dog' = [dog EXCEPT !.streak = 0] /\ UNCHANGED act
    BY <1>1 DEF Check, WatchdogIs
  <2>2. CASE Goto(Watchdog, "status") /\ UNCHANGED dog
    <3>1. Only(Watchdog)
      BY <1>0, <1>a, <2>2, Goes
    <3>2. TypesOK'
      BY <1>0, <2>1, <2>2, <3>1 DEF TypesOK, Only
    <3> QED BY <1>b, <2>1, <2>2, <3>2 DEF RoutesStay
  <2>3. CASE dog' = [dog EXCEPT !.streak = 0] /\ UNCHANGED act
    <3>1. dog' \in [streak : 0..DownChecksBeforeHeal, backoff : BOOLEAN]
      BY <1>0, <2>3 DEF TypesOK, DownChecksBeforeHeal
    <3>2. TypesOK'
      BY <1>0, <2>1, <2>3, <3>1 DEF TypesOK
    <3> QED BY <2>1, <2>3, <3>2, NothingMovesKeeps DEF RoutesStay
  <2> QED BY <2>1, <2>2, <2>3
<1>2. CASE Observe
  <2> DEFINE seen == IF up THEN 0 ELSE IF dog.streak < DownChecksBeforeHeal THEN dog.streak + 1 ELSE dog.streak
  <2>1. /\ act[Watchdog].pc = "status" /\ UNCHANGED <<routing, certs, up, settings, lock>>
        /\ dog' = [dog EXCEPT !.streak = seen]
        /\ \E pc \in {"heal", "sleep"} : Goto(Watchdog, pc)
    BY <1>2 DEF Observe, WatchdogIs
  <2>2. dog \in [streak : 0..DownChecksBeforeHeal, backoff : BOOLEAN]
    BY <1>0 DEF TypesOK
  <2>3. seen \in 0..DownChecksBeforeHeal
    BY <2>2 DEF DownChecksBeforeHeal
  <2> HIDE DEF seen
  <2>4. dog' \in [streak : 0..DownChecksBeforeHeal, backoff : BOOLEAN]
    BY <2>1, <2>2, <2>3
  <2>5. PICK pc \in {"heal", "sleep"} : Goto(Watchdog, pc)
    BY <2>1
  <2>6. Only(Watchdog)
    BY <1>0, <1>a, <2>5, Goes
  <2>7. TypesOK'
    BY <1>0, <2>1, <2>4, <2>6 DEF TypesOK, Only
  <2> QED BY <1>b, <2>1, <2>5, <2>7 DEF RoutesStay
<1>3. CASE Heal
  <2> DEFINE x == [act[Watchdog] EXCEPT !.pc = "begin", !.op = "heal", !.version = settings.version, !.back = settings.previous]
  <2>1. act[Watchdog].pc = "heal" /\ UNCHANGED <<routing, traefik>>
    BY <1>3 DEF Heal, WatchdogIs
  <2>2. act' = [act EXCEPT ![Watchdog] = x]
    BY <1>3 DEF Heal
  <2>3. settings.version \in Versions /\ settings.previous \in Versions \cup {NONE}
    BY <1>0, SettingsTyped
  <2>4. x \in Local /\ x.pc = "begin" /\ x.op = "heal"
    BY <1>0, <1>a, <2>3 DEF Local
  <2> HIDE DEF x
  <2>5. TypesOK'
    BY <1>0, <2>1, <2>2, <2>4 DEF TypesOK
  <2> QED BY <2>1, <2>2, <2>4, <2>5, WatchdogMoves DEF RoutesStay, Serving, Critical, Keeping
<1>4. CASE HealDeploys
  <2>1. /\ act[Watchdog].pc = "begin" /\ UNCHANGED traefik
        /\ Redeploy(Watchdog, act[Watchdog].version, act[Watchdog].back)
    BY <1>4 DEF HealDeploys
  <2> QED BY <1>0, <1>00, <2>1, RedeployKeeps
<1>5. CASE HealFallsBack
  <2> DEFINE x == [act[Watchdog] EXCEPT !.pc = "begin", !.op = "fallback", !.version = Fallback, !.back = NONE]
  <2>1. act[Watchdog].pc = "failed" /\ Fallback # NONE /\ UNCHANGED <<routing, traefik>>
    BY <1>5 DEF HealFallsBack
  <2>2. act' = [act EXCEPT ![Watchdog] = x]
    BY <1>5 DEF HealFallsBack
  <2>3. Fallback \in Versions
    BY <1>00, <2>1 DEF Fallback
  <2>4. x \in Local /\ x.pc = "begin" /\ x.op = "fallback" /\ x.version = Fallback
    BY <1>0, <1>a, <2>3 DEF Local
  <2> HIDE DEF x
  <2>5. TypesOK'
    BY <1>0, <2>1, <2>2, <2>4 DEF TypesOK
  <2> QED BY <2>1, <2>2, <2>3, <2>4, <2>5, WatchdogMoves DEF RoutesStay, Serving, Critical, Keeping
<1>6. CASE HealGivesUp
  <2>1. /\ act[Watchdog].pc = "failed" /\ Rest /\ UNCHANGED <<routing, certs, up, settings, lock>>
        /\ dog' = [dog EXCEPT !.backoff = TRUE]
    BY <1>6 DEF HealGivesUp
  <2>2. dog' \in [streak : 0..DownChecksBeforeHeal, backoff : BOOLEAN]
    BY <1>0, <2>1 DEF TypesOK
  <2>3. TypesOK'
    BY <1>0, <1>d, <2>1, <2>2 DEF TypesOK
  <2> QED BY <1>c, <2>1, <2>3 DEF RoutesStay
<1>7. CASE Healed
  <2>1. /\ act[Watchdog].pc = "deployed" /\ Rest /\ UNCHANGED <<routing, certs, up, lock>>
        /\ dog' = [dog EXCEPT !.streak = 0]
        /\ settings' = IF act[Watchdog].op = "fallback" THEN [settings EXCEPT !.version = act[Watchdog].version] ELSE settings
    BY <1>7 DEF Healed
  <2>2. dog' \in [streak : 0..DownChecksBeforeHeal, backoff : BOOLEAN]
    BY <1>0, <2>1 DEF TypesOK, DownChecksBeforeHeal
  <2>3. settings' \in Settings
    BY <1>0, <2>1, SettingsTyped DEF ShapeOf
  <2>4. TypesOK'
    BY <1>0, <1>d, <2>1, <2>2, <2>3 DEF TypesOK, Settings
  <2> QED BY <1>c, <2>1, <2>4 DEF RoutesStay
<1> QED BY <1>1, <1>2, <1>3, <1>4, <1>5, <1>6, <1>7 DEF WatchdogStep

\* What happens without any actor.
LEMMA WorldKeeps ==
  ASSUME ProxyInv, BackoffElapses \/ Sweep \/ Issue \/ StrayStop
  PROVE  ProxyInv'
<1>0. TypesOK
  BY DEF ProxyInv
<1>1. CASE BackoffElapses
  <2>1. dog' = [dog EXCEPT !.backoff = FALSE] /\ UNCHANGED <<routing, certs, up, settings, lock, act>>
    BY <1>1 DEF BackoffElapses
  <2>2. dog' \in [streak : 0..DownChecksBeforeHeal, backoff : BOOLEAN]
    BY <1>0, <2>1 DEF TypesOK
  <2>3. TypesOK'
    BY <1>0, <2>1, <2>2 DEF TypesOK
  <2> QED BY <2>1, <2>3, NothingMovesKeeps DEF RoutesStay
<1>2. CASE Sweep
  <2>1. /\ core' = remove_orphan_service_configs(core)
        /\ UNCHANGED <<services, rows, agent, panel, calm, young, act, traefik>>
    BY <1>2 DEF Sweep
  <2>2. TypesOK'
    BY <1>0, <2>1, OrphansTyped DEF TypesOK
  <2> QED BY <1>0, <2>1, <2>2, OrphansTyped, NothingMovesKeeps DEF RoutesStay
<1>3. CASE Issue
  <2>1. PICK h \in routed_hosts : certs' = certs \cup {h} /\ UNCHANGED <<routing, up, settings, lock, act, dog>>
    BY <1>3 DEF Issue
  <2>2. h \in Hosts \cup {Panel}
    BY <1>0, <2>1 DEF TypesOK, routed_hosts
  <2>3. TypesOK'
    BY <1>0, <2>1, <2>2 DEF TypesOK
  <2> QED BY <2>1, <2>3, NothingMovesKeeps DEF RoutesStay
<1>4. CASE StrayStop
  <2>1. up' = FALSE /\ UNCHANGED <<routing, certs, settings, lock, act, dog>>
    BY <1>4 DEF StrayStop
  <2>2. TypesOK'
    BY <1>0, <2>1 DEF TypesOK
  <2> QED BY <2>1, <2>2, NothingMovesKeeps DEF RoutesStay
<1> QED BY <1>1, <1>2, <1>3, <1>4
\* The deploy at the start has ended: the watchdog begins.
LEMMA BootKeeps ==
  ASSUME ProxyInv, BootStep
  PROVE  ProxyInv'
<1>0. /\ TypesOK /\ BootTask \in Actors /\ act[BootTask] \in Local /\ act \in [Actors -> Local]
  BY ActorsDistinct DEF ProxyInv, TypesOK
<1>00. act[BootTask].version \in Versions \cup {NONE}
  BY <1>0 DEF Local
<1>1. CASE BootDeploys
  <2>1. act[BootTask].pc = "begin" /\ UNCHANGED traefik /\ Redeploy(BootTask, act[BootTask].version, NONE)
    BY <1>1 DEF BootDeploys
  <2> QED BY <1>0, <1>00, <2>1, RedeployKeeps
<1>2. CASE BootDone
  <2> DEFINE x == [Idle EXCEPT !.pc = "sleep"]
  <2>1. /\ act[BootTask].pc \in {"deployed", "failed"}
        /\ act' = [act EXCEPT ![BootTask] = Idle, ![Watchdog] = x]
        /\ settings' = IF act[BootTask].pc = "deployed" THEN [settings EXCEPT !.enabled = TRUE] ELSE settings
        /\ panel' \in {panel, [panel EXCEPT !.file = TRUE]}
        /\ UNCHANGED <<services, rows, core, agent, calm, young, certs, up, lock, dog>>
    BY <1>2 DEF BootDone
  <2>2. /\ x \in Local /\ x.pc = "sleep" /\ x.op = "none"
        /\ Idle \in Local /\ Idle.pc = "new" /\ Idle.op = "none"
    BY IdleLocal DEF Steps, Idle
  <2> HIDE DEF x
  <2>3. settings' \in Settings /\ panel' \in [domain : BOOLEAN, file : BOOLEAN]
    BY <1>0, <2>1, SettingsTyped, PanelTyped DEF TypesOK
  <2>4. act' \in [Actors -> Local]
    BY <1>0, <2>1, <2>2
  <2>5. TypesOK'
    BY <1>0, <2>1, <2>3, <2>4 DEF TypesOK, Settings
  <2>6. \A b \in Actors \ {BootTask, Watchdog} : act'[b] = act[b]
    BY <1>0, <2>1
  <2>7. act'[BootTask] = Idle /\ act'[Watchdog] = x
    BY <1>0, <2>1, ActorsDistinct
  <2>8. \A r \in Requests : act'[r] = act[r]
    BY <2>6, ActorsDistinct
  <2>9. ShapesOK'
    <3>1. ASSUME NEW b \in Actors PROVE ShapeOf(act'[b])
      <4>1. CASE b \in {BootTask, Watchdog}
        BY <2>2, <2>7, <4>1 DEF ShapeOf, Serving
      <4>2. CASE b \notin {BootTask, Watchdog}
        BY <2>6, <4>2 DEF ProxyInv, ShapesOK
      <4> QED BY <4>1, <4>2
    <3> QED BY <3>1 DEF ShapesOK
  <2>10. LockOK'
    <3>1. act[Watchdog].pc \notin Critical /\ act[BootTask].pc \notin Critical
      BY <2>1 DEF ProxyInv, BootOK, Critical
    <3>2. ASSUME NEW b \in Actors PROVE act'[b].pc \in Critical <=> lock' = b
      <4>1. CASE b \in {BootTask, Watchdog}
        BY <2>1, <2>2, <2>7, <3>1, <4>1 DEF ProxyInv, LockOK, Critical
      <4>2. CASE b \notin {BootTask, Watchdog}
        BY <2>1, <2>6, <4>2 DEF ProxyInv, LockOK
      <4> QED BY <4>1, <4>2
    <3> QED BY <3>2 DEF LockOK
  <2>11. AloneOK'
    BY <2>8 DEF ProxyInv, AloneOK, Active
  <2>15. RowsOK'
    <3>1. \A r \in Requests : Started(r)' <=> Started(r)
      BY <2>8 DEF Started
    <3>2. ASSUME NEW h \in Hosts, rows'[h] # NoRow, rows'[h].id \in Requests PROVE Started(rows[h].id)'
      <4>1. PICK q \in Requests : q = rows[h].id
        BY <2>1, <3>2
      <4>2. Started(q)'
        BY <2>1, <3>1, <3>2, <4>1 DEF ProxyInv, RowsOK
      <4> QED BY <2>1, <4>1, <4>2 DEF Started
    <3>3. ASSUME NEW r \in Requests, act'[r].pc = "write"
          PROVE  /\ act'[r].row \in Requests => Started(act[r].row)'
                 /\ SameRow(r)' => rows'[act'[r].host].svc = act'[r].svc
      <4>1. act'[r] = act[r]
        BY <2>8
      <4>2. act[r].row \in Requests => Started(act[r].row)
        BY <3>3, <4>1 DEF ProxyInv, RowsOK
      <4>3. act'[r].row \in Requests => Started(act[r].row)'
        BY <2>8, <4>1, <4>2 DEF Started
      <4>4. SameRow(r)' => rows'[act'[r].host].svc = act'[r].svc
        BY <2>1, <3>3, <4>1 DEF ProxyInv, RowsOK, SameRow
      <4> QED BY <4>3, <4>4
    <3> QED BY <3>2, <3>3 DEF RowsOK
  <2>12. FilesOK'
    <3>1. ASSUME NEW s \in services' \ Remote, calm'[s], \A r \in Requests : act'[r].pc \in Dirty => act'[r].svc # s
          PROVE  core'[s] = ActiveHosts(s)'
      <4>1. core[s] = ActiveHosts(s)
        BY <2>1, <2>8, <3>1 DEF ProxyInv, FilesOK
      <4> QED BY <2>1, <4>1, RowsStay
    <3>2. ASSUME NEW r \in Requests PROVE FileRight(r)'
      <4>1. FileRight(r)
        BY DEF ProxyInv, FilesOK, FileRight
      <4>2. act'[r] = act[r]
        BY <2>8
      <4> QED BY <2>1, <4>1, <4>2 DEF FileRight, ActiveHosts, RowsOf
    <3> QED BY <3>1, <3>2 DEF FilesOK, FileRight
  <2>13. KeepsOK'
    BY <2>1, <2>2, <2>6, <2>7 DEF ProxyInv, KeepsOK, Keeping
  <2>14. BootOK'
    BY <2>2, <2>7 DEF BootOK
  <2> QED BY <2>5, <2>9, <2>10, <2>11, <2>12, <2>13, <2>14, <2>15 DEF ProxyInv
<1> QED BY <1>1, <1>2 DEF BootStep

\* After a crash nobody is at work but the deploy at the start.
LEMMA CrashKeeps ==
  ASSUME ProxyInv, Crash
  PROVE  ProxyInv'
<1>0. TypesOK /\ act \in [Actors -> Local]
  BY DEF ProxyInv, TypesOK
<1> DEFINE boot == [Idle EXCEPT !.pc = "begin", !.op = "boot", !.version = settings.version,
                                !.hosts = IF panel.domain THEN {Panel} ELSE {}]
<1> DEFINE done == [Idle EXCEPT !.pc = "done"]
<1>1. /\ act' = [a \in Actors |-> IF a = BootTask THEN boot ELSE IF a = Watchdog THEN Idle
                                  ELSE IF Active(a) THEN done ELSE act[a]]
      /\ calm' = [s \in Services |-> calm[s] /\ \A r \in Requests : ~(Active(r) /\ act[r].svc = s)]
      /\ lock' = NONE /\ dog' = [streak |-> 0, backoff |-> FALSE]
      /\ UNCHANGED <<services, rows, core, agent, panel, young, certs, up, settings>>
  BY DEF Crash
<1>2. settings.version \in Versions
  BY <1>0, SettingsTyped
<1>3. /\ done \in Local /\ done.pc = "done" /\ done.op = "none"
      /\ Idle \in Local /\ Idle.pc = "new" /\ Idle.op = "none"
  BY IdleLocal DEF Steps, Idle
<1>4. boot \in Local /\ boot.pc = "begin" /\ boot.op = "boot"
  <2> DEFINE hosts == IF panel.domain THEN {Panel} ELSE {}
  <2>1. "begin" \in Steps /\ "boot" \in OpNames /\ hosts \in SUBSET (Hosts \cup {Panel})
    BY DEF Steps, OpNames
  <2>2. boot = [Idle EXCEPT !.pc = "begin", !.op = "boot", !.version = settings.version, !.hosts = hosts]
    OBVIOUS
  <2> HIDE DEF boot, hosts
  <2> QED BY <1>2, <1>3, <2>1, <2>2 DEF Local
<1> HIDE DEF boot, done
<1>5. act' \in [Actors -> Local]
  BY <1>0, <1>1, <1>3, <1>4
<1>6. calm' \in [Services -> BOOLEAN]
  BY <1>0, <1>1 DEF TypesOK
<1>7. dog' \in [streak : 0..DownChecksBeforeHeal, backoff : BOOLEAN]
  BY <1>1 DEF DownChecksBeforeHeal
<1>8. TypesOK'
  BY <1>0, <1>1, <1>5, <1>6, <1>7 DEF TypesOK
<1>9. ASSUME NEW a \in Actors
      PROVE  /\ act'[a].pc \in {"new", "done", "sleep", "begin"}
             /\ act'[a].op = "fallback" => act'[a] = act[a]
  BY <1>1, <1>3, <1>4 DEF Active
<1>10. ASSUME NEW r \in Requests
       PROVE  /\ act'[r].pc \in {"new", "done", "sleep"}
              /\ Active(r) => act'[r].pc = "done"
              /\ ~Active(r) => act'[r] = act[r]
  BY <1>1, <1>3, ActorsDistinct DEF Active
<1>11. ShapesOK'
  BY <1>9 DEF ProxyInv, ShapesOK, ShapeOf, Serving
<1>12. LockOK' /\ KeepsOK' /\ AloneOK'
  BY <1>1, <1>9, ActorsDistinct DEF LockOK, KeepsOK, AloneOK, Critical, Keeping, Serving
<1>13. RowsOK'
  <2>1. \A r \in Requests : act'[r].pc # "write" /\ (Started(r) => Started(r)')
    BY <1>10 DEF Started
  <2>2. ASSUME NEW h \in Hosts, rows'[h] # NoRow, rows'[h].id \in Requests PROVE Started(rows[h].id)'
    <3>1. PICK q \in Requests : q = rows[h].id
      BY <1>1, <2>2
    <3>2. Started(q)
      BY <1>1, <2>2, <3>1 DEF ProxyInv, RowsOK
    <3> QED BY <1>1, <2>1, <3>1, <3>2 DEF Started
  <2> QED BY <2>1, <2>2 DEF RowsOK
<1>14. FilesOK'
  <2>1. ASSUME NEW s \in services' \ Remote, calm'[s] PROVE core'[s] = ActiveHosts(s)'
    <3>1. s \in Services /\ s \in services \ Remote
      BY <1>0, <1>1, <2>1 DEF TypesOK
    <3>2. calm[s] /\ \A r \in Requests : ~(Active(r) /\ act[r].svc = s)
      BY <1>1, <2>1, <3>1
    <3>3. \A r \in Requests : act[r].pc \in Dirty => act[r].svc # s
      BY <3>2 DEF Dirty, Active
    <3>4. core[s] = ActiveHosts(s)
      BY <3>1, <3>2, <3>3 DEF ProxyInv, FilesOK
    <3> QED BY <1>1, <3>4, RowsStay
  <2> QED BY <1>10, <2>1 DEF FilesOK
<1>15. BootOK'
  BY <1>1, <1>3, ActorsDistinct DEF BootOK
<1> QED BY <1>8, <1>11, <1>12, <1>13, <1>14, <1>15 DEF ProxyInv

-----------------------------------------------------------------------------
(* A request arrives.                                                        *)

Beginnings == {"insert", "write", "regenerate", "domains", "file", "forget", "begin", "router", "wait"}

\* What the locals of a request for service s must be.
Begins(local, op, s) ==
  /\ local \in Local /\ local.pc \in Beginnings /\ op \in OpNames \ {"fallback"} /\ s \in Services \cup {NONE}
  /\ local.node = "core"
  /\ local.pc \in Serving => s \in Services /\ local.hosts \subseteq Hosts
  /\ local.pc = "write" => local.host \in Hosts

LEMMA ArrivalSteps ==
  ASSUME ProxyInv, NEW r \in Requests, NEW op, NEW s, NEW local, Arrives(r, op, s, local), Begins(local, op, s)
  PROVE  /\ Only(r) /\ act[r].pc = "new" /\ act'[r].pc = local.pc /\ act'[r].svc = s
         /\ act'[r].hosts = local.hosts /\ act'[r].host = local.host /\ act'[r].row = local.row
         /\ ShapeOf(act'[r]) /\ AloneStep(r)
         /\ lock' = lock => LockStep(r)
         /\ s # NONE => \A q \in Requests \ {r} : Active(q) /\ act[q].svc = s => ~act'[q].alone
         /\ act'[r].pc \notin Keeping
<1>1. TypesOK
  BY DEF ProxyInv
<1>2. /\ Only(r) /\ act[r].pc = "new"
      /\ act'[r].op = op /\ act'[r].svc = s /\ act'[r].pc = local.pc /\ act'[r].host = local.host
      /\ act'[r].row = local.row /\ act'[r].node = local.node /\ act'[r].hosts = local.hosts
      /\ act'[r].alone => \A q \in Requests \ {r} : ~(Active(q) /\ act[q].svc = s)
      /\ s # NONE => \A q \in Requests \ {r} : Active(q) /\ act[q].svc = s => ~act'[q].alone
  BY <1>1, Arrived DEF Begins
<1>3. ShapeOf(act'[r])
  BY <1>2 DEF Begins, ShapeOf, Beginnings
<1>4. AloneStep(r)
  BY <1>2 DEF AloneStep
<1>5. lock' = lock => LockStep(r)
  BY <1>2 DEF Begins, Beginnings, LockStep, Critical
<1>6. act'[r].pc \notin Keeping
  BY <1>2 DEF Begins, Beginnings, Keeping
<1> QED BY <1>2, <1>3, <1>4, <1>5, <1>6

LEMMA ArrivalKeeps ==
  ASSUME ProxyInv, TypesOK', NEW r \in Requests, NEW op, NEW s, NEW local, Arrives(r, op, s, local),
         Begins(local, op, s), RoutesStay, lock' = lock, local.pc # "file",
         local.pc = "write" => /\ rows[local.host] # NoRow /\ local.row = rows[local.host].id
                               /\ s = rows[local.host].svc
  PROVE  ProxyInv'
<1>1. r \in Actors
  BY ActorsDistinct
<1>2. /\ Only(r) /\ act[r].pc = "new" /\ act'[r].pc = local.pc /\ act'[r].svc = s
      /\ act'[r].hosts = local.hosts /\ act'[r].host = local.host /\ act'[r].row = local.row
      /\ ShapeOf(act'[r]) /\ AloneStep(r) /\ LockStep(r) /\ act'[r].pc \notin Keeping
  BY ArrivalSteps
<1>3. act'[r].pc = "write" => Reads(r)
  BY <1>2 DEF Reads, Begins, RoutesStay
<1>4. ~Started(r) /\ act[r].pc \notin Dirty /\ FileRight(r)'
  BY <1>2 DEF Started, Dirty, FileRight
<1> QED BY <1>1, <1>2, <1>3, <1>4, ElsewhereKeeps

\* The locals a request begins with.
LEMMA BeginningLocals ==
  ASSUME NEW pc \in Beginnings
  PROVE  /\ Idle \in Local /\ Idle.node = "core" /\ Idle.hosts = {} /\ pc \in Steps
         /\ [Idle EXCEPT !.pc = pc] \in Local /\ [Idle EXCEPT !.pc = pc].pc = pc
         /\ [Idle EXCEPT !.pc = pc].node = "core" /\ [Idle EXCEPT !.pc = pc].hosts = {}
<1>1. pc \in Steps
  BY DEF Beginnings, Steps, Serving
<1>2. Idle \in Local /\ [Idle EXCEPT !.pc = pc] \in Local
  BY <1>1, IdleLocal
<1> QED BY <1>1, <1>2 DEF Idle

LEMMA TypesAfterArrival ==
  ASSUME TypesOK, NEW r, Only(r), services' \subseteq services, rows' = rows, core' = core,
         agent' \in [Services -> SUBSET Hosts], panel' \in [domain : BOOLEAN, file : BOOLEAN],
         certs' = certs, up' = up, settings' \in Settings, dog' = dog, calm' = calm
  PROVE  TypesOK'
BY DEF TypesOK, Only, Settings

\* A request that begins with nothing but its step.
LEMMA PlainArrival ==
  ASSUME ProxyInv, NEW r \in Requests, NEW op \in OpNames \ {"fallback"}, NEW s \in Services \cup {NONE},
         NEW pc \in Beginnings \ {"file", "write"}, Arrives(r, op, s, [Idle EXCEPT !.pc = pc]),
         pc \in Serving => s \in Services,
         UNCHANGED <<services, rows, core, calm, young, certs, up, settings, lock, dog>>,
         agent' \in [Services -> SUBSET Hosts], panel' \in [domain : BOOLEAN, file : BOOLEAN]
  PROVE  ProxyInv'
<1> DEFINE local == [Idle EXCEPT !.pc = pc]
<1>1. local \in Local /\ local.pc = pc /\ local.node = "core" /\ local.hosts = {}
  BY BeginningLocals
<1>2. Arrives(r, op, s, local)
  OBVIOUS
<1> HIDE DEF local
<1>3. Begins(local, op, s)
  BY <1>1 DEF Begins
<1>4. Only(r)
  BY <1>2, <1>3, ArrivalSteps
<1>5. TypesOK'
  BY <1>4, TypesAfterArrival, SettingsTyped DEF ProxyInv
<1> QED BY <1>1, <1>2, <1>3, <1>5, ArrivalKeeps DEF RoutesStay

LEMMA DetailedLocals ==
  ASSUME NEW h \in Hosts, NEW t \in Targets, NEW id \in Requests \cup {NONE}, NEW hosts \in SUBSET Hosts,
         NEW v \in Versions \cup {NONE}, NEW w \in Versions \cup {NONE}
  PROVE  /\ [Idle EXCEPT !.pc = "insert", !.host = h, !.target = t] \in Local
         /\ [Idle EXCEPT !.pc = "insert", !.host = h] \in Local
         /\ [Idle EXCEPT !.pc = "write", !.host = h, !.row = id, !.target = t, !.hosts = hosts] \in Local
         /\ [Idle EXCEPT !.pc = "begin", !.version = v] \in Local
         /\ [Idle EXCEPT !.pc = "begin", !.version = v, !.back = w] \in Local
<1>1. Idle \in Local /\ "insert" \in Steps /\ "write" \in Steps /\ "begin" \in Steps
  BY IdleLocal DEF Steps, Serving
<1>2. [Idle EXCEPT !.pc = "insert", !.host = h, !.target = t] \in Local
  BY <1>1 DEF Local
<1>3. [Idle EXCEPT !.pc = "insert", !.host = h] \in Local
  BY <1>1 DEF Local
<1>4. [Idle EXCEPT !.pc = "write", !.host = h, !.row = id, !.target = t, !.hosts = hosts] \in Local
  BY <1>1 DEF Local
<1>5. [Idle EXCEPT !.pc = "begin", !.version = v] \in Local
  BY <1>1 DEF Local
<1>6. [Idle EXCEPT !.pc = "begin", !.version = v, !.back = w] \in Local
  BY <1>1 DEF Local
<1> QED BY <1>2, <1>3, <1>4, <1>5, <1>6

LEMMA RequestArrivesKeeps ==
  ASSUME ProxyInv, NEW r \in Requests, RequestArrives(r)
  PROVE  ProxyInv'
<1>0. TypesOK /\ services \subseteq Services /\ r \in Actors
  BY ActorsDistinct DEF ProxyInv, TypesOK
<1> USE DEF OpNames, Beginnings, Serving
<1>1. CASE Create(r)
  <2>1. PICK h \in Hosts, s \in services, t \in Targets :
          /\ Arrives(r, "create", s, [Idle EXCEPT !.pc = "insert", !.host = h, !.target = t])
          /\ UNCHANGED <<routing, traefik>>
    BY <1>1 DEF Create
  <2> DEFINE local == [Idle EXCEPT !.pc = "insert", !.host = h, !.target = t]
  <2>2. local \in Local /\ local.pc = "insert" /\ local.node = "core" /\ local.hosts = {}
    BY <2>1, DetailedLocals DEF Idle
  <2>3. Arrives(r, "create", s, local) /\ s \in Services
    BY <1>0, <2>1
  <2> HIDE DEF local
  <2>4. Begins(local, "create", s)
    BY <2>2, <2>3 DEF Begins
  <2>5. Only(r)
    BY <2>3, <2>4, ArrivalSteps
  <2>6. TypesOK'
    BY <1>0, <2>1, <2>5, TypesAfterArrival, SettingsTyped DEF TypesOK
  <2> QED BY <2>1, <2>2, <2>3, <2>4, <2>6, ArrivalKeeps DEF RoutesStay
<1>2. CASE Generate(r)
  <2>1. PICK h \in Hosts, s \in services :
          /\ Arrives(r, "generate", s, [Idle EXCEPT !.pc = "insert", !.host = h])
          /\ UNCHANGED <<routing, traefik>>
    BY <1>2 DEF Generate
  <2> DEFINE local == [Idle EXCEPT !.pc = "insert", !.host = h]
  <2>2. local \in Local /\ local.pc = "insert" /\ local.node = "core" /\ local.hosts = {}
    <3>1. "web" \in Targets /\ NONE \in Versions \cup {NONE} /\ NONE \in Requests \cup {NONE} /\ {} \in SUBSET Hosts
      BY DEF Targets
    <3>2. local \in Local
      BY <3>1, DetailedLocals
    <3> QED BY <3>2 DEF Idle
  <2>3. Arrives(r, "generate", s, local) /\ s \in Services
    BY <1>0, <2>1
  <2> HIDE DEF local
  <2>4. Begins(local, "generate", s)
    BY <2>2, <2>3 DEF Begins
  <2>5. Only(r)
    BY <2>3, <2>4, ArrivalSteps
  <2>6. TypesOK'
    BY <1>0, <2>1, <2>5, TypesAfterArrival, SettingsTyped DEF TypesOK
  <2> QED BY <2>1, <2>2, <2>3, <2>4, <2>6, ArrivalKeeps DEF RoutesStay
<1>3. ASSUME NEW op \in {"update", "activate", "deactivate", "remove"}, ReadRow(r, op) PROVE ProxyInv'
  <2>1. PICK h \in Hosts, t \in Targets :
          /\ rows[h] # NoRow
          /\ Arrives(r, op, rows[h].svc, [Idle EXCEPT !.pc = "write", !.host = h, !.row = rows[h].id, !.target = t,
                                                      !.hosts = IF rows[h].active THEN {h} ELSE {}])
          /\ UNCHANGED <<routing, traefik>>
    BY <1>3 DEF ReadRow
  <2>2. rows[h] \in Row
    BY <1>0, <2>1 DEF TypesOK
  <2>3. PICK s \in Services, id \in Requests \cup {NONE}, hosts \in SUBSET Hosts :
          s = rows[h].svc /\ id = rows[h].id /\ hosts = IF rows[h].active THEN {h} ELSE {}
    BY <2>2 DEF Row
  <2> DEFINE local == [Idle EXCEPT !.pc = "write", !.host = h, !.row = id, !.target = t, !.hosts = hosts]
  <2>4. local \in Local
    BY DetailedLocals
  <2>5. local.pc = "write" /\ local.node = "core" /\ local.hosts = hosts /\ local.host = h /\ local.row = id
    BY DEF Idle
  <2>6. Arrives(r, op, s, local)
    BY <2>1, <2>3
  <2> HIDE DEF local
  <2>7. Begins(local, op, s)
    BY <2>4, <2>5 DEF Begins
  <2>8. Only(r)
    BY <2>6, <2>7, ArrivalSteps
  <2>9. TypesOK'
    BY <1>0, <2>1, <2>8, TypesAfterArrival, SettingsTyped DEF TypesOK
  <2> QED BY <2>1, <2>3, <2>5, <2>6, <2>7, <2>9, ArrivalKeeps DEF RoutesStay
<1>4. CASE Deployed(r)
  BY <1>0, <1>4, PlainArrival DEF Deployed, TypesOK
<1>5. CASE LoadBalance(r)
  BY <1>0, <1>5, PlainArrival DEF LoadBalance, TypesOK
<1>6. CASE RemoveService(r)
  <2>1. PICK s \in services :
          /\ Arrives(r, "remove_service", s, [Idle EXCEPT !.pc = "forget"])
          /\ agent' \in {agent, [agent EXCEPT ![s] = {}]}
          /\ UNCHANGED <<services, rows, core, panel, calm, young, traefik>>
    BY <1>6 DEF RemoveService
  <2>2. agent' \in [Services -> SUBSET Hosts]
    BY <1>0, <2>1 DEF TypesOK
  <2> QED BY <1>0, <2>1, <2>2, PlainArrival DEF TypesOK
<1>7. CASE SetPlatformDomain(r)
  <2>1. /\ Arrives(r, "platform", NONE, [Idle EXCEPT !.pc = "router"])
        /\ panel' \in [domain : BOOLEAN, file : BOOLEAN]
        /\ UNCHANGED <<services, rows, core, agent, calm, young, traefik>>
    BY <1>0, <1>7, PanelTyped DEF SetPlatformDomain
  <2> QED BY <1>0, <2>1, PlainArrival DEF TypesOK
<1>8. CASE Disable(r)
  BY <1>0, <1>8, PlainArrival DEF Disable, TypesOK
<1>9. ASSUME NEW op \in {"enable", "contact", "upgrade"}, NEW local \in Local, local.pc = "begin", local.node = "core",
             Arrives(r, op, NONE, local), UNCHANGED <<routing, certs, up, lock, dog>>, settings' \in Settings
      PROVE  ProxyInv'
  <2>1. Begins(local, op, NONE)
    BY <1>9 DEF Begins
  <2>2. Only(r)
    BY <1>9, <2>1, ArrivalSteps
  <2>3. TypesOK'
    BY <1>0, <1>9, <2>2, TypesAfterArrival DEF TypesOK
  <2> QED BY <1>9, <2>1, <2>3, ArrivalKeeps DEF RoutesStay
<1>10. CASE Enable(r) \/ ChangeContact(r)
  <2> DEFINE local == [Idle EXCEPT !.pc = "begin", !.version = settings.version]
  <2>1. PICK op \in {"enable", "contact"} : Arrives(r, op, NONE, local) /\ UNCHANGED <<routing, traefik>>
    BY <1>10 DEF Enable, ChangeContact
  <2>2. local \in Local
    BY <1>0, SettingsTyped, DetailedLocals, ProxyConstants DEF Targets
  <2>3. local.pc = "begin" /\ local.node = "core"
    BY DEF Idle
  <2> HIDE DEF local
  <2> QED BY <1>0, <1>9, <2>1, <2>2, <2>3, SettingsTyped
<1>11. CASE Update(r)
  <2> DEFINE local == [Idle EXCEPT !.pc = "begin", !.version = Latest, !.back = settings.version]
  <2>1. /\ Arrives(r, "upgrade", NONE, local)
        /\ settings' = [settings EXCEPT !.previous = settings.version, !.version = Latest]
        /\ UNCHANGED <<routing, certs, up, lock, dog>>
    BY <1>11 DEF Update
  <2>2. Latest \in Versions
    BY DEF Versions
  <2>3. local \in Local
    BY <1>0, <2>2, SettingsTyped, DetailedLocals, ProxyConstants DEF Targets
  <2>4. local.pc = "begin" /\ local.node = "core"
    BY DEF Idle
  <2> HIDE DEF local
  <2> QED BY <1>0, <1>9, <2>1, <2>2, <2>3, <2>4, SettingsTyped
<1>12. CASE RemoveStack(r)
  <2>1. PICK s \in services \ Remote :
          /\ Arrives(r, "remove_stack", s, [Idle EXCEPT !.pc = "forget"])
          /\ core' = [core EXCEPT ![s] = {}]
          /\ UNCHANGED <<services, rows, agent, panel, calm, young, traefik>>
    BY <1>12 DEF RemoveStack
  <2> DEFINE local == [Idle EXCEPT !.pc = "forget"]
  <2>2. local \in Local /\ local.pc = "forget" /\ local.node = "core" /\ local.hosts = {}
    BY BeginningLocals
  <2>3. Arrives(r, "remove_stack", s, local) /\ s \in Services
    BY <1>0, <2>1
  <2> HIDE DEF local
  <2>4. Begins(local, "remove_stack", s)
    BY <2>2, <2>3 DEF Begins
  <2>5. /\ Only(r) /\ act[r].pc = "new" /\ act'[r].pc = "forget" /\ act'[r].svc = s
        /\ ShapeOf(act'[r]) /\ AloneStep(r) /\ LockStep(r) /\ act'[r].pc \notin Keeping
    BY <2>1, <2>2, <2>3, <2>4, ArrivalSteps
  <2>6. TypesOK'
    BY <1>0, <2>1, <2>5 DEF TypesOK, Only
  <2>7. ShapesOK' /\ LockOK' /\ AloneOK' /\ BootOK'
    BY <1>0, <2>5, ShapesKept, LockKept, AloneKept, BootKept DEF ProxyInv
  <2>8. RowsOK'
    BY <1>0, <2>1, <2>5, RowsKept DEF ProxyInv, RowStep, Started
  <2>9. FilesOK'
    <3>1. ASSUME NEW x \in services' \ Remote PROVE RouteStep(x, r)
      <4>1. CASE x = s
        BY <2>5, <4>1 DEF RouteStep, Dirty
      <4>2. CASE x # s
        <5>1. core'[x] = core[x] /\ act[r].pc \notin Dirty
          BY <1>0, <2>1, <2>5, <4>2 DEF TypesOK, Dirty
        <5> QED BY <2>1, <5>1, RowsStay DEF RouteStep
      <4> QED BY <4>1, <4>2
    <3>2. OthersStay(r)
      BY <2>1, RowsStay DEF OthersStay
    <3>3. FileRight(r)'
      BY <2>5 DEF FileRight
    <3> QED BY <1>0, <2>1, <2>5, <3>1, <3>2, <3>3, FilesKept DEF ProxyInv
  <2>10. KeepsOK'
    BY <1>0, <2>1, <2>5, KeepsKept DEF ProxyInv
  <2> QED BY <2>6, <2>7, <2>8, <2>9, <2>10 DEF ProxyInv
<1>13. CASE CascadeDelete(r)
  <2>1. PICK s \in services :
          /\ Arrives(r, "cascade", s, [Idle EXCEPT !.pc = "file"])
          /\ rows' = [h \in Hosts |-> IF h \in RowsOf(s) THEN NoRow ELSE rows[h]]
          /\ UNCHANGED <<services, core, agent, panel, calm, young, traefik>>
    BY <1>13 DEF CascadeDelete
  <2> DEFINE local == [Idle EXCEPT !.pc = "file"]
  <2>2. local \in Local /\ local.pc = "file" /\ local.node = "core" /\ local.hosts = {}
    BY BeginningLocals
  <2>3. Arrives(r, "cascade", s, local) /\ s \in Services
    BY <1>0, <2>1
  <2> HIDE DEF local
  <2>4. Begins(local, "cascade", s)
    BY <2>2, <2>3 DEF Begins
  <2>5. /\ Only(r) /\ act[r].pc = "new" /\ act'[r].pc = "file" /\ act'[r].svc = s /\ act'[r].hosts = {}
        /\ ShapeOf(act'[r]) /\ AloneStep(r) /\ LockStep(r) /\ act'[r].pc \notin Keeping
        /\ \A q \in Requests \ {r} : Active(q) /\ act[q].svc = s => ~act'[q].alone
    BY <2>1, <2>2, <2>3, <2>4, ArrivalSteps, ActorsDistinct
  <2>6. TypesOK'
    BY <1>0, <2>1, <2>5 DEF TypesOK, Only
  <2>7. ShapesOK' /\ LockOK' /\ AloneOK' /\ BootOK'
    BY <1>0, <2>5, ShapesKept, LockKept, AloneKept, BootKept DEF ProxyInv
  <2>8. RowsOK'
    BY <1>0, <2>1, <2>5, RowsKept DEF ProxyInv, RowStep, Started
  <2>9. /\ ActiveHosts(s)' = {}
        /\ \A x \in Services : x # s => ActiveHosts(x)' = ActiveHosts(x)
    BY <2>1 DEF ActiveHosts, RowsOf
  <2>10. FilesOK'
    <3>1. ASSUME NEW x \in services' \ Remote PROVE RouteStep(x, r)
      <4>1. CASE x = s
        BY <2>5, <4>1 DEF RouteStep, Dirty
      <4>2. CASE x # s
        <5>1. core'[x] = core[x] /\ act[r].pc \notin Dirty /\ x \in Services
          BY <1>0, <2>1, <2>5, <4>2 DEF TypesOK, Dirty
        <5> QED BY <2>1, <2>9, <4>2, <5>1 DEF RouteStep
      <4> QED BY <4>1, <4>2
    <3>2. OthersStay(r)
      <4> SUFFICES ASSUME NEW q \in Requests \ {r}, act'[q].pc = "file", act'[q].alone, NEW x \in Services, x = act[q].svc
                   PROVE  x # s
        BY <2>9 DEF OthersStay
      <4>1. Active(q)
        BY <2>5, ActorsDistinct DEF Only, Same, Active
      <4> QED BY <2>5, <4>1
    <3>3. FileRight(r)'
      BY <2>5, <2>9 DEF FileRight
    <3> QED BY <1>0, <2>1, <2>5, <3>1, <3>2, <3>3, FilesKept DEF ProxyInv
  <2>11. KeepsOK'
    BY <1>0, <2>1, <2>5, KeepsKept DEF ProxyInv
  <2> QED BY <2>6, <2>7, <2>8, <2>10, <2>11 DEF ProxyInv
<1> QED BY <1>1, <1>2, <1>3, <1>4, <1>5, <1>6, <1>7, <1>8, <1>10, <1>11, <1>12, <1>13 DEF RequestArrives

-----------------------------------------------------------------------------
(* Steps of a request about a service.                                       *)

LEMMA ServingKeeps ==
  ASSUME ProxyInv, TypesOK', NEW r \in Requests, act[r].pc \in Serving, Only(r), lock' = lock,
         act'[r].pc \in {"done", "regenerate", "targets", "file", "balanced"},
         act'[r].pc # "done" => act'[r].svc = act[r].svc /\ act'[r].alone = act[r].alone,
         ShapeOf(act'[r]), services' \subseteq services,
         \A h \in Hosts : RowStep(h, r),
         \A s \in services' \ Remote : RouteStep(s, r),
         \A s \in Services : s # act[r].svc => ActiveHosts(s)' = ActiveHosts(s),
         FileRight(r)',
         young \subseteq young', \A h \in Hosts : rows'[h] # NoRow => rows[h] # NoRow \/ h \in young'
  PROVE  ProxyInv'
<1>0. r \in Actors /\ Active(r)
  BY ActorsDistinct, ServingIsActive
<1>1. LockStep(r)
  BY DEF LockStep, Critical, Serving
<1>2. AloneStep(r)
  BY <1>0 DEF AloneStep, Active
<1>3. ShapesOK' /\ LockOK' /\ AloneOK' /\ BootOK'
  BY <1>0, <1>1, <1>2, ShapesKept, LockKept, AloneKept, BootKept DEF ProxyInv
<1>4. RowsOK'
  <2>1. Started(r)' /\ act'[r].pc # "write"
    BY DEF Started
  <2> QED BY <1>0, <2>1, RowsKept DEF ProxyInv
<1>5. FilesOK'
  <2>1. OthersStay(r)
    BY <1>0, OwnRowsOnly DEF ProxyInv
  <2> QED BY <1>0, <2>1, FilesKept DEF ProxyInv
<1>6. KeepsOK'
  <2>1. act'[r].pc \notin Keeping
    BY DEF Keeping
  <2> QED BY <1>0, <2>1, KeepsKept DEF ProxyInv
<1> QED BY <1>3, <1>4, <1>5, <1>6 DEF ProxyInv

\* The end of a request, without and with a word about the file.
LEMMA ServingEnds ==
  ASSUME ProxyInv, NEW r \in Requests, End(r)
  PROVE  Only(r) /\ act'[r].pc = "done" /\ ShapeOf(act'[r]) /\ FileRight(r)'
<1>1. Only(r) /\ Resets(r, "done")
  BY Ends, ActorsDistinct DEF ProxyInv
<1>2. act'[r].pc = "done" /\ act'[r].op = "none"
  BY <1>1, IdleLocal DEF Resets, Steps
<1> QED BY <1>1, <1>2 DEF ShapeOf, FileRight, Serving

LEMMA Settles ==
  ASSUME ProxyInv, NEW r \in Requests, NEW ok \in BOOLEAN, Settle(r, ok), act[r].svc \in Services
  PROVE  /\ Only(r) /\ act'[r].pc = "done" /\ ShapeOf(act'[r]) /\ FileRight(r)'
         /\ calm' \in [Services -> BOOLEAN]
         /\ calm'[act[r].svc] => ok /\ act[r].alone
         /\ \A s \in Services : s # act[r].svc => calm'[s] = calm[s]
<1>1. End(r) /\ calm' = [calm EXCEPT ![act[r].svc] = ok /\ act[r].alone]
  BY DEF Settle
<1>2. calm \in [Services -> BOOLEAN]
  BY DEF ProxyInv, TypesOK
<1> DEFINE b == ok /\ act[r].alone
<1>3. b \in BOOLEAN /\ (b => ok /\ act[r].alone)
  OBVIOUS
<1>4. calm' = [calm EXCEPT ![act[r].svc] = b]
  BY <1>1
<1> HIDE DEF b
<1>5. /\ calm' \in [Services -> BOOLEAN] /\ calm'[act[r].svc] = b
      /\ \A s \in Services : s # act[r].svc => calm'[s] = calm[s]
  BY <1>2, <1>3, <1>4
<1> QED BY <1>1, <1>3, <1>5, ServingEnds

\* A step of r that leaves all other services alone.
LEMMA OtherRoutes ==
  ASSUME NEW r \in Requests, NEW s, s # act[r].svc, calm'[s] = calm[s], core'[s] = core[s],
         ActiveHosts(s)' = ActiveHosts(s)
  PROVE  RouteStep(s, r)
BY DEF RouteStep

\* A request that reads rows and moves on, or that gives up and says so.
LEMMA ReadTargetsKeeps ==
  ASSUME ProxyInv, NEW r \in Requests, NEW node \in {"core", "agent"}, ReadTargets(r, node),
         act[r].pc \in {"regenerate", "targets"}, node = "agent" => act[r].svc \in Remote
  PROVE  ProxyInv'
<1>0. TypesOK /\ r \in Actors /\ act[r] \in Local /\ act \in [Actors -> Local] /\ act[r].pc \in Serving
  BY ActorsDistinct DEF ProxyInv, TypesOK, Serving
<1>1. act[r].svc \in Services
  BY <1>0 DEF ProxyInv, ShapesOK, ShapeOf
<1>2. UNCHANGED <<services, rows, core, agent, panel, young, traefik>>
  BY DEF ReadTargets
<1>3. /\ \A h \in Hosts : RowStep(h, r)
      /\ \A s : ActiveHosts(s)' = ActiveHosts(s)
  BY <1>2, RowsStay DEF RowStep
<1>4. CASE /\ UNCHANGED calm
           /\ act' = [act EXCEPT ![r].hosts = ActiveHosts(act[r].svc), ![r].node = node, ![r].pc = "file"]
  <2>1. PICK hosts \in SUBSET Hosts : hosts = ActiveHosts(act[r].svc)
    BY DEF ActiveHosts, RowsOf
  <2> DEFINE x == [act[r] EXCEPT !.hosts = hosts, !.node = node, !.pc = "file"]
  <2>2. act' = [act EXCEPT ![r] = x]
    BY <1>0, <1>4, <2>1
  <2>3. "file" \in Steps
    BY DEF Steps, Serving
  <2>4. x \in Local
    BY <1>0, <2>3 DEF Local
  <2>5. x.alone = act[r].alone
    BY <1>0 DEF Local
  <2>6. x.pc = "file" /\ x.svc = act[r].svc /\ x.hosts = hosts /\ x.node = node /\ x.op = act[r].op
        /\ x.version = act[r].version
    BY <1>0 DEF Local
  <2> HIDE DEF x
  <2>7. Only(r) /\ act'[r] = x
    BY <1>0, <2>2, <2>4 DEF Only, Same
  <2>8. TypesOK'
    BY <1>0, <1>2, <1>4, <2>7 DEF TypesOK, Only
  <2>9. ShapeOf(act'[r])
    BY <1>0, <1>1, <2>6, <2>7 DEF ProxyInv, ShapesOK, ShapeOf
  <2>10. FileRight(r)'
    BY <1>2, <2>1, <2>6, <2>7 DEF FileRight, ActiveHosts, RowsOf
  <2>11. \A s \in services' \ Remote : RouteStep(s, r)
    BY <1>2, <1>3, <1>4, <2>6, <2>7 DEF RouteStep, Dirty
  <2> QED BY <1>0, <1>2, <1>3, <2>5, <2>6, <2>7, <2>8, <2>9, <2>10, <2>11, ServingKeeps
<1>5. CASE Settle(r, FALSE)
  <2>1. /\ Only(r) /\ act'[r].pc = "done" /\ ShapeOf(act'[r]) /\ FileRight(r)'
        /\ calm' \in [Services -> BOOLEAN] /\ ~calm'[act[r].svc]
        /\ \A s \in Services : s # act[r].svc => calm'[s] = calm[s]
    BY <1>1, <1>5, Settles
  <2>2. TypesOK'
    BY <1>0, <1>2, <2>1 DEF TypesOK, Only
  <2>3. ASSUME NEW s \in services' \ Remote PROVE RouteStep(s, r)
    <3>1. s \in Services
      BY <1>0, <1>2 DEF TypesOK
    <3>2. CASE s = act[r].svc
      BY <2>1, <3>2 DEF RouteStep
    <3>3. CASE s # act[r].svc
      BY <1>2, <1>3, <2>1, <3>1, <3>3, OtherRoutes
    <3> QED BY <3>2, <3>3
  <2> QED BY <1>0, <1>2, <1>3, <2>1, <2>2, <2>3, ServingKeeps
<1> QED BY <1>4, <1>5 DEF ReadTargets

\* The last step of a request about a service: when it says that all is well, it is.
LEMMA SettleKeeps ==
  ASSUME ProxyInv, NEW r \in Requests, act[r].pc \in Serving, NEW ok \in BOOLEAN, Settle(r, ok),
         services' \subseteq services, rows' \in [Hosts -> {NoRow} \cup Row],
         core' \in [Services -> SUBSET Hosts], agent' \in [Services -> SUBSET Hosts],
         UNCHANGED <<panel, young, traefik>>,
         \A h \in Hosts : rows'[h] = rows[h] \/ rows'[h] = NoRow,
         \A s \in Services : s # act[r].svc => core'[s] = core[s] /\ ActiveHosts(s)' = ActiveHosts(s),
         \A s \in services' \ Remote : s = act[r].svc /\ ok /\ act[r].alone => core'[s] = ActiveHosts(s)'
  PROVE  ProxyInv'
<1>0. TypesOK /\ act[r].svc \in Services
  BY ActorsDistinct DEF ProxyInv, ShapesOK, ShapeOf
<1>1. /\ Only(r) /\ act'[r].pc = "done" /\ ShapeOf(act'[r]) /\ FileRight(r)'
      /\ calm' \in [Services -> BOOLEAN]
      /\ calm'[act[r].svc] => ok /\ act[r].alone
      /\ \A s \in Services : s # act[r].svc => calm'[s] = calm[s]
  BY <1>0, Settles
<1>2. TypesOK'
  BY <1>0, <1>1 DEF TypesOK, Only
<1>3. ASSUME NEW s \in services' \ Remote PROVE RouteStep(s, r)
  <2>1. s \in Services
    BY <1>0 DEF TypesOK
  <2>2. CASE s = act[r].svc
    BY <1>1, <2>2 DEF RouteStep
  <2>3. CASE s # act[r].svc
    BY <1>1, <2>1, <2>3, OtherRoutes
  <2> QED BY <2>2, <2>3
<1>4. \A h \in Hosts : RowStep(h, r)
  BY DEF RowStep
<1> QED BY <1>0, <1>1, <1>2, <1>3, <1>4, ServingKeeps

LEMMA WritesKeep ==
  ASSUME ProxyInv, NEW r \in Requests,
         ReachAgent(r) \/ WriteFile(r) \/ PushFile(r) \/ WriteBalanced(r) \/ Forget(r) \/ BalancedDomains(r)
  PROVE  ProxyInv'
<1>0. /\ TypesOK /\ r \in Actors /\ act[r] \in Local /\ ShapeOf(act[r]) /\ act \in [Actors -> Local]
      /\ rows \in [Hosts -> {NoRow} \cup Row]
      /\ core \in [Services -> SUBSET Hosts] /\ agent \in [Services -> SUBSET Hosts]
  BY ActorsDistinct DEF ProxyInv, TypesOK, ShapesOK
<1>1. CASE ReachAgent(r)
  <2>1. /\ act[r].pc = "regenerate" /\ NodeFor(r) = "agent"
        /\ UNCHANGED <<services, rows, core, agent, panel, young, traefik>>
        /\ (Goto(r, "targets") /\ UNCHANGED calm) \/ Settle(r, FALSE)
    BY <1>1 DEF ReachAgent
  <2>2. act[r].pc \in Serving /\ act[r].svc \in Services /\ act[r].hosts \subseteq Hosts /\ act[r].svc \in Remote
    BY <1>0, <2>1 DEF Serving, ShapeOf, NodeFor, service_server
  <2>3. \A s : ActiveHosts(s)' = ActiveHosts(s)
    BY <2>1, RowsStay
  <2>4. CASE Settle(r, FALSE)
    BY <1>0, <2>1, <2>2, <2>3, <2>4, SettleKeeps
  <2>5. CASE Goto(r, "targets") /\ UNCHANGED calm
    <3>1. Only(r) /\ Proceeds(r, "targets")
      BY <1>0, <2>5, Goes DEF Steps, Serving
    <3>2. TypesOK'
      BY <1>0, <2>1, <2>5, <3>1 DEF TypesOK, Only
    <3>3. ShapeOf(act'[r])
      BY <1>0, <2>2, <3>1 DEF ShapeOf, Proceeds
    <3>4. \A s \in services' \ Remote : RouteStep(s, r)
      BY <2>1, <2>3, <2>5, <3>1 DEF RouteStep, Proceeds, Dirty
    <3>5. FileRight(r)' /\ \A h \in Hosts : RowStep(h, r)
      BY <2>1, <3>1 DEF FileRight, RowStep, Proceeds
    <3> QED BY <2>1, <2>2, <2>3, <3>1, <3>2, <3>3, <3>4, <3>5, ServingKeeps DEF Proceeds
  <2> QED BY <2>1, <2>4, <2>5
<1>2. CASE WriteFile(r)
  <2>1. /\ act[r].pc = "file" /\ act[r].node = "core" /\ core' = [core EXCEPT ![act[r].svc] = act[r].hosts]
        /\ Settle(r, TRUE) /\ UNCHANGED <<services, rows, agent, panel, young, traefik>>
    BY <1>2 DEF WriteFile
  <2>2. act[r].pc \in Serving /\ act[r].svc \in Services /\ act[r].hosts \subseteq Hosts
    BY <1>0, <2>1 DEF Serving, ShapeOf
  <2>3. \A s : ActiveHosts(s)' = ActiveHosts(s)
    BY <2>1, RowsStay
  <2>4. act[r].alone => act[r].hosts = ActiveHosts(act[r].svc)
    BY <2>1 DEF ProxyInv, FilesOK
  <2>5. core' \in [Services -> SUBSET Hosts]
    BY <1>0, <2>1, <2>2
  <2>6. \A s \in Services : s # act[r].svc => core'[s] = core[s]
    BY <1>0, <2>1
  <2>7. \A s \in services' \ Remote : s = act[r].svc /\ act[r].alone => core'[s] = ActiveHosts(s)'
    BY <1>0, <2>1, <2>2, <2>3, <2>4
  <2> QED BY <1>0, <2>1, <2>2, <2>3, <2>5, <2>6, <2>7, SettleKeeps
<1>3. CASE PushFile(r)
  <2>1. /\ act[r].pc = "file" /\ act[r].node = "agent"
        /\ agent' \in {agent, [agent EXCEPT ![act[r].svc] = act[r].hosts]}
        /\ \E ok \in BOOLEAN : Settle(r, ok)
        /\ UNCHANGED <<services, rows, core, panel, young, traefik>>
    BY <1>3 DEF PushFile, write_file
  <2>2. act[r].pc \in Serving /\ act[r].svc \in Services /\ act[r].hosts \subseteq Hosts /\ act[r].svc \in Remote
    BY <1>0, <2>1 DEF Serving, ShapeOf
  <2>3. \A s : ActiveHosts(s)' = ActiveHosts(s)
    BY <2>1, RowsStay
  <2>4. agent' \in [Services -> SUBSET Hosts]
    BY <1>0, <2>1, <2>2
  <2> QED BY <1>0, <2>1, <2>2, <2>3, <2>4, SettleKeeps
<1>4. CASE WriteBalanced(r)
  <2>1. /\ act[r].pc = "balanced" /\ core' = [core EXCEPT ![act[r].svc] = act[r].hosts]
        /\ Settle(r, FALSE) /\ UNCHANGED <<services, rows, agent, panel, young, traefik>>
    BY <1>4 DEF WriteBalanced, regenerate_service_config_lb
  <2>2. act[r].pc \in Serving /\ act[r].svc \in Services /\ act[r].hosts \subseteq Hosts
    BY <1>0, <2>1 DEF Serving, ShapeOf
  <2>3. \A s : ActiveHosts(s)' = ActiveHosts(s)
    BY <2>1, RowsStay
  <2>5. core' \in [Services -> SUBSET Hosts] /\ \A s \in Services : s # act[r].svc => core'[s] = core[s]
    BY <1>0, <2>1, <2>2
  <2> QED BY <1>0, <2>1, <2>2, <2>3, <2>5, SettleKeeps
<1>5. CASE Forget(r)
  <2>1. PICK s : /\ s = act[r].svc /\ act[r].pc = "forget"
                 /\ core' \in {core, [core EXCEPT ![s] = {}]}
                 /\ rows' = [h \in Hosts |-> IF h \in RowsOf(s) THEN NoRow ELSE rows[h]]
                 /\ services' = services \ {s}
                 /\ Settle(r, FALSE) /\ UNCHANGED <<agent, panel, young, traefik>>
    BY <1>5 DEF Forget
  <2>2. act[r].pc \in Serving /\ s \in Services
    BY <1>0, <2>1 DEF Serving, ShapeOf
  <2>3. \A x \in Services : x # s => ActiveHosts(x)' = ActiveHosts(x)
    BY <2>1 DEF ActiveHosts, RowsOf
  <2>4. rows' \in [Hosts -> {NoRow} \cup Row] /\ \A h \in Hosts : rows'[h] = rows[h] \/ rows'[h] = NoRow
    BY <1>0, <2>1
  <2>5. core' \in [Services -> SUBSET Hosts] /\ \A x \in Services : x # s => core'[x] = core[x]
    BY <1>0, <2>1, <2>2
  <2> QED BY <1>0, <2>1, <2>2, <2>3, <2>4, <2>5, SettleKeeps
<1>6. CASE BalancedDomains(r)
  <2>1. act[r].pc = "domains" /\ UNCHANGED <<routing, traefik>>
    BY <1>6 DEF BalancedDomains
  <2>2. act[r].pc \in Serving /\ act[r].svc \in Services /\ act[r].pc \notin Dirty
    BY <1>0, <2>1 DEF Serving, ShapeOf, Dirty
  <2>3. /\ \A s : ActiveHosts(s)' = ActiveHosts(s)
        /\ \A h \in Hosts : RowStep(h, r)
        /\ \A s \in services' \ Remote : RouteStep(s, r)
    BY <2>1, <2>2, RowsStay DEF RowStep, RouteStep
  <2>4. CASE End(r)
    <3>1. Only(r) /\ act'[r].pc = "done" /\ ShapeOf(act'[r]) /\ FileRight(r)'
      BY <2>4, ServingEnds
    <3>2. TypesOK'
      BY <1>0, <2>1, <3>1 DEF TypesOK, Only
    <3> QED BY <2>1, <2>2, <2>3, <3>1, <3>2, ServingKeeps
  <2>5. CASE act' = [act EXCEPT ![r].hosts = RowsOf(act[r].svc), ![r].pc = "balanced"]
    <3>1. PICK hosts \in SUBSET Hosts : hosts = RowsOf(act[r].svc)
      BY DEF RowsOf
    <3> DEFINE x == [act[r] EXCEPT !.hosts = hosts, !.pc = "balanced"]
    <3>2. act' = [act EXCEPT ![r] = x]
      BY <1>0, <2>5, <3>1
    <3>3. "balanced" \in Steps
      BY DEF Steps, Serving
    <3>4. x \in Local
      BY <1>0, <3>3 DEF Local
    <3>5. x.alone = act[r].alone
      BY <1>0 DEF Local
    <3>6. x.pc = "balanced" /\ x.svc = act[r].svc /\ x.hosts = hosts /\ x.op = act[r].op /\ x.version = act[r].version
      BY <1>0 DEF Local
    <3> HIDE DEF x
    <3>7. Only(r) /\ act'[r] = x
      BY <1>0, <3>2, <3>4 DEF Only, Same
    <3>8. TypesOK'
      BY <1>0, <2>1, <3>7 DEF TypesOK, Only
    <3>9. ShapeOf(act'[r]) /\ FileRight(r)'
      BY <1>0, <2>2, <3>6, <3>7 DEF ShapeOf, FileRight
    <3> QED BY <2>1, <2>2, <2>3, <3>5, <3>6, <3>7, <3>8, <3>9, ServingKeeps
  <2> QED BY <1>6, <2>4, <2>5 DEF BalancedDomains
<1> QED BY <1>1, <1>2, <1>3, <1>4, <1>5, <1>6

\* A request that wrote a row of its own service, and ends or regenerates the file.
LEMMA RowWriteKeeps ==
  ASSUME ProxyInv, NEW r \in Requests, act[r].pc \in {"insert", "write"},
         rows' \in [Hosts -> {NoRow} \cup Row],
         \A h \in Hosts : \/ rows'[h] = rows[h] \/ rows'[h] = NoRow
                          \/ rows[h] # NoRow /\ rows'[h].id = rows[h].id /\ rows'[h].svc = rows[h].svc
                          \/ rows'[h].id = r /\ act[r].pc = "insert" /\ h \in young',
         \A s \in Services : s # act[r].svc => ActiveHosts(s)' = ActiveHosts(s),
         (End(r) /\ \A s \in Services : ActiveHosts(s)' = ActiveHosts(s)) \/ Goto(r, "regenerate"),
         young \subseteq young', UNCHANGED <<services, core, agent, panel, calm, traefik>>
  PROVE  ProxyInv'
<1>0. /\ TypesOK /\ act[r].pc \in Serving /\ act[r].pc \notin Dirty /\ act[r].svc \in Services /\ ShapeOf(act[r])
      /\ act[r].hosts \subseteq Hosts /\ services \subseteq Services
  BY ActorsDistinct DEF ProxyInv, ShapesOK, ShapeOf, Serving, Dirty, TypesOK
<1>1. \A h \in Hosts : rows'[h] # NoRow => rows[h] # NoRow \/ h \in young'
  OBVIOUS
<1>2. CASE End(r) /\ \A s \in Services : ActiveHosts(s)' = ActiveHosts(s)
  <2>1. Only(r) /\ act'[r].pc = "done" /\ ShapeOf(act'[r]) /\ FileRight(r)'
    BY <1>2, ServingEnds
  <2>2. TypesOK'
    BY <1>0, <2>1 DEF TypesOK, Only
  <2>3. \A h \in Hosts : RowStep(h, r)
    BY <2>1 DEF RowStep, Started
  <2>4. \A s \in services' \ Remote : RouteStep(s, r)
    BY <1>0, <1>2 DEF RouteStep
  <2> QED BY <1>0, <1>1, <2>1, <2>2, <2>3, <2>4, ServingKeeps
<1>3. CASE Goto(r, "regenerate")
  <2>1. Only(r) /\ Proceeds(r, "regenerate")
    BY <1>0, <1>3, Goes, ActorsDistinct DEF Steps, Serving
  <2>2. TypesOK'
    BY <1>0, <2>1 DEF TypesOK, Only
  <2>3. \A h \in Hosts : RowStep(h, r)
    BY <2>1 DEF RowStep, Started, Proceeds
  <2>4. ASSUME NEW s \in services' \ Remote PROVE RouteStep(s, r)
    <3>1. CASE s = act[r].svc
      BY <2>1, <3>1 DEF RouteStep, Proceeds, Dirty
    <3>2. CASE s # act[r].svc
      BY <1>0, <3>2, OtherRoutes
    <3> QED BY <3>1, <3>2
  <2>5. ShapeOf(act'[r]) /\ FileRight(r)'
    BY <1>0, <2>1 DEF ShapeOf, Proceeds, FileRight
  <2> QED BY <1>0, <1>1, <2>1, <2>2, <2>3, <2>4, <2>5, ServingKeeps DEF Proceeds
<1> QED BY <1>2, <1>3

LEMMA NewRowTyped ==
  ASSUME NEW r \in Requests, TypesOK, act[r].svc \in Services, NEW active \in BOOLEAN, NEW generated \in BOOLEAN
  PROVE  /\ NewRow(r, active, generated) \in Row /\ NewRow(r, active, generated) # NoRow
         /\ NewRow(r, active, generated).id = r /\ NewRow(r, active, generated).svc = act[r].svc
         /\ NewRow(r, active, generated).active = active
<1>1. act[r].target \in Targets
  BY ActorsDistinct DEF TypesOK, Local
<1> DEFINE x == NewRow(r, active, generated)
<1>2. x \in Row
  BY <1>1 DEF NewRow, Row
<1>3. x.id = r /\ x.svc = act[r].svc
  BY DEF NewRow
<1>4. x.active = active
  BY DEF NewRow
<1> HIDE DEF x
<1>5. x # NoRow
  BY <1>2, NoRowIsNoRow
<1> QED BY <1>2, <1>3, <1>4, <1>5 DEF x

LEMMA RowWritersKeep ==
  ASSUME ProxyInv, NEW r \in Requests,
         \/ InsertDraft(r) \/ InsertGenerated(r) \/ UpdateRow(r) \/ DeleteRow(r)
         \/ SwitchRow(r, "activate", TRUE) \/ SwitchRow(r, "deactivate", FALSE)
  PROVE  ProxyInv'
<1>0. /\ TypesOK /\ r \in Actors /\ ShapeOf(act[r]) /\ rows \in [Hosts -> {NoRow} \cup Row]
  BY ActorsDistinct DEF ProxyInv, TypesOK, ShapesOK
<1>00. ASSUME act[r].pc \in {"insert", "write"} PROVE act[r].svc \in Services
  BY <1>0, <1>00 DEF ShapeOf, Serving
\* A row that is inserted where there was none.
<1>a. ASSUME NEW active \in BOOLEAN, NEW generated \in BOOLEAN, act[r].pc = "insert", rows[act[r].host] = NoRow,
             rows' = [rows EXCEPT ![act[r].host] = NewRow(r, active, generated)],
             young' = young \cup {act[r].host}
      PROVE  /\ rows' \in [Hosts -> {NoRow} \cup Row]
             /\ \A h \in Hosts : rows'[h] = rows[h] \/ (rows'[h].id = r /\ h \in young')
             /\ \A s \in Services : s # act[r].svc \/ ~active => ActiveHosts(s)' = ActiveHosts(s)
  <2> DEFINE new == NewRow(r, active, generated)
  <2>1. /\ new \in Row /\ new # NoRow /\ new.id = r /\ new.svc = act[r].svc /\ new.active = active
    BY <1>0, <1>00, <1>a, NewRowTyped
  <2>2. rows' = [rows EXCEPT ![act[r].host] = new]
    BY <1>a
  <2> HIDE DEF new
  <2>3. rows' \in [Hosts -> {NoRow} \cup Row] /\ \A h \in Hosts : rows'[h] = IF h = act[r].host THEN new ELSE rows[h]
    BY <1>0, <2>1, <2>2
  <2>4. ASSUME NEW s \in Services, s # act[r].svc \/ ~active PROVE ActiveHosts(s)' = ActiveHosts(s)
    <3>1. ASSUME NEW h \in Hosts
          PROVE  rows'[h] # NoRow /\ rows'[h].svc = s /\ rows'[h].active <=> rows[h] # NoRow /\ rows[h].svc = s /\ rows[h].active
      BY <1>a, <2>1, <2>3, <2>4
    <3> QED BY <3>1 DEF ActiveHosts, RowsOf
  <2> QED BY <1>a, <2>1, <2>3, <2>4
\* The row that was read, changed or deleted.
<1>b. ASSUME act[r].pc = "write", SameRow(r), NEW new \in {NoRow} \cup Row, rows' = [rows EXCEPT ![act[r].host] = new],
             new # NoRow => new.id = rows[act[r].host].id /\ new.svc = rows[act[r].host].svc
      PROVE  /\ rows' \in [Hosts -> {NoRow} \cup Row]
             /\ \A h \in Hosts : \/ rows'[h] = rows[h] \/ rows'[h] = NoRow
                                 \/ rows[h] # NoRow /\ rows'[h].id = rows[h].id /\ rows'[h].svc = rows[h].svc
             /\ \A s \in Services : s # act[r].svc => ActiveHosts(s)' = ActiveHosts(s)
  <2>1. act[r].host \in Hosts /\ rows[act[r].host] # NoRow /\ rows[act[r].host].svc = act[r].svc
    BY <1>0, <1>b DEF ShapeOf, ProxyInv, RowsOK, SameRow
  <2>2. rows' \in [Hosts -> {NoRow} \cup Row] /\ \A h \in Hosts : rows'[h] = IF h = act[r].host THEN new ELSE rows[h]
    BY <1>0, <1>b
  <2>3. ASSUME NEW s \in Services, s # act[r].svc PROVE ActiveHosts(s)' = ActiveHosts(s)
    <3>1. ASSUME NEW h \in Hosts
          PROVE  rows'[h] # NoRow /\ rows'[h].svc = s /\ rows'[h].active <=> rows[h] # NoRow /\ rows[h].svc = s /\ rows[h].active
      BY <1>b, <2>1, <2>2, <2>3
    <3> QED BY <3>1 DEF ActiveHosts, RowsOf
  <2> QED BY <1>b, <2>1, <2>2, <2>3
<1>c. ASSUME rows' = rows PROVE \A s : ActiveHosts(s)' = ActiveHosts(s)
  BY <1>c, RowsStay
<1>1. CASE InsertDraft(r)
  <2>1. act[r].pc = "insert" /\ End(r) /\ UNCHANGED <<services, core, agent, panel, calm, traefik>>
    BY <1>1 DEF InsertDraft
  <2>2. CASE /\ rows[act[r].host] = NoRow /\ rows' = [rows EXCEPT ![act[r].host] = NewRow(r, FALSE, FALSE)]
             /\ young' = young \cup {act[r].host}
    BY <1>a, <2>1, <2>2, RowWriteKeeps
  <2>3. CASE UNCHANGED <<rows, young>>
    BY <1>0, <1>c, <2>1, <2>3, RowWriteKeeps
  <2> QED BY <1>1, <2>2, <2>3 DEF InsertDraft
<1>2. CASE InsertGenerated(r)
  <2>1. act[r].pc = "insert" /\ UNCHANGED <<services, core, agent, panel, calm, traefik>>
    BY <1>2 DEF InsertGenerated
  <2>2. CASE /\ rows[act[r].host] = NoRow /\ rows' = [rows EXCEPT ![act[r].host] = NewRow(r, TRUE, TRUE)]
             /\ young' = young \cup {act[r].host} /\ Goto(r, "regenerate")
    BY <1>a, <2>1, <2>2, RowWriteKeeps
  <2>3. CASE UNCHANGED <<rows, young>> /\ End(r)
    BY <1>0, <1>c, <2>1, <2>3, RowWriteKeeps
  <2> QED BY <1>2, <2>2, <2>3 DEF InsertGenerated
<1>3. CASE UpdateRow(r)
  <2>1. /\ act[r].pc = "write" /\ UNCHANGED <<services, core, agent, panel, calm, young, traefik>>
        /\ End(r) \/ Goto(r, "regenerate")
        /\ rows' = IF SameRow(r) THEN [rows EXCEPT ![act[r].host].target = act[r].target] ELSE rows
    BY <1>3 DEF UpdateRow
  <2>2. CASE SameRow(r)
    <3> DEFINE new == [rows[act[r].host] EXCEPT !.target = act[r].target]
    <3>1. act[r].host \in Hosts /\ rows[act[r].host] # NoRow
      BY <1>0, <2>1, <2>2 DEF ShapeOf, SameRow
    <3>2. rows[act[r].host] \in Row /\ act[r].target \in Targets
      BY <1>0, <3>1 DEF TypesOK, Local
    <3>3. new \in Row
      BY <3>2 DEF Row
    <3>4. new.id = rows[act[r].host].id /\ new.svc = rows[act[r].host].svc
      BY <3>2 DEF Row
    <3>5. new.active = rows[act[r].host].active
      BY <3>2 DEF Row
    <3>6. rows' = [rows EXCEPT ![act[r].host] = new]
      BY <2>1, <2>2
    <3> HIDE DEF new
    <3>7. \A s \in Services : ActiveHosts(s)' = ActiveHosts(s)
      <4> SUFFICES ASSUME NEW s \in Services PROVE ActiveHosts(s)' = ActiveHosts(s)
        OBVIOUS
      <4>1. \A h \in Hosts : rows'[h] = IF h = act[r].host THEN new ELSE rows[h]
        BY <1>0, <3>6
      <4>2. new # NoRow
        BY <3>3, NoRowIsNoRow
      <4>3. ASSUME NEW h \in Hosts
            PROVE  rows'[h] # NoRow /\ rows'[h].svc = s /\ rows'[h].active <=> rows[h] # NoRow /\ rows[h].svc = s /\ rows[h].active
        BY <3>1, <3>4, <3>5, <4>1, <4>2
      <4> QED BY <4>3 DEF ActiveHosts, RowsOf
    <3> QED BY <1>b, <2>1, <2>2, <3>3, <3>4, <3>6, <3>7, RowWriteKeeps
  <2>3. CASE ~SameRow(r)
    BY <1>0, <1>c, <2>1, <2>3, RowWriteKeeps
  <2> QED BY <2>2, <2>3
<1>4. CASE DeleteRow(r)
  <2>1. /\ act[r].pc = "write" /\ UNCHANGED <<services, core, agent, panel, calm, young, traefik>>
    BY <1>4 DEF DeleteRow
  <2>2. CASE SameRow(r)
    <3>1. rows' = [rows EXCEPT ![act[r].host] = NoRow] /\ Goto(r, "regenerate")
      BY <1>4, <2>2 DEF DeleteRow
    <3> QED BY <1>b, <2>1, <2>2, <3>1, RowWriteKeeps
  <2>3. CASE ~SameRow(r)
    <3>1. rows' = rows /\ End(r)
      BY <1>4, <2>3 DEF DeleteRow
    <3> QED BY <1>0, <1>c, <2>1, <3>1, RowWriteKeeps
  <2> QED BY <2>2, <2>3
<1>5. ASSUME NEW on \in BOOLEAN, NEW op, SwitchRow(r, op, on) PROVE ProxyInv'
  <2>1. /\ act[r].pc = "write" /\ UNCHANGED <<services, core, agent, panel, calm, young, traefik>>
        /\ Goto(r, "regenerate")
        /\ rows' = IF SameRow(r) THEN [rows EXCEPT ![act[r].host].active = on] ELSE rows
    BY <1>5 DEF SwitchRow
  <2>2. CASE SameRow(r)
    <3> DEFINE new == [rows[act[r].host] EXCEPT !.active = on]
    <3>1. act[r].host \in Hosts /\ rows[act[r].host] # NoRow
      BY <1>0, <2>1, <2>2 DEF ShapeOf, SameRow
    <3>2. rows[act[r].host] \in Row
      BY <1>0, <3>1 DEF TypesOK
    <3>3. new \in Row
      BY <3>2 DEF Row
    <3>4. new.id = rows[act[r].host].id /\ new.svc = rows[act[r].host].svc
      BY <3>2 DEF Row
    <3>6. rows' = [rows EXCEPT ![act[r].host] = new]
      BY <2>1, <2>2
    <3> HIDE DEF new
    <3> QED BY <1>b, <2>1, <2>2, <3>3, <3>4, <3>6, RowWriteKeeps
  <2>3. CASE ~SameRow(r)
    BY <1>0, <1>c, <2>1, <2>3, RowWriteKeeps
  <2> QED BY <2>2, <2>3
<1> QED BY <1>1, <1>2, <1>3, <1>4, <1>5

LEMMA RequestStepKeeps ==
  ASSUME ProxyInv, NEW r \in Requests, RequestStep(r)
  PROVE  ProxyInv'
<1>1. CASE RegenerateHere(r)
  BY <1>1, ReadTargetsKeeps DEF RegenerateHere
<1>2. CASE TargetsForAgent(r)
  <2>1. act[r].svc \in Remote
    BY <1>2, ActorsDistinct DEF TargetsForAgent, ProxyInv, ShapesOK, ShapeOf
  <2> QED BY <1>2, <2>1, ReadTargetsKeeps DEF TargetsForAgent
<1> QED BY <1>1, <1>2, WritesKeep, RowWritersKeep, HandlerKeeps DEF RequestStep

-----------------------------------------------------------------------------
(* The theorems.                                                             *)

LEMMA NextKeeps ==
  ASSUME ProxyInv, [Next]_vars
  PROVE  ProxyInv'
<1>1. CASE Next
  <2>1. CASE \E r \in Requests : RequestArrives(r) \/ RequestStep(r)
    BY <2>1, RequestArrivesKeeps, RequestStepKeeps
  <2>2. CASE \E a \in Actors : DeployStep(a)
    BY <2>2, DeployKeeps
  <2>3. CASE WatchdogStep
    BY <2>3, WatchdogKeeps
  <2>4. CASE BackoffElapses \/ Sweep \/ Issue \/ StrayStop
    BY <2>4, WorldKeeps
  <2>5. CASE BootStep
    BY <2>5, BootKeeps
  <2>6. CASE Crash
    BY <2>6, CrashKeeps
  <2> QED BY <1>1, <2>1, <2>2, <2>3, <2>4, <2>5, <2>6 DEF Next
<1>2. CASE UNCHANGED vars
  BY <1>2 DEF vars, ProxyInv, TypesOK, ShapesOK, LockOK, RowsOK, Started, SameRow, AloneOK, Active, FilesOK,
              ActiveHosts, RowsOf, KeepsOK, BootOK
<1> QED BY <1>1, <1>2

\* The invariant holds in every state of the proxy, whatever requests, the boot task, the
\* watchdog and crashes of Pier interleave (api/domains.rs, proxy/mod.rs, proxy/watchdog.rs).
THEOREM ProxyInductive == Spec => []ProxyInv
BY InitHolds, NextKeeps, PTL DEF Spec

\* Rows, files, settings and the watchdog keep their types, and the step that replaces or
\* removes the Traefik container is taken by the holder of TRAEFIK_DEPLOY_LOCK only: no two
\* of enable, disable, update, the boot task and the watchdog are in it together.
THEOREM ProxyTypeCorrect == Spec => []ProxyTypeOK
<1>1. ProxyInv => ProxyTypeOK
  <2> SUFFICES ASSUME ProxyInv PROVE ProxyTypeOK
    OBVIOUS
  <2>1. TypesOK /\ LockOK
    BY DEF ProxyInv
  <2> QED BY <2>1 DEF TypesOK, LockOK, ProxyTypeOK
<1> QED BY <1>1, ProxyInductive, PTL

\* A router file whose last writer was alone and succeeded routes exactly the live domains
\* of its service (regenerate_service_config_multi after build_domain_targets), for any
\* number of services, hosts and requests.
THEOREM RoutesAlwaysFollowRows == Spec => []RoutesFollowRows
<1>1. ProxyInv => RoutesFollowRows
  <2> SUFFICES ASSUME ProxyInv, NEW s \in services \ Remote, calm[s],
                      \A r \in Requests : Active(r) => act[r].svc # s
               PROVE  core[s] = {h \in Hosts : rows[h] # NoRow /\ rows[h].svc = s /\ rows[h].active}
    BY DEF RoutesFollowRows
  <2>1. \A r \in Requests : act[r].pc \in Dirty => act[r].svc # s
    BY DEF Active, Dirty
  <2>2. core[s] = ActiveHosts(s)
    BY <2>1 DEF ProxyInv, FilesOK
  <2> QED BY <2>2 DEF ActiveHosts, RowsOf
<1> QED BY <1>1, ProxyInductive, PTL

\* Only the swap of the container takes certificates away.
LEMMA OnlySwapPrunes ==
  ASSUME [Next]_vars, ~(\E a \in Actors : Swap(a))
  PROVE  certs \subseteq certs'
<1>1. CASE \E r \in Requests : RequestArrives(r)
  BY <1>1 DEF RequestArrives, Create, Generate, ReadRow, Deployed, LoadBalance, CascadeDelete, RemoveService,
              RemoveStack, Enable, ChangeContact, SetPlatformDomain, Disable, Update
<1>2. ASSUME NEW r \in Requests, RequestStep(r) PROVE certs' = certs
  <2>1. CASE RegenerateHere(r) \/ ReachAgent(r) \/ TargetsForAgent(r) \/ WriteFile(r) \/ PushFile(r)
    BY <2>1 DEF RegenerateHere, ReachAgent, TargetsForAgent, ReadTargets, WriteFile, PushFile
  <2>2. CASE InsertDraft(r) \/ InsertGenerated(r) \/ UpdateRow(r) \/ DeleteRow(r)
             \/ SwitchRow(r, "activate", TRUE) \/ SwitchRow(r, "deactivate", FALSE)
    BY <2>2 DEF InsertDraft, InsertGenerated, UpdateRow, DeleteRow, SwitchRow
  <2>3. CASE BalancedDomains(r) \/ WriteBalanced(r) \/ Forget(r) \/ Begin(r) \/ FinishEnable(r)
             \/ WritePlatformRouter(r)
    BY <2>3 DEF BalancedDomains, WriteBalanced, Forget, Begin, FinishEnable, WritePlatformRouter
  <2>4. CASE StopTraefik(r) \/ Stopped(r) \/ FinishDisable(r) \/ UpdateDeploys(r) \/ UpdateRollsBack(r)
             \/ FinishUpdate(r)
    BY <2>4 DEF StopTraefik, Stopped, FinishDisable, UpdateDeploys, UpdateRollsBack, FinishUpdate
  <2> QED BY <1>2, <2>1, <2>2, <2>3, <2>4 DEF RequestStep
<1>3. CASE \E a \in Actors : DeployStep(a)
  BY <1>3 DEF DeployStep, TakeLock, Pull, Start
<1>4. CASE WatchdogStep \/ BackoffElapses \/ BootStep
  BY <1>4 DEF WatchdogStep, Check, Observe, Heal, HealDeploys, HealFallsBack, HealGivesUp, Healed,
              BackoffElapses, BootStep, BootDeploys, BootDone
<1>5. CASE Sweep \/ Issue \/ StrayStop \/ Crash
  BY <1>5 DEF Sweep, Issue, StrayStop, Crash
<1>6. CASE UNCHANGED vars
  BY <1>6 DEF vars
<1> QED BY <1>1, <1>2, <1>3, <1>4, <1>5, <1>6 DEF Next

\* Of the certificates a swap prunes, none belongs to a host whose row is older than the
\* keep list, nor to the panel while it is routed (acme_gc::prune_certificates).
LEMMA SwapSparesKnownHosts ==
  ASSUME ProxyInv, NEW a \in Actors, Swap(a), NEW h \in certs \ certs'
  PROVE  /\ h \in Hosts => rows[h] = NoRow \/ (h \in young /\ h \notin routed_hosts)
         /\ h = Panel => ~panel.file
<1>1. act[a].pc \in Keeping /\ certs' = prune_certificates(act[a].keep)
  BY DEF Swap, Keeping
<1>2. act[a].keep # NONE /\ h \notin act[a].keep \cup routed_hosts
  BY <1>1 DEF prune_certificates
<1>3. \A x \in Hosts : rows[x] # NoRow => x \in act[a].keep \cup young
  BY <1>1, <1>2 DEF ProxyInv, KeepsOK
<1> QED BY <1>2, <1>3 DEF routed_hosts

\* No redeploy of Traefik, however long its keep list was read before, drops the certificate
\* of a host that had a row then and still has one, or the panel's while it is routed
\* (acme_gc::domain_hosts, deploy_traefik_inner).
THEOREM CertificatesOfKnownHostsStay == Spec => KnownHostsKeepCertificates
<1>1. ASSUME ProxyInv, [Next]_vars, NEW h \in certs \ certs'
      PROVE  /\ h \in Hosts => rows[h] = NoRow \/ (h \in young /\ h \notin routed_hosts)
             /\ h = Panel => ~panel.file
  <2>1. PICK a \in Actors : Swap(a)
    BY <1>1, OnlySwapPrunes
  <2> QED BY <1>1, <2>1, SwapSparesKnownHosts
<1>2. ProxyInv /\ [Next]_vars =>
        [\A h \in certs \ certs' :
           /\ h \in Hosts => rows[h] = NoRow \/ (h \in young /\ h \notin routed_hosts)
           /\ h = Panel => ~panel.file]_vars
  BY <1>1
<1> QED BY <1>2, ProxyInductive, PTL DEF Spec, KnownHostsKeepCertificates
=============================================================================
