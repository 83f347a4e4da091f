---------------------------- MODULE RegistryProofs ----------------------------
(* Theorems about Registry, for any set of versions, users and requests.      *)
EXTENDS Registry, FiniteSetTheorems, TLAPS

USE DEF indexVars, fileVars, gcVars, envVars

\* A finite set of numbers that is not empty has a greatest element, so MAX(version) is
\* one of the rows it was taken over.
LEMMA MaxInSet ==
  ASSUME NEW S \in SUBSET Nat, IsFiniteSet(S), S # {}
  PROVE  Max(S) \in S /\ \A x \in S : Max(S) >= x
<1>1. S \subseteq Nat /\ IsFiniteSet(S)
  OBVIOUS
<1> DEFINE NoMax(U) == U # {} /\ \A x \in U : \E y \in U : y > x
<1> DEFINE Bad == {U \in SUBSET S : NoMax(U)}
<1>2. Bad = {}
  <2> SUFFICES ASSUME Bad # {} PROVE FALSE
    OBVIOUS
  <2>1. IsWellFoundedOn(StrictSubsetOrdering(S), FiniteSubsetsOf(S))
    BY FS_StrictSubsetOrderingWellFounded
  <2>2. Bad \subseteq FiniteSubsetsOf(S)
    BY <1>1, FS_FiniteSubsetsOfFinite
  <2>3. PICK U \in Bad : \A W \in Bad : ~(<<W, U>> \in StrictSubsetOrdering(S))
    BY <2>1, <2>2, WFMin
  <2>4. U \in SUBSET S /\ U # {} /\ \A x \in U : \E y \in U : y > x
    OBVIOUS
  <2>5. PICK x \in U : TRUE
    BY <2>4
  <2>6. PICK y \in U : y > x
    BY <2>4
  <2>7. x \in Nat /\ y \in Nat /\ U \subseteq Nat
    BY <1>1, <2>4
  <2> DEFINE W == U \ {x}
  <2>8. W \in SUBSET S /\ W # {} /\ W # U
    BY <2>4, <2>6, <2>7
  <2>9. ASSUME NEW z \in W PROVE \E w \in W : w > z
    <3>1. PICK w \in U : w > z
      BY <2>4, <2>9
    <3>2. CASE w # x
      BY <3>1, <3>2
    <3>3. CASE w = x
      BY <2>6, <2>7, <2>9, <3>1, <3>3
    <3> QED BY <3>2, <3>3
  <2>10. W \in Bad
    BY <2>8, <2>9
  <2>11. <<W, U>> \in StrictSubsetOrdering(S)
    <3>1. <<W, U>> \in (SUBSET S) \X (SUBSET S)
      BY <2>4, <2>8
    <3>2. W \subseteq U
      OBVIOUS
    <3> HIDE DEF W
    <3> QED BY <2>8, <3>1, <3>2 DEF StrictSubsetOrdering
  <2> HIDE DEF W, Bad
  <2> QED BY <2>3, <2>10, <2>11
<1>3. PICK x \in S : \A y \in S : ~(y > x)
  BY <1>2
<1>4. \A y \in S : x >= y
  BY <1>1, <1>3
<1> QED BY <1>4 DEF Max

LEMMA MaxOfVersions ==
  ASSUME NEW S \in SUBSET Versions, S # {}
  PROVE  Max(S) \in S
<1>1. S \subseteq Nat /\ IsFiniteSet(S)
  BY FS_Subset, RegistryConstants
<1> QED BY <1>1, MaxInSet

\* So has it a least one, the greatest counted down from the top: the version an
\* upstream begins with.
LEMMA MinInVersions ==
  ASSUME Versions # {}
  PROVE  Min(Versions) \in Versions
<1> DEFINE m == Max(Versions)
<1> DEFINE Down == {m - x : x \in Versions}
<1>1. Versions \in SUBSET Nat /\ IsFiniteSet(Versions)
  BY RegistryConstants
<1>2. m \in Versions /\ \A x \in Versions : m >= x
  BY <1>1, MaxInSet
<1> HIDE DEF m
<1>3. Down \in SUBSET Nat /\ Down # {}
  <2>1. ASSUME NEW x \in Versions PROVE m - x \in Nat
    BY <1>1, <1>2
  <2>2. m - m \in Down
    BY <1>2
  <2> QED BY <2>1, <2>2
<1>4. IsFiniteSet(Down)
  <2> DEFINE f == [x \in Versions |-> m - x]
  <2>1. f \in Surjection(Versions, Down)
    BY DEF Surjection
  <2> HIDE DEF f, Down
  <2> QED BY <1>1, <2>1, FS_Surjection
<1>5. Max(Down) \in Down /\ \A d \in Down : Max(Down) >= d
  BY <1>3, <1>4, MaxInSet
<1>6. PICK x \in Versions : Max(Down) = m - x
  BY <1>5
<1>7. \A y \in Versions : m - x >= m - y
  BY <1>5, <1>6
<1>8. \A y \in Versions : x =< y
  BY <1>1, <1>2, <1>7
<1> QED BY <1>8 DEF Min

-----------------------------------------------------------------------------
(* The inductive invariant.                                                  *)

Changes == {"set_tag", "remove_tag", "delete_version", "delete_package", "deprecate"}
Writing == {"tmp", "rename", "spawn"}
Reading == {"lookup", "state", "fetch", "finalize", "open", "write_back"}

ReqRow == [op : OpNames \cup {"none"}, pc : Steps, v : Versions \cup {NULL}, u : Users \cup {NULL}, tag : Tags,
           data : Bytes \cup {NULL}, body : (SUBSET Versions) \cup {NULL}, list : SUBSET Versions]

\* What a request carries at each step.
ShapeOf(q) ==
  /\ q.pc \in Writing \cup Reading \cup {"body", "insert", "set_tag", "delete_version", "deprecate"} => q.v \in Versions
  /\ q.pc = "auth" => q.op \in Changes /\ (q.op \in {"set_tag", "delete_version", "deprecate"} => q.v \in Versions)
  /\ q.pc = "upsert" => q.body \in SUBSET Versions /\ q.body # {}
  /\ q.pc \in {"body", "insert"} => q.op = "publish"
  /\ q.pc \in Writing => q.op \in {"publish", "tarball", "prefetch"}
  /\ q.pc \in Reading => q.op \in {"tarball", "prefetch"}
  /\ q.pc \in Writing \cup {"body", "write_back"} => q.data \in Bytes

\* A request that brings a tarball from upstream.
Proxies(q) == q.op # "publish" /\ q.pc \in {"fetch", "finalize"} \cup Writing

ReqOK == req \in [Requests -> ReqRow] /\ \A r \in Requests : ShapeOf(req[r])

PackageOK ==
  /\ pkg \in PackageRow /\ ver \in [Versions -> VersionRow \cup {NULL}]
  /\ pkg.is_proxy => pkg.exists
  /\ \A v \in Versions : ver[v] # NULL => pkg.exists
  /\ ~pkg.exists => pkg.tags = NoTags

FilesOK ==
  /\ hot \in [Versions -> Bytes \cup {NULL}]
  /\ tmp \in [Versions -> Bytes \cup {NULL}]
  /\ cold \in [Versions -> Bytes \cup {NULL}]
  /\ uploads \subseteq [v : Versions, data : Bytes]
  /\ sweep \subseteq [v : Versions, pc : {"unlink", "mark"}]
  /\ reap \in [files : SUBSET Versions, orphan : Versions \cup {NULL}]
  /\ cfg \in [enabled : BOOLEAN, s3 : BOOLEAN]
  /\ upstream \subseteq Versions /\ events \in Nat

\* Why the properties hold: only a proxied package has tarballs of an upstream on their
\* way, and a package nobody created has no tag.
RegistryInv ==
  /\ ReqOK /\ PackageOK /\ FilesOK /\ TagsResolve
  /\ \A r \in Requests : Proxies(req[r]) => pkg.is_proxy

-----------------------------------------------------------------------------
(* What a step makes of its request.                                         *)

Becomes(r, x) ==
  /\ req' = [req EXCEPT ![r] = x]
  /\ x \in ReqRow /\ ShapeOf(x) /\ (Proxies(x) => pkg.is_proxy)

LEMMA IdleRow ==
  /\ Idle \in ReqRow /\ ShapeOf(Idle) /\ ~Proxies(Idle)
  /\ Finished \in ReqRow /\ ShapeOf(Finished) /\ ~Proxies(Finished)
<1>1. /\ Idle \in ReqRow /\ Idle.pc = "new" /\ Finished \in ReqRow /\ Finished.pc = "done"
  BY DEF Idle, Finished, ReqRow, Steps, Tags, Bytes
<1> QED BY <1>1 DEF ShapeOf, Proxies, Writing, Reading, Changes

LEMMA Ends ==
  ASSUME ReqOK, NEW r \in Requests, End(r)
  PROVE  Becomes(r, Finished)
<1>1. req' = [req EXCEPT ![r] = Finished]
  BY DEF End, Goto, At, ReqOK
<1> QED BY <1>1, IdleRow DEF Becomes

\* A request whose fields have changed as described, and its step to pc.
LEMMA Becoming ==
  ASSUME ReqOK, NEW r \in Requests, NEW x \in ReqRow, req' = [req EXCEPT ![r] = x],
         x.op = req[r].op, x.v = req[r].v,
         x.pc \in Writing \cup Reading \cup {"body", "insert", "set_tag", "delete_version", "deprecate"} => x.v \in Versions,
         x.pc # "auth",
         x.pc = "upsert" => x.body \in SUBSET Versions /\ x.body # {},
         x.pc \in {"body", "insert"} => x.op = "publish",
         x.pc \in Writing => x.op \in {"publish", "tarball", "prefetch"},
         x.pc \in Reading => x.op \in {"tarball", "prefetch"},
         x.pc \in Writing \cup {"body", "write_back"} => x.data \in Bytes,
         Proxies(x) => pkg.is_proxy
  PROVE  Becomes(r, x)
BY DEF Becomes, ShapeOf

LEMMA Goes ==
  ASSUME ReqOK, NEW r \in Requests, NEW pc \in Steps \ {"auth", "upsert"}, Goto(r, pc),
         pc \in Writing \cup Reading \cup {"body", "insert", "set_tag", "delete_version", "deprecate"} => req[r].v \in Versions,
         pc \in {"body", "insert"} => req[r].op = "publish",
         pc \in Writing => req[r].op \in {"publish", "tarball", "prefetch"},
         pc \in Reading => req[r].op \in {"tarball", "prefetch"},
         pc \in Writing \cup {"body", "write_back"} => req[r].data \in Bytes,
         req[r].op # "publish" /\ pc \in {"fetch", "finalize"} \cup Writing => pkg.is_proxy
  PROVE  \E x \in ReqRow : Becomes(r, x)
<1>1. CASE pc = "done"
  BY <1>1, Ends, IdleRow DEF End
<1>2. CASE pc # "done"
  <2> DEFINE x == [req[r] EXCEPT !.pc = pc]
  <2>1. req[r] \in ReqRow
    BY DEF ReqOK
  <2>2. x \in ReqRow /\ x.pc = pc /\ x.op = req[r].op /\ x.v = req[r].v /\ x.data = req[r].data
    BY <2>1 DEF ReqRow
  <2>3. req' = [req EXCEPT ![r] = x]
    BY <1>2 DEF Goto, At
  <2> HIDE DEF x
  <2>4. Proxies(x) => pkg.is_proxy
    BY <2>2 DEF Proxies
  <2> QED BY <2>2, <2>3, <2>4, Becoming
<1> QED BY <1>1, <1>2

LEMMA StepMoves ==
  ASSUME RegistryInv, NEW r \in Requests, Step(r)
  PROVE  \E x \in ReqRow : Becomes(r, x)
<1>0. /\ ReqOK /\ req \in [Requests -> ReqRow] /\ req[r] \in ReqRow /\ ShapeOf(req[r])
      /\ (Proxies(req[r]) => pkg.is_proxy) /\ upstream \subseteq Versions
  BY DEF RegistryInv, ReqOK, FilesOK
<1> USE DEF Steps, Changes, Writing, Reading
<1>1. CASE WriteTmp(r)
  <2>1. req[r].pc = "tmp" /\ Goto(r, "rename")
    BY <1>1 DEF WriteTmp
  <2> QED BY <1>0, <2>1, Goes DEF ShapeOf, Proxies
<1>2. CASE Rename(r)
  <2>1. req[r].pc = "rename" /\ (End(r) \/ Goto(r, "spawn"))
    BY <1>2 DEF Rename
  <2>2. CASE Goto(r, "spawn")
    BY <1>0, <2>1, <2>2, Goes DEF ShapeOf, Proxies
  <2> QED BY <1>0, <2>1, <2>2, Ends, IdleRow
<1>3. CASE SpawnUpload(r)
  <2> DEFINE pc == IF req[r].op = "publish" THEN "insert" ELSE "finalize"
  <2>1. req[r].pc = "spawn" /\ (End(r) \/ Goto(r, pc))
    BY <1>3 DEF SpawnUpload
  <2>2. CASE Goto(r, pc)
    <3>1. req[r].v \in Versions /\ req[r].op \in {"publish", "tarball", "prefetch"}
          /\ (req[r].op # "publish" => pkg.is_proxy)
      BY <1>0, <2>1 DEF ShapeOf, Proxies
    <3>2. CASE req[r].op = "publish"
      BY <1>0, <2>2, <3>1, <3>2, Goes
    <3>3. CASE req[r].op # "publish"
      BY <1>0, <2>2, <3>1, <3>3, Goes
    <3> QED BY <3>2, <3>3
  <2> QED BY <1>0, <2>1, <2>2, Ends, IdleRow
<1>4. CASE AcceptPublish(r)
  <2>1. req[r].pc = "body" /\ (End(r) \/ Goto(r, "tmp"))
    BY <1>4 DEF AcceptPublish
  <2>2. CASE Goto(r, "tmp")
    BY <1>0, <2>1, <2>2, Goes DEF ShapeOf
  <2> QED BY <1>0, <2>1, <2>2, Ends, IdleRow
<1>5. CASE \/ handle_publish(r) \/ StorePackument(r) \/ WriteBack(r) \/ handle_set_dist_tag(r)
           \/ handle_remove_dist_tag(r) \/ handle_deprecate(r)
  <2>1. End(r)
    BY <1>5 DEF handle_publish, StorePackument, WriteBack, handle_set_dist_tag, handle_remove_dist_tag,
                handle_deprecate
  <2> QED BY <1>0, <2>1, Ends, IdleRow
<1>6. CASE LoadPackument(r)
  <2>1. PICK pc \in {"fetch_meta", "revalidate", "done"} : Goto(r, pc)
    BY <1>6 DEF LoadPackument
  <2> QED BY <1>0, <2>1, Goes
<1>7. ASSUME upstream # {}, req' = [req EXCEPT ![r].pc = "upsert", ![r].body = upstream]
      PROVE  \E x \in ReqRow : Becomes(r, x)
  <2> DEFINE x == [req[r] EXCEPT !.pc = "upsert", !.body = upstream]
  <2>1. req' = [req EXCEPT ![r] = x]
    BY <1>0, <1>7 DEF ReqRow
  <2>2. x \in ReqRow /\ x.pc = "upsert" /\ x.body = upstream /\ x.op = req[r].op /\ x.v = req[r].v
    BY <1>0 DEF ReqRow
  <2> HIDE DEF x
  <2> QED BY <1>0, <1>7, <2>1, <2>2, Becoming DEF Proxies
<1>8. CASE FetchPackument(r)
  <2>1. CASE End(r)
    BY <1>0, <2>1, Ends, IdleRow
  <2> QED BY <1>7, <1>8, <2>1 DEF FetchPackument
<1>9. CASE Revalidate(r)
  <2>1. CASE End(r)
    BY <1>0, <2>1, Ends, IdleRow
  <2>2. CASE Goto(r, "touch")
    BY <1>0, <2>2, Goes
  <2> QED BY <1>7, <1>9, <2>1, <2>2 DEF Revalidate
<1>10. CASE LookupTarball(r)
  <2> DEFINE meta == lookup_tarball(req[r].v)
  <2> DEFINE pc == IF meta = NULL \/ ~meta.cached THEN "state" ELSE "open"
  <2> DEFINE list == IF meta = NULL THEN {} ELSE {req[r].v}
  <2> DEFINE x == [req[r] EXCEPT !.pc = pc, !.list = list]
  <2>1. req[r].pc = "lookup" /\ req' = [req EXCEPT ![r].pc = pc, ![r].list = list]
    BY <1>10 DEF LookupTarball
  <2>2. req[r].v \in Versions /\ req[r].op \in {"tarball", "prefetch"}
    BY <1>0, <2>1 DEF ShapeOf
  <2>3. pc \in {"state", "open"} /\ list \in SUBSET Versions
    BY <2>2
  <2> HIDE DEF pc, list
  <2>4. req' = [req EXCEPT ![r] = x]
    BY <1>0, <2>1 DEF ReqRow
  <2>5. x \in ReqRow /\ x.pc = pc /\ x.op = req[r].op /\ x.v = req[r].v
    BY <1>0, <2>3 DEF ReqRow
  <2> HIDE DEF x
  <2> QED BY <1>0, <2>2, <2>3, <2>4, <2>5, Becoming DEF Proxies
<1>11. CASE ProxyState(r)
  <2> DEFINE url == lookup_proxy_tarball_state(req[r].v)
  <2>1. req[r].pc = "state"
    BY <1>11 DEF ProxyState
  <2>2. \/ url = "up" /\ Goto(r, "fetch")
        \/ Goto(r, "open") \/ Goto(r, "done")
    BY <1>11 DEF ProxyState
  <2>3. req[r].v \in Versions /\ req[r].op \in {"tarball", "prefetch"}
    BY <1>0, <2>1 DEF ShapeOf
  <2>4. url = "up" => pkg.is_proxy
    BY <1>0 DEF lookup_proxy_tarball_state
  <2> HIDE DEF url
  <2>6. CASE url = "up" /\ Goto(r, "fetch")
    BY <1>0, <2>3, <2>4, <2>6, Goes
  <2>7. CASE Goto(r, "open")
    BY <1>0, <2>3, <2>7, Goes
  <2>8. CASE Goto(r, "done")
    BY <1>0, <2>8, Goes
  <2> QED BY <2>2, <2>6, <2>7, <2>8
<1>12. CASE FetchTarball(r)
  <2>1. req[r].pc = "fetch"
    BY <1>12 DEF FetchTarball
  <2>2. req[r].v \in Versions /\ req[r].op \in {"tarball", "prefetch"} /\ pkg.is_proxy
    BY <1>0, <2>1 DEF ShapeOf, Proxies
  <2>3. CASE End(r)
    BY <1>0, <2>3, Ends, IdleRow
  <2>4. CASE req' = [req EXCEPT ![r].pc = "tmp", ![r].data = UP]
    <3> DEFINE x == [req[r] EXCEPT !.pc = "tmp", !.data = UP]
    <3>1. req' = [req EXCEPT ![r] = x]
      BY <1>0, <2>4 DEF ReqRow
    <3>2. x \in ReqRow /\ x.pc = "tmp" /\ x.op = req[r].op /\ x.v = req[r].v /\ x.data \in Bytes
      BY <1>0 DEF ReqRow, Bytes
    <3> HIDE DEF x
    <3> QED BY <1>0, <2>2, <3>1, <3>2, Becoming
  <2> QED BY <1>12, <2>3, <2>4 DEF FetchTarball
<1>13. CASE FinishFetch(r)
  <2>1. PICK pc \in {"open", "done"} : Goto(r, pc)
    BY <1>13 DEF FinishFetch
  <2>2. req[r].v \in Versions /\ req[r].op \in {"tarball", "prefetch"}
    BY <1>0, <1>13 DEF ShapeOf, FinishFetch
  <2> QED BY <1>0, <2>1, <2>2, Goes
<1>14. CASE open_tarball_stream(r)
  <2>1. req[r].pc = "open"
    BY <1>14 DEF open_tarball_stream
  <2>2. req[r].v \in Versions /\ req[r].op \in {"tarball", "prefetch"}
    BY <1>0, <2>1 DEF ShapeOf
  <2>3. CASE End(r)
    BY <1>0, <2>3, Ends, IdleRow
  <2>4. CASE req' = [req EXCEPT ![r].pc = "write_back", ![r].data = cold[req[r].v]] /\ cold[req[r].v] \in Bytes
    <3> DEFINE x == [req[r] EXCEPT !.pc = "write_back", !.data = cold[req[r].v]]
    <3>1. req' = [req EXCEPT ![r] = x]
      BY <1>0, <2>4 DEF ReqRow
    <3>2. x \in ReqRow /\ x.pc = "write_back" /\ x.op = req[r].op /\ x.v = req[r].v /\ x.data \in Bytes
      BY <1>0, <2>4 DEF ReqRow
    <3> HIDE DEF x
    <3> QED BY <1>0, <2>2, <3>1, <3>2, Becoming DEF Proxies
  <2>5. cold[req[r].v] \in Bytes \cup {NULL}
    BY <2>2 DEF RegistryInv, FilesOK
  <2> QED BY <1>14, <2>3, <2>4, <2>5 DEF open_tarball_stream
<1>15. CASE Authorise(r)
  <2>1. req[r].pc = "auth"
    BY <1>15 DEF Authorise
  <2>2. req[r].op \in Changes /\ (req[r].op \in {"set_tag", "delete_version", "deprecate"} => req[r].v \in Versions)
    BY <1>0, <2>1 DEF ShapeOf
  <2>3. Goto(r, req[r].op) \/ Goto(r, "done")
    BY <1>15 DEF Authorise
  <2>4. CASE Goto(r, "done")
    BY <1>0, <2>4, Goes
  <2>5. CASE Goto(r, req[r].op)
    <3> DEFINE pc == req[r].op
    <3>1. pc \in Changes /\ Goto(r, pc) /\ (pc \in {"set_tag", "delete_version", "deprecate"} => req[r].v \in Versions)
      BY <2>2, <2>5
    <3> HIDE DEF pc
    <3> QED BY <1>0, <3>1, Goes
  <2> QED BY <2>3, <2>4, <2>5
<1>16. CASE handle_delete_version(r)
  <2>1. CASE End(r)
    BY <1>0, <2>1, Ends, IdleRow
  <2>2. CASE req' = [req EXCEPT ![r].pc = "unlink", ![r].list = {req[r].v}]
    <3> DEFINE x == [req[r] EXCEPT !.pc = "unlink", !.list = {req[r].v}]
    <3>0. req[r].v \in Versions
      BY <1>0, <1>16 DEF ShapeOf, handle_delete_version
    <3>1. req' = [req EXCEPT ![r] = x]
      BY <1>0, <2>2 DEF ReqRow
    <3>2. x \in ReqRow /\ x.pc = "unlink" /\ x.op = req[r].op /\ x.v = req[r].v
      BY <1>0, <3>0 DEF ReqRow
    <3> HIDE DEF x
    <3> QED BY <1>0, <3>1, <3>2, Becoming DEF Proxies
  <2> QED BY <1>16, <2>1, <2>2 DEF handle_delete_version
<1>17. ASSUME NEW list \in SUBSET Versions, NEW pc \in {"done", "unlink"},
              req' = [req EXCEPT ![r] = At([req[r] EXCEPT !.list = list], pc)]
       PROVE  \E x \in ReqRow : Becomes(r, x)
  <2>1. CASE pc = "done"
    <3>1. req' = [req EXCEPT ![r] = Finished]
      BY <1>17, <2>1 DEF At
    <3> QED BY <3>1, IdleRow DEF Becomes
  <2>2. CASE pc = "unlink"
    <3> DEFINE y == [req[r] EXCEPT !.list = list]
    <3> DEFINE x == [y EXCEPT !.pc = "unlink"]
    <3>1. req' = [req EXCEPT ![r] = x]
      BY <1>17, <2>2 DEF At
    <3>2. y \in ReqRow /\ y.op = req[r].op /\ y.v = req[r].v
      BY <1>0, <1>17 DEF ReqRow
    <3> HIDE DEF y
    <3>3. x \in ReqRow /\ x.pc = "unlink" /\ x.op = req[r].op /\ x.v = req[r].v
      BY <3>2 DEF ReqRow
    <3> HIDE DEF x
    <3> QED BY <1>0, <3>1, <3>3, Becoming DEF Proxies
  <2> QED BY <1>17, <2>1, <2>2
<1>18. CASE handle_delete_package(r)
  BY <1>17, <1>18 DEF handle_delete_package
<1>19. ASSUME NEW v \in Versions, Unlink(r, v) PROVE \E x \in ReqRow : Becomes(r, x)
  <2> DEFINE list == req[r].list \ {v}
  <2> DEFINE pc == IF list = {} THEN "done" ELSE "unlink"
  <2>1. req' = [req EXCEPT ![r] = At([req[r] EXCEPT !.list = list], pc)]
    BY <1>0, <1>19 DEF Unlink
  <2>2. list \in SUBSET Versions
    BY <1>0 DEF ReqRow
  <2>3. pc \in {"done", "unlink"}
    OBVIOUS
  <2> HIDE DEF list, pc
  <2> QED BY <1>17, <2>1, <2>2, <2>3
<1> QED
  BY <1>1, <1>2, <1>3, <1>4, <1>5, <1>6, <1>8, <1>9, <1>10, <1>11, <1>12, <1>13, <1>14, <1>15, <1>16,
     <1>18, <1>19 DEF Step

LEMMA BeginMoves ==
  ASSUME RegistryInv, NEW r \in Requests, NEW op \in OpNames, NEW v \in Versions \cup {NULL},
         NEW u \in Users \cup {NULL}, NEW t \in Tags, Begin(r, op, v, u, t)
  PROVE  \E x \in ReqRow : Becomes(r, x)
<1> DEFINE data == IF op = "publish" THEN r ELSE NULL
<1> DEFINE pc == FirstStep(op)
<1> DEFINE x == [Idle EXCEPT !.op = op, !.pc = pc, !.v = v, !.u = u, !.tag = t, !.data = data]
<1>1. Inputs(op, v, u, t) /\ req' = [req EXCEPT ![r] = x]
  BY DEF Begin
<1>2. /\ op = "publish" => FirstStep(op) = "body"
      /\ op = "tarball" => FirstStep(op) = "lookup"
      /\ op = "prefetch" => FirstStep(op) = "state"
      /\ op = "packument" => FirstStep(op) = "load"
      /\ op \in Changes => FirstStep(op) = "auth"
      /\ op \in {"publish", "tarball", "prefetch", "packument"} \cup Changes
  BY DEF FirstStep, OpNames, Changes
<1>3. FirstStep(op) \in {"body", "lookup", "state", "load", "auth"}
  BY <1>2
<1>4. data \in Bytes \cup {NULL} /\ (op = "publish" => data \in Bytes)
  BY DEF Bytes
<1>5. op \notin {"packument", "remove_tag", "delete_package"} => v \in Versions
  BY <1>1 DEF Inputs
<1> HIDE DEF data, pc
<1>6. x \in ReqRow /\ x.op = op /\ x.pc = pc /\ x.v = v /\ x.data = data
  <2>1. Idle \in ReqRow /\ pc \in Steps
    BY <1>3, IdleRow DEF Steps, pc
  <2> QED BY <1>4, <2>1 DEF ReqRow
<1> HIDE DEF x
<1>7. ShapeOf(x) /\ ~Proxies(x)
  BY <1>2, <1>3, <1>4, <1>5, <1>6 DEF ShapeOf, Proxies, Writing, Reading, Changes, pc
<1> QED BY <1>1, <1>6, <1>7 DEF Becomes

LEMMA RequestsKept ==
  ASSUME RegistryInv, pkg.is_proxy => pkg'.is_proxy, NEW r \in Requests, NEW x \in ReqRow, Becomes(r, x)
  PROVE  ReqOK' /\ \A q \in Requests : Proxies(req'[q]) => pkg'.is_proxy
<1>1. /\ req \in [Requests -> ReqRow] /\ req' = [req EXCEPT ![r] = x] /\ ShapeOf(x)
      /\ (Proxies(x) => pkg'.is_proxy)
      /\ \A q \in Requests : ShapeOf(req[q]) /\ (Proxies(req[q]) => pkg'.is_proxy)
  BY DEF RegistryInv, ReqOK, Becomes
<1>2. req' \in [Requests -> ReqRow]
  BY <1>1
<1>3. ASSUME NEW q \in Requests PROVE ShapeOf(req'[q]) /\ (Proxies(req'[q]) => pkg'.is_proxy)
  <2>1. CASE q = r
    BY <1>1, <2>1
  <2>2. CASE q # r
    BY <1>1, <2>2
  <2> QED BY <2>1, <2>2
<1> QED BY <1>2, <1>3 DEF ReqOK

-----------------------------------------------------------------------------
(* What a step makes of the files and the background work.                   *)

LEMMA FilesKept ==
  ASSUME RegistryInv, NEW r \in Requests, Step(r)
  PROVE  FilesOK'
<1>0. /\ req[r] \in ReqRow /\ ShapeOf(req[r]) /\ FilesOK
  BY DEF RegistryInv, ReqOK
<1>1. CASE UNCHANGED <<fileVars, gcVars, envVars>>
  BY <1>0, <1>1 DEF FilesOK
<1>2. CASE WriteTmp(r)
  <2>1. req[r].data \in Bytes \cup {NULL}
    BY <1>0 DEF ReqRow
  <2> QED BY <1>0, <1>2, <2>1 DEF WriteTmp, FilesOK
<1>3. CASE Rename(r)
  <2>1. req[r].v \in Versions
    BY <1>0, <1>3 DEF Rename, ShapeOf, Writing
  <2>2. hot' \in [Versions -> Bytes \cup {NULL}] /\ tmp' \in [Versions -> Bytes \cup {NULL}]
    BY <1>0, <1>3, <2>1 DEF Rename, FilesOK
  <2> QED BY <1>0, <1>3, <2>2 DEF Rename, FilesOK
<1>4. CASE SpawnUpload(r)
  <2>1. req[r].v \in Versions /\ req[r].data \in Bytes
    BY <1>0, <1>4 DEF SpawnUpload, ShapeOf, Writing
  <2>2. uploads' \subseteq uploads \cup {[v |-> req[r].v, data |-> req[r].data]}
    BY <1>4 DEF SpawnUpload
  <2> QED BY <1>0, <1>4, <2>1, <2>2 DEF SpawnUpload, FilesOK
<1>5. CASE WriteBack(r)
  <2>1. req[r].data \in Bytes \cup {NULL}
    BY <1>0 DEF ReqRow
  <2> QED BY <1>0, <1>5, <2>1 DEF WriteBack, FilesOK
<1>6. ASSUME NEW v \in Versions, Unlink(r, v) PROVE FilesOK'
  <2>1. hot' \in [Versions -> Bytes \cup {NULL}]
    BY <1>0, <1>6 DEF Unlink, FilesOK
  <2> QED BY <1>0, <1>6, <2>1 DEF Unlink, FilesOK
<1>7. CASE \/ AcceptPublish(r) \/ handle_publish(r) \/ LoadPackument(r) \/ FetchPackument(r) \/ Revalidate(r)
           \/ StorePackument(r) \/ LookupTarball(r) \/ ProxyState(r) \/ FetchTarball(r) \/ FinishFetch(r)
           \/ open_tarball_stream(r)
  BY <1>1, <1>7 DEF AcceptPublish, handle_publish, LoadPackument, FetchPackument, Revalidate, StorePackument,
                    LookupTarball, ProxyState, FetchTarball, FinishFetch, open_tarball_stream
<1>8. CASE \/ Authorise(r) \/ handle_set_dist_tag(r) \/ handle_remove_dist_tag(r) \/ handle_deprecate(r)
           \/ handle_delete_version(r) \/ handle_delete_package(r)
  BY <1>1, <1>8 DEF Authorise, handle_set_dist_tag, handle_remove_dist_tag, handle_deprecate,
                    handle_delete_version, handle_delete_package
<1> QED BY <1>2, <1>3, <1>4, <1>5, <1>6, <1>7, <1>8 DEF Step

-----------------------------------------------------------------------------
(* What a step makes of the index.                                           *)

\* Integrity is rewritten in a proxied package only.
SameIntegrity ==
  \A v \in Versions : ver[v] # NULL /\ ver'[v] # NULL /\ ~pkg'.is_proxy => ver'[v].sha = ver[v].sha

IndexGood ==
  /\ PackageOK' /\ TagsResolve'
  /\ pkg.is_proxy => pkg'.is_proxy
  /\ SameIntegrity

LEMMA IndexStays ==
  ASSUME RegistryInv, UNCHANGED indexVars
  PROVE  IndexGood
<1>1. PackageOK' /\ TagsResolve'
  BY DEF RegistryInv, PackageOK, TagsResolve
<1> QED BY <1>1 DEF IndexGood, SameIntegrity

\* The rows change in other columns than the integrity, or not at all.
LEMMA RowsChange ==
  ASSUME RegistryInv, UNCHANGED pkg, NEW v \in Versions, NEW row \in VersionRow,
         ver' = [ver EXCEPT ![v] = row], pkg.exists,
         ~pkg.is_proxy => ver[v] # NULL /\ row.sha = ver[v].sha
  PROVE  IndexGood
<1>1. /\ pkg \in PackageRow /\ ver \in [Versions -> VersionRow \cup {NULL}] /\ row # NULL
      /\ ver' \in [Versions -> VersionRow \cup {NULL}]
      /\ \A w \in Versions : w # v => ver'[w] = ver[w]
      /\ ver'[v] = row
  BY NullIsNoRow DEF RegistryInv, PackageOK
<1>2. PackageOK'
  BY <1>1 DEF RegistryInv, PackageOK
<1>3. \A w \in Versions : ver[w] # NULL => ver'[w] # NULL
  BY <1>1
<1>4. \A t \in Tags : pkg.tags[t] \in Versions \cup {NULL}
  BY <1>1 DEF PackageRow
<1>5. TagsResolve'
  BY <1>3, <1>4 DEF RegistryInv, TagsResolve
<1>6. SameIntegrity
  BY <1>1 DEF SameIntegrity
<1> QED BY <1>2, <1>5, <1>6 DEF IndexGood

\* A tag moves to a version that has a row, or goes.
LEMMA TagsMove ==
  ASSUME RegistryInv, NEW tags \in [Tags -> Versions \cup {NULL}],
         NEW rows \in [Versions -> VersionRow \cup {NULL}], ver' = rows,
         pkg' = [pkg EXCEPT !.tags = tags],
         \A w \in Versions : rows[w] # NULL => ver[w] # NULL /\ rows[w].sha = ver[w].sha,
         \A t \in Tags : \/ tags[t] = NULL
                         \/ tags[t] # NULL /\ rows[tags[t]] # NULL
                         \/ tags[t] = pkg.tags[t] /\ (tags[t] # NULL => rows[tags[t]] = ver[tags[t]])
  PROVE  IndexGood
<1>1. pkg \in PackageRow /\ PackageOK
  BY DEF RegistryInv, PackageOK
<1>2. /\ pkg'.tags = tags /\ pkg'.exists = pkg.exists /\ pkg'.is_proxy = pkg.is_proxy /\ pkg'.blob = pkg.blob
      /\ pkg' \in PackageRow
  BY <1>1 DEF PackageRow
<1>3. ~pkg.exists => tags = NoTags
  <2> SUFFICES ASSUME ~pkg.exists PROVE tags = NoTags
    OBVIOUS
  <2>1. \A w \in Versions : rows[w] = NULL
    BY DEF RegistryInv, PackageOK
  <2>2. \A t \in Tags : pkg.tags[t] = NULL
    BY DEF RegistryInv, PackageOK, NoTags
  <2>3. \A t \in Tags : tags[t] = NULL
    BY <2>1, <2>2
  <2> QED BY <2>3 DEF NoTags
<1>4. PackageOK'
  BY <1>1, <1>2, <1>3 DEF PackageOK
<1>5. TagsResolve'
  <2> SUFFICES ASSUME NEW t \in Tags, tags[t] # NULL
               PROVE  rows[tags[t]] # NULL \/ (pkg.is_proxy /\ pkg.blob # NULL /\ tags[t] \in pkg.blob)
    BY <1>2 DEF TagsResolve
  <2>1. pkg.tags[t] # NULL => ver[pkg.tags[t]] # NULL \/ (pkg.is_proxy /\ pkg.blob # NULL /\ pkg.tags[t] \in pkg.blob)
    BY DEF RegistryInv, TagsResolve
  <2> QED BY <2>1
<1>6. SameIntegrity
  BY DEF SameIntegrity
<1> QED BY <1>2, <1>4, <1>5, <1>6 DEF IndexGood

LEMMA IndexKept ==
  ASSUME RegistryInv, NEW r \in Requests, Step(r)
  PROVE  IndexGood
<1>0. /\ req[r] \in ReqRow /\ ShapeOf(req[r]) /\ PackageOK /\ TagsResolve /\ upstream \subseteq Versions
      /\ (Proxies(req[r]) => pkg.is_proxy)
      /\ pkg \in PackageRow /\ ver \in [Versions -> VersionRow \cup {NULL}]
  BY DEF RegistryInv, ReqOK, PackageOK, FilesOK
<1>1. CASE UNCHANGED indexVars
  BY <1>1, IndexStays
<1>2. CASE handle_publish(r)
  <2> DEFINE v == req[r].v
  <2> DEFINE row == Published(req[r].u, r)
  <2>1. v \in Versions
    BY <1>0, <1>2 DEF handle_publish, ShapeOf
  <2>2. row \in VersionRow /\ row # NULL
    <3>1. req[r].u \in Users \cup {NULL}
      BY <1>0 DEF ReqRow
    <3>2. row \in VersionRow
      BY <3>1 DEF Published, VersionRow, Bytes
    <3> QED BY <3>2, NullIsNoRow
  <2>3. CASE ver[v] # NULL
    BY <1>1, <1>2, <2>3 DEF handle_publish, insert_version
  <2>4. CASE ver[v] = NULL
    <3> HIDE DEF row
    <3>1. insert_version(v, row) = [ver EXCEPT ![v] = row] /\ [ver EXCEPT ![v] = row] # ver
      BY <1>0, <2>1, <2>2, <2>4 DEF insert_version
    <3>2. /\ ver' = [ver EXCEPT ![v] = row]
          /\ pkg' = [pkg EXCEPT !.exists = TRUE, !.tags[req[r].tag] = v, !.unpublished = FALSE]
      BY <1>2, <3>1 DEF handle_publish, row
    <3>3. req[r].tag \in Tags /\ pkg.tags \in [Tags -> Versions \cup {NULL}]
      BY <1>0 DEF ReqRow, PackageRow
    <3> DEFINE tags == [pkg.tags EXCEPT ![req[r].tag] = v]
    <3>4. tags \in [Tags -> Versions \cup {NULL}] /\ \A t \in Tags : tags[t] = pkg.tags[t] \/ tags[t] = v
      BY <2>1, <3>3
    <3>5. /\ pkg'.tags = tags /\ pkg'.exists = TRUE /\ pkg'.is_proxy = pkg.is_proxy /\ pkg'.blob = pkg.blob
          /\ pkg'.unpublished = FALSE /\ pkg'.fresh = pkg.fresh
      BY <1>0, <3>2 DEF PackageRow
    <3>6. pkg' = [exists |-> TRUE, is_proxy |-> pkg.is_proxy, unpublished |-> FALSE, tags |-> tags,
                  blob |-> pkg.blob, fresh |-> pkg.fresh]
      BY <1>0, <3>2 DEF PackageRow
    <3> HIDE DEF tags
    <3>7. pkg' \in PackageRow
      BY <1>0, <3>4, <3>6 DEF PackageRow
    <3>8. /\ ver' \in [Versions -> VersionRow \cup {NULL}] /\ ver'[v] = row
          /\ \A w \in Versions : w # v => ver'[w] = ver[w]
      BY <1>0, <2>1, <2>2, <3>2
    <3>9. PackageOK'
      BY <3>5, <3>7, <3>8 DEF PackageOK
    <3>10. TagsResolve'
      <4> SUFFICES ASSUME NEW t \in Tags, tags[t] # NULL
                   PROVE  ver'[tags[t]] # NULL \/ (pkg.is_proxy /\ pkg.blob # NULL /\ tags[t] \in pkg.blob)
        BY <3>5 DEF TagsResolve
      <4>1. CASE tags[t] = v
        BY <2>2, <3>8, <4>1
      <4>2. CASE tags[t] = pkg.tags[t] /\ tags[t] # v
        <5>1. tags[t] \in Versions
          BY <3>4
        <5>2. ver[tags[t]] # NULL \/ (pkg.is_proxy /\ pkg.blob # NULL /\ tags[t] \in pkg.blob)
          BY <1>0, <4>2 DEF TagsResolve
        <5> QED BY <3>8, <4>2, <5>1, <5>2
      <4> QED BY <3>4, <4>1, <4>2
    <3>11. SameIntegrity
      BY <2>4, <3>8 DEF SameIntegrity
    <3> QED BY <3>5, <3>9, <3>10, <3>11 DEF IndexGood
  <2> QED BY <2>3, <2>4
<1>3. CASE StorePackument(r)
  <2>1. CASE pkg' = touch_proxy_fetched_at /\ UNCHANGED ver
    <3>1. /\ pkg' \in PackageRow /\ pkg'.exists = pkg.exists /\ pkg'.is_proxy = pkg.is_proxy /\ pkg'.tags = pkg.tags
          /\ pkg'.blob = pkg.blob
      BY <1>0, <2>1 DEF touch_proxy_fetched_at, PackageRow
    <3> QED BY <1>0, <2>1, <3>1 DEF IndexGood, SameIntegrity, PackageOK, TagsResolve
  <2>2. CASE req[r].pc = "upsert" /\ pkg' = upsert_proxy_packument(req[r].body) /\ UNCHANGED ver
    <3> DEFINE body == req[r].body
    <3> DEFINE tags == [NoTags EXCEPT !["latest"] = Max(body)]
    <3>1. body \in SUBSET Versions /\ body # {}
      BY <1>0, <2>2 DEF ShapeOf
    <3>2. Max(body) \in body
      BY <3>1, MaxOfVersions
    <3>3. pkg' = [exists |-> TRUE, is_proxy |-> TRUE, unpublished |-> FALSE, tags |-> tags,
                  blob |-> body, fresh |-> TRUE]
      BY <1>0, <2>2 DEF upsert_proxy_packument, PackageRow
    <3> HIDE DEF body
    <3>4. /\ tags \in [Tags -> Versions \cup {NULL}]
          /\ \A t \in Tags : tags[t] = NULL \/ tags[t] = Max(body)
      BY <3>1, <3>2 DEF NoTags
    <3> HIDE DEF tags
    <3>5. body # NULL
      BY <3>1, NullIsNoRow
    <3>6. pkg' \in PackageRow
      BY <3>1, <3>3, <3>4 DEF PackageRow
    <3>7. PackageOK' /\ pkg'.is_proxy
      BY <1>0, <2>2, <3>3, <3>6 DEF PackageOK
    <3>8. TagsResolve'
      BY <3>2, <3>3, <3>4, <3>5 DEF TagsResolve
    <3> QED BY <3>7, <3>8 DEF IndexGood, SameIntegrity
  <2> QED BY <1>3, <2>1, <2>2 DEF StorePackument
<1>4. CASE FinishFetch(r)
  <2> DEFINE v == req[r].v
  <2> DEFINE row == finalize_proxy_tarball(v)
  <2>1. v \in Versions /\ pkg.is_proxy /\ pkg.exists
    BY <1>0, <1>4 DEF FinishFetch, ShapeOf, Proxies, Reading, PackageOK
  <2>2. row \in VersionRow
    <3> DEFINE inBlob == pkg.blob # NULL /\ v \in pkg.blob
    <3> DEFINE old == IF ver[v] # NULL THEN ver[v] ELSE [Fetched EXCEPT !.url = "none"]
    <3>1. old \in VersionRow
      BY <1>0, <2>1 DEF Fetched, VersionRow, Bytes
    <3>2. row = [old EXCEPT !.sha = UP, !.cached = TRUE, !.url = IF inBlob THEN "up" ELSE @,
                            !.dep = IF inBlob THEN FALSE ELSE @]
      BY DEF finalize_proxy_tarball
    <3> HIDE DEF old, inBlob
    <3> QED BY <3>1, <3>2 DEF VersionRow, Bytes
  <2>3. ver' = [ver EXCEPT ![v] = row] /\ UNCHANGED pkg
    BY <1>4 DEF FinishFetch
  <2> HIDE DEF row
  <2> QED BY <2>1, <2>2, <2>3, RowsChange
<1>5. CASE handle_set_dist_tag(r)
  <2> DEFINE tags == set_dist_tag(req[r].tag, req[r].v)
  <2>1. req[r].v \in Versions
    BY <1>0, <1>5 DEF handle_set_dist_tag, ShapeOf
  <2>2. req[r].tag \in Tags /\ pkg.tags \in [Tags -> Versions \cup {NULL}]
    BY <1>0 DEF ReqRow, PackageRow
  <2>3. /\ tags \in [Tags -> Versions \cup {NULL}]
        /\ \A t \in Tags : tags[t] = pkg.tags[t] \/ (tags[t] = req[r].v /\ ver[req[r].v] # NULL)
    BY <2>1, <2>2 DEF set_dist_tag
  <2>4. pkg' = [pkg EXCEPT !.tags = tags] /\ ver' = ver
    BY <1>5 DEF handle_set_dist_tag
  <2>5. req[r].v # NULL
    BY <2>1, RegistryConstants
  <2> HIDE DEF tags
  <2> QED BY <1>0, <2>1, <2>3, <2>4, <2>5, TagsMove
<1>6. CASE handle_remove_dist_tag(r)
  <2> DEFINE tags == remove_dist_tag(req[r].tag)
  <2>2. req[r].tag \in Tags /\ pkg.tags \in [Tags -> Versions \cup {NULL}]
    BY <1>0 DEF ReqRow, PackageRow
  <2>3. /\ tags \in [Tags -> Versions \cup {NULL}]
        /\ \A t \in Tags : tags[t] = pkg.tags[t] \/ tags[t] = NULL
    BY <2>2 DEF remove_dist_tag
  <2>4. pkg' = [pkg EXCEPT !.tags = tags] /\ ver' = ver
    BY <1>6 DEF handle_remove_dist_tag
  <2> HIDE DEF tags
  <2> QED BY <1>0, <2>3, <2>4, TagsMove
<1>7. CASE handle_delete_version(r)
  <2> DEFINE v == req[r].v
  <2> DEFINE rest == {w \in Versions \ {v} : ver[w] # NULL}
  <2> DEFINE tags == delete_version(v)
  <2> DEFINE rows == [ver EXCEPT ![v] = NULL]
  <2>1. v \in Versions
    BY <1>0, <1>7 DEF handle_delete_version, ShapeOf
  <2>2. CASE ver[v] = NULL
    BY <1>1, <1>7, <2>2 DEF handle_delete_version
  <2>3. CASE ver[v] # NULL
    <3>1. ver' = rows /\ pkg' = [pkg EXCEPT !.tags = tags]
      BY <1>7, <2>3 DEF handle_delete_version
    <3>2. MaxVersion(rest) = NULL \/ MaxVersion(rest) \in rest
      BY MaxOfVersions DEF MaxVersion
    <3>3. pkg.tags \in [Tags -> Versions \cup {NULL}]
      BY <1>0 DEF PackageRow
    <3>4. tags = [t \in Tags |-> IF pkg.tags[t] = v THEN MaxVersion(rest) ELSE pkg.tags[t]]
      BY DEF delete_version
    <3>5. rest \subseteq Versions /\ \A w \in rest : w # v /\ ver[w] # NULL
      OBVIOUS
    <3> HIDE DEF tags, rest
    <3>6. tags \in [Tags -> Versions \cup {NULL}]
      BY <3>2, <3>3, <3>4, <3>5
    <3>7. /\ rows \in [Versions -> VersionRow \cup {NULL}] /\ rows[v] = NULL
          /\ \A w \in Versions : w # v => rows[w] = ver[w]
      BY <1>0, <2>1
    <3> HIDE DEF rows
    <3>8. \A w \in Versions : rows[w] # NULL => ver[w] # NULL /\ rows[w].sha = ver[w].sha
      BY <3>7
    <3>9. ASSUME NEW t \in Tags
          PROVE  \/ tags[t] = NULL
                 \/ tags[t] # NULL /\ rows[tags[t]] # NULL
                 \/ tags[t] = pkg.tags[t] /\ (tags[t] # NULL => rows[tags[t]] = ver[tags[t]])
      <4>1. CASE pkg.tags[t] = v
        <5>1. tags[t] = NULL \/ tags[t] \in rest
          BY <3>2, <3>4, <4>1
        <5> QED BY <3>5, <3>7, <5>1
      <4>2. CASE pkg.tags[t] # v
        <5>1. tags[t] = pkg.tags[t] /\ tags[t] \in Versions \cup {NULL}
          BY <3>3, <3>4, <4>2
        <5> QED BY <3>7, <4>2, <5>1
      <4> QED BY <4>1, <4>2
    <3> QED BY <2>1, <3>1, <3>6, <3>7, <3>8, <3>9, TagsMove
  <2> QED BY <2>2, <2>3
<1>8. CASE handle_delete_package(r)
  <2>1. ver' = Nothing /\ pkg' = delete_package
    BY <1>8 DEF handle_delete_package
  <2>2. ver' \in [Versions -> VersionRow \cup {NULL}] /\ \A v \in Versions : ver'[v] = NULL
    BY <2>1 DEF Nothing
  <2>3. /\ pkg' \in PackageRow /\ pkg'.exists = pkg.exists /\ pkg'.is_proxy = pkg.is_proxy /\ pkg'.tags = NoTags
    <3>1. NoTags \in [Tags -> Versions \cup {NULL}]
      BY DEF NoTags
    <3>2. CASE pkg.exists
      BY <1>0, <2>1, <3>1, <3>2 DEF delete_package, PackageRow
    <3>3. CASE ~pkg.exists
      BY <1>0, <2>1, <3>3 DEF delete_package, PackageOK
    <3> QED BY <3>2, <3>3
  <2>4. PackageOK'
    BY <1>0, <2>2, <2>3 DEF PackageOK
  <2>5. TagsResolve'
    BY <2>3 DEF TagsResolve, NoTags
  <2> QED BY <2>2, <2>3, <2>4, <2>5 DEF IndexGood, SameIntegrity
<1>9. CASE handle_deprecate(r)
  <2> DEFINE v == req[r].v
  <2>1. v \in Versions /\ UNCHANGED pkg
    BY <1>0, <1>9 DEF handle_deprecate, ShapeOf
  <2>2. PICK dep \in BOOLEAN : ver' = deprecate_versions(v, dep)
    BY <1>9 DEF handle_deprecate
  <2>3. CASE ver[v] = NULL
    BY <1>1, <2>1, <2>2, <2>3 DEF deprecate_versions
  <2>4. CASE ver[v] # NULL
    <3> DEFINE row == [ver[v] EXCEPT !.dep = dep]
    <3>1. ver[v] \in VersionRow /\ pkg.exists
      BY <1>0, <2>1, <2>4 DEF PackageOK
    <3>2. row \in VersionRow /\ row.sha = ver[v].sha
      BY <3>1 DEF VersionRow
    <3>3. ver' = [ver EXCEPT ![v] = row]
      BY <2>2, <2>4 DEF deprecate_versions
    <3> HIDE DEF row
    <3> QED BY <2>1, <2>4, <3>1, <3>2, <3>3, RowsChange
  <2> QED BY <2>3, <2>4
<1>10. CASE \/ WriteTmp(r) \/ Rename(r) \/ SpawnUpload(r) \/ AcceptPublish(r) \/ LoadPackument(r)
            \/ FetchPackument(r) \/ Revalidate(r) \/ LookupTarball(r) \/ ProxyState(r) \/ FetchTarball(r)
            \/ open_tarball_stream(r) \/ WriteBack(r) \/ Authorise(r) \/ \E v \in Versions : Unlink(r, v)
  BY <1>1, <1>10 DEF WriteTmp, Rename, SpawnUpload, AcceptPublish, LoadPackument, FetchPackument, Revalidate,
                     LookupTarball, ProxyState, FetchTarball, open_tarball_stream, WriteBack, Authorise, Unlink
<1> QED BY <1>2, <1>3, <1>4, <1>5, <1>6, <1>7, <1>8, <1>9, <1>10 DEF Step

-----------------------------------------------------------------------------
(* The background tasks and the environment.                                 *)

\* Every row but that of v keeps everything, and v's its integrity.
LEMMA RowTouched ==
  ASSUME RegistryInv, UNCHANGED pkg, NEW v \in Versions, ver[v] # NULL, NEW row \in VersionRow,
         row.sha = ver[v].sha, ver' = [ver EXCEPT ![v] = row]
  PROVE  IndexGood
<1>1. pkg.exists
  BY DEF RegistryInv, PackageOK
<1> QED BY <1>1, RowsChange

LEMMA BackgroundKept ==
  ASSUME RegistryInv,
         \/ \E x \in uploads : UploadCold(x)
         \/ Evict \/ (\E v \in Versions : LookForRow(v)) \/ DropOrphan
         \/ UpdateSettings \/ TtlPasses \/ \E v \in Versions : UpstreamRelease(v)
  PROVE  IndexGood /\ FilesOK' /\ req' = req
<1>0. /\ FilesOK /\ PackageOK /\ TagsResolve
      /\ pkg \in PackageRow /\ ver \in [Versions -> VersionRow \cup {NULL}]
  BY DEF RegistryInv, PackageOK
<1>1. ASSUME NEW x \in uploads, UploadCold(x) PROVE IndexGood /\ FilesOK' /\ req' = req
  <2>1. x.v \in Versions /\ x.data \in Bytes
    BY <1>0 DEF FilesOK
  <2>2. FilesOK'
    BY <1>0, <1>1, <2>1 DEF UploadCold, FilesOK
  <2>3. IndexGood
    <3>1. CASE UNCHANGED ver
      BY <1>1, <3>1, IndexStays DEF UploadCold
    <3>2. CASE ver' = mark_s3_uploaded(x.v) /\ ver[x.v] # NULL
      <4> DEFINE row == [ver[x.v] EXCEPT !.s3 = TRUE]
      <4>1. ver[x.v] \in VersionRow
        BY <1>0, <2>1, <3>2
      <4>2. row \in VersionRow /\ row.sha = ver[x.v].sha
        BY <4>1 DEF VersionRow
      <4>3. ver' = [ver EXCEPT ![x.v] = row] /\ UNCHANGED pkg
        BY <1>1, <3>2 DEF mark_s3_uploaded, UploadCold
      <4> HIDE DEF row
      <4> QED BY <2>1, <3>2, <4>2, <4>3, RowTouched
    <3> QED BY <1>1, <3>1, <3>2 DEF UploadCold, mark_s3_uploaded
  <2> QED BY <1>1, <2>2, <2>3 DEF UploadCold
<1>2. CASE PickEvictions
  <2>1. PICK S \in pick_proxy_evictions : sweep' = {[v |-> v, pc |-> "unlink"] : v \in S}
    BY <1>2 DEF PickEvictions
  <2>2. S \subseteq Versions
    BY <2>1 DEF pick_proxy_evictions, Cached
  <2>3. sweep' \subseteq [v : Versions, pc : {"unlink", "mark"}]
    BY <2>1, <2>2
  <2>4. FilesOK'
    BY <1>0, <1>2, <2>3 DEF PickEvictions, FilesOK
  <2> QED BY <1>2, <2>4, IndexStays DEF PickEvictions
<1>3. ASSUME NEW x \in sweep, EvictFile(x) PROVE IndexGood /\ FilesOK' /\ req' = req
  <2>1. x \in [v : Versions, pc : {"unlink", "mark"}]
    BY <1>0 DEF FilesOK
  <2>2. [x EXCEPT !.pc = "mark"] \in [v : Versions, pc : {"unlink", "mark"}]
    BY <2>1
  <2>3. sweep' \subseteq [v : Versions, pc : {"unlink", "mark"}]
    BY <1>0, <1>3, <2>2 DEF EvictFile, FilesOK
  <2>4. hot' \in [Versions -> Bytes \cup {NULL}]
    BY <1>0, <1>3 DEF EvictFile, FilesOK
  <2>5. FilesOK'
    BY <1>0, <1>3, <2>3, <2>4 DEF EvictFile, FilesOK
  <2> QED BY <1>3, <2>5, IndexStays DEF EvictFile
<1>4. ASSUME NEW x \in sweep, MarkEvicted(x) PROVE IndexGood /\ FilesOK' /\ req' = req
  <2>1. x.v \in Versions
    BY <1>0 DEF FilesOK
  <2>2. FilesOK'
    BY <1>0, <1>4 DEF MarkEvicted, FilesOK
  <2>3. CASE ver[x.v] = NULL
    BY <1>4, <2>2, <2>3, IndexStays DEF MarkEvicted, mark_proxy_evicted
  <2>4. CASE ver[x.v] # NULL
    <3> DEFINE row == [ver[x.v] EXCEPT !.cached = FALSE, !.s3 = FALSE]
    <3>1. ver[x.v] \in VersionRow
      BY <1>0, <2>1, <2>4
    <3>2. row \in VersionRow /\ row.sha = ver[x.v].sha
      BY <3>1 DEF VersionRow
    <3>3. ver' = [ver EXCEPT ![x.v] = row] /\ UNCHANGED pkg
      BY <1>0, <1>4, <2>1, <2>4, <3>1 DEF mark_proxy_evicted, MarkEvicted
    <3> HIDE DEF row
    <3>4. IndexGood
      BY <2>1, <2>4, <3>2, <3>3, RowTouched
    <3> QED BY <1>4, <2>2, <3>4 DEF MarkEvicted
  <2> QED BY <2>3, <2>4
<1>5. ASSUME NEW v \in Versions, LookForRow(v) PROVE IndexGood /\ FilesOK' /\ req' = req
  <2>1. reap' \in [files : SUBSET Versions, orphan : Versions \cup {NULL}]
    BY <1>0, <1>5 DEF LookForRow, FilesOK
  <2>2. FilesOK'
    BY <1>0, <1>5, <2>1 DEF LookForRow, FilesOK
  <2> QED BY <1>5, <2>2, IndexStays DEF LookForRow
<1>6. CASE DropOrphan
  <2>1. reap' \in [files : SUBSET Versions, orphan : Versions \cup {NULL}]
    BY <1>0, <1>6 DEF DropOrphan, FilesOK
  <2>2. FilesOK'
    BY <1>0, <1>6, <2>1 DEF DropOrphan, FilesOK
  <2> QED BY <1>6, <2>2, IndexStays DEF DropOrphan
<1>7. CASE UpdateSettings
  <2>1. cfg \in [enabled : BOOLEAN, s3 : BOOLEAN]
    BY <1>0 DEF FilesOK
  <2>2. cfg' \in [enabled : BOOLEAN, s3 : BOOLEAN]
    BY <1>7, <2>1 DEF UpdateSettings
  <2>3. events' \in Nat
    BY <1>0, <1>7 DEF UpdateSettings, Event, FilesOK
  <2>4. FilesOK'
    BY <1>0, <1>7, <2>2, <2>3 DEF UpdateSettings, FilesOK
  <2> QED BY <1>7, <2>4, IndexStays DEF UpdateSettings
<1>8. CASE TtlPasses
  <2>1. events' \in Nat
    BY <1>0, <1>8 DEF TtlPasses, Event, FilesOK
  <2>2. FilesOK'
    BY <1>0, <1>8, <2>1 DEF TtlPasses, FilesOK
  <2>3. /\ pkg' \in PackageRow /\ pkg'.exists = pkg.exists /\ pkg'.is_proxy = pkg.is_proxy /\ pkg'.tags = pkg.tags
        /\ pkg'.blob = pkg.blob /\ ver' = ver
    BY <1>0, <1>8 DEF TtlPasses, PackageRow
  <2>4. IndexGood
    BY <1>0, <2>3 DEF IndexGood, SameIntegrity, PackageOK, TagsResolve
  <2> QED BY <1>8, <2>2, <2>4 DEF TtlPasses
<1>9. ASSUME NEW v \in Versions, UpstreamRelease(v) PROVE IndexGood /\ FilesOK' /\ req' = req
  <2>1. events' \in Nat
    BY <1>0, <1>9 DEF UpstreamRelease, Event, FilesOK
  <2>2. FilesOK'
    BY <1>0, <1>9, <2>1 DEF UpstreamRelease, FilesOK
  <2> QED BY <1>9, <2>2, IndexStays DEF UpstreamRelease
<1> QED BY <1>1, <1>2, <1>3, <1>4, <1>5, <1>6, <1>7, <1>8, <1>9 DEF Evict

LEMMA CrashKept ==
  ASSUME RegistryInv, Crash
  PROVE  RegistryInv' /\ SameIntegrity
<1>1. IndexGood
  BY IndexStays DEF Crash
<1>2. FilesOK'
  <2>1. events' \in Nat
    BY DEF RegistryInv, FilesOK, Crash, Event
  <2> QED BY <2>1 DEF RegistryInv, FilesOK, Crash
<1>3. \A r \in Requests : req'[r] = Idle \/ req'[r] = Finished
  BY DEF Crash
<1>4. ReqOK' /\ \A r \in Requests : ~Proxies(req'[r])
  <2>1. req' \in [Requests -> ReqRow]
    BY IdleRow DEF Crash
  <2> QED BY <1>3, <2>1, IdleRow DEF ReqOK
<1> QED BY <1>1, <1>2, <1>4 DEF RegistryInv, IndexGood

LEMMA RegistryNext ==
  ASSUME RegistryInv, [Next]_vars
  PROVE  RegistryInv' /\ SameIntegrity
<1>1. ASSUME NEW r \in Requests, Step(r) PROVE RegistryInv' /\ SameIntegrity
  <2>1. IndexGood /\ FilesOK'
    BY <1>1, IndexKept, FilesKept
  <2>2. PICK x \in ReqRow : Becomes(r, x)
    BY <1>1, StepMoves
  <2>3. pkg.is_proxy => pkg'.is_proxy
    BY <2>1 DEF IndexGood
  <2> QED BY <2>1, <2>2, <2>3, RequestsKept DEF RegistryInv, IndexGood
<1>2. ASSUME NEW r \in Requests, NEW op \in OpNames, NEW v \in Versions \cup {NULL},
             NEW u \in Users \cup {NULL}, NEW t \in Tags, Begin(r, op, v, u, t)
      PROVE  RegistryInv' /\ SameIntegrity
  <2>1. IndexGood /\ FilesOK'
    BY <1>2, IndexStays DEF Begin, RegistryInv, FilesOK
  <2>2. PICK x \in ReqRow : Becomes(r, x)
    BY <1>2, BeginMoves
  <2>3. pkg.is_proxy => pkg'.is_proxy
    BY <2>1 DEF IndexGood
  <2> QED BY <2>1, <2>2, <2>3, RequestsKept DEF RegistryInv, IndexGood
<1>3. ASSUME IndexGood, FilesOK', req' = req PROVE RegistryInv' /\ SameIntegrity
  BY <1>3 DEF RegistryInv, IndexGood, ReqOK
<1>4. CASE UNCHANGED vars
  <2>1. IndexGood /\ FilesOK' /\ req' = req
    BY <1>4, IndexStays DEF vars, RegistryInv, FilesOK
  <2> QED BY <1>3, <2>1
<1>5. CASE Crash
  BY <1>5, CrashKept
<1>6. CASE \/ \E x \in uploads : UploadCold(x)
           \/ Evict \/ (\E v \in Versions : LookForRow(v)) \/ DropOrphan
           \/ UpdateSettings \/ TtlPasses \/ \E v \in Versions : UpstreamRelease(v)
  BY <1>3, <1>6, BackgroundKept
<1> QED BY <1>1, <1>2, <1>4, <1>5, <1>6 DEF Next

-----------------------------------------------------------------------------
(* The states a run begins in.                                               *)

LEMMA RegistryStart ==
  ASSUME Init
  PROVE  RegistryInv
<1>1. ReqOK /\ \A r \in Requests : ~Proxies(req[r])
  BY IdleRow DEF Init, ReqOK
<1>2. /\ NoTags \in [Tags -> Versions \cup {NULL}] /\ NoPackage \in PackageRow
      /\ Nothing \in [Versions -> VersionRow \cup {NULL}] /\ Nothing \in [Versions -> Bytes \cup {NULL}]
      /\ \A v \in Versions : Nothing[v] = NULL
  BY DEF NoTags, NoPackage, PackageRow, Nothing
<1>3. ASSUME NEW v \in Versions, NEW row \in VersionRow, NEW b \in Bytes
      PROVE  /\ Rows(v, row) \in [Versions -> VersionRow \cup {NULL}] /\ Rows(v, row)[v] = row
             /\ Rows(v, b) \in [Versions -> Bytes \cup {NULL}]
  BY DEF Rows
<1>4. tmp = Nothing /\ uploads = {} /\ sweep = {} /\ reap = [files |-> {}, orphan |-> NULL] /\ events = 0
  BY DEF Init
<1>5. ASSUME NEW v \in Versions, NEW row \in VersionRow, ver = Rows(v, row), pkg \in PackageRow,
             pkg.exists, \A t \in Tags : pkg.tags[t] \in {NULL, v}
      PROVE  PackageOK /\ TagsResolve
  <2>1. ver \in [Versions -> VersionRow \cup {NULL}] /\ ver[v] # NULL
    BY <1>3, <1>5, NullIsNoRow DEF Bytes
  <2> QED BY <1>5, <2>1 DEF PackageOK, TagsResolve
<1>6. CASE /\ pkg = NoPackage /\ ver = Nothing /\ hot = Nothing /\ cold = Nothing
           /\ upstream \in {{}, Versions}
           /\ cfg = [enabled |-> TRUE, s3 |-> FALSE]
  <2>1. pkg.exists = FALSE /\ pkg.is_proxy = FALSE /\ pkg.tags = NoTags
    BY <1>6 DEF NoPackage
  <2>2. PackageOK
    BY <1>2, <1>6, <2>1 DEF PackageOK
  <2>3. TagsResolve
    BY <2>1 DEF TagsResolve, NoTags
  <2>4. FilesOK
    BY <1>2, <1>4, <1>6 DEF FilesOK
  <2> QED BY <1>1, <2>2, <2>3, <2>4 DEF RegistryInv
<1>7. ASSUME NEW v \in Versions, NEW u \in Users \ Admins, NEW rebuilt \in BOOLEAN,
             pkg = [NoPackage EXCEPT !.exists = TRUE, !.tags["latest"] = v],
             ver = Rows(v, [Published(u, OLD) EXCEPT !.s3 = rebuilt]),
             hot = IF rebuilt THEN Nothing ELSE Rows(v, OLD),
             cold = IF rebuilt THEN Rows(v, OLD) ELSE Nothing,
             upstream = {Min(Versions)},
             cfg = [enabled |-> TRUE, s3 |-> rebuilt]
      PROVE  RegistryInv
  <2> DEFINE row == [Published(u, OLD) EXCEPT !.s3 = rebuilt]
  <2>1. row \in VersionRow
    BY DEF Published, VersionRow, Bytes
  <2>2. /\ pkg \in PackageRow /\ pkg.exists = TRUE /\ \A t \in Tags : pkg.tags[t] \in {NULL, v}
    <3> DEFINE tags == [NoTags EXCEPT !["latest"] = v]
    <3>1. tags \in [Tags -> Versions \cup {NULL}] /\ \A t \in Tags : tags[t] \in {NULL, v}
      BY DEF NoTags
    <3>2. pkg = [exists |-> TRUE, is_proxy |-> FALSE, unpublished |-> FALSE, tags |-> tags,
                 blob |-> NULL, fresh |-> FALSE]
      BY <1>7 DEF NoPackage
    <3> HIDE DEF tags
    <3> QED BY <3>1, <3>2 DEF PackageRow
  <2> HIDE DEF row
  <2>3. PackageOK /\ TagsResolve
    BY <1>5, <1>7, <2>1, <2>2 DEF row
  <2>4. upstream \subseteq Versions
    BY <1>7, MinInVersions
  <2>5. /\ hot \in [Versions -> Bytes \cup {NULL}] /\ cold \in [Versions -> Bytes \cup {NULL}]
        /\ cfg \in [enabled : BOOLEAN, s3 : BOOLEAN]
    <3>1. OLD \in Bytes
      BY DEF Bytes
    <3>2. Rows(v, OLD) \in [Versions -> Bytes \cup {NULL}]
      BY <1>3, <2>1, <3>1
    <3> QED BY <1>2, <1>7, <3>2
  <2>6. FilesOK
    BY <1>2, <1>4, <2>4, <2>5 DEF FilesOK
  <2> QED BY <1>1, <2>3, <2>6 DEF RegistryInv
<1>8. ASSUME NEW v \in Versions, upstream = Versions,
             pkg = [NoPackage EXCEPT !.exists = TRUE, !.is_proxy = TRUE, !.blob = {v}, !.tags["latest"] = v],
             ver = Rows(v, Fetched), hot = Rows(v, UP), cold = Nothing,
             cfg = [enabled |-> TRUE, s3 |-> FALSE]
      PROVE  RegistryInv
  <2>1. Fetched \in VersionRow /\ UP \in Bytes
    BY DEF Fetched, VersionRow, Bytes
  <2>2. /\ pkg \in PackageRow /\ pkg.exists = TRUE /\ \A t \in Tags : pkg.tags[t] \in {NULL, v}
    <3> DEFINE tags == [NoTags EXCEPT !["latest"] = v]
    <3>1. tags \in [Tags -> Versions \cup {NULL}] /\ \A t \in Tags : tags[t] \in {NULL, v}
      BY DEF NoTags
    <3>2. pkg = [exists |-> TRUE, is_proxy |-> TRUE, unpublished |-> FALSE, tags |-> tags,
                 blob |-> {v}, fresh |-> FALSE]
      BY <1>8 DEF NoPackage
    <3> HIDE DEF tags
    <3> QED BY <3>1, <3>2 DEF PackageRow
  <2>3. PackageOK /\ TagsResolve
    BY <1>5, <1>8, <2>1, <2>2
  <2>4. hot \in [Versions -> Bytes \cup {NULL}]
    BY <1>3, <1>8, <2>1
  <2>5. FilesOK
    BY <1>2, <1>4, <1>8, <2>4 DEF FilesOK
  <2> QED BY <1>1, <2>3, <2>5 DEF RegistryInv
<1> QED BY <1>6, <1>7, <1>8 DEF Init

\* What happens to the index and the files keeps the inductive invariant.
THEOREM RegistryInductive == Spec => []RegistryInv
<1>1. Init => RegistryInv
  BY RegistryStart
<1>2. RegistryInv /\ [Next]_vars => RegistryInv'
  BY RegistryNext
<1> QED BY <1>1, <1>2, PTL DEF Spec

\* Every reachable state is well typed: in particular a request never loses the version
\* it works on, and what the background tasks still have to do names versions only.
THEOREM RegistryTypeCorrect == Spec => []RegistryTypeOK
<1>1. RegistryInv => RegistryTypeOK
  BY DEF RegistryInv, ReqOK, ReqRow, PackageOK, FilesOK, RegistryTypeOK
<1> QED BY <1>1, RegistryInductive, PTL

\* A dist-tag always names a version a client can resolve, for any interleaving of
\* publish, dist-tag, unpublish and cache refresh.
THEOREM TagsAlwaysResolve == Spec => []TagsResolve
<1>1. RegistryInv => TagsResolve
  BY DEF RegistryInv
<1> QED BY <1>1, RegistryInductive, PTL

\* A published version of a private package keeps the integrity of its first publish
\* until it is unpublished: a tarball of an upstream reaches a proxied package only.
THEOREM IntegrityNeverChanges == Spec => IntegrityIsFinal
<1>1. RegistryInv /\ [Next]_vars
        => [\A v \in Versions :
              ver[v] # NULL /\ ver'[v] # NULL /\ ~pkg'.is_proxy => ver'[v].sha = ver[v].sha]_vars
  BY RegistryNext DEF SameIntegrity
<1> QED BY <1>1, RegistryInductive, PTL DEF Spec, IntegrityIsFinal
===============================================================================
