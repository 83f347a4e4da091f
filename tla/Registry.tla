------------------------------ MODULE Registry ------------------------------
(* The embedded npm registry: the index (npm_packages, npm_versions), the    *)
(* tarballs on disk (hot tier) and in object storage (cold tier), and the    *)
(* cache of an upstream registry.                                            *)
(*                                                                          *)
(* One package: packages share nothing but the size of the proxy cache. A    *)
(* handler touches the index through db_blocking, so each of its calls is a  *)
(* step, and so is every file operation and every upstream request. Bytes    *)
(* are named after the publish that sent them, upstream's are UP; a version's *)
(* integrity is the name of the bytes it was computed from.                  *)
EXTENDS Integers, FiniteSets, FiniteSetsExt

CONSTANTS
  Versions,      \* version strings, ordered as SQLite's MAX(version) orders them
  Requests,      \* HTTP requests; each is used once
  Users, Admins, \* accounts; global role admin or above
  Ops,           \* the requests a run lets clients send
  NULL,
  MaxCache,      \* registry.proxy.max_cache_size_mb, in tarballs; 0 is no limit
  MaxEvents      \* bound: settings changes, TTL expiries, upstream releases, restarts

ASSUME RegistryConstants ==
  /\ Versions \subseteq Nat /\ IsFiniteSet(Versions) /\ Admins \subseteq Users
  /\ IsFiniteSet(Requests) /\ NULL \notin Requests \cup Users \cup Versions
  /\ MaxCache \in Nat /\ MaxEvents \in Nat

VARIABLES
  pkg,       \* the npm_packages row; blob is upstream_packument_json's versions,
             \* fresh says that upstream_fetched_at is within the TTL
  ver,       \* ver[v]: the npm_versions row of v, or NULL
  hot,       \* hot[v]: bytes of the tarball file, or NULL
  tmp,       \* tmp[v]: bytes of the .tgz.tmp file next to it, or NULL
  cold,      \* cold[v]: bytes under the S3 key, or NULL
  uploads,   \* spawned uploads to the cold tier
  req,       \* req[r]: an HTTP request, its step and local variables
  sweep,     \* the proxy GC: tarballs still to evict
  reap,      \* gc_orphans: file names still to look at, the one found orphaned
  cfg,       \* settings: proxy.enabled, s3_storage_id set
  upstream,  \* versions the upstream registry has
  events     \* counts what MaxEvents bounds

indexVars == <<pkg, ver>>
fileVars == <<hot, tmp, cold, uploads>>
gcVars == <<sweep, reap>>
envVars == <<cfg, upstream, events>>
vars == <<indexVars, fileVars, req, gcVars, envVars>>

UP == "upstream"
OLD == "earlier"   \* bytes published before the behaviour begins
Bytes == Requests \cup {UP, OLD}
Tags == {"latest", "next"}
Steps == {"new", "done", "body", "tmp", "rename", "spawn", "insert", "load", "fetch_meta", "revalidate",
          "touch", "upsert", "lookup", "state", "fetch", "finalize", "open", "write_back", "auth", "set_tag",
          "remove_tag", "delete_version", "delete_package", "deprecate", "unlink"}
OpNames == {"publish", "tarball", "prefetch", "packument", "set_tag", "remove_tag",
            "delete_version", "delete_package", "deprecate"}

\* url is manifest_json's dist.tarball: this registry ("self"), upstream's, none.
VersionRow == [sha : Bytes, cached : BOOLEAN, by : Users \cup {NULL}, dep : BOOLEAN,
               url : {"self", "up", "none"}, s3 : BOOLEAN]

PackageRow == [exists : BOOLEAN, is_proxy : BOOLEAN, unpublished : BOOLEAN,
               tags : [Tags -> Versions \cup {NULL}],
               blob : (SUBSET Versions) \cup {NULL}, fresh : BOOLEAN]

\* SQL's NULL is neither a row nor a packument.
ASSUME NullIsNoRow == NULL \notin VersionRow /\ \A S \in SUBSET Versions : S # NULL

NoTags == [t \in Tags |-> NULL]
NoPackage == [exists |-> FALSE, is_proxy |-> FALSE, unpublished |-> FALSE, tags |-> NoTags,
              blob |-> NULL, fresh |-> FALSE]

Idle == [op |-> "none", pc |-> "new", v |-> NULL, u |-> NULL, tag |-> "latest",
         data |-> NULL, body |-> NULL, list |-> {}]

\* tarball_filename names a file after the version, whoever published it.
Published(u, b) == [sha |-> b, cached |-> TRUE, by |-> u, dep |-> FALSE, url |-> "self", s3 |-> FALSE]

\* A tarball fetched from upstream: a row without a publisher.
Fetched == [sha |-> UP, cached |-> TRUE, by |-> NULL, dep |-> FALSE, url |-> "up", s3 |-> FALSE]

Rows(v, row) == [w \in Versions |-> IF w = v THEN row ELSE NULL]
Nothing == [v \in Versions |-> NULL]

\* A name nobody used, a published package with its file on disk or, on a rebuilt
\* host, only in the cold tier, or a cached upstream package.
Init ==
  /\ \/ /\ pkg = NoPackage /\ ver = Nothing /\ hot = Nothing /\ cold = Nothing
        /\ upstream \in {{}, Versions}
        /\ cfg = [enabled |-> TRUE, s3 |-> FALSE]
     \/ \E v \in Versions, u \in Users \ Admins, rebuilt \in BOOLEAN :
          /\ pkg = [NoPackage EXCEPT !.exists = TRUE, !.tags["latest"] = v]
          /\ ver = Rows(v, [Published(u, OLD) EXCEPT !.s3 = rebuilt])
          /\ hot = IF rebuilt THEN Nothing ELSE Rows(v, OLD)
          /\ cold = IF rebuilt THEN Rows(v, OLD) ELSE Nothing
          /\ upstream = {Min(Versions)}
          /\ cfg = [enabled |-> TRUE, s3 |-> rebuilt]
     \/ \E v \in Versions :
          /\ upstream = Versions
          /\ pkg = [NoPackage EXCEPT !.exists = TRUE, !.is_proxy = TRUE, !.blob = {v},
                                     !.tags["latest"] = v]
          /\ ver = Rows(v, Fetched) /\ hot = Rows(v, UP) /\ cold = Nothing
          /\ cfg = [enabled |-> TRUE, s3 |-> FALSE]
  /\ tmp = Nothing /\ uploads = {}
  /\ req = [r \in Requests |-> Idle]
  /\ sweep = {} /\ reap = [files |-> {}, orphan |-> NULL]
  /\ events = 0

-----------------------------------------------------------------------------
(* Queries of registry/db.rs.                                                *)

is_unpublished == pkg.exists /\ pkg.unpublished

\* load_packument finds the package.
Visible == pkg.exists /\ ~pkg.unpublished

lookup_tarball(v) == IF is_unpublished THEN NULL ELSE ver[v]

\* The URL to fetch a missing tarball from: the row's, else the blob's.
lookup_proxy_tarball_state(v) ==
  IF ~(pkg.exists /\ pkg.is_proxy) THEN "none"
  ELSE IF ver[v] # NULL /\ ver[v].url # "none" THEN ver[v].url
  ELSE IF pkg.blob # NULL /\ v \in pkg.blob THEN "up" ELSE "none"

\* SELECT MAX(version), NULL for no row.
MaxVersion(S) == IF S = {} THEN NULL ELSE Max(S)

require_can_modify(u, v) ==
  \/ u \in Admins
  \/ v # NULL /\ ver[v] # NULL /\ ver[v].by \in {u, NULL}
  \/ /\ v = NULL
     /\ \/ \E w \in Versions : ver[w] # NULL /\ ver[w].by = u
        \/ ~\E w \in Versions : ver[w] # NULL /\ ver[w].by # NULL

-----------------------------------------------------------------------------
(* Requests arrive.                                                          *)

FirstStep(op) ==
  CASE op = "publish" -> "body" [] op = "tarball" -> "lookup" [] op = "prefetch" -> "state"
    [] op = "packument" -> "load" [] OTHER -> "auth"

\* The inputs each request really has; the others keep one value.
Inputs(op, v, u, t) ==
  /\ v # NULL <=> op \notin {"packument", "remove_tag", "delete_package"}
  /\ u # NULL <=> op \notin {"tarball", "prefetch", "packument"}
  /\ op \notin {"publish", "set_tag", "remove_tag"} => t = "latest"

Begin(r, op, v, u, t) ==
  /\ req[r].pc = "new"
  /\ op \in Ops /\ Inputs(op, v, u, t)
  /\ req' = [req EXCEPT ![r] = [Idle EXCEPT !.op = op, !.pc = FirstStep(op), !.v = v, !.u = u,
                                            !.tag = t, !.data = IF op = "publish" THEN r ELSE NULL]]
  /\ UNCHANGED <<indexVars, fileVars, gcVars, envVars>>

Finished == [Idle EXCEPT !.pc = "done"]
At(x, pc) == IF pc = "done" THEN Finished ELSE [x EXCEPT !.pc = pc]
Goto(r, pc) == req' = [req EXCEPT ![r] = At(@, pc)]
End(r) == Goto(r, "done")

-----------------------------------------------------------------------------
(* storage.rs write_tarball: a temporary file, a rename, an upload.          *)

WriteTmp(r) ==
  /\ req[r].pc = "tmp"
  /\ tmp' = [tmp EXCEPT ![req[r].v] = req[r].data]
  /\ Goto(r, "rename")
  /\ UNCHANGED <<indexVars, hot, cold, uploads, gcVars, envVars>>

\* The temporary name is the version's, so another writer may have filled it,
\* or renamed it away: then the rename fails and the request with it.
Rename(r) ==
  LET v == req[r].v IN
  /\ req[r].pc = "rename"
  /\ IF tmp[v] = NULL
       THEN End(r) /\ UNCHANGED <<hot, tmp>>
       ELSE /\ hot' = [hot EXCEPT ![v] = tmp[v]]
            /\ tmp' = [tmp EXCEPT ![v] = NULL]
            /\ Goto(r, "spawn")
  /\ UNCHANGED <<indexVars, cold, uploads, gcVars, envVars>>

\* load_cold_tier may fail on its credentials: the request fails, the file stays.
SpawnUpload(r) ==
  /\ req[r].pc = "spawn"
  /\ \/ /\ Goto(r, IF req[r].op = "publish" THEN "insert" ELSE "finalize")
        /\ uploads' = IF cfg.s3 THEN uploads \cup {[v |-> req[r].v, data |-> req[r].data]} ELSE uploads
     \/ cfg.s3 /\ End(r) /\ UNCHANGED uploads
  /\ UNCHANGED <<indexVars, hot, tmp, cold, gcVars, envVars>>

mark_s3_uploaded(v) == IF ver[v] = NULL THEN ver ELSE [ver EXCEPT ![v].s3 = TRUE]

\* The spawned upload ends; s3_uploaded is set best effort, a failure is logged.
UploadCold(x) ==
  /\ x \in uploads
  /\ uploads' = uploads \ {x}
  /\ \/ UNCHANGED <<cold, ver>>
     \/ /\ cold' = [cold EXCEPT ![x.v] = x.data]
        /\ ver' = mark_s3_uploaded(x.v)
  /\ UNCHANGED <<pkg, hot, tmp, req, gcVars, envVars>>

-----------------------------------------------------------------------------
(* npm publish.                                                              *)

\* Mutant of insert_version: INSERT OR REPLACE.
ReplaceVersion(v, row) == [ver EXCEPT ![v] = row]

\* The INSERT: UNIQUE(package, version) keeps the row there is.
insert_version(v, row) == IF ver[v] # NULL THEN ver ELSE [ver EXCEPT ![v] = row]

\* handle_publish up to its first await: a body that names one version, carries one
\* attachment under the version's file name and claims no other integrity.
AcceptPublish(r) ==
  /\ req[r].pc = "body"
  /\ Goto(r, "tmp") \/ End(r)
  /\ UNCHANGED <<indexVars, fileVars, gcVars, envVars>>

\* The transaction of handle_publish: the client's tag, on the version it publishes,
\* is merged into the row's; a conflict rolls everything back.
handle_publish(r) ==
  LET v == req[r].v
      after == insert_version(v, Published(req[r].u, r))
  IN
  /\ req[r].pc = "insert"
  /\ ver' = after
  /\ pkg' = IF after = ver THEN pkg
            ELSE [pkg EXCEPT !.exists = TRUE, !.tags[req[r].tag] = v, !.unpublished = FALSE]
  /\ End(r)
  /\ UNCHANGED <<fileVars, gcVars, envVars>>

-----------------------------------------------------------------------------
(* GET packument: miss-fill and revalidation of the proxy cache.             *)

LoadPackument(r) ==
  /\ req[r].pc = "load"
  /\ Goto(r, CASE ~Visible /\ cfg.enabled -> "fetch_meta"
               [] Visible /\ pkg.is_proxy /\ cfg.enabled /\ ~pkg.fresh -> "revalidate"
               [] OTHER -> "done")
  /\ UNCHANGED <<indexVars, fileVars, gcVars, envVars>>

\* fetch_packument: a body, 404, or an error.
FetchPackument(r) ==
  /\ req[r].pc = "fetch_meta"
  /\ \/ /\ upstream # {}
        /\ req' = [req EXCEPT ![r].pc = "upsert", ![r].body = upstream]
     \/ End(r)
  /\ UNCHANGED <<indexVars, fileVars, gcVars, envVars>>

\* fetch_packument_cond: the ETag is that of the cached body.
Revalidate(r) ==
  /\ req[r].pc = "revalidate"
  /\ \/ /\ pkg.blob = upstream
        /\ Goto(r, "touch")
     \/ /\ upstream # {} /\ pkg.blob # upstream
        /\ req' = [req EXCEPT ![r].pc = "upsert", ![r].body = upstream]
     \/ End(r)
  /\ UNCHANGED <<indexVars, fileVars, gcVars, envVars>>

touch_proxy_fetched_at == [pkg EXCEPT !.fresh = TRUE]

upsert_proxy_packument(body) ==
  [pkg EXCEPT !.exists = TRUE, !.is_proxy = TRUE, !.unpublished = FALSE, !.fresh = TRUE,
              !.blob = body, !.tags = [NoTags EXCEPT !["latest"] = Max(body)]]

\* The answer of upstream is stored.
StorePackument(r) ==
  /\ \/ req[r].pc = "touch" /\ pkg' = touch_proxy_fetched_at
     \/ req[r].pc = "upsert" /\ pkg' = upsert_proxy_packument(req[r].body)
  /\ End(r)
  /\ UNCHANGED <<ver, fileVars, gcVars, envVars>>

-----------------------------------------------------------------------------
(* GET tarball, and the panel's pre-fetch of one.                            *)

LookupTarball(r) ==
  LET meta == lookup_tarball(req[r].v) IN
  /\ req[r].pc = "lookup"
  /\ req' = [req EXCEPT ![r].pc = IF meta = NULL \/ ~meta.cached THEN "state" ELSE "open",
                        ![r].list = IF meta = NULL THEN {} ELSE {req[r].v}]
  /\ UNCHANGED <<indexVars, fileVars, gcVars, envVars>>

\* Without an upstream URL, or with the proxy off, what the index said decides.
ProxyState(r) ==
  LET url == lookup_proxy_tarball_state(req[r].v) IN
  /\ req[r].pc = "state"
  /\ IF url # "none" /\ cfg.enabled
       THEN Goto(r, IF url = "up" THEN "fetch" ELSE "done")  \* an unauthenticated GET to itself fails
       ELSE Goto(r, IF req[r].op = "tarball" /\ req[r].list # {} THEN "open" ELSE "done")
  /\ UNCHANGED <<indexVars, fileVars, gcVars, envVars>>

FetchTarball(r) ==
  /\ req[r].pc = "fetch"
  /\ \/ /\ req[r].v \in upstream
        /\ req' = [req EXCEPT ![r].pc = "tmp", ![r].data = UP]
     \/ End(r)
  /\ UNCHANGED <<indexVars, fileVars, gcVars, envVars>>

\* The row after a fetch; its manifest is copied from the blob as it is now.
finalize_proxy_tarball(v) ==
  LET inBlob == pkg.blob # NULL /\ v \in pkg.blob
      row == IF ver[v] # NULL THEN ver[v] ELSE [Fetched EXCEPT !.url = "none"]
  IN [row EXCEPT !.sha = UP, !.cached = TRUE,
                 !.url = IF inBlob THEN "up" ELSE @, !.dep = IF inBlob THEN FALSE ELSE @]

FinishFetch(r) ==
  /\ req[r].pc = "finalize"
  /\ ver' = [ver EXCEPT ![req[r].v] = finalize_proxy_tarball(req[r].v)]
  /\ Goto(r, IF req[r].op = "tarball" THEN "open" ELSE "done")
  /\ UNCHANGED <<pkg, fileVars, gcVars, envVars>>

\* A hot-tier miss is filled from the cold tier.
open_tarball_stream(r) ==
  LET v == req[r].v IN
  /\ req[r].pc = "open"
  /\ IF hot[v] = NULL /\ cfg.s3 /\ cold[v] # NULL
       THEN req' = [req EXCEPT ![r].pc = "write_back", ![r].data = cold[v]]
       ELSE End(r)
  /\ UNCHANGED <<indexVars, fileVars, gcVars, envVars>>

WriteBack(r) ==
  /\ req[r].pc = "write_back"
  /\ hot' = [hot EXCEPT ![req[r].v] = req[r].data]
  /\ End(r)
  /\ UNCHANGED <<indexVars, tmp, cold, uploads, gcVars, envVars>>

-----------------------------------------------------------------------------
(* dist-tags, unpublish, deprecate: authorised first, applied later.         *)

Authorise(r) ==
  /\ req[r].pc = "auth"
  /\ Goto(r, IF require_can_modify(req[r].u,
                  IF req[r].op \in {"set_tag", "delete_version"} THEN req[r].v ELSE NULL)
               THEN req[r].op ELSE "done")
  /\ UNCHANGED <<indexVars, fileVars, gcVars, envVars>>

set_dist_tag(t, v) == IF ver[v] = NULL THEN pkg.tags ELSE [pkg.tags EXCEPT ![t] = v]

\* 'latest' cannot be removed.
remove_dist_tag(t) == IF t = "latest" THEN pkg.tags ELSE [pkg.tags EXCEPT ![t] = NULL]

handle_set_dist_tag(r) ==
  /\ req[r].pc = "set_tag"
  /\ pkg' = [pkg EXCEPT !.tags = set_dist_tag(req[r].tag, req[r].v)]
  /\ End(r)
  /\ UNCHANGED <<ver, fileVars, gcVars, envVars>>

handle_remove_dist_tag(r) ==
  /\ req[r].pc = "remove_tag"
  /\ pkg' = [pkg EXCEPT !.tags = remove_dist_tag(req[r].tag)]
  /\ End(r)
  /\ UNCHANGED <<ver, fileVars, gcVars, envVars>>

\* Mutant of delete_version: only 'latest' is moved.
LatestOnly(v) ==
  LET rest == {w \in Versions \ {v} : ver[w] # NULL} IN
  [pkg.tags EXCEPT !["latest"] = IF @ = v THEN MaxVersion(rest) ELSE @]

\* Tags on the deleted version move to the highest row that is left.
delete_version(v) ==
  LET rest == {w \in Versions \ {v} : ver[w] # NULL} IN
  [t \in Tags |-> IF pkg.tags[t] = v THEN MaxVersion(rest) ELSE pkg.tags[t]]

handle_delete_version(r) ==
  LET v == req[r].v IN
  /\ req[r].pc = "delete_version"
  /\ IF ver[v] = NULL
       THEN End(r) /\ UNCHANGED indexVars
       ELSE /\ ver' = [ver EXCEPT ![v] = NULL]
            /\ pkg' = [pkg EXCEPT !.tags = delete_version(v)]
            /\ req' = [req EXCEPT ![r].pc = "unlink", ![r].list = {v}]
  /\ UNCHANGED <<fileVars, gcVars, envVars>>

\* The tombstone keeps is_proxy and the blob.
delete_package == IF pkg.exists THEN [pkg EXCEPT !.unpublished = TRUE, !.tags = NoTags] ELSE pkg

handle_delete_package(r) ==
  LET rows == {v \in Versions : ver[v] # NULL} IN
  /\ req[r].pc = "delete_package"
  /\ ver' = Nothing
  /\ pkg' = delete_package
  /\ req' = [req EXCEPT ![r] = At([@ EXCEPT !.list = rows], IF rows = {} THEN "done" ELSE "unlink")]
  /\ UNCHANGED <<fileVars, gcVars, envVars>>

\* delete_tarball, for one removed version after the other; errors are ignored.
Unlink(r, v) ==
  LET rest == req[r].list \ {v} IN
  /\ req[r].pc = "unlink" /\ v \in req[r].list
  /\ \/ hot' = [hot EXCEPT ![v] = NULL]
     \/ UNCHANGED hot
  /\ req' = [req EXCEPT ![r] = At([@ EXCEPT !.list = rest], IF rest = {} THEN "done" ELSE "unlink")]
  /\ UNCHANGED <<indexVars, tmp, cold, uploads, gcVars, envVars>>

deprecate_versions(v, dep) == IF ver[v] = NULL THEN ver ELSE [ver EXCEPT ![v].dep = dep]

handle_deprecate(r) ==
  /\ req[r].pc = "deprecate"
  /\ \E dep \in BOOLEAN : ver' = deprecate_versions(req[r].v, dep)
  /\ End(r)
  /\ UNCHANGED <<pkg, fileVars, gcVars, envVars>>

-----------------------------------------------------------------------------
(* Background: eviction from the proxy cache, orphans at boot.               *)

Cached == {v \in Versions : pkg.is_proxy /\ ver[v] # NULL /\ ver[v].cached}

\* As many of the cached tarballs as exceed the limit; which ones is a matter of
\* published_at, which is not modelled.
pick_proxy_evictions ==
  {S \in SUBSET Cached : Cardinality(S) = Cardinality(Cached) - MaxCache}

PickEvictions ==
  /\ sweep = {} /\ cfg.enabled /\ MaxCache # 0
  /\ Cardinality(Cached) > MaxCache
  /\ \E S \in pick_proxy_evictions : sweep' = {[v |-> v, pc |-> "unlink"] : v \in S}
  /\ UNCHANGED <<indexVars, fileVars, req, reap, envVars>>

\* delete_local_tarball; its failure is logged and the row marked all the same.
EvictFile(x) ==
  /\ x \in sweep /\ x.pc = "unlink"
  /\ \/ hot' = [hot EXCEPT ![x.v] = NULL]
     \/ UNCHANGED hot
  /\ sweep' = (sweep \ {x}) \cup {[x EXCEPT !.pc = "mark"]}
  /\ UNCHANGED <<indexVars, tmp, cold, uploads, req, reap, envVars>>

mark_proxy_evicted(v) ==
  IF ver[v] = NULL THEN ver ELSE [ver EXCEPT ![v].cached = FALSE, ![v].s3 = FALSE]

MarkEvicted(x) ==
  /\ x \in sweep /\ x.pc = "mark"
  /\ ver' = mark_proxy_evicted(x.v)
  /\ sweep' = sweep \ {x}
  /\ UNCHANGED <<pkg, fileVars, req, reap, envVars>>

\* gc_package_dir: is there a row for the file? The file is removed afterwards.
LookForRow(v) ==
  /\ v \in reap.files /\ reap.orphan = NULL
  /\ reap' = [files |-> reap.files \ {v}, orphan |-> IF ver[v] = NULL /\ hot[v] # NULL THEN v ELSE NULL]
  /\ UNCHANGED <<indexVars, fileVars, req, sweep, envVars>>

DropOrphan ==
  /\ reap.orphan # NULL
  /\ hot' = [hot EXCEPT ![reap.orphan] = NULL]
  /\ reap' = [reap EXCEPT !.orphan = NULL]
  /\ UNCHANGED <<indexVars, tmp, cold, uploads, req, sweep, envVars>>

-----------------------------------------------------------------------------
(* The environment.                                                          *)

Event == events < MaxEvents /\ events' = events + 1

\* PUT /registry/settings.
UpdateSettings ==
  /\ Event
  /\ cfg' \in {[cfg EXCEPT !.enabled = ~@], [cfg EXCEPT !.s3 = ~@]}
  /\ UNCHANGED <<indexVars, fileVars, req, gcVars, upstream>>

TtlPasses ==
  /\ Event /\ pkg.fresh
  /\ pkg' = [pkg EXCEPT !.fresh = FALSE]
  /\ UNCHANGED <<ver, fileVars, req, gcVars, cfg, upstream>>

UpstreamRelease(v) ==
  /\ Event /\ v \notin upstream
  /\ upstream' = upstream \cup {v}
  /\ UNCHANGED <<indexVars, fileVars, req, gcVars, cfg>>

\* A restart: requests, uploads and sweeps are gone, gc_orphans runs while the
\* new process already serves.
Crash ==
  /\ Event
  /\ req' = [r \in Requests |-> IF req[r].pc = "new" THEN Idle ELSE Finished]
  /\ uploads' = {} /\ sweep' = {}
  /\ reap' = [files |-> Versions, orphan |-> NULL]
  /\ UNCHANGED <<indexVars, hot, tmp, cold, cfg, upstream>>

Step(r) ==
  \/ WriteTmp(r) \/ Rename(r) \/ SpawnUpload(r) \/ AcceptPublish(r) \/ handle_publish(r)
  \/ LoadPackument(r) \/ FetchPackument(r) \/ Revalidate(r)
  \/ StorePackument(r)
  \/ LookupTarball(r) \/ ProxyState(r) \/ FetchTarball(r) \/ FinishFetch(r)
  \/ open_tarball_stream(r) \/ WriteBack(r)
  \/ Authorise(r) \/ handle_set_dist_tag(r) \/ handle_remove_dist_tag(r) \/ handle_deprecate(r)
  \/ handle_delete_version(r) \/ handle_delete_package(r) \/ \E v \in Versions : Unlink(r, v)

Evict == PickEvictions \/ \E x \in sweep : EvictFile(x) \/ MarkEvicted(x)

Next ==
  \/ \E r \in Requests :
       \/ Step(r)
       \/ \E op \in OpNames, v \in Versions \cup {NULL}, u \in Users \cup {NULL}, t \in Tags :
            Begin(r, op, v, u, t)
  \/ \E x \in uploads : UploadCold(x)
  \/ Evict
  \/ (\E v \in Versions : LookForRow(v)) \/ DropOrphan
  \/ UpdateSettings \/ TtlPasses \/ \E v \in Versions : UpstreamRelease(v)
  \/ Crash

Spec == Init /\ [][Next]_vars

-----------------------------------------------------------------------------
(* Properties.                                                               *)

\* Types of the index, the files and the requests.
RegistryTypeOK ==
  /\ pkg \in PackageRow
  /\ ver \in [Versions -> VersionRow \cup {NULL}]
  /\ hot \in [Versions -> Bytes \cup {NULL}]
  /\ tmp \in [Versions -> Bytes \cup {NULL}]
  /\ cold \in [Versions -> Bytes \cup {NULL}]
  /\ uploads \subseteq [v : Versions, data : Bytes]
  /\ req \in [Requests -> [op : OpNames \cup {"none"}, pc : Steps, v : Versions \cup {NULL},
                           u : Users \cup {NULL}, tag : Tags, data : Bytes \cup {NULL},
                           body : (SUBSET Versions) \cup {NULL}, list : SUBSET Versions]]
  /\ sweep \subseteq [v : Versions, pc : {"unlink", "mark"}]
  /\ reap \in [files : SUBSET Versions, orphan : Versions \cup {NULL}]
  /\ cfg \in [enabled : BOOLEAN, s3 : BOOLEAN]
  /\ upstream \subseteq Versions /\ events \in Nat

\* Every dist-tag names a version that a client can resolve: a row of the index
\* or, in a proxied package, a version of the cached upstream packument. Publish,
\* re-tagging, unpublish and cache refresh each rewrite the tags, in any order.
TagsResolve ==
  \A t \in Tags : pkg.tags[t] # NULL =>
    \/ ver[pkg.tags[t]] # NULL
    \/ pkg.is_proxy /\ pkg.blob # NULL /\ pkg.tags[t] \in pkg.blob

\* The integrity recorded for a version of a private package does not change while
\* the row exists, however many clients publish that version at once.
IntegrityIsFinal ==
  [][\A v \in Versions :
       ver[v] # NULL /\ ver'[v] # NULL /\ ~pkg'.is_proxy => ver'[v].sha = ver[v].sha]_vars
=============================================================================
