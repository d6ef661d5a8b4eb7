------------------------------ MODULE Publish ------------------------------
(* The package registry service (registry/src): publishing versions of one *)
(* package and downloading them, over a table store with transactions and  *)
(* a blob store that are separate systems.                                 *)
EXTENDS Naturals, Sequences, FiniteSets, FiniteSetsExt, Functions

CONSTANTS Requests,    \* publish requests, served at once
          Version,     \* Version[r] in the order of semver
          Blob,        \* Blob[r]: the hash of its tarball
          MaxDownloads \* bound

ASSUME RequestsAssumption == "free" \notin Requests /\ DOMAIN Blob = Requests

ASSUME VersionAssumption == Version \in [Requests -> Nat \ {0}]

VARIABLES request,   \* request[r]: new, checked, stored, locked, inserted, or the answer
          versions,  \* committed rows: <<version, blob>>
          latest,    \* latest_version of the package row, 0 for NULL
          mine,      \* mine[r]: the latest version r has derived, 0 before
          lock,      \* the request whose transaction holds the package row
          blobs,
          counts,    \* counts[v]: downloads of version v; counts[0]: of the package
          down       \* the download in progress: <<>>, <<v>> or <<v, "fetched">>

publishVars == <<request, versions, latest, mine, lock, blobs, counts, down>>

Answers == {"created", "conflict", "error"}
Committed == {v[1] : v \in versions}

PublishInit ==
    /\ request = [r \in Requests |-> "new"] /\ versions = {} /\ latest = 0
    /\ mine = [r \in Requests |-> 0] /\ lock = "free" /\ blobs = {}
    /\ counts = [v \in {0} \cup Range(Version) |-> 0] /\ down = <<>>

(* version_exists: the fast answer.                                        *)
Check(r) ==
    /\ request[r] = "new"
    /\ request' = [request EXCEPT ![r] = IF Version[r] \in Committed THEN "conflict" ELSE "checked"]
    /\ UNCHANGED <<versions, latest, mine, lock, blobs, counts, down>>

Store_Later(r) ==
    /\ request[r] = "checked" /\ request' = [request EXCEPT ![r] = "stored"]
    /\ UNCHANGED <<versions, latest, mine, lock, blobs, counts, down>>

(* object_exists, put_object: blobs are named by their hash.               *)
Store(r) ==
    /\ request[r] = "checked" /\ blobs' = blobs \cup {Blob[r]}
    /\ request' = [request EXCEPT ![r] = "stored"]
    /\ UNCHANGED <<versions, latest, mine, lock, counts, down>>

(* insert_version begins: the upsert of the package row holds its lock to  *)
(* the end of the transaction.                                             *)
Upsert(r) ==
    /\ request[r] = "stored" /\ lock = "free" /\ lock' = r
    /\ request' = [request EXCEPT ![r] = "locked"]
    /\ UNCHANGED <<versions, latest, mine, blobs, counts, down>>

Insert_NoConstraint(r) ==
    /\ request[r] = "locked" /\ request' = [request EXCEPT ![r] = "inserted"]
    /\ UNCHANGED <<versions, latest, mine, lock, blobs, counts, down>>

(* UNIQUE(package_name, version) rolls the transaction back.               *)
Insert(r) ==
    /\ request[r] = "locked"
    /\ IF Version[r] \in Committed
       THEN request' = [request EXCEPT ![r] = "conflict"] /\ lock' = "free"
       ELSE request' = [request EXCEPT ![r] = "inserted"] /\ UNCHANGED lock
    /\ UNCHANGED <<versions, latest, mine, blobs, counts, down>>

Derive_Own(r) ==
    /\ request[r] = "inserted" /\ mine[r] = 0
    /\ mine' = [mine EXCEPT ![r] = Version[r]]
    /\ UNCHANGED <<request, versions, latest, lock, blobs, counts, down>>

(* derive_latest_version: over the rows this transaction sees.             *)
Derive(r) ==
    /\ request[r] = "inserted" /\ mine[r] = 0
    /\ mine' = [mine EXCEPT ![r] = Max(Committed \cup {Version[r]})]
    /\ UNCHANGED <<request, versions, latest, lock, blobs, counts, down>>

Commit(r) ==
    /\ request[r] = "inserted" /\ mine[r] # 0
    /\ versions' = versions \cup {<<Version[r], Blob[r]>>}
    /\ latest' = mine[r] /\ lock' = "free" /\ request' = [request EXCEPT ![r] = "created"]
    /\ UNCHANGED <<mine, blobs, counts, down>>

(* A store that does not answer, or a service that ends: what was not      *)
(* committed is rolled back, and a blob stays.                             *)
Fail(r) ==
    /\ request[r] \notin Answers /\ request' = [request EXCEPT ![r] = "error"]
    /\ lock' = IF lock = r THEN "free" ELSE lock
    /\ UNCHANGED <<versions, latest, mine, blobs, counts, down>>
-----------------------------------------------------------------------------
(* download: the row, then the blob, then both counters in a transaction.  *)
Download(v) ==
    /\ down = <<>> /\ v \in Committed /\ counts[0] < MaxDownloads
    /\ down' = <<v>>
    /\ UNCHANGED <<request, versions, latest, mine, lock, blobs, counts>>

Fetch ==
    /\ Len(down) = 1
    /\ \E v \in versions : v[1] = down[1] /\
          down' = IF v[2] \in blobs THEN <<down[1], "fetched">> ELSE <<>>
    /\ UNCHANGED <<request, versions, latest, mine, lock, blobs, counts>>

(* The package row is locked by a transaction that publishes.              *)
increment_download ==
    /\ Len(down) = 2 /\ lock = "free" /\ down' = <<>>
    /\ counts' = [counts EXCEPT ![down[1]] = @ + 1, ![0] = @ + 1]
    /\ UNCHANGED <<request, versions, latest, mine, lock, blobs>>

PublishNext ==
    \/ \E r \in Requests : Check(r) \/ Store(r) \/ Upsert(r) \/ Insert(r) \/ Derive(r)
                              \/ Commit(r) \/ Fail(r)
    \/ (\E v \in Committed : Download(v)) \/ Fetch \/ increment_download

PublishSpec == PublishInit /\ [][PublishNext]_publishVars
-----------------------------------------------------------------------------
PublishTypeOK ==
    /\ request \in [Requests -> {"new", "checked", "stored", "locked", "inserted"} \cup Answers]
    /\ versions \subseteq Range(Version) \X Range(Blob) /\ latest \in {0} \cup Range(Version)
    /\ mine \in [Requests -> {0} \cup Range(Version)] /\ lock \in Requests \cup {"free"}
    /\ blobs \subseteq Range(Blob) /\ counts \in [{0} \cup Range(Version) -> Nat]
    /\ down \in {<<>>} \cup {<<v>> : v \in Range(Version)} \cup {<<v, "fetched">> : v \in Range(Version)}

(* publish: a version anybody can see has its tarball in the blob store.   *)
BlobBeforeRow == \A v \in versions : v[2] \in blobs

(* insert_version: a version is published once, and stays what it was:     *)
(* every request that was told CREATED finds its own tarball there.        *)
VersionsAreImmutable ==
    /\ \A v, w \in versions : v[1] = w[1] => v = w
    /\ \A r \in Requests : request[r] = "created" => <<Version[r], Blob[r]>> \in versions

(* derive_latest_version: in whatever order requests commit, the package   *)
(* shows the greatest version that is published.                           *)
LatestIsGreatest == latest = IF versions = {} THEN 0 ELSE Max(Committed)

(* publish, insert_version: what is published has its tarball, is never    *)
(* replaced, and the package names the greatest.                           *)
VersionsStand == PublishTypeOK /\ BlobBeforeRow /\ VersionsAreImmutable /\ LatestIsGreatest
=============================================================================
