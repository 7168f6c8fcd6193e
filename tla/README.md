# A formal model of lfsd, the Git LFS server

`lfsd` (Go, `cmd/lfsd` and `internal/`) is a Git LFS server that keeps its
metadata in PostgreSQL and its objects in a filesystem or in S3-compatible
storage, and leaves authentication to the forge (GitHub, GitLab). This directory
holds TLA+ modules that model it, TLC configurations that check them on small
instances, and TLAPS proofs for every instance.

## 1. The system

| Component | Source | State it keeps | Operations |
|---|---|---|---|
| Database | `internal/database` | tables `objects` (a row per object id: pending or verified, with size, URI, `repo_count`) and `repo_objects` (which repository holds which object) | `GetRepoObject(s)ByOID(s)`, `GetObject(s)ByOID(s)`, `LinkObject`, `InsertPendingObject`, `VerifyObject`, `SweepOrphanObjects`, `SweepUnreferencedObjects` |
| Storage | `internal/storage` | the stored objects; the presigned URLs that are still valid | filesystem (a `Proxier`): `Put`, `Open`, `Delete`; S3 (a `Presigner`): `PresignPut`, `PresignGet`, `Head`, `Delete` |
| Stream readers | `internal/iox` | bytes read, digest so far | `ExactSizeReader.Read`, `SHA256Reader.Read`, inside `Put` |
| LFS handlers | `cmd/lfsd/lfs.go` | the local variables of each request in progress | `serveBatch`, `serveUpload`, `serveDownload`, `serveVerify`, the last three once per kind of backend |
| Janitor | `internal/janitor` | the list of rows it has deleted and whose objects it still has to delete | `Sweep`: an orphan pass and an unreferenced pass, every 30 minutes in every instance |
| Authorization | `cmd/lfsd/auth.go`, `internal/forge` | the permission cache, in the memory of the process | `authorize`, `authCacheTTL`, the providers' `Authorize`, `RepoAllowlist` |
| Configuration | `cmd/lfsd/config.go` | maps of storages and forges, fixed after the start | `loadConfig`, `validateStorageScheme` |
| Lifecycle | `cmd/lfsd/main.go` | three goroutines | serve, shut down on a signal, run the janitor |

How they interact. A request passes `authorize`, then its handler, which calls
the database and the storage of its forge host in turn. Nothing is held between
two calls: no lock, no transaction, no lease. The janitors of all instances and
the handlers share the tables and the stored objects, and clients write to S3
directly, with URLs that the server signed earlier. So what is hard is

* interleaving: two uploads of one object (to one backend, or to the different
  backends of two forge hosts), a batch and a sweep, a sweep and an upload, and
  the statements of any two transactions;
* stale reads: a batch acts on one lookup for all of its objects, an upload on a
  row it looked up before, a janitor on rows that are gone, a request on a
  permission that was revoked;
* failure between two steps: bytes without a row, a row without bytes, a list
  of things to delete that is lost, a file with half of its bytes;
* writes the server does not see: a PUT to a presigned URL, early, late or never;
* time: tokens that expire while they are cached, calls that do not return, a
  process that is asked to end.

What makes each part correct:

* Database: transactions are atomic; a verified row is settled for good; links
  and rows agree; `repo_count` counts the links.
* Storage: the bytes at a URI are the ones whose digest is in the URI; a URI is
  opened and deleted by the backend that made it.
* Handlers: what was acknowledged can be downloaded, from the repository that
  was told so, with the size it was told; no object over the limit gets in.
* Janitor: it deletes what nobody references, all of it, and nothing else.
* Authorization: no permission is used for longer than the policy says, nothing
  is cached that cannot be judged, and the allowlist means what it says.
* Lifecycle: requests and sweeps are not cut off, and the process ends.

## 2. The modules

    LfsTypes                    repositories, ids, sizes, backends, URIs
      Database                  the two tables, one action per transaction
      Storage                   stored objects and presigned URLs
        Handlers                the requests in progress  (EXTENDS Database, Storage)
        Janitor                 the sweeps in progress    (EXTENDS Database, Storage)
          LfsServer             all of it together
            LfsInvariant        the inductive invariants
              LfsServerProofs   the theorems about Spec and OperatorSpec
              MCLfsServer
      Transactions              the statements of the transactions, which
                                implement Database (INSTANCE)
        TransactionsInvariant, TransactionsProofs, MCTransactions
      FilesystemPut             the steps of Put, byte counts and the disk, which
                                implement Storage (INSTANCE)
        FilesystemPutProofs, MCFilesystemPut
      SweepOrder                which rows a tick takes  (EXTENDS Database)
        SweepOrderProofs, MCSweepOrder
    AuthCache                   authorize, its cache and the forges, in time
      AuthCacheProofs, MCAuthCache
    RepoAllowlist               REPO_ALLOWLIST compiled and asked
      RepoAllowlistProofs, MCRepoAllowlist
    Backends                    loadConfig, and who opens and deletes a URI
      BackendsProofs, MCBackends
    Lifecycle                   the process
      LifecycleProofs

Database and Storage are the two abstract specifications between the server and
what it is built on:

    LfsServer  --is built from-->  Database  <--implements--  Transactions
    LfsServer  --implements---->   Storage   <--implements--  FilesystemPut

so what the handlers rely on, that each call to the database is atomic and that
an object is stored whole or not at all, is what the SQL and the file system
calls are proved to deliver, with the exceptions in section 3. (That LfsServer
makes no other transactions than Database's is so by its form: its actions conjoin
Database's. The same goes for SweepOrder.)

**LfsTypes.** A repository, an object id, a backend are model values. A URI is
the pair of backend and object id, since both kinds of backend compute it from
the id and fixed configuration; a backend refuses a URI that is not its own.
For which configurations this is so is the subject of Backends. `StorageOf` is
the map from forge host to storage, applied to the repository's host.

**Database.** `objects[oid]` is the row, `Absent`, `Pending` or `Verified` (the
CHECK constraint allows no others); `repoObjects` is the set of links.
`repo_count` is derived here and a column in Transactions. Rows are known by
their oid. `created_at` is kept as "older than orphanAge or not". A transaction
that returns an error rolls back, and is a step that does not happen. The sweeps
take any set of matching rows, since `LIMIT` and `SKIP LOCKED` may leave some
out. `DbSpec` is the abstract specification: any sequence of transactions. That
each is one step is what Transactions is about. It is so of all of them as long as
nothing unlinks, and with an operator of all but `VerifyObject`: the run `relink`
is the counterexample, in which a verified row is swept between its unlocked
reload and the link.

**Storage.** A stored object is its URI in `stored`: `Put` renames a file whose
length and digest were checked (FilesystemPut), and S3 refuses a body whose
length or checksum differs from the signed one, so there are no wrong bytes to
model. Presigned URLs are in `presigned` until they expire; a PUT may come at
any time before, or never, or again. `StorageSpec` is the abstract specification:
any sequence of operations that the interfaces in `storage.go` allow.

**Handlers.** `conn[c]` is a request in progress: where it is, and what it
remembers. Each action is one call to the database or storage with what the
handler computes until its next call.

| Handler | Steps |
|---|---|
| `serveBatch` upload | `BatchLookup`, then `BatchLink` or `BatchReply` per object, in any order |
| `serveBatch` download | `BatchDownload` (reads only; used by `AckedDownloadable`) |
| `serveUploadProxy` | `UploadStat`, `UploadCopy`, `UploadLink`, `Cleanup` |
| `serveUploadPresign` | `UploadLookup`, `UploadInsert`, `UploadPresign`, then the client's `ClientPut` |
| `serveVerifyProxy` | `VerifyProxy` |
| `serveVerifyPresign` | `VerifyHead`, `VerifyCommit`, `Cleanup` |
| `serveDownload` | `DownloadLookup`, then `Servable` says whether `Open` or `PresignGet` works |
| every error, disconnect, crash | `Abort` |

`acked` is a history variable: what the server told a client it holds (a 204, or
a batch entry with neither action nor error). A crash of the process is `Abort`
for each of its requests and `JanitorCrash` for its janitor, in any order. Any
request may be made of any repository: who may make it is AuthCache's subject.

**Janitor.** `SweepOrphans`, the storage deletes one by one (`DeleteStored` or
`DeleteFails`), `SweepUnreferenced`, the same again, `SweepDone`. `undeleted` is
a history variable: the URIs whose deletion failed or was lost in a crash.

**LfsServer.** `Next` interleaves these with the environment: time (`Age`) and
clients and S3 (`ClientPut`, `PresignExpire`). Nothing under `src/` ever removes
a link, so in `Spec` no verified row becomes unreferenced. `OperatorSpec` adds
`Unlink`, an operator who does, which is what the unreferenced sweep is for, if
all storage is filesystem storage. With presigned storage and an operator the
one-step `VerifyObject` is not the code's, so `OperatorSpec` has no operator there,
and nothing is claimed: that combination is left to the statements of Transactions.

**Transactions.** The statements of `LinkObject`, `VerifyObject`,
`InsertPendingObject` and the sweeps at READ COMMITTED. `objects`, `rowId`,
`repoCount` and `links` are what is committed; `txn[t]` is a running transaction
with its own version of its row; `sweeping[j]` is what a janitor's
`FOR UPDATE SKIP LOCKED` has selected and locked. Each statement is a step; one
that has to wait for a lock is a step that is not enabled; `Rollback` may come
anywhere. A `VerifyObject` runs from `Update` through `UpdateRow`, `Reload` and
`InsertLink` to the count, of which `LinkObject` shares the second half.
`Db == INSTANCE Database WITH repoObjects <- LinkedPairs` is the refinement:
`LinkedPairs` reads the links through the numeric ids of the rows. Here
`repo_objects` has no foreign key, as in the code.

**SweepOrder.** The tables and actions of Database with what decides which rows
a tick takes: `older`, the order of the times; `locked`, the rows that a
transaction holds; and `SweepBatchSize`. `Selected` is
`ORDER BY ... LIMIT ... FOR UPDATE SKIP LOCKED`. PostgreSQL's `now()` is when a
statement or transaction began, so both kinds of row may come to stand before one
that was committed earlier: a verified row has the time of its transaction
(`BeginTx`, `Lock`, `Commit`), and a pending row the time of its INSERT, which may
have waited for an uncommitted `LinkObject` of the same object to roll back
(`BeginInsert`, then `Insert` or `InsertFails`). For each object there is one INSERT
and one transaction at a time, and `MaxCalls` bounds all of them together; what
several transactions do to one row is Transactions' subject. A `VerifyObject` whose
row is swept after its reload changes no row, and is a `Rollback` here. No INSERT is
taken to last as long as `orphanAge` (24 hours).

**FilesystemPut.** `Put` as the code does it: `stat`, a temporary file, `io.Copy`
one `Read` at a time through `ExactSizeReader` and `SHA256Reader` (a read may
return bytes and an error together), `Sync`, `Rename`. Of the bytes it keeps how
many there are and whether they are the object's first ones, which is all that
the digest tells apart. `durable` is what a loss of power leaves; an unsynced
file may come back cut anywhere, a name in its last or an older state.
`Promised == INSTANCE Storage WITH stored <- StoredFiles` is the refinement: a
file under its final name is a stored object.

**AuthCache.** A key is the host, repository, user and token. The
configuration (`kind` of provider, `allowed` repositories) is chosen in `Init`
and never changes. Time is in ticks and every deadline counts down. `Arrive` is
`authorize` up to its call; `ForgeAnswers`, `Authorized`, `Denied` and `CallFails`
are the call to the forge, of which GitLab needs up to two; `granted`, `life` and
`header` are the forge's side, which may change between and during calls. `age`
is a history variable: how long ago the forge last granted a permission.

**RepoAllowlist.** A path is a sequence of words between slashes; `Compile` is one
turn of the loop of `NewRepoAllowlist`, and `Allow` what `authorize` asks.

**Backends.** The `[storage]` and `[forge]` sections are chosen when `loadConfig`
reads them, with every check that it makes; `janitor.New` keeps one backend per
scheme; `Upload`, `Verify` and `Sweep` are reduced to which backend stores, opens
and deletes. A root or a bucket is cut into words at its slashes, and what
`url.Parse` makes of a URI is in two constants: `UrlScheme` (it returns the scheme in
lower case) and `UrlPath` (it decodes `%`, ends the path at `#` or `?`, and may return
an error). `PathFromURI` compares what was parsed with the configuration as
written, and refuses everything under the root `/`; `KeyFromURI` cuts the bucket at
the first slash. `Survives` says of which configurations the URIs come back as they
were made. Each S3 section is taken to have an endpoint of its own, and no scheme
to be a prefix of another.

**Lifecycle.** `main` from `loadConfig` to its exit: the goroutines of
`ListenAndServe`, `Shutdown` and `Janitor.Run`, signals before, during and after
`signal.NotifyContext`, the connections as `net/http` treats them, and a panic in
the janitor, which the wait group keeps to the end.

The MC modules only give constants their values. Definitions that begin with
"Faulty variant of" in their comment are not part of the model: each is a
plausible bug in the definition that follows, used to see that a property
notices it.

## 3. The runs

| Run | Module, specification | Properties | Distinct states |
|---|---|---|---|
| `mixed` | MCLfsServer, Spec; one host on each kind of storage | `IInv`, `AckedDownloadable`, `ProxiedIsStored`, `DownloadServed`, `CleanupSparesReferenced`, `PlaceholderNeverWritten`, `SizeIsTrue`, `VerifiedForGood` | 489,064 |
| `presigned` | MCLfsServer, Spec; S3 only, an object whose true size is over the limit | `LimitHolds`, `AckedIsOwned`, `OnlyOrphanSweepTakes` | 737,856 |
| `serial` | MCTransactions, Spec; S3 only | `TypeOK`, `ReturnedIsStored`, `DeadlockHasVerify`, `DatabaseSpec` | 131,610 |
| `relock` | MCTransactions, OperatorSpec; filesystem only | `CountIsTrue`, `LinkedRowExists`, `NoDeadlock`, `DatabaseOperatorSpec` | 9,529 |
| `backlog` | MCSweepOrder, FairSpec | `TypeOK`, `NeverOvertaken`, `OldestFirst`, `OrphansGo`, `UnreferencedGo` | 23,446 |
| `put` | MCFilesystemPut, PowerSpec | `FilesAreWhole`, `StoresAsPromised` | 91,212 |
| `auth` | MCAuthCache, FairSpec | `TypeOK`, `AnnouncedExpiryHonoured`, `ServedRecentlyGranted`, `FailsClosed`, `Converges` | 475,050 |
| `allowlist` | MCRepoAllowlist, Spec | `AdmitsAsDocumented` | 16,772 |
| `backends` | MCBackends, Spec | `HostsAreFound`, `OpenedWhereStored`, `DeletesReachStorage` | 176,094 |
| `shutdown` | Lifecycle, FairSpec | `QuietAfterShutdown`, `GracefulExit`, `ExitsUnlessClientsStay`, `ImpatienceHelps`, `SweepsGoOn` | 584 |

What they show, beyond the names: `DatabaseSpec` and `DatabaseOperatorSpec` are the
refinement of Database by statements, `StoresAsPromised` says the same of Storage
with losses of power, `NeverOvertaken`, `OldestFirst`, `ServedRecentlyGranted`,
`FailsClosed`, `GracefulExit`, `DeletesReachStorage`, `OnlyOrphanSweepTakes` and
`VerifiedForGood` are about steps, and `OrphansGo`,
`UnreferencedGo`, `Converges`, `ExitsUnlessClientsStay`, `ImpatienceHelps` and
`SweepsGoOn` are liveness. `IInv` is the invariant that the proofs use.

**Bounds, and why they are enough.** All state spaces are finite and explored in
full; nothing bounds the length of a behaviour.

* `mixed`: two requests and a janitor. Every hazard in the handlers
  is between two parties of which at most two are requests, and finished requests
  make room for later ones. One object: objects meet only in a batch, which
  handles them one after another; batches of any size are covered by the proofs.
  Two repositories, one to upload and one to link. Sizes 1 to 3 with limit 2: the
  true size, a wrong one within the limit, and one above it.
* `presigned`: two requests and a janitor again, with two objects of true sizes 1
  and 2 and the limit 1. What `serveVerify` would confirm of the larger one is true
  and over the limit, so only the checks made before its URL is signed keep it out.
* `serial`, `relock`: three transactions on one row, with one and two janitors,
  and one row id more than is in use, so that a row can be deleted and made again under a
  transaction that knows the old id. A cycle of waits needs two transactions.
* `backlog`: three objects and ticks that take one row of each kind: more rows
  than a tick takes, in front of and behind the one that waits. `MaxCalls = 2`: two
  INSERTs or transactions whose begins and ends come in different orders. What does
  not depend on fairness is proved for any numbers.
* `put`: an empty object and one of two bytes, claimed sizes 0 to 3, up to two
  bytes a read: bodies that are empty, short, exact, long, and long only in the
  last read.
* `auth`: ticks in proportions that keep every case of `authCacheTTL` apart: a
  token life below, at and above the margin, and above the maximum. The
  margin is one tick, and so is the largest difference of the clocks, which the
  margin is there for.
* `allowlist`: paths of up to three words, among them the empty word, one with a
  star, and two spellings of one name.
* `backends`: two storages, of either type, on the same or different schemes, one
  scheme in upper case and one without its `://`; nested roots, the root `/`, one with
  a `#` and one with a `%` that decodes to another root; a bucket with a slash; two
  hosts, one of them spelled in two ways.
* `shutdown`: two connections, one of which may stay while the other goes.

Deadlock is checked except in `shutdown` (the process ends), `allowlist` (the
loop ends) and `backends` (a configuration may be refused). In MCTransactions the
absence of a TLC deadlock says nothing, since a transaction may always roll back:
the database's deadlocks are the properties `NoDeadlock` and `DeadlockHasVerify`.

**Fairness**, in the four modules with liveness:

* AuthCache: time passes (`WF Tick`), and a goroutine that can go on does
  (`WF Progress`). Nothing is asked of the forge: the HTTP clients have a timeout
  (`NewGitHubProvider`, `NewGitLabProvider`), so a call ends in any case.
* SweepOrder: transactions end (`WF`). The sweeps have strong fairness per row:
  ticks are not tied to what clients do, so a row that is free again and again is
  not locked at every tick. A database that fails every sweep is excluded.
* Lifecycle: the goroutines, the timer of the janitor and net/http's closing of
  idle connections (`WF`). `JanitorStops` has strong fairness, since Go's select
  chooses at random among the ready branches. Clients owe nothing: a request may
  last for ever, which is why `ExitsUnlessClientsStay` names that exception.
  `ImpatienceHelps` assumes in addition an operator who signals again.

**Two runs show that something the repository says is not so:**

| Run | Property | What happens |
|---|---|---|
| `late_delete` | `VerifiedIsStored` | An orphan sweep commits the deletion of a row. Before its storage delete, a client asks for the object again, uploads, and verifies. Then the delete takes the bytes of the verified row. From then on uploads are answered 200 without a URL and batches with "nothing to do", so the object cannot be repaired through the API. On filesystem storage the property holds (`ProxiedOnlySafe`). |
| `relink` | `LinkedRowExists` | `VerifyObject` of a verified object reads the row without locking it; the unreferenced sweep deletes the row before the link is inserted, and the link refers to nothing. `objects.go:304-307` says that a relink waits for the sweep; that holds of `LinkObject` alone (`RelinkedRows`). |

**Conditions that are needed.** The other properties hold under the stated
configurations, and not beyond. To see the counterexample, put the property of
the left column in place of those of the named file:

| Property | Where it fails | Why |
|---|---|---|
| `SizeIsTrue` without its `objects[oid].uri \in Presigner \X Oid` | `mixed.cfg` | On a filesystem: `Put` does not read the body when the file exists, so a wrong Content-Length is recorded if the upload that stored the bytes has not linked them. |
| `AckedIsOwned` | `mixed.cfg` (two storages) | The dedup of `serveBatch` is over all forge hosts. A repository is linked to an object in another host's storage, which its own backend refuses. |
| `FailedDeleteIsRetried` | `mixed.cfg` | The row that would have led a later tick to the object is gone, although `janitor.go:61-62` says "The next tick will retry". |
| `PlaceholderNeverWritten` | `late_delete.cfg` with `SPECIFICATION OperatorSpec`, `Backend = {fs}`, `Proxier = {fs}` | With an operator who unlinks: the sweep takes the row between a batch's lookup and its `LinkObject`, which inserts a verified row with URI "ignored". |
| `VerifiedIsStored` | the same | The race of `late_delete`, of the unreferenced sweep with a relink. |
| `CountIsTrue` | `relink.cfg` with `SPECIFICATION Spec` | Two `VerifyObject`s of a verified object hold no lock on its row when they count: neither sees the other's link, and `repo_count` is one too low. It is not zero before an operator unlinks (`CountIsPositive`). |
| `ReturnedIsStored` | `relink.cfg` | The race of `relink`: the row whose URI a `VerifyObject` is about to return is gone when it commits. |
| `InvalidatedBeforeStale` | `auth.cfg` | GitLab reports no expiry, so the default TTL may outlast the token, although `auth.go:96-97` says that an entry never does. For what GitHub announces, `AnnouncedExpiryHonoured` holds. |

Others are conditions within a property. `DeletesReachStorage` speaks of storages
with a scheme of their own: `loadConfig` accepts two sections with one SCHEME, for
example two buckets, of which the janitor then knows only one, and the bytes of the
other stay. And it speaks of URIs that survive: a ROOT with `#`, `?` or `%`, a ROOT `/`
or a SCHEME such as `File://` is accepted, every upload works, and then every download
and every delete is an error. `OpenedWhereStored` says just when. `SweepsGoOn` exempts
a panic in the janitor, after which the process goes on without one.

## 4. The proofs

All theorems hold for any values of the constants that satisfy the named
assumptions: any number of repositories, objects, sizes, backends, requests,
janitors, transactions, keys, sections, connections and paths.

**LfsServerProofs**, of `Spec` and `OperatorSpec`, from `ConfigAssumption` and `NullAssumption`:

| Theorem | States |
|---|---|
| `TypeCorrect`, `OperatorTypeCorrect` | `Spec => []TypeOK`, `OperatorSpec => []TypeOK` |
| `InvariantHolds` | `Spec => []IInv` |
| `AckedSafe` | `Spec => []AckedDownloadable` |
| `VerifiedStays` | `Spec => VerifiedForGood` |
| `PlaceholderSafe` | `Spec => []PlaceholderNeverWritten` |
| `CleanupSafe` | `Spec => []CleanupSparesReferenced` |
| `ProxiedSafe`, `ProxiedOnlySafe` | `Spec => []ProxiedIsStored`; `Spec => []VerifiedIsStored` if all backends are filesystems |
| `OnlyLateDeletes` | `Spec => OnlyOrphanSweepTakes`: the bytes of a verified row are taken by no step but a late delete of the orphan sweep |
| `DownloadSafe` | `Spec => []DownloadServed` |
| `SharedStorageOwned` | `Spec => []AckedIsOwned` if all repositories use one storage |
| `ServerImplementsStorage` | `Spec => StorageSpec` |
| `SizesAreTrue` | `Spec => []SizeIsTrue` |
| `LinkedStaysVerified` | `OperatorSpec => []LinkedIsVerified`: the operator being on filesystem storage |
| `LimitSafe` | `OperatorSpec => []LimitHolds`, and so of `Spec` with any storage |

The argument. None of the properties is inductive. That an acknowledged object
stays downloadable needs that no sweep takes its row, which needs that it is
linked; that a batch may link on a stale lookup needs that the row it found is
still verified with the size it found. `IInv` says these things of all requests
and janitors at once: links are of verified rows and verified rows have links, a
verified row's URI is canonical, a batch's lookup is still true, a request about
to link has its bytes in place unless another location has won, a request
about to clean up has committed and lost, and janitors only hold URIs on
presigning backends.

The step is cut in two. Every action `Settles` (verified rows and links stay;
what it newly verifies is linked, canonical, and in place if on a filesystem)
and `Spares` (what it deletes from storage is on a presigning backend, or is
not what a verified row points to): `HandlersHold`, `JanitorHold`,
`EnvironmentHolds`. And any step that does both keeps the invariant:
`TablesHold`, `AcksHold`, `OthersHold`. `DownloadIInv` adds that a download
holds the URI of a row that does not change. `LimitIInv`, for the size limit, says
that requests, presigned URLs, stored bytes and rows are all within it; it rests on
the types alone, so that an operator who unlinks does not disturb it.

`OnlyLateDeletes` says how far the race of `late_delete` reaches: by `IInv` a
handler cleans up no location that a row points to, while nothing unlinks the
unreferenced pass has nothing to delete (`OnlyOrphansQueued`), and what is left is a
janitor that took the row while it was an orphan. `SharedStorageOwned` is the
positive half of a condition in section 3: a row points to the storage of some
repository (`UriIsOfAForge`), which is everybody's if there is one.

Each step of the server is at most one operation of Storage: `Put` only where the
backend has one and presigned URLs only of one that makes them. For sizes, a row
with a presigning backend's URI was made by `VerifyCommit`, after `Head` compared
what was claimed with the bytes, since a batch that writes a row has found it
verified already. `LinkedStaysVerified` needs of an operator that the unreferenced sweep
takes no row that has a link, which is why it is of filesystem storage: where
`VerifyObject` runs, `relink` refutes it.

**TransactionsProofs**:

| Theorem | States |
|---|---|
| `SerialInvariant`, `TypeCorrect` | `Spec => [](IInv /\ CountIsPositive)`, `Spec => []TypeOK` |
| `TransactionsRefineDatabase` | `Spec => DatabaseSpec` |
| `LinkedRows`, `ReturnedURIIsStored` | `Spec => []LinkedRowExists`, `Spec => []ReturnedIsStored` |
| `LockInvariant`, `OnlyVerifyDeadlocks` | `OperatorSpec => []LockIInv`, `OperatorSpec => []DeadlockHasVerify`, with any storages |
| `OperatorInvariant`, `CountsAreTrue`, `RelinkedRows`, `LinksDoNotDeadlock`, `OperatorRefinesDatabase` | the same of `OperatorSpec` without presigned storage, and `CountIsTrue`, `NoDeadlock`, `DatabaseOperatorSpec` |

The argument. The invariant says who holds which lock (`LocksExclude`), that ids
and rows correspond (`RowIds`), that what a sweep selected still qualifies
(`SelectionHolds`) and, for each point of a transaction, what it knows of its row
(`WroteRow` under the lock; `ReadRow` without one). The one thing that no lock
protects is the row of a `VerifyObject` that found it verified: it stays because
its `repo_count` is positive (`CountIsPositive`) as long as nothing unlinks. Hence
the two halves: with `VerifyObject` and no operator, or with an operator and no
`VerifyObject`. With both there is the run `relink`, and what a transaction
returns need not be stored either. What holds with both is the order of the locks
(`LockIInv`): `LinkObject` has its row's before it looks at a link, so of two that
wait for each other one is a `VerifyObject`. That a step maps to a step of
Database or to a stutter is then by the step: `Commit` to `LinkObject` or
`VerifyObject`, `DeleteRows` to the sweeps, the rest to stutters.

**The others**:

| Module | Theorem | States | From |
|---|---|---|---|
| AuthCacheProofs | `TypeCorrect`, `ExpiryHonoured`, `StalenessBounded`, `UnparsableNotCached` | `TypeOK`, `AnnouncedExpiryHonoured`, `ServedRecentlyGranted`, `FailsClosed` | `TimeAssumption`: the default TTL is not above the maximum, and clocks differ by at most the margin |
| SweepOrderProofs | `TypeCorrect`, `NoOvertaking`, `SweepsOldestFirst` | `TypeOK`, `NeverOvertaken`, `OldestFirst` | `BatchAssumption`, `ConfigAssumption`, `NullAssumption` |
| FilesystemPutProofs | `PutInvariant`, `CopiedContent`, `WholeFiles`, `StoresWhatItPromised` | `PutInv`, `CopiedIsContent`, `FilesAreWhole`, `StoresAsPromised`, with losses of power | `DiskAssumption`, `SizeAssumption` |
| | `ImplementsStorage` | `Promised!StorageSpec`, without | the same |
| RepoAllowlistProofs | `ListIsCompiled`, `ListMeansWhatItSays` | `Compiled`, `AdmitsAsDocumented` | `WordAssumption`, `LowerAssumption`, `PathAssumption` |
| BackendsProofs | `TypeCorrect`, `HostsFound`, `SweepsReachStorage`, `OpensItsOwn` | `TypeOK`, `HostsAreFound`, `DeletesReachStorage`, `OpenedWhereStored` | `HostAssumption`, `PathAssumption`, `RowAssumption` |
| LifecycleProofs | `ShutdownInvariant`, `ExitIsGraceful` | `QuietAfterShutdown`, `GracefulExit` | none |

`StalenessBounded` rests on a balance: what an answer or an entry lacks in time
left, the permission has in age, so that age plus TTL left never exceeds the
maximum and one call. `ExpiryHonoured` has a similar one between an entry and the
announced end of its token. `WholeFiles` needs that nothing gets its final name
unsynced, also in what `durable` remembers. `SweepsReachStorage` needs that
`janitor.New` has kept a backend of every scheme in use, and so the only one of
its scheme. `OpensItsOwn` rests on `PathAssumption`: decoding makes no path longer, so
what was parsed goes on from the root only if nothing was decoded. `ListMeansWhatItSays`
needs that an entry with a star that is not its final `/**` never compiles, for it
would match the path that is spelled like it.

The proofs about SweepOrder count: the rows of one kind that a sweep sees are
ranked by how many stand before them, the ranks are different, and so the free
rows with a rank below the limit are at most that many, and exactly that many if
a free row is left behind (`FrontSize`, `FrontFull`). With `NeverOvertaken` this is the
argument why every row is reached: what stands before a row only gets less, but
for INSERTs and transactions that had begun before, and each tick takes from the front.

Only model-checked: all liveness (`OrphansGo`, `UnreferencedGo`, `Converges`,
`ExitsUnlessClientsStay`, `ImpatienceHelps`, `SweepsGoOn`), since fairness and ENABLED
are out of the prover's reach, as is induction over data. Only proved:
`LinkedRowExists` of `Spec` of Transactions, `CopiedIsContent`, the type invariants
of LfsServer (it is part of `IInv`) and of Backends, `LinkedIsVerified` of
`OperatorSpec` and `VerifiedIsStored` of a filesystem, which no run lists, although
TLC found no counterexample to any of them.

## 5. Not modelled

* Logging, one-line helpers, the health check, routing and middleware; JSON and
  HTTP formats, URLs and headers of the LFS API and of the forges.
* The early returns of `authorize` on a request without a token, a repository or a
  known host: they look at the request alone and change no state.
* The ini syntax, expansion of environment variables, and the keys of `[server]`,
  `[database]` and `[log]`, which are copied as they are. A change of the
  configuration between two runs of the server: no code handles one, and objects
  in a storage that is no longer configured stay.
* The connection pool and the migration of the database, but for the constraints
  it creates; the durability of PostgreSQL.
* Leaks that no client sees and no code looks for: a presigned PUT that ends after
  its row was swept, and temporary files of uploads that a crash cut off.
* Several keys that share one token or repository in AuthCache: the cache has no
  entry for less than a key, so keys do not meet.

## 6. What is left

* The download of a presigned object between its redirect and the client's GET,
  which the server does not see.
* A repaired model for the races of section 3: a sweep that deletes the bytes
  before it commits, or a verify that locks the row it reads, with the same
  properties and without their conditions.
