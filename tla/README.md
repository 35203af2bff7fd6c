# Verification of the multi-protocol gateway

TLA+ models, TLC runs and TLAPS proofs for the gateway in `src/`: a Go server
(a fork of AList) that mounts some seventy kinds of storage under one tree and
serves the tree over HTTP, WebDAV, FTP, SFTP, S3 and MCP.

    server (router, middlewares, handlers; webdav, ftp, sftp, s3, mcp)
        -> internal/fs      mount paths to storage paths, background tasks
        -> internal/op      storages, listing cache, users, roles, settings
        -> drivers/*        remote services
       (internal/db: rows of storages, users, sessions, shares, ... through GORM)

Every request runs in a goroutine of its own. Almost nothing in `internal/op` is
covered by a lock: requests share a cache of listings, groups of `singleflight`,
the map of mounted storages and the rows of the database, and interleave at every
driver call and every statement. That is where this code is hard, and what the
modules here are about.

## 1. Inventory

| Component | State | Operations | Meets | Hard part | What makes it correct |
|---|---|---|---|---|---|
| WebDAV lock system `server/webdav/lock.go` | `memLS`: nodes by name, by token, by expiry, the last token | Create, Refresh, Unlock, Confirm and its release closure; each first drops expired locks | WebDAV handler | three indexes and reference counts of ancestors kept in step; held locks must not expire; stale `now` | indexes agree; no two conflicting locks; held nodes are exactly those of open claims |
| WebDAV handler `server/webdav/webdav.go` | temporary locks and claims of each request | LOCK, UNLOCK, `confirmLocks`, the work, the release | lock system, internal/fs | two locks in two critical sections; If lists; expiry during the work | requests at work exclude each other, keep their locks and leak none |
| Duplicate suppression `pkg/singleflight` | map of calls, wait groups, channels | Do, DoChan, Forget, doCall | List and MakeDir of internal/op, users, roles, links | window between `wg.Done` and the removal; panic and Goexit; Forget | one flight per key, exact `shared`, everybody answered |
| File operations `internal/op/fs.go` | `listCache`, `listG`, `mkdirG` | List, Get, MakeDir, Move, Rename, Copy, Remove, Put, PutURL, ClearCache | drivers, singleflight, internal/fs | cache updated in two steps; listings read before a change and stored after it; nested flights; Put that renames the old object away | cache tells the truth once nothing is at work; uploads keep the object; calls return |
| Storage lifecycle `internal/op/storage.go` | rows, `storagesMap`, driver objects | create, load, enable, disable, update, delete, saves of drivers, balancing | database, drivers, bootstrap | no lock over an operation; failure halfway; upsert of deleted rows | `storagesMap` mirrors the table; no driver leaks |
| Device sessions `internal/device/session.go` | rows of sessions with status and `last_active` | Handle, EnsureActiveOnLogin, Refresh, evictions, purge by age | middleware, login, logout, administrators | find, count, evict and write are four statements | at most `max_devices` active; who was put out stays out |
| Accounts `server/handles/auth.go`, `server/middlewares`, `server/common/auth.go`, `internal/op/user.go` | rows of users, `userCache`, valid tokens | login, logout, authentication, change of password, cached look-ups | device sessions | the cached object is shared and edited; the cache is cleared before the row is written; a finished call of `userG` can be joined | old passwords and tokens are refused; the cache tells the truth |
| FRP manager `internal/frp/frp.go` | mutex, cancel function, wait group, status | Start, Stop, Restart, the goroutine of a service | SetFRP, SaveSettings, StopFRP, settings | Stop waits without the mutex; a failed service clears what may be another's | the running service can be stopped, has what the last SetFRP saved or newer, and the status says so |
| Settings `internal/op/setting.go` | rows, `settingCache`, `settingG` | look up, save | FRP manager, all handlers | a look-up stores what it read before a save | an item saved is an item used |
| Downloader `internal/net/request.go` | chunk channel, buffers, global limit of connections | download, workers, read, interrupt | streams | refusals and retries, buffers that go round, closing against sending, counting connections | bytes in order and once, all chunks fetched, connections given back |
| Share links `internal/db/share.go`, `server/handles/share.go` | access counter, limit, consumed flag | access, edit, delete | public handlers | lost updates, limit passed | limit respected, edits undo nothing |
| Roles and metas `internal/op/{role,meta}.go` | cached rows | get, update, delete | all handlers | as the cache of users | no stale row for ever |
| Search index `internal/search` | running flag, queue, quit channel | build, stop, update | listings | end of a build against a stop | one build at a time, no blocked sender |
| Offline download, transfer, S3 transition | persisted tasks, temporary files | run, poll, retry, resume | tools, internal/fs | crash, polling for ever | resumed tasks find their files |
| Facade and copy tasks `internal/fs` | task managers | list, copy, put, ... | handlers, internal/op | partial copies | a task that succeeds copied everything |
| Router, front ends, streams, archives, drivers | little of their own | | | | not modelled, see section 8 |

The hazards, each at its line and with the properties that cover it, are listed in
`PROJECT.json`.

## 2. Modules

| Module | Models | Built on |
|---|---|---|
| `LockTable` | abstract: what the lock system promises | |
| `MemLS` | `lock.go` | |
| `WebdavLocks`, `MCWebdavLocks` | `webdav.go`, `path.go` over `lock.go` | EXTENDS `MemLS`, refines `LockTable` |
| `MemLS_proofs` | theorems about `MemLS` | |
| `WebdavLocks_proofs` | theorems about `WebdavLocks` and the refinement | EXTENDS `MemLS_proofs` |
| `Dedup` | abstract: what duplicate suppression promises | |
| `Singleflight`, `MCSingleflight` | `singleflight.go` | refines `Dedup` |
| `Singleflight_proofs` | theorems about `Singleflight` and the refinement | |
| `OpFs`, `MCOpFs` | `internal/op/fs.go` | uses flights as `Dedup` specifies them |
| `OpFs_proofs` | theorems about `OpFs` | |
| `StorageLifecycle`, `MCStorageLifecycle` | `internal/op/storage.go` and the two loaders | |
| `StorageLifecycle_proofs` | theorems about `StorageLifecycle` | |
| `OrderedStream` | abstract: what a ranged download promises its reader | |
| `Downloader`, `MCDownloader` | `internal/net/request.go` | refines `OrderedStream` |
| `Downloader_proofs` | theorems about `Downloader` and the refinement | |
| `DeviceSessions` | `internal/device/session.go`, `internal/db/session.go` | |
| `Accounts`, `MCAccounts` | login, logout, authentication, password change, cache of users | EXTENDS `DeviceSessions` |
| `Accounts_proofs` | theorems about `DeviceSessions` and `Accounts` | |
| `Settings` | an item of `internal/op/setting.go` | |
| `FrpManager`, `MCFrpManager` | `internal/frp/frp.go` and its handlers | EXTENDS `Settings` |
| `FrpManager_proofs` | theorems about `Settings` and `FrpManager` | |

`Name_Word` operators preceded by a comment "Mutant" are faulty variants of the
definition that follows them. No specification uses them; they document which bug
each property notices, and `PROJECT.json` ("mutants") pairs them.

## 3. The models

### 3.1 MemLS: the lock system

`ls` is one record for `memLS`: `lock[n]` (the node's details, token and held
flag), `refCount[n]`, `byToken[t]`, `byExpiry` (the members of the heap) and `gen`.
`claims` is the set of node sets that open release closures will unhold. The mutex
makes every method one action: `CreateOk`/`CreateRefused`, `RefreshOk`,
`UnlockOk`, `TokenRefused` (unknown or held token), `ConfirmOk`/`ConfirmFailed`,
`Release`; each begins with `Collected`, the loop over the heap. `Walk[n]` is the
set of names `walkToRoot` visits. `lookup` iterates over conditions in order and
takes the first that covers; `Lookup` offers every token that covers, so it
includes the one the code picks. A node with no token is only ever asked whether it
exists, and that is `refCount > 0`. The heap is the set of its members: its order
decides only which expired lock is removed first, and all of them are.

### 3.2 WebdavLocks: requests over the lock system

A client is a request goroutine with a program counter. `HandleWrite` stands for
PUT, DELETE, MKCOL and PROPPATCH, `HandleCopyMove` for COPY and MOVE (COPY confirms
its destination only). Without an If header `LockSrc` and `LockDst` take temporary
locks in two critical sections, with a way back through `UnlockSrc` when the second
is refused; with one, `TryList` tries a list after the other, and a tag replaces
`src` as in `webdav.go:157-171`. `Work` is the end of the handler's work and the
call of the release function. `now` is read before the mutex is taken, so an action
may use any earlier instant, and the temporary locks are unlocked with the `now` of
the beginning.

### 3.3 Singleflight: duplicate suppression

Visits of the map under `g.mu` are actions: `Do`, `DoChan`, `Forget`, `Close`.
Between them stand `Done(c, outcome)`, the end of the function with `wg.Done`, and
`Wake`, the return from `wg.Wait`. So the window of lines 151-155, in which a
duplicate joins a call that is done, is there. The outcome is a value, a panic, or
Goexit. A panic with a channel waiting crashes the process (`crashed`). Call
structures are garbage-collected: one that nobody refers to may be taken again.
The comment at lines 52-54, that `dups` is not written after the wait group is done,
does not hold in the window; nothing bad follows, as `SharedExact` shows.

### 3.4 OpFs: operations and the listing cache

Each process has a stack of frames, because the functions call each other (Put
calls Remove, Rename, MakeDir and Get; MakeDir calls itself; Get is a List of the
parent). Each access to `listCache` and each driver call is a step. Flights have
stages: open, the driver has read, stored, closed. The cache's edits read the
listing and write it back in two steps (`EditGet`, `EditSet`). `Expire` drops a
listing at any time.

`Coherent` says: a cached listing equals the directory when nothing is at work on
it. The code does not keep this without exception, and the history variables `race`
and `suspect` name the exceptions exactly: two overlapping changes of one directory,
a flight that overlaps a change, and `Neglected` (a rename to the same name with a
driver that returns the object; a rename or move of a directory, whose cached
listing stays under its old path; a removed directory, whose cached listings
`ClearCache` reaches only as far as the listings above them are cached, and not at
all when the look-up took it for a file; the `lazyCache` argument). Everything else
is covered, failures of every driver call included. (The third exception shows only
in trees deeper than the one of the run; the attempt to prove `Coherent` found it.)

Other observations: when MakeDir or the look-up of the directory fails inside Put
after the old object was renamed away, nothing renames it back (`ObjectKept` shows
that it is still there, under the temporary name); a temporary object that stays
behind makes later overwriting uploads fail; an upload of a file named like a
directory removes the directory, whose size is 0 (fs.go:527-534).

Left out: Link and its cache, Other, drivers with their own `Get`, `NoCache`, the
sorting of listings, CheckStatus, UrlTree. Cached slices are values here, while
`delCacheObj` shifts them in place (fs.go:52) under readers of the same slice.
The driver's tree is the one of the model's paths: what moves or is copied has room
among them (`CanArrive`). The trees of the runs have two levels below the root.

### 3.5 StorageLifecycle: rows, drivers and storagesMap

An operation is a frame whose `at` runs through the statements of the function:
`Read`, `Write`, `Lookup`, `Drop`, `Unmount`, `Erase`, and for every start of a
driver `SetStorage`, `InitDriver` (which succeeds, fails or panics), `Mount`,
`Save`, or after a panic `RecoverSave` and `RecoverMount`, in the order the code has
them, which differs between the operations: Disable drops, writes, then unmounts;
Delete drops, unmounts, then erases; Update writes, unmounts, then drops. `Restart`
ends the process anywhere; `NextLoad` is either loader, with or without dropping
first. `DriverSaves` is `MustSaveDriverStorage` called by a driver on its own, an
upsert of the row the driver remembers.

The history variable `spoiled` names the storages for which the promise is given up, until the
next restart: two operations at work on one storage or one mount path at the same time, where
the path a driver carries while it is started counts as well; an update that returned between
its write and `initStorage` (`GivenUp`: new row disabled, nothing mounted, Drop or the roles
failed); an operation that finds another storage's driver at its old path, which such an update
or creation left there, and goes on with that one (`Foreign`); a driver that saved while an
operation was at work on it or after it was unmounted; and a storage that was created with
`disabled` set (`MountsDisabled`): the handler binds the flag, `CreateStorage` does not look at
it, and starts and mounts a driver under a disabled row. `Mirrored` and `DriversAccounted` hold
of all others. `Foreign`, and the path of a driver that another operation set while this one
starts it, take five operations to matter; they are out of the run's reach and were found by the
proof.

Left out: failures of the database, a creation whose request brings an id of its own,
the driver name, references between storages, hooks, `GetBalancedStorage`, the virtual
directories of mount paths.
`storagesMap.Store` and the setting of the status are one step.

### 3.6 Downloader: concurrent ranged download

`d` is the downloader: what is cut off the range so far (`pos`, `nextChunk`), the buffers, the
channel (`chunks`, `closed`), the bytes written, the first error, and `done` for its context. A
worker's `pc` runs through `downloadPart`, `downloadChunk` and `tryDownloadChunk`; the reader's
through `download`, `Read` with `finishBuf`, and `interrupt`. What happens under `d.m` is one
step; `finishBuf` looks the next buffer up after it let the mutex go, and `interrupt` cancels,
closes and drops without it, one step each. A byte is its place in the range, so that
`StreamSpec`, the refinement of `OrderedStream`, says that the consumer gets bytes 0, 1, 2, ...
each once, however chunks are broken off, asked for again, put back and fetched by others, and
whichever buffer they share. A chunk is sent with `d.m` held: a sender that finds the channel
full waits with the mutex, which the model shows by its chunk in `chunks` beyond the capacity.
Until a worker receives one no step that needs `d.m` is taken (`Free`), and the reader, when it
is the sender, waits before it looks its next buffer up (`waits`). `limit` is the process-wide
`ConcurrencyLimit`, which other downloads use as well.

The server answers a range with bytes of that range, perhaps too few, or with an
error; of bytes it makes up nothing is said. Read and Close are called by one
goroutine. Left out: `m2` and `readingID`, which order the pauses of refused workers,
and the read of the header of the slice `d.bufs` while `interrupt` replaces it.

Observations: `interrupt` closes the channel without the mutex, so a worker that puts
a chunk back, or sends for the next worker, may send on a closed channel and panic in
a goroutine of its own (`crashed`, the exception of `WorkersEnd`; 272 against 256 and
415). A range of length 0 makes no buffer; `d.bufs[0]` panics with the connection
counted (`panicked` in `ConnectionsCounted`). An answer that breaks off after the last
byte of a chunk leads to a request for an empty range, which servers refuse. Refused for
overload the empty rest is put back, while the reader, who has all its bytes, goes on
and has the next chunk cut: the channel may then be full, a send waits with the mutex,
and when no worker is idle the download is stuck for good (the exception of
`SendFindsRoom`, and `Stuck` in `ReadingEnds`). `TestDownloadOrder` expects other
chunks than the code's small first one; no property states a layout beyond that the
chunks cover the range. With one
connection the count goes down only when the context of the request ends, not when the
reader is closed.

### 3.7 DeviceSessions and Accounts

`rows` is the table of sessions of one user in the order of `last_active`; `visit`
is where a goroutine stands in `Handle` or `EnsureActiveOnLogin`, one step for every
statement: purge, find, count, find the oldest, evict, write. `Accounts` puts the
callers around it. A request comes with a password typed (a login) or with a token,
passes `GetUserByName`, is compared with
the user found, passes the device check, and is handled: a login makes a token; LogOut
marks the session and then invalidates the token; an eviction marks any device of the
user; UpdateCurrent edits the user object it got, which may be the cached one
(`EditUser`), and `UpdateUser` reads the old row, clears the cache and writes
(`OldUser`, `Uncache`, `StoreUser`). An administrator may evict at any time, entries
expire, and a restart keeps the tables only: valid tokens are in memory.

`GetUserByName` goes through the cache and through `userG`. `JoinFlight` makes a call or
joins the one that is registered, `LoadUser` reads the row, `FillCache` sets the cache and
answers those who wait, and only `LeaveFlight` takes the call out of the map
(singleflight.go:151-156). In between a change may clear the cache and write the row, and
a request that comes after it misses the cache, joins the finished call and gets the old
user. `TestUser`, a step of its own, looks at the password of the object, which a change
may have edited since. A request brings any Client-Id with any token; a token is known by
the password time it carries, and two of the same time are told apart only when one is
invalidated. One token is valid from the start, as if logged in from a device the purge forgot.

A password is a number and also its `PwdTS`. `floor` is the lowest password in the table since
the request came, so `OldRefused` compares what was accepted with what was right at some
time since: of two overlapping changes the one begun first may be stored last.
The history variables name the exceptions exactly. `raced`: a session became active on
a count that was outdated, or on none, since `Handle` writes a row that it found active
without counting. `revived`: a device came back without a login, by a row written back
or because the purge deleted the row that said "inactive". `outdated`: a change cleared
the cache or wrote the row while the cached user was being read, and `overlap` the same of
the user a request was given; it is the one exception of `OldRefused`. `edited`: a change
failed after it edited the cached object.

Observations: the error of the second of two first requests of one device is answered
with 403, since its insert fails; `SessionRefresh` runs after failed requests too, for
`ErrorResp` answers with HTTP status 200, against the comment "after successful
requests" (session_refresh.go:9); after `max_devices` was lowered one login evicts one
device only; two changes of a password within a second have the same `PwdTS`.

The user is neither the administrator nor the guest, whose objects are cached apart;
the table of users may fail, the table of sessions does not; `max_devices` does not
change.

### 3.8 Settings and FrpManager

`Settings` is one item: its row, its cache entry, and the look-up of each process through
`settingG`; a save writes the row and then clears the cache. `FrpManager` adds
`internal/frp/frp.go`: `mu` is held across steps only by Start, which reads settings meanwhile;
every other critical section is one step. SetFRP saves and then restarts; SaveSettings saves the
same items and leaves the client alone, so that they are used at the next Restart (`due` is the
last save that a Restart follows); Stop takes the cancel function, cancels, waits without the
mutex, and sets the status; the goroutine of a service records a failure under the mutex, or
ends after it was cancelled, and calls `wg.Done`. Several settings make up a configuration; they
are one item here, saved at once as `SaveSettingItems` does.

`InHand` has three parts, each with its exception named: `Reachable` (a running service
can be stopped, unless the goroutine of an older, failed one cleared its cancel
function: `orphans`), `StatusTrue` (unless a Stop that waited wrote "stopped" over the
"running" of a newer Start: `late`), and `SettingsInUse` (the settings in use
are at least as new as those the last SetFRP saved, unless a look-up stored an old item
after that save had cleared it: `overtaken`). `CallsReturn` has one exception
too: the wait group counts all services, so a Stop may wait for a service that another
request started meanwhile (`Held`).

Observations: a waiter that wakes up after another Start raised the counter panics
("WaitGroup is reused"), which gin recovers; the request that was to restart then
leaves the service of the other. An orphan cannot be stopped but by the end of the
process.

Assumed of the external parts: `svr.Run` ends some time after its context was
cancelled and otherwise only with an error; `sync.WaitGroup` as the head of the module
states. The database does not fail here.

## 4. Runs

| Run | Instance | Shows |
|---|---|---|
| `webdav_locks` | 2 clients, names `/`, `/a`, `/a/b`, 3 tokens, clock to 1, one tag | the three indexes agree (`TokenIndex`, `RefCounts`, `ExpiryIndex`), no conflicting locks (`NoConflict`), panics of hold and unhold are out of reach (`HeldByClaims`, `ClaimsOwned`), requests at work exclude each other (`ClaimExclusion`) and stay protected (`ClaimBacked`), nothing leaks (`NoLeakedTempLock`), `memLS` implements `LockTable` (`TableSpec`) |
| `webdav_base_path` | 2 users with base path `/a` | finding: `TargetRespected` is violated |
| `singleflight` | 3 callers (Do; Do and Forget; DoChan), 1 key, 3 call structures, at most 2 duplicates | `FlightsRegistered`, `SharedExact`, `CallsReferenced`, the refinement `DedupSpec`, and `Served` (liveness) |
| `opfs_cache` | 2 processes, 3 calls of any kind, directories `d` and `e`, failing driver | `FlightsLed`, `Coherent` |
| `opfs_upload` | 2 processes, 3 overwriting uploads, a driver without overwriting, failing | `ObjectKept`, `CallsReturn` (liveness) |
| `opfs_parent_found` | an upload and a listing, no failures | finding: `ParentFound` is violated |
| `storage` | 2 administrators and the loader, 2 storages, 2 mount paths, 3 operations, 1 save of a driver, 1 restart, 4 driver objects | `Mirrored`, `DriversAccounted` |
| `storage_all_mounted` | 1 administrator, 2 operations | finding: `AllMounted` is violated |
| `downloader` | ranges of no, 1 and 4 chunks, 2 workers, 2 connections, another download, 1 retry | a send with the mutex held finds room (`SendFindsRoom`, with its exception), `ChunksCoverRange`, `ConnectionsCounted`, `ChunkNotLost`, the refinement `StreamSpec`, and `WorkersEnd`, `ReadingEnds` (liveness) |
| `downloader_retried` | 3 chunks, 2 workers | finding: `BeingReadRetried` is violated |
| `accounts` | 2 goroutines, 2 devices with a limit of 1, 3 passwords, 3 requests, 1 purge, 1 restart, failing table | `DeviceLimit`, `PutOutStaysOut`, `CacheTruth`, `OldRefused` (of every step) |
| `frp` | 2 goroutines, 3 requests, 3 services, 3 saves | `InHand`, and `CallsReturn` (liveness) |

Why the bounds suffice. Conflicts of locks are between a name and an ancestor or itself, and
three names in a line have every such pair, with a reference count that sums two descendants;
three tokens allow the two temporary locks of a MOVE against another lock, and a clock of two
instants has locks that live and locks that expired. In singleflight a leader, a duplicate and a
third caller that forgets or begins the next flight meet in every order; one key is enough
because keys share nothing but the mutex. In OpFs the races are of two processes; a third call
finds what they leave behind. In StorageLifecycle two paths allow a rename, a collision and a
swap; four driver objects are as many as are ever referred to at once, so no step waits for one.
In Downloader a range of four chunks has an odd first chunk, a second that makes up for it and
two that reuse the buffers, and two workers are the fewest that can give up in turn; three
workers were explored for the invariants only (634,788 states). In Accounts two devices and a
limit of one make every login of the second device a conflict, and three requests are two that
race and one that finds what they leave. In FrpManager a Stop, a Restart and a failing service
meet while a second Restart starts the next service. `MaxToken`, `MaxTime`, `MaxDups`, `MaxOps`,
`MaxId`, `MaxSaves`, `MaxRestarts`, `MaxOthers`, `Pieces`, `MaxPurges`, `MaxPwd`, `MaxRequests`,
`MaxServices` and `MaxCalls` are the bounds on what is unbounded in the code; each is applied to
requests as they come in, so that none is stopped halfway (`MaxDups` stops a join, after which
the other callers go on).

Deadlock is checked except where the system may really stop: in `singleflight` (the process may
crash of a panic, and after a Goexit a caller waits on a channel for ever), in `downloader` and
`downloader_retried` (a download ends; that it ends well is what the liveness properties say),
and in `storage`, `storage_all_mounted`, `accounts` and `frp` (once the bounds are used up there
may be nothing left to do). `WebdavLocks` never stops, since clients may always ask; in `OpFs`
the end of all calls is a step that changes nothing, so any other stop would be reported.
Symmetry is used only with invariants and the refinement of a specification without fairness.

Fairness. `Singleflight`: weak fairness of `Done`, `Close` and `Wake`, that is, the
function given to Do returns in the end, and a goroutine that can go on is
scheduled; nobody is obliged to call. `OpFs`: weak fairness of each process, which
stands for the scheduler and for a driver that answers each call, with success or
failure. `Downloader`: weak fairness of the reader, who reads on and closes what ended,
of each worker, and of the answers to it; strong fairness of `Served`, that is, a
server asked again and again does not refuse for ever, which `errInfiniteRetry` counts
on. The consumer need not close early, and no request need be cancelled. `FrpManager`:
weak fairness of each request once it came and of the goroutine of each service once it
failed or was cancelled; that services fail, requests come or entries expire is not
assumed. Nothing else is assumed fair, and the safety runs use none.

## 5. Findings

1. `TargetRespected` (webdav.go:273, 311, 366, 792). DELETE, PUT, MKCOL and
   PROPPATCH confirm the locks of the URL's path and then change the path resolved
   against the user's base path, while LOCK, COPY and MOVE use the resolved one. The
   resource that is changed may be locked by another client, which the comment of
   `confirmLocks` (119-123) excludes.
2. `ParentFound` (fs.go:553). After MakeDir succeeded, the look-up of the directory
   may be answered by a listing that began before; "this should not happen" (554).
3. `AllMounted` (storage.go:241-272). An update that renames and then fails leaves
   an enabled storage that is mounted nowhere, against "all storage store in
   `op.storagesMap`" (db/storage.go:11).
4. `BeingReadRetried` (request.go:407-417). A chunk that is refused is put back with
   `newConcurrency` still set, and makes the next worker give up as well, until none is
   left; the reader waits for ever. "Errors of later chunks are treated as overload" and
   "the one being read is retried first" (403 and 420, in Chinese) say otherwise.

Not counted as findings, for want of a line that says otherwise: DELETE of a
collection takes a lock of zero depth and does not see locks below; UNLOCK does not
ask who owns the lock; `UpdateStorage` with `Disabled` set leaves the driver mounted,
`CreateStorage` with it set mounts one, and enabling such a storage starts a second driver.

## 6. Proofs

Assumptions on constants, as weak as the code allows: `NameAssumption` (a finite set
of names with a root), `WalkAssumption` (walks to the root are transitive,
antisymmetric and linear: the names form a tree), `BoundAssumption`,
`NoLockAssumption`, `RequestAssumption` (paths and tags are names), `SentinelAssumption`
(also of StorageLifecycle, as `BoundAssumption`: the loader is no administrator),
of OpFs `PathAssumption` (paths are sequences of names, each with its parent, and the disk
begins as a tree), `ChoiceAssumption` (what the driver may answer), and assumptions of the
same names on bounds, sentinels and requests (a request is a call of a function of `fs.go`
with a path of the tree; goroutines are finitely many and none is called "flight"),
`DupsAssumption`, `CallBound` and `NoneAssumption` (FrpManager), `SessionsAssumption`,
`AccountsAssumption` and `NobodyAssumption` (Accounts), `DownloaderAssumption` (sizes are
positive, bounds are numbers). TLC evaluates each in the runs. Symmetry, finiteness of
the sets of clients, goroutines or devices, and the sizes of the instances are not used,
except that the administrators of StorageLifecycle, whose bound on ids counts the creations
under way, and the goroutines of OpFs, whose overlaps are counted, are finitely many.
The inductive invariants but that of StorageLifecycle were checked by TLC on the run of
their modules before they were proved, that of the downloader with two and with three
workers; of OpFs this was the part about the cache (`Reliable`).

`MemLS_proofs` proves of every tree of names and all bounds
`Consistent == Spec => []IInv`, with `IInv == Good(ls) /\ HeldByClaims`. `Good` is
the conjunction of the types, `TokenIndexed` (each token that is indexed belongs to
a node and back), `RefCounted` (the count of a node is the number of locked nodes at
or below it), `ExpiryIndexed` (the heap holds the finite locks nobody holds) and
`ConflictFree`. None is inductive alone: that `remove` may decrement needs the
counts and the token index, that an unheld node may be pushed on the heap needs
`HeldByClaims`, and `canCreate` looks at the existence of a node, which is its count,
to exclude locks below. There is a lemma for each helper (`RemovedGood`,
`CollectedGood`, `CreatedGood`, `RefreshedGood`, `HoldGood`, `UnholdGood`, ...), stated
of any state, since `collectExpiredNodes` runs before every method; the step
`NextIInv` has one case per action. `TokensIndexed`, `CountsExact`, `HeapExact`,
`LocksExclusive` and `ClaimsExact` follow; the last says that the panics of `hold`
and `unhold` cannot be reached.

`WebdavLocks_proofs` puts the requests on top: `WInv` is `IInv` of the lock system with
what ties its locks to requests, in both directions. `Served` says of each request where
it is and what it has (a request at work has, for every name it guards, a temporary
lock of its own or a lock in its claim); `Apart` and `Disjoint` that no two requests
have the same temporary lock or claim; `ClaimsOwned` and `NoLeakedTempLock` that there
is nothing besides. A temporary lock survives the steps of others because it never
expires, is of zero depth, is held by no Confirm, and its token was granted to nobody
who could unlock it: each of the four is a part of `TempLock` or `Standing`. From it
`WorkIsBacked`, `WorkIsExclusive` (two locks that cover one name are one lock, by
`ConflictFree`, and that lock is of one request), `NothingLeaked`, `EveryClaimOwned`, and
`HandlersKeepIndexes`, which carries the results of `MemLS` over to the requests.
`ImplementsTable == WSpec => TableSpec` is the refinement of `LockTable`: every method
maps to the collection of expired locks followed by its own step of the table, or to a
stutter.

`Singleflight_proofs` proves of any number of callers, keys and call structures
`Invariant == Safety => []IInv`, with the types, `FlightsRegistered`,
`CallsReferenced`, and what relates callers and calls: whom a blocked caller waits
for (`BlockedOnCall`), that duplicates are counted (`DupsCounted`), that a call found
unshared is closed (`UnsharedClosed`), that the outcome is known once the function
ended (`OutcomeKnown`), that waiters on channels are in the call's list
(`ChannelsWait`). From it `OneFlight`, `UnsharedAlone`, `NoReuse`, and
`Implements == Safety => DedupSpec`: `Join` and `Launch` map to those of Dedup, `Done`
to `Land`, `Wake` and `Close` to `Settle`, which is why Dedup lets any number of
callers and keys settle at once.

`FrpManager_proofs` proves `ServiceInHand == Spec => []InHand` of any number of requests
and services. `Reachable` needs to know who holds the mutex across steps and that nothing
runs then (`Holder`); `StatusTrue` needs that a status of "running" with nothing in hand
has a Stop on its way that will correct it (`StatusKept`); `SettingsInUse` needs that
between saves the cache, and whoever is about to fill it, have an item between `due` and
the row (`CacheFresh`), that nobody has read more than the row (`RowsRead`), and that what
was started after a save of SetFRP has what it saved, or newer (`ConfigFresh`).

`Accounts_proofs` proves of any number of goroutines, devices and passwords
`Invariant == Spec => []IInv`, in two halves. `Sessions`: a device has one row, and
`Room`, that a count which no activation made stale is still a bound, is what makes
`DeviceLimit` inductive; `FoundActive`, that without a login no row found inactive is
written, does it for `PutOutStaysOut`. `Users`: `Serving` and `Referenced` say which user
objects are in use; `Storing` and `ReadRight`, that what is cached or read while a change
is about to be written counts as outdated, make `CacheTruth` inductive. `OldAreRefused` is
an action property; it needs `Current`, that a cached user nothing overlapped is never
older than the table, `NotOlder`, that neither is the user of a call that was answered and
may still be joined, and that a user to be tested is not older than the floor of the
request, and `Bounded`, that no floor is above the table's password.

`Downloader_proofs` proves of every range, part size, number of workers, limit and
number of retries: `TypeCorrect`, `NoConnectionLost`, `RangeCovered`, `RoomToSend`,
`NoChunkLost` and the refinement `StreamInOrder == Spec => StreamSpec`. Its `IInv` follows
a chunk by its number: where its bytes begin (`StartOf`, in closed form, with lemmas on
the odd first and the second part), how much of it was copied (`Cut`), and which buffer
is its own. Buffers that go round are not written under the reader's hands because the
chunks from the one being read to the last one cut are never more than the workers
started, and those never more than the buffers (`Counts`); two chunks within that
distance have different buffers, by arithmetic modulo their number (`ModApart`).
`Once` says that a chunk is with one worker or in one place of the channel, `Buffers`
that a buffer holds the bytes of its chunk from the first on, `Reading` what has been
delivered. After a send on the closed channel the process is gone and only the
conjuncts outside `Core` are claimed, which is why `NoChunkLost` needs `CrashLate` too.

`StorageLifecycle_proofs` proves of any number of administrators, storages, paths, drivers,
operations, saves and restarts: `TypeCorrect`, `Mirroring == Spec => []Mirrored` and
`DriversKept == Spec => []DriversAccounted`. Both speak of storages nobody is at work on, so the
invariant must say what a storage looks like at every step of every operation: `Stages` does,
with `Starting` (initStorage, of an enabled row), `Moving` (an update between its row and
initStorage), `Before` (nothing was done yet) and `Clean` (nobody is at work). That no other
operation gets in between is `Overlapping \subseteq spoiled`, and three facts about operations
on other storages: their paths are not this storage's (`Apart`), their drivers are not its
drivers (`Holds`), and no two of them have one driver (`Sole`). A step of an operation is split
accordingly into what it leaves alone of every other storage and what it owes of its own; the
creation of a disabled storage owes nothing, being in `MountsDisabled`, and its id is new to
every other operation.

`OpFs_proofs` proves of any number of goroutines and calls, any set of paths of any depth,
any initial tree and any driver: `TypeCorrect`, `FlightsAreLed == Spec => []FlightsLed` and
`CoherentHolds == Spec => []Coherent`. There are two invariants, one on top of the other.

`Base` is about calls. `Stacks` says which frame stands on which (`Above`, a function on
the one that called it), that only upkeep of the cache stands on a call whose driver call
succeeded, and that no two frames of a stack edit one directory or make one path; what a
call has found out is in `OpOk`. `Data` keeps the disk a tree and the listings names that
have a place in it. `ListFlights` and `MkdirFlights` tie the stage of a flight to where its
leader is. A flight has one leader because a call that leads one starts another only
further up the tree: MakeDir of a path makes its parent, and the path is longer.

`Reliable` is about the cache, and `Coherent` follows at once: it is the case in which
nobody is at work. `Sound` is the heart. Of a directory that is not `suspect` it says that
the cached listing is right, or that somebody has the directory open and will edit, drop or
knowingly neglect it, and that an edit which is pending makes the present listing the
listing of the disk (`After`), so that it does not matter how often the cache is dropped in
between. `Owned` says that who edits a listing has a change of its directory open, so that
two edits are two overlapping changes; `Raced` that these are in `race`, with the flights
that overlap a change; `Fresh` that a listing read without a race is that of the disk until
it is stored. A driver call is split from what it leaves to do: `Covers` says that the
upkeep makes good each listing the change of the tree spoils, but for `Neglected`. It has a
lemma for each function (`RemoveCovers`, `RenameCovers`, ...), and these rest on lemmas
about trees: what `Without`, `Duplicated` and a single new object do to the listing of each
directory. That a tree has nothing below what is no directory (`NothingBelow`) is proved with
the shortest counterexample, by `WFMin`, for want of induction.

`ObjectStays == ASSUME OnlyAdds PROVE Spec => ObjectKept` is the action property that an object
survives every overwriting upload of its path. It cannot hold of every workload, as requests may
remove and rename, so it has a hypothesis, `OnlyAdds`, on the constants alone: the driver cannot
overwrite (the case in which Put sets the old object aside); the requests are listings, MakeDir,
Copy, Put and PutURL, with files that are not empty; no file is empty at the start (of an empty
one Put removes the old object, fs.go:527-534); and a temporary name belongs to one name, is not
itself the name of an upload, and is not a directory's. The constants of `opfs_upload` satisfy
it; any number of goroutines and calls may run, every driver call may fail, and MakeDir, Copy
and PutURL, which that run leaves out, are covered. A third invariant on top of `Base`, `Adding`
(`AddingHolds == ASSUME OnlyAdds PROVE Spec => []Adding`), says that every remove and rename
under way serves an upload that stands below it (`Serves`), and from the upload's place and the
last answer whether it has the object under its temporary name (`Keeps`). `Holding` is what the
code never states and relies on: at most one upload has an object under its temporary name,
because the name is free only when nobody has, and a driver that moves an object refuses a name
that is taken. So the rename that undoes a failed upload, and the remove that ends a successful
one, never meet the object of another upload: the remove comes only after the upload has
`Landed`, and the rest of the steps lose no file at all (`Grows`).

Only model-checked: the liveness properties `Served`, `CallsReturn`, `WorkersEnd` and
`ReadingEnds`, and the four findings. Out of the prover's reach: liveness under fairness and
ENABLED, induction over data, and RECURSIVE operators, which no module here uses.

## 7. Plan

Done: the modules of section 2, with one passing run a module (two for `OpFs`, whose
questions need different drivers) and a violation run where a comment is contradicted;
proofs of the safety properties, action properties and refinements that the passing runs
check, of all components modelled.

Models that remain worth writing: share links (read, check and write in statements of
their own), the search index, the polling of offline downloads, the balancing of
storages, and a composition of `StorageLifecycle` with `OpFs`.

## 8. Not modelled

Share links: the hazards are listed (share.go:108, handles/share.go:575); every
statement of theirs is a single update of one row, and the races, a check before a
transaction and a save of a whole row, are of the kind `DeviceSessions` and
`StorageLifecycle` show. Search index: its state is a flag, a queue and a quit channel
around calls of an external index. Offline downloads, transfers, copies, uploads and
S3 transitions: the life of these tasks, with retries, persistence and restarts, is in
the external module `tache`; the repository only polls and copies inside them. Roles
and metas: the scheme of the cache of users, which `Accounts` models.

Authentication beyond passwords and tokens (the counter of failed logins, second
factors, single sign-on, LDAP, WebAuthn) is left out. The router holds no state; the
FTP, SFTP, S3 and MCP front ends translate protocols to calls of internal/fs; streams
and archives move bytes; drivers talk to remote services and enter the models by the
contract `internal/op` relies on (a call succeeds or fails as a whole). The drivers, one
adapter for each remote service, are by far the largest part of the repository, which is
why the modelled lines are a small share of all lines. `pkg/gowebdav`, `pkg/aria2` and
other vendored clients, the unused task manager `pkg/task`, the mount-hub front end and
the build are left aside.
