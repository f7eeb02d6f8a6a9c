# Verification of axum-admin in TLA+

axum-admin is an administration backend in Rust (axum, PostgreSQL through sqlx,
Redis, Casbin, OpenDAL) with a desktop client in TypeScript.  Several processes of
the backend may run against the same database, Redis and object storage; inside a
process every HTTP request is a task of the Tokio runtime.  Nearly all of the
state that matters is shared between processes, and nearly all of the hard
behaviour is what concurrent requests, restarts and failed calls do to it.  This
directory models that behaviour.

Paths below are relative to the repository.

## Inventory

| Component | State | Operations | Hard behaviour | What makes it correct | Modelled in |
|---|---|---|---|---|---|
| **Managed upload** `crates/file-storage/src/files` | `uploaded_file_sessions`, `uploaded_file_parts`, `uploaded_files`; part and final objects; a per-upload advisory lock | start, chunk, status, complete, delete, recover, reap | row claim, lock, object I/O and final transaction are separate steps of concurrent handlers; each can fail or be cut off | no committed file loses its object, no chunk is lost or doubled, one writer at a time, everything is reclaimed | `Uploads` |
| **Storage records** `.../storages/service.rs` | `sys_storages` | create, update, enable, set default, delete | default selection, session start and deletion race under one transaction lock; readers and completions do not take it | one enabled default; no file without its storage and in no other place than its record says | `Storages` |
| **File catalog** `.../files/catalog.rs` | `uploaded_files` | list, rename, tag, import | paging while rows change | no row is skipped without cause | `Listings`; rename and tag not |
| **Public serving** `crates/api/src/routes/files/public.rs` | none | one byte range | boundaries; deletions between the reader's steps | the slice served is the slice asked for | `ByteRanges`, `Storages` |
| **Token sessions** `crates/auth/src/token.rs` | Redis hash per session, sorted set per user | create, decode, refresh, revoke | refresh rotation, revocation against requests in flight | a revoked session is dead; a refresh token works once | `TokenSessions` |
| **Login, refresh, password routes** `crates/api/src/routes/{auth,users}` | none of their own | login, refresh, logout, change, reset | captcha, account, session and audit event are separate steps | an old password or a disabled account yields no lasting session; the log says how an attempt ended | `Login`, `TokenSessions` |
| **Captcha** `crates/auth/src/captcha.rs` | Redis key | create, verify | concurrent use, lost answers | one use at most | `Login` |
| **Authorization engine** `crates/iam/src/authorization` | Casbin rules in PostgreSQL; a policy snapshot per process | load, reload, replace, remove, set status, notify | several processes with stale snapshots, reload against local updates | decisions follow the committed rules; a reload never undoes a newer update; the rules always load | `Authorization` |
| **Accounts, roles** `crates/iam/src/{accounts,roles}` | `sys_users`, `sys_roles` | create, update, delete, list | table and policy are changed one after the other | no rule without its user or role | `Authorization`, `Listings` |
| **Menus, access catalog** `crates/iam/src/{menus,access}` | `sys_menus`, an index per process | load, normalise, navigate | index and table differ; two definitions of an enabled permission | one meaning of the table; what is granted can be loaded | `MenuCatalog` |
| **Departments** `crates/iam/src/departments` | tree in `sys_depts` | create, move, delete | concurrent moves | the tree stays a tree | `Departments` |
| **Dictionaries** `crates/metadata/src/dictionaries` | detail trees with level and path | create, move, delete | concurrent moves, delete without a transaction | level and path describe the tree | `Dictionaries` |
| **Parameters** `crates/metadata/src/parameters` | `sys_params` | list, create, update, delete | paging while rows change | no row is skipped without cause | `Listings` |
| **Audit log** `crates/audit` | `sys_audit_events` | record, list, statistics, summary | the event is written after what it tells of, best effort | an event tells the truth, at most one per outcome | `Login`, `Gateway`, `Listings`; statistics and summary not |
| **HTTP surface, rate limits** `crates/api/src/{router,middleware,mappings}` | counters in Redis | layers around each handler | rights change while a request is on its way; the store fails | a handler runs only with rights its user had | `Gateway`, `DesktopClient` |
| **Client** `apps/desktop/src/api` | token pair, user | single-flight refresh, sign-out, reload | lost and late answers, many requests at once | the client gives up a session only when it is over | `DesktopClient`; the upload loop not |
| **Process boot** `apps/ava`, **database pool** `crates/db` | none | configuration, migration, `recover` | restarts | `recover` runs at every start | only `recover`, in `Uploads` |

Interactions: an upload reads its storage record at every object access and is
counted by storage deletion; the routes call accounts, token sessions, captcha and
audit in the order that their source fixes; accounts and roles change their table
and then the authorization engine, which tells the other processes through a
Redis notification; every request under `/api` passes the rate limits,
`require_auth` and the permission layer, which read Redis and the policy snapshot;
process boot calls `recover` of the file service before it serves.  `PROJECT.json`
lists the components with their status and every hazard at its line.

## Modules

| Module | Models |
|---|---|
| `UploadLifecycle` | the abstract life of one upload as its client sees it |
| `Uploads` | the upload protocol, the reaper, deletion and recovery in full |
| `MCUploads` | the instances of `Uploads` that TLC checks |
| `UploadsProofs` | the inductive invariant of `Uploads` and what follows from it |
| `UploadsContractProofs` | proofs that rows, parts and objects of `Uploads` agree, and that it implements `UploadLifecycle` |
| `TokenSessions` | the login sessions of one user in Redis and the handlers that use them |
| `MCTokenSessions` | the instances of `TokenSessions` that TLC checks |
| `TokenSessionsProofs` | the inductive invariant of `TokenSessions` and what follows from it |
| `Authorization` | accounts, roles, rules and the policy snapshots of several processes |
| `MCAuthorization` | one process or two over a small database |
| `AuthorizationProofs` | the inductive invariant of `Authorization` and what follows from it |
| `Storages` | storage records with the uploads, files, objects and readers that use them |
| `MCStorages` | two storages, two files, two transactions, one reader |
| `StoragesProofs` | the inductive invariant of `Storages` and what follows from it |
| `MenuCatalog` | the menu table, the index of a process, granted permissions and the navigation |
| `Departments` | the department tree, statement by statement |
| `Dictionaries` | dictionaries and their detail trees, statement by statement |
| `MCAdministration` | the instance of these three |
| `AdministrationProofs` | proofs about `Departments` and `Dictionaries`, and induction over sets of naturals |
| `MenuCatalogProofs` | proofs about `MenuCatalog` |
| `Gateway` | the layers around a handler: limits, session, account, permission, audit |
| `Login` | captcha and login attempts, and what the audit log says of them |
| `ByteRanges` | the Range header of a public file and the slice served |
| `Listings` | the paged lists of audit events, users, parameters and files |
| `DesktopClient` | tokens, refresh and sign-out of one window of the client |
| `MCRequests` | the instance of these five |
| `RequestsProofs` | proofs about these five |

`MCAdministration` and `MCRequests` instantiate components that share no state.  Their
`focus` names the component whose actions a behaviour consists of, while the others
rest, so that a run explores the sum of their state spaces and not the product.

### Uploads

One upload is followed.  Upload ids are random UUIDs, and rows, lock and object
keys all carry the id, so two uploads meet only in their storage record.

| Variable | Code |
|---|---|
| `session` | the row of `uploaded_file_sessions`; `updated_fresh` and `operation_fresh` say whether `updated_at` and `operation_started_at` lie within `UPLOAD_SESSION_TTL_SECONDS` |
| `parts` | the rows of `uploaded_file_parts`; a part's object is named by the token of its writer |
| `file` | the row of `uploaded_files`: live, `deletion_pending`, or gone; with `upload_parts_pending` |
| `part_objects`, `objects`, `contents` | what lies in the backend: objects under `.uploads/{id}/`, final objects, and the parts streamed into each |
| `io_lock` | `pg_try_advisory_lock(hashtextextended(id, 0))` |
| `job` | the local variables and the place of each handler or starting process |
| `accepted` | history: the chunks whose transaction committed |
| `used`, `faults` | the UUIDs drawn and the failures left, both bounds |

Each statement or transaction against PostgreSQL is one action, and so is each call
to the backend.  A handler is the sequence of actions that its `job[w].step` leads
through:

* chunk: `ClaimWrite` - `Acquire` - `Heartbeat` - `PutPart` - `PersistPart` - `Done`;
* completion: `ClaimComplete` - `Acquire` - `Heartbeat` - `DropPrevious` -
  `OpenWriter` - `AssemblePart`* - `CloseObject` - `UnlockObject` - `Finalize` -
  `CleanPrefix` - `ClearPartsPending`; a repeated completion enters at `RetryCompleted`;
* deletion: `MarkDeleted` - (`CleanPrefix` -) `DeleteObject` - `FinishDelete`;
* reaper: `ListStale` - `ReapAcquire` - `ReapClaim` - `ReapObject` - `ReapPrefix` -
  `ReapRow` - `Done`;
* recovery at start: `ListStale`, `MarkDeleted` of a marked row, `RecoverParts`.

Every error path is an action of its own (`...Fails`), which takes one of `faults`;
`Crash` cuts a handler off between any two steps, as a dropped request future or a
dead process does: its database connection closes and with it the lock goes, rows
and objects stay.  `CommitUncertain` is a commit whose answer is lost.  Deletes that
the code only warns about can fail when `CleanupMayFail`.

`UploadStatus` is what `upload_status` answers; it reads only, and `StatusTellsPhase`
relates it to the phase of `UploadLifecycle`.  Not in the model: the storage record
(the subject of `Storages`), the metadata columns, a lock connection that breaks while
its handler lives on, and object writes that take effect after their caller was cut off.

### UploadLifecycle

The contract: `new`, `open`, `stored`, `deleting`, `deleted`, or `expired`.  While
open, chunks are accepted up to the announced size and never beyond; an upload is
stored only when nothing is missing, and what is served is then exactly what was
received; expiry is final.  `Uploads` implements it under the mapping at its end.

### TokenSessions

One user is followed: the Redis keys carry the user id or a random session id, and the
handlers touch one user at a time.

| Variable | Code |
|---|---|
| `now` | the clock of the Redis server |
| `session` | the hash `auth:login-session:{sid}` with its `refresh_hash` and expiry |
| `index`, `index_expires` | the scores of the sorted set `auth:user-sessions:{user}`, and when that key expires |
| `account` | the user's row of `sys_users`: existence, `enable`, password |
| `job` | the place and the local variables of each handler |
| `login`, `uses`, `revoked` | history: when and with which password a session began, how often each refresh token was accepted, which sessions a revocation was to end |

A Lua script, a transaction or a command of Redis is one action, as Redis runs them
one at a time, and so is each statement against PostgreSQL.  The handlers are

* login: `LoginAccount` - `LoginInfo` - `CreateSession`;
* refresh: `InspectRefresh` - `RefreshIdentity` - `RotateRefresh`, or `RevokeGrant` when
  the account is gone or disabled;
* logout: `Logout`, which looks at the token alone;
* change of the password: `AuthenticateChange` - `VerifyCurrent` -
  `RevokeUserSessions` - `UpdatePassword`, and `ResetPassword` for the first two in an
  administrator's reset.

`Cut` ends a handler between any two steps: a refused request, a failed call, a
dropped request.  Redis expires a key to the millisecond after its `EXPIRE`, but the
scores are whole seconds (`TIME[1]`), so that the set may drop a session that still
answers.  A second in two halves is enough to tell the two apart: it orders the
moments within a second in which a session began and in which another prunes the set.
Secrets and passwords are numbered; a client may present any token ever issued and
knows any password it once had.  Not in the model: the captcha (in
`Login`), the cached user status of `require_active_user` (in `Authorization` and
`Gateway`), the signature and the lifetime of access tokens (the latter in
`DesktopClient`), and a Redis that loses its data.

### Authorization

| Variable | Code |
|---|---|
| `users`, `roles` | rows of `sys_users` and `sys_roles` with `enable` and `status` |
| `memberships`, `grants` | the rows of `casbin_rule`, by ptype `g` and `p` |
| `memory` | the `EnforcementEngine` of every process: rules, user statuses, enabled roles |
| `alive`, `lock`, `reload`, `inbox` | the serving processes, the holder of `mutation_lock`, the rebuild in progress with what it has read, a notification that waits |
| `reqs`, `crashes` | the management requests with their place; a bound |
| `behind` | history: the database changed in a way that the process was not told of |

A step is one database transaction or one critical section of the engine.  A request
begins with one of the `Issue...` actions, whose guards are the checks made at once
(`require_role_manager`, account boundary, protected role, `validate_role_ids`), and goes on

* assignment and access: `Validate` - `Diff` (against the snapshot) - `Add` - `Remove`,
  under the mutation lock;
* statuses: `UpdateUser` or `UpdateRole` - `Overlay`, in two critical sections;
* creation: `InsertUser` or `InsertRole` - the steps of an assignment or an access change;
  `UpsertAdmin` - `Bootstrap` for the administrator of the configuration;
* deletion: `DetachUser` - `DeleteUserRow`; `Revoke` - `DetachRole` - `DeleteRoleRow`.

A reload is `StartReload` (takes the lock, reads the rules) - `ReadUsers` - `Install` or
`Reject`, which validates as `validate_loaded_policy` does.  `Cut` drops a request at an
await, `CutAfterSave` between a save and the change of the snapshot; `Crash` ends a
process.  Casbin and its SQL adapter are external: whether an insert of a rule that is
stored already, or the deletion of one that is not, fails the transaction is left open.

### Storages

`records` are the rows of `sys_storages` (the place stands for driver, root, bucket and
endpoint), `lock` and `reqs` the transactions under `STORAGE_LIFECYCLE_LOCK`, `files` the
rows of an upload or file, `objects` what lies in which place, `workers` the completion,
reaper or deletion at work on an upload, `readers` the requests to `/uploads/...`.  An
administrator's transaction is a `Begin...` (lock and row) followed by `UpdateRecord`,
`SetEnabled`, `SetDefault`, or `Count` and `DeleteRecord`; an upload start is `BeginUpload` -
`InsertSession`; all end with the release of the lock, also by `Refuse`.  Workers and readers
resolve the record without the lock (`Resolve`, `ReadRecord`) and use it later.  `Uploads`
owns the upload protocol: here one worker at a time acts on an upload.

### MenuCatalog, Departments, Dictionaries

`MenuCatalog`: `table` is `sys_menus`, `index` the rows the process's `MenuIndex` was built
from, `granted` what `replace_access` stored for a role, `tree` the navigation last shown.
The server has no operation that changes menus; `EditStatus` is an operator's change by
hand, and a process loads the table once (`LoadCatalog`).  Enabled permissions are defined as
in the process (a walk up) and as in the SQL of the policy check (a recursive query
down).

`Departments`: `depts` are the parents of `sys_depts`.  A move is `CheckMove` - `WriteMove`, two
statements without a transaction; a deletion is `LockDept` - `CountBelow` - `DeleteDept` in
one.  Row locks and the foreign key of PostgreSQL decide who waits (`LockedForUpdate`,
`MayReference`): a new department below a row that is locked for a deletion waits, too.  The
ids come from the client, and the code asks for none of them: a move or a deletion may name an
id that is gone or not given out yet (a deletion then locks nothing, and the department may
be there when it deletes), and a new department may name its own next id as its parent, which
the foreign key accepts.

`Dictionaries`: `dicts` and `details` are the two tables, each statement is a step under READ
COMMITTED, and a request's uncommitted rows are part of its entry in `dictReqs`.  A new
detail is `EnsureDict` - `PlaceDetail` - `InsertDetail`; a move is `CheckDetail` - `ReadParent` -
`MoveDetail` - `PlanBelow` - `CommitMove`; a deletion is `FindSubtree` - `DeleteBelow`; the deletion
of a dictionary is `DeleteDetails` - `DeleteDictRow`.  Here, too, an update or a creation may
name a detail that is created while it is on its way; what names a detail that is gone or of
another dictionary is refused before it writes, and has no step.

### Gateway, Login, ByteRanges, Listings, DesktopClient

`Gateway`: a request passes `CountRequest` (globally, and for the captcha route once more),
`RequireSession`, `RequireActive`, `RequirePermission`, and is handled, or audited by
`RecordDenied`; each is one access to a store or to the snapshot, and `ChangeRights`
withdraws or grants session, status or permission at any moment.  The limiter's store may
not answer (`CountFails`: the request is let through), and windows close at any time.

`Login`: `SubmitLogin` - `VerifyCaptcha` - `CheckAccount` - `LoadUser` - `CreateLoginSession` -
`RecordLogin`, with one action per way to fail; a captcha is read and deleted by one command,
whose answer may be lost.  The client may hang up between any two steps (`DropLogin`).

`ByteRanges`: `ServeUpload` answers any header on a file of any small size, with numbers that
do not fit a `u64` (`Word` stands for 2^64); `FetchMore` resumes a download.

`Listings`: a reader asks page after page, `CountRows` - `FetchRows` (- `LoadRoles` for a super
administrator's list of users), while rows are inserted (a sequence value is drawn before the
commit: `DrawId` - `InsertRow`), removed and changed.

`DesktopClient`: `store` is `useAuthStore`, `jobs` the requests of a window, `flights` the shared
refresh, the other variables the server's side of the sessions.  The codes are those of
`crates/api/src/mappings.rs`, error type by error type; `Told` keeps those on which the
client ends its session.  Loading the window again forgets what is on its way.

## Runs

Two parties are in every race of this code: locks, claims and the single refresh admit one
holder, so a conflict needs a holder and an intruder.  All runs have two of whatever
competes.  UUIDs are drawn in a fixed order, as they are interchangeable.  Deadlock is
checked except in the runs of `Uploads`, `TokenSessions` and `MCRequests`, where requests,
tokens and changes are used up in the end and the system has rightly nothing left to do.

| Run | Bounds | Shows |
|---|---|---|
| `uploads` | sizes 0 and 2, chunks 1 and 2, 6 UUIDs, 3 faults; 105 thousand states | the safety properties, the refinement |
| `orphans` | the same, object deletes succeed | no final object without a row that names it |
| `live` | 4 client claims, 3 UUIDs left to the reaper, 2 faults | the liveness properties |
| `interrupted` | 1 fault | a counterexample, see Findings |
| `sessions` | 2 sessions that live 1 second, 2 seconds in halves, 1 rotation of each session, 1 replacement of the password; 1.2 million states | the safety properties |
| `reset` | 2 seconds to live, 3 seconds, 2 rotations | a counterexample, see Findings |
| `authorization` | 1 process, 2 requests of any of the nine kinds, dropped requests, 1 crash; 2 accounts, a protected and a normal role, a page with an action; a database with or without the second account and role; 326 thousand states | decisions, access views and stored rules |
| `authorization_pair` | 2 processes, 2 requests that change permissions, status or existence of a role, lost notifications | failed saves grant nothing; convergence |
| `authorization_dangling` | 1 process, an assignment and a deletion | a counterexample, see Findings |
| `storages` | 2 storages (one local, one S3), 2 transactions, 2 files, 1 reader | rows, records and objects agree |
| `administration` | every menu table of 3 rows and every one of full depth, 1 change by hand; 3 departments and 2 requests with any ids; 3 details in 2 dictionaries, 2 requests of which one may begin while the other is in progress; 240 thousand states | the trees and the catalog |
| `requests` | 2 requests from 2 addresses, limits of 1, 1 change of rights; 1 captcha, 2 attempts, 2 administrator's changes; files of up to 3 bytes; 3 ids, 2 writes; 2 jobs, 2 logins, 1 refresh per session; 1.8 million states | what meets a request |

Why the bounds suffice.

* `uploads`: size 0 completes without a part, size 2 with one part or two, so the assembly
  has a first and a last part; six UUIDs allow the session, two chunks, a failed and a second
  completion and a reaper; three faults allow a failure in an operation, one in its cleanup
  and a crash of the next.  The workers are a symmetry set in the safety runs and not in the
  liveness run, in which the clients stop after `MaxClaims` draws, so that the reaper, which
  needs at most one UUID per fault and one more, never runs out.  `PartRowsAndObjectsMatch`
  and `UploadAccountedFor` compare rows with what was accepted, which two chunks tell apart.
* `sessions`: a session that lives one second can begin in either half of a second, so that
  another login prunes the set before the session, or only its score, has run out; the clock
  then goes on past the expiry of the first session while the second lives.  Two sessions are
  the one that is pruned or revoked and the one whose login prunes; one rotation leaves a used
  and a current refresh token, which two handlers present at once.
* `authorization`: rules relate one account to one role and one role to one permission; the
  closure of actions under pages needs one of each.  Two requests and a reload overlap in
  every order; a third request would repeat what one of them left in the database, which the
  two initial databases anticipate.
* `storages`: the one default and the one that could be it; a file that is there already and
  one that arrives.
* `administration`: two moves can put two departments below each other, and a third is what
  is cut off; a detail, its parent and the new place of the parent are three.  Larger instances
  (four departments; two overlaps of operations on dictionaries) were checked once, with the
  same result.  Ids of dictionaries and details are symmetry sets.
* `requests`: whoever shares a counter, a captcha, a page boundary or a refresh is one of two;
  a file of three bytes has a first, a middle and a last one; four ids in `Listings` were
  checked once.  Requests and jobs are symmetry sets.

### Properties

Of `Uploads`:

* `ObjectIOKeepsClaim`: whoever reads, writes or deletes objects of the session holds
  the lock *and* the row, alone.  The row is claimed before the lock is asked for;
  the heartbeat after it is what makes this true.
* `CommittedFileIntact`: a listed file has its object, with exactly the chunks
  acknowledged.  The reaper's stale listing, the final transaction outside the lock,
  the cleanup of superseded objects and an uncertain commit all threaten it.
* `UploadAccountedFor`: the part rows cover `uploaded_size` bytes once each
  (`PartsTileUpload`), and `upload_status` answers with the phase the upload is in
  (`StatusTellsPhase`).
* `PartRowsAndObjectsMatch`: until expiry every acknowledged chunk can be read, and every
  part object in the backend can be found from a row by a restart.
* `NoOrphanObjects`: the same of final objects, as long as deletes succeed.
* `ExpiredStaysExpired`: nobody revives an expired session.
* `PendingObjectSurvives`: nobody removes the object that a completion will commit.
* `ImplementsLifecycle`: the refinement.
* `SessionsLeave`, `ReclaimedAfterRestarts`: every session leaves; recorded deletions
  finish and temporary objects go.

Of `TokenSessions`:

* `RefreshTokenWorksOnce`: inspection and rotation are two steps with a database query
  between them; the comparison inside the script is what makes the second count.
* `EverySessionIndexed`: pruning and the expiry of the set lose a session only in the
  second in which it expires anyway, so `revoke_user_sessions` finds the others.
* `RevokedSessionsEnd`: no refresh in flight brings a revoked session back, and one that
  had dropped out of the set is over within the second.
* `LifetimeIsAbsolute`: a session ends `SESSION_TTL_SECONDS` after its login.
* `SessionsKnowPassword`: the sessions that answer began with the current password
  (violated, see Findings).

Of `Authorization`:

* `DecisionsFollowDatabase`: a process that has missed no change decides every request as
  the stored rows and rules do, whatever reloads and updates it interleaves.
* `AccessViewMatchesDecisions`: what administrators are shown of an account is what its
  requests are granted, and a role's editor starts from what is stored.
* `StoredRulesValidate`: no sequence of requests strips or disables the protected role or
  leaves an action without its page, which would keep every process from starting.
* `NoUnsavedRule`: only what was stored enters a snapshot.
* `SnapshotsConverge`: whatever notifications were lost, snapshots end equal to the database.
* `AssignedRolesExist`: violated, see Findings.

Of `Storages`: `StartupSucceeds` (one enabled default and valid records at any moment, or no
process could start), `ChecksHoldUntilWritten` (the default of an upload start and the count
before a deletion still hold when acted upon), `FilesMatchObjects` (a file is in the place of
the storage it names, an object has a row that finds it), `ReadersFindFiles` (a reader fails
only for a file deleted meanwhile).

Of the administrated tables:

* `CatalogHasOneMeaning`: an accepted table is a tree, and process and SQL agree on the
  enabled permissions; `GrantsAreLoadable`: what `replace_access` stores passes the policy check;
  `NavigationShowsGrantedPages`: the tree shows granted pages with all that is above them.
* `DepartmentTreeHolds`: every department is shown unless two moves overlapped, a department
  was created below itself, or one that a move in progress names as the new parent was created
  below the moved one; `NoDepartmentCutOff`: no deletion leaves a child without its parent,
  unless it was asked for before there was a row that it could lock.
* `DetailsFitDictionaries`: parents, levels and paths describe the tree unless operations
  overlapped; `RecursiveQueriesEnd`: rings arise only from two overlapping updates, or from an
  update whose parent was created after its first statement.

Of what meets a request:

* `HandlersHaveRights`: a handler runs only for a user whose session, status and permission
  each held at some moment since the request arrived.  `DenialsAudited`: each denial has one
  event, nothing else has any.  `LimitsApart`: a limit lets no more through than it says and
  refuses nobody for the requests of others.
* `SessionsEarned`: a session costs a captcha of its own and credentials that were right.
  `LogTellsOutcome`: the event of an attempt says how it ended.
* `RangesExact`: a slice is what was asked for, a resumed download ends with the file.
* `PagingMissesNothing`: a row is missed only when one of three named things happened.
* `SignedOutOnlyWhenOver`: the client gives up a session only at its user's wish or for a
  named cause; no number of requests that find their token expired together ends it.

Where a property excepts something, the exception is a behaviour of the code, recorded by a
history variable (`deptRingRisk`, `overlaps`, `detailRingRisk`, `disturbed`, `lost`, `suspended`,
`logFailed`, `auditFailed`, `behind`) or read off the request concerned, so that it is narrow.
Each of the exceptions of the trees is needed: without it, TLC finds the ring or the child
that is cut off.

### Fairness

In `Uploads`, `Proceed(w)` is weakly fair: a handler that has begun is driven by the runtime and
its calls return.  Time passes, hence weak fairness of the two expiries.  `recover`
runs only when a process starts, so `ListStale`, `ResumeDelete` and `RecoverParts` are
strongly fair: processes are started again and again, and not only at moments when
there is nothing to find.  Without restarts the code reclaims nothing, and the
properties do not hold.  Clients are not fair: they may go away at any time.

In `Authorization`, the steps of a request and those of a reload are weakly fair: handlers go
on, and the timer of every running process keeps reloading.  That a request is issued,
dropped or notified of is not assumed.  `SnapshotsConverge` has the premise that the
stored rules can be loaded from some time on; what happens otherwise is the finding below.

### Findings

`interrupted`: `docs/architecture/file-storage.md:39-41` says that the Admin Console
resumes from the persisted offset after an interrupted request.  A request cut off
after its claim leaves the session in `writing`; no later request can claim it, and
only a reaper after the TTL can.  `ClaimWrite` and `Crash` are enough to get there.

`reset`: the comment of `replace_password` (`crates/api/src/routes/users/handler.rs:195-196`)
says that stolen sessions cannot keep working after a reset.  A login that read the old
hash creates its session after `revoke_user_sessions`, before or after the new hash is
stored, and nothing ends that session: it works for its seven days.  A check of the hash
at the end of the login, or a second revocation after the update together with it, would
be needed.

`authorization_dangling`: `docs/architecture/iam.md:206` says that assigning an unknown role
returns `INVALID_ROLES`.  The roles are validated before the memberships are saved, with no
constraint between the two tables; a role deleted in between is assigned.  From then on
`validate_loaded_policy` refuses every reload and every start, until the rule is removed by
hand.

### Observations

No document of the repository speaks of these; the models contain them, and the properties
above except them.

* Departments or details that are above each other disappear from the answers, and the recursive
  queries, which use `UNION ALL`, do not end.  Two overlapping moves can put them there.  So can
  one move, when its new parent does not exist at its check and is created below the moved
  row before the move reads or writes it: no statement asks whether a parent exists when it
  looks for what is above or below it (`crates/iam/src/departments/service.rs:117-136`,
  `crates/metadata/src/dictionaries/service.rs:284-310`).  And a department created with its own
  next id as `parent_id` is above itself at once (`crates/iam/src/departments/service.rs:95-110`).
* A deletion of a department whose id is not given out yet locks no row.  When the department
  and a child of it are created between the count and the deletion, the deletion succeeds and
  the child becomes a root.
* A menu disabled by hand while a role holds its permission makes the policy check fail at the
  next start.  Until then the navigation combines the old index with the new rows.
* A page of users ordered by a column in which rows are equal may repeat or miss rows;
  a deletion shifts the rows of later pages; a super administrator's list fails with
  `USER_NOT_FOUND` when a listed user is deleted between its two queries.
  `(page - 1) * page_size` is unbounded in `i64`.
* A range whose numbers exceed `u64` is answered with 416.
* `upload_status` reports a session under the reaper as open.
* An answer to a request of an earlier session, when it comes late, can end or overwrite the
  session that the window began meanwhile; a refresh whose answer is lost ends a session
  that was live.
* `change_password` (`crates/api/src/routes/users/handler.rs:89`) verifies a hash and later
  overwrites whatever is stored, a reset in between included.  Passwords are numbered and have
  no owner in `TokenSessions`, so that no property speaks of it.

## Proofs

Every safety invariant and every action property that a passing run checks is a theorem of
its specification, for every value of the constants.  `PROJECT.json` lists the theorems.  Each rests on
the named assumption of its module and nothing else; the assumptions say that the constants
are of their kind (sizes are naturals, special values are not ids), that departments, details
and the menus of a table are finitely many, and that migrated tables obey the constraints of
`sys_menus`.

The argument is the same everywhere: an inductive invariant that contains the types, one lemma
for each action or group of actions with the same effect, one step for each part that the
action can disturb.  TLC confirms each invariant on the instance of its run, apart from
memberships in sets that it cannot enumerate.  What the invariants say beyond the properties is why the properties hold:

* **`Uploads`** (`UploadsProofs`; `UploadsAssumption`).  `CommittedFileIntact` is not inductive.
  That a reaper does not delete the object of a committed file needs that it works on a session which
  can no longer be committed; that needs that tokens belong to one worker; and that the object
  is complete when the row is inserted needs what each completion has streamed so far.  The
  parts of `InductiveInv`: `TokensInv` (who owns which UUID), `RowInv` (the CHECK constraint of
  the table and what the row's token says of its holder), `LockInv` (the steps that hold the
  lock), `PhaseInv` (a session or a file, never both; a reaper's session is expired),
  `ContentInv` (what a completion has streamed).  A group of lemmas on `JobBecomes` and
  `RowBecomes` reduces a step to the fields it changes.
* **Its contract** (`UploadsContractProofs`).  `BookInv` adds that the part rows tile the bytes
  below `uploaded_size` (that the pieces cover the size once each replaces the sum that a count
  of bytes would need), that whoever owns the row knows that size, and which temporary objects
  may still be there.  From it follow `UploadAccountedFor`, `PartRowsAndObjectsMatch`, and that
  each step of `Uploads` is a step of `UploadLifecycle` or a stutter.  `NamesInv` (final objects
  are named by a row; who removes one has its name from the row it claimed) gives
  `PendingObjectSurvives` and, where `CleanupMayFail` is false as in the run `orphans`,
  `NoOrphanObjects`.  With failing deletes that property is false, and its theorem says so.
* **`TokenSessions`** (`TokenSessionsAssumption`).  That a session with a full second to live is a
  member of the set is inductive only together with the expiry of the set's key: it is set by
  every login, and outlives every session because sessions begin in the order of the clock and
  live equally long (`IndexInv`, `SessionInv`).  That a token works once needs that its hash,
  once replaced, does not come back (`UsesInv`), and that a refresh in flight holds the id of
  a drawn session (`JobInv`).
* **`Authorization`** (`AuthorizationConstants`).  `MemoryInv`: a process that has missed no change
  holds the stored rules and rows, up to the rows that its own requests have written and
  show next; `ReloadInv` says the same of a rebuild since it read, which is why installing it
  undoes nothing; `ReplaceInv` says that the saves still to come lead from the stored permissions
  of a role to the requested ones, whence `StoredRulesValidate` holds between them, too;
  `RequestInv` says who holds the mutation lock and what each request carries.
* **`Storages`** (`StoragesConstants`).  The crux is that a worker and a reader use the place of a
  record after they read it, without the lock: `WorkerInv` and `ReaderInv` tie what they hold to
  the one place a record ever has (`RecordInv`), and `LockInv` what a transaction has seen or
  counted to the rows as they are.
* **`Departments` and `Dictionaries`** (`DeptConstants`, `DictConstants`).  The recursive queries are
  functions on the levels of a tree.  What such a function yields at each level is proved by
  induction over a set of naturals (`UpTo`: a set of naturals that is not empty has a least
  element), as the induction theorems of the library cannot be instantiated here.  A tree shows
  everything if and only if no set of rows is a ring, a set without a parent outside; so the
  invariants speak of rings (`ChecksHold`, `NoRings`), and of what each request has checked and may still
  rely on while nothing overlaps (`CountsHold`, `RequestsKnow`, `Orderly`).  A request whose parent is not
  given out yet has nothing to rely on; what it may rely on from the creation of that parent is
  part of the step that creates it.  The first attempt at `DeptInv`
  failed, and rightly: the model let a department be created below a row that another request
  had locked for deletion.  In PostgreSQL the foreign key's lock waits for it, and so does
  `CreateDept` now.
* **`MenuCatalog`** (`MenuConstants`).  `MenuInv` is short: a process serves from an accepted table, of
  which only the status of rows has changed since.  The work is in the lemmas on what an
  accepted table means: every walk up ends (`AncestorsOf`), what is above an enabled row is
  enabled (`EnabledAbove`), the tree shows exactly the kept rows whose ancestors are kept
  (`TreeOfKept`), and the query down from the roots finds every row, with the status that the
  walk up computes (`SqlMeaning`).  They hold for a table of any depth.
* **`Gateway`, `Login`, `ByteRanges`** (`GatewayAssumption`, `LoginAssumption`, `RangesAssumption`).
  What a request or attempt has passed is recorded with its place, the log is counted event by
  event, and a window lets through what it has counted.  `RangesInv` holds for files of any size that
  a number can name.
* **`Listings`** (`ListingAssumption`).  Who reads page after page has seen as many rows as lie before
  the next offset; what is not seen yet lies behind at least as many (`RestLiesBehind`); the
  count that was read still stands for undisturbed rows (`CountStands`); so nothing is left behind
  the last page (`EndShowsAll`).
* **`DesktopClient`** (`ClientAssumption`).  One refresh is in flight at most, and the stored pair is the
  one its session can be refreshed with, unless an answer was lost (`RefreshInv`); a code that
  means a login is only ever told when it is true of the session of the request (`AnswerInv`).

Only model-checked: the liveness properties `SessionsLeave`, `ReclaimedAfterRestarts` and
`SnapshotsConverge`, since liveness under fairness is beyond the prover, and the three properties
that the runs refute.

## Not modelled

* The database pool: an upload runs its statements on the connection that holds its lock,
  and a connection that does not come in time is a database failure, which `Uploads` has.
* Process boot beyond `recover`, configuration, telemetry and API documentation: no state.
* The desktop user interface, and the client's chunked upload loop: `Uploads` lets a client
  send any legal request at any time, the loop's among them.
* Audit statistics (an aggregation in SQL) and the summary by a local language model.
* Profile fields, names, labels, titles, order and the edit of a dictionary's own columns:
  data that no decision depends on.
* Libraries: Casbin and its SQL adapter, `tower_rate_limiter` (a fixed window per policy and
  address of the peer), JWT, password hashing and OpenDAL appear by what the code relies on.
* Access tokens expire at any moment except while the answer that brings one is on its way
  or a request is repeated with it (`ExpireAccess`): fifteen minutes against time-outs of
  fifteen seconds.

## Plan

Modelled, checked and proved: all that the inventory names a module for, but for what the
section on proofs leaves to TLC.  Left:

1. The owner of a password in `TokenSessions`, for a change that races a reset.
2. The operations that the inventory says are not modelled (rename and tags of a file, audit
   statistics, the client's upload loop), as far as a property can be found that they could break.
