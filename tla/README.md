# A TLA+ model of MyPanel

MyPanel sells and runs Minecraft servers on one node: a *controller* (HTTP API,
PostgreSQL, Redis, background goroutines), an *agent* next to the Docker daemon,
and a web panel.  This directory holds TLA+ modules of the parts of it that are
hard to test, TLC configurations that check them on small instances, and
TLAPS proofs of what holds for every instance.

Paths below are those of the repository; `controller/` abbreviates
`src/controller/cmd/controller/`, `agent/` `src/controller/cmd/agent/`.

    tlc -workers 2 -config MCJobQueue.cfg MCJobQueue     # any MC*.cfg
    tlapm JobQueueProofs.tla                             # any *Proofs.tla

## 1. The system

| Component | State it keeps | Operations | Hard about it |
|---|---|---|---|
| Job queue (`store.go`, `jobs.go`, `main.go`) | table `jobs`, its partial unique index over active rows | insert, claim, finish, recover | one worker, `created_at` is the start of the inserting transaction, replies get lost, no graceful shutdown |
| Job execution and reconciler (`jobs.go`, `routes.go`) | `servers.desired_state`, `observed_state`, `deleted_at` | requests, `executeJob`, `reconcile` | the reconciler writes from a snapshot several agent calls old |
| Agent, Docker (`agent/main.go`, `dockerapi/client.go`) | containers, directories, metadata files | provision, start, stop, restart, delete, state | operations of several Docker requests, abandoned between two of them |
| Hosting (`hosting.go`) | `subscriptions`, `orders`, `allocations` | checkout, renew, retry, transfer, expiry, release | four writers that do not wait for each other; check-then-enqueue |
| Capacity (`hosting.go`, `store.go`) | the sums over `servers`, `allocations` | the same, and the owner's create | two isolation levels under one advisory lock |
| Backups and restores (`features.go`, `agent/features.go`) | `backups`, archives, three directories | backup, restore, delete, prune | the directory is archived file by file beside the game; the agent does not look whether its caller is still there |
| Schedules (`features.go`) | `schedules` | claim due, enqueue, mark | missed and doubled runs |
| Modpacks (`modpacks.go`, `modpack_store.go`) | `server_modpacks`, a pre-install backup | install, boot test, roll back | compensation of a saga that can itself be interrupted |
| Add-ons (`addons.go`, `addon_store.go`, `agent/addons.go`) | `server_addons`, files | install, update, remove | row and file change apart |
| Accounts, sessions (`accounts.go`, `auth.go`) | `users`, Redis | login, password change, suspension, limits | session versions read before and written after |
| Console (`features.go`) | `console_events`, cursors | record, poll, prune | identities commit out of order |
| Metrics, alerts, notifications | `server_metrics`, `alerts` | sample, raise, resolve | deduplication |
| Migrations (`migrations/`, `scripts/update.sh`) | the schema | all of them, on every update | re-running old ones over newer data |
| HTTP plumbing, web panel, pings, scripts | none | | |

How they interact.  A request changes rows and inserts a job in one transaction
(`createLifecycleJob`, `createRestoreJob`, checkout) or in two (`serverCollection`);
the unique index refuses a second active job of the server.  The worker goroutine
polls for the oldest queued job and executes it: it reads the server, calls the
agent over HTTP, writes the result to the server, the backup or the
subscription, then ends the job, each in a transaction of its own.  The
reconciler, the expiry worker and the scheduler insert jobs beside the requests.
On start, `recoverJobs` puts running jobs back, or gives up those
interrupted three times.

What makes a component correct is stated as properties below; what can
go wrong in ways a test hardly reaches is listed, line by line, in
`PROJECT.json` under `hazards`, with the properties that would notice.

## 2. Modules

| Module | Models | Role |
|---|---|---|
| `JobSlot` | what the queue promises to one server: accepted, attempted at most `MaxAttempts` times, resolved, nothing else accepted meanwhile | abstract specification |
| `JobQueue` | the `jobs` table, the worker, crash and recovery | implements `JobSlot` for every server |
| `NodeAgent` | the agent's operations as sequences of Docker requests, and their effect | constant operators, used by the next |
| `ServerLifecycle` | one server: requests, `executeJob`, the agent call, the reconciler | implements `JobSlot` |
| `Subscription` | one paid server: billing state, port, job slot, expiry worker | implements `JobSlot` |
| `Capacity` | concurrent transactions that take memory, disk and ports | |
| `Restore` | backups and restores down to the agent's renames | implements `JobSlot` |
| `ModpackInstall` | the installation of a modpack: a job of many steps with a compensation for each | implements `JobSlot` |
| `Addons` | the rows and the files of the add-ons of a server | implements `JobSlot` |
| `Schedules` | the clock, the scheduler, scheduled backups and their pruning | implements `JobSlot` |
| `Sessions` | an account, its sessions in Redis, requests, the counter of logins | |
| `JobQueueProofs`, `ServerLifecycleProofs`, `RestoreProofs`, `ModpackProofs`, `AddonsProofs`, `SchedulesProofs`, `SessionsProofs` | | TLAPS proofs about the module of that name |
| `SalesProofs` | | TLAPS proofs about `Capacity` and about `Subscription`, which have no name in common |
| `MC*` | the instances TLC checks | |

Actions and code, module by module (line ranges are in `PROJECT.json`, `map`):

* **JobQueue.** `Insert` is any enqueuing statement (`insertJob`); its stamp is
  free because `now()` is the transaction's start.  `TakeRow` is the UPDATE of
  `claimJob`; `Claim` and `ClaimLost` are the worker having or not having its
  reply.  `Finish`/`FinishLost` are `finishJob` and its logged failure,
  `Crash`/`Start` a stop of the process and `main` up to the worker with
  `recoverJobs` (`Recovered`).
* **ServerLifecycle.** `Request` is the API's accepted operation with the
  desired state it sets.  `Claim`, `Load`, `Mark`, `AgentRequest`, `Await`,
  `Record`, `Finish` are `executeJob` statement by statement; `AgentRequest`
  performs one Docker request of `NodeAgent!Requests`.  `List`, `CheckJob`,
  `Probe`, `WriteObserved`, `Correct` are one round of the reconciler over one
  server, on the row it read in `List`.  `AgentFault` is any failure of the
  agent call, also after it took effect; `OrphanRequest` is the next request of a
  start, stop or restart whose caller is gone.  `Load` fails for a server that
  is deleted, and for any error of its statement.
* **Subscription.** `Renew`, `Retry` are requests; `Record` is
  `finalizeRelease`/`finalizeDelete`; `Answer` is `setSubscriptionProvisionResult`,
  and `Result` the worker's call of it, which ends the job also when the
  statement failed; `dropped` remembers that, or that `Load` failed.
  `Expire`, `EnqueueStop`, `ListLapsed`, `GetServer`, `EnqueueRelease` are
  `processSubscriptionExpiry`.  `Tick` moves the clock past the end of the
  period, then of grace.
* **Capacity.** `Begin`, `Acquire`, `CheckKey`, `CheckCapacity`, `PickPort`,
  `Commit` are the statements of a transaction in order.  A SERIALIZABLE one
  reads `snap`, taken by its first statement, before the lock is granted; the
  others read what is committed.  `Violates` is what the database refuses: the
  unique constraints, which any transaction may meet, and for a SERIALIZABLE one
  (`create` alone) a conflict with another such transaction that has committed
  since its snapshot.  Checkout and renewal are READ COMMITTED and never refused
  for that.  `Release` and `Delete` take no lock, as in the code.  A server
  stands for `MemoryOf` units of memory and `DiskOf` units of disk, and
  `UsedMemory` and `UsedDisk` count units: of disk those of released servers too.
* **Restore.** `BeginBackup` .. `Finish` are the worker, whose `updateBackup`
  may fail at any place (`TryUpdate`, `Recorded`, `SnapshotAnswered`): the code
  drops the error and goes on, and `unsaid` remembers it of the snapshot.  `Play`
  is the game, which saves at any moment while it runs, a backup included;
  `StartGame` starts it again.  `Archive` and `ArchiveRest` read the directory one
  file after another, by path; `torn` collects what one of them has read of two
  worlds.  `Publish`, `Verify`, `Clear`, `Extract`, `MoveOut`, `MoveIn`, `MoveBack`, ... are the
  agent, one per change of the file system.  There are two calls, the worker's
  own and an orphan whose caller has crashed or timed out.  `DeleteCheck`,
  `DeleteArchive`, `DeleteRow` are the API's deletion.
* **ModpackInstall.** `Request` is `createModpackInstallJob`; `Stop`, `Abandon`,
  `MarkCreating`, `Backup`, `MarkReady`, `Provision`, `Wait`, `Finish`, `Halt` are
  `executeModpackInstall` in order, `RestoreData`, `RestoreRows`, `Recreate`,
  `Restart`, `Rewait` are `rollbackModpackRuntime`; `pc` is the statement or
  agent call the worker is at.  Each call succeeds (`Succeed`) or fails (`Fail`),
  by a fault, a lost answer or the deadline, leaving any of its visible stages
  (`Stages`); statements that fail may have been committed (`Lost`).  `RollBackRows`
  is the transaction of `rollbackModpackInstall`.  `Operate`, `Lapse` and
  `DeleteBackup` are what owner, expiry worker and API do beside it.  The
  directory is the set of definitions booted on it: a boot writes into it,
  an archive copies it, a restore replaces it.
* **Addons.** `Create`, `Update`, `Remove` are the requests with their
  transaction; `Chain`, `Resolves`, `Resolved` what `resolveModrinthDepth`
  follows and keeps.  `Claim`, `Record`, `Finish` are the worker, `Record` being
  `finishAddon`, whose error is dropped.  `Open` and `Place` are the agent's
  `installAddonFile` around the download, `Delete` its removal, `InstallFails`,
  `DeleteFails`, `Deadline`, `Abandoned`, `AgentCrash` every way they end early.
  `Restart` is a start or restart that loads the files, with
  `clearRestartRequired`; `StartOfRunning` a start of a server that runs already,
  which Docker answers with success: it clears the request for a restart and
  loads nothing.  `GameRestarts` is Docker's own.  Of what a release requires
  `Followed` are the first, up to `MaxFiles` files with the release itself; the
  others are skipped in silence.
* **Schedules.** `Create`, `Update`, `Delete`, `RunNow` are the API; `ClaimDue` is
  the statement of `claimDueSchedules`, `Enqueue` one round of
  `enqueueDueSchedules`' loop.  `Claim`, `MarkCreating`, `Archive`, `MarkOutcome`,
  `List`, `PruneArchive`, `PruneRow`, `Finish` are a scheduled backup in
  `executeFeatureJob`; `created_at` is the relation `newer` between rows, and
  `Excess` what `ORDER BY created_at DESC OFFSET 7` returns, those with seven
  newer ones; `DeleteCheck`, `DeleteArchive`, `DeleteRow` the owner's
  deletion beside it; `Operate` any other job of the server.
* **Sessions.** `Register`, `ReadBack` and `LoginAdmitted`, `Verify`, with `Open`,
  are `register` and `login` up to `sessionStore.create`; `Load`, `Refuse`, `Serve`
  are the middleware `auth`; `VerifyCurrent`, `Replace`, `Logout` are
  `changePassword` and `logout`; `SetStatus`, `ResetPassword` the administrator's
  statements, each of which increments `session_version` (`Change`).  `Attempt` is
  `allowLogin`, `Tick` and `ExpireSession` are Redis.

What becomes of an agent call whose caller is gone depends on the handler.
`net/http` ends the context of a request only once its body has been read.
Provision, delete and release read it, so they stop at their next Docker
request.  Start, stop and restart do not read it and go on, beside the next job:
`orphans` of `ServerLifecycle`.  Backup and restore read it, and go on as well,
because archiving and extracting never look at the context: the orphan call of
`Restore`.  `ModpackInstall`, `Addons` and `Schedules` let an abandoned call end
before the next step; that it may end later, beside a repetition, is the subject
of the other two.

## 3. What is checked

Passing runs (worker count 2, each within three minutes):

| Run | Instance | Properties |
|---|---|---|
| `jobs` | 3 jobs, 2 servers, 2 stamps, 3 attempts, any number of crashes and lost replies | `OneActivePerServer`, `OutcomeIsFinal`, `ImplementsSlot`, `QueuedJobResolves` (liveness) |
| `lifecycle` | 3 requests, 2 crashes, 1 fault, 2 attempts (1.0 million states) | `DeletedIsIdle`, `DeletedStaysGone`, `Converges` (liveness), `ImplementsSlot` |
| `subscription` | 3 requests, 3 crashes, 2 faults, 3 attempts, actions as in migration 006 | `PortFollowsStatus`, `GraceIsNotUndone`, `GraceIsReleased` (liveness), `ProvisionIsAnswered`, `ImplementsSlot` |
| `capacity` | 4 requests, 3 servers of one size and one of three times its memory and twice its disk, 2 keys, 2 ports, memory and disk for three (0.6 million states) | `SaleFits`, `RepeatIsRecognised`, `AddressesAreSound` |
| `restore` | 3 backups, 2 worlds, 3 requests, 2 of crashes of controller or host, deadlines and failed statements, 2 attempts (3.4 million states) | `NeverMixed`, `SnapshotFirst`, `RestoreDelivers`, `ImplementsSlot` |
| `modpack` | 2 packs, 2 installations, 2 crashes, a fault, a deadline, a deleted backup, a lapse, 2 attempts | `RowsAgree`, `AllOrNothing`, `WorldIsKept`, `ImplementsSlot` |
| `addons` | 2 add-ons, 5 releases of 3 projects with 4 file names, at most 2 files per installation, 3 requests, a fault, 2 crashes of the controller, one of the agent, 2 attempts (3.2 million states) | `InventoryIsTrue`, `SuccessIsWhole`, `NoLitter`, `NothingIsLeftOver`, `ImplementsSlot` |
| `schedules` | 2 schedules, 5 backups, retention 1, 2 crashes, one change, deletion or failure, 2 attempts | `RetentionHolds`, `PruningSparesTheNewest`, `ArchivesHaveRows`, `DueIsClaimed` (liveness), `ImplementsSlot` |
| `sessions` | 2 tokens, 2 requests, 2 changes, limit 1, window 2 | `RevokedStaysRevoked`, `PasswordIsInForce`, `LimitIsLifted` (liveness) |

`jobs`, `lifecycle` and `capacity` also check the type invariant of their module
(`CapacityTypeOK` in `capacity`).  Those of the other modules are proved
(section 4), and so are `WorkerHoldsRunning` and `AttemptsBounded` of the queue
and `RefusedForGood` of the sessions: the runs check stronger or closely related
properties.  Six components implement the slot that `JobQueue` provides, so each
of them rests on the queue's promise and on no more of it: nothing else is
accepted while a job has no outcome, and no job is attempted more than
`MaxAttempts` times.  For every property `PROJECT.json`
names a mutant, a plausible wrong version of one definition of the model, for
which TLC reports that property violated.

Runs that TLC ends with a violation, because the code does not do what the
repository says (`findings` in `PROJECT.json`):

| Run | Property | What happens |
|---|---|---|
| `release_blocked` | `GraceIsReleased` | migrations 008 and 009 rebuild `jobs_action_check` without `release`; the error of the insert is ignored; a lapsed server keeps its resources for ever. README.md:86 says they are released |
| `oversell` | `NeverOversold` | the owner's create reads a snapshot older than the lock it waited for. README.md:85 |
| `restore_snapshot` | `SnapshotKeepsTheWorld` | a repeated restore overwrites the snapshot of the first attempt with the restored world. `docs/api.md:87` |

`subscription` passes with the list of actions of migration 006, the last that
knows `release`; it says what the expiry worker, the renewal and the release do
when the release can run at all.  With the list the last migration leaves,
`release_blocked` shows it never does.

What the passing properties leave out, because the code behaves otherwise; each
says so in its definition:

* `ProvisionIsAnswered` speaks of provisions that are not given up, and in whose
  last attempt no statement failed.  `recoverJobs` (store.go:337) fails the job and
  tells nobody; when the server cannot be loaded (jobs.go:48), or the statement
  with the result fails (jobs.go:128, its error is dropped), the job ends all the
  same.  In each case the subscription stays in "provisioning" and retry refuses it.
* `Converges` excludes, by its premise, a server whose container is absent: after
  a failed provision only a new request makes one.
* `NeverMixed` speaks of what restores do.  An archive is read file by file beside
  the game (save-off is tried, and its failure ignored, features.go:459), or
  beside an orphaned restore, and may be of two worlds itself; it is published as
  ready.  No directory and no archive is ever worse than one such reading.
* `SnapshotFirst` names two exceptions: the owner has deleted the snapshot, or
  the statement that makes its row ready has failed (features.go:773 drops its
  error and the restore goes on): its archive is then on the node, and nobody is
  offered it.
* `SnapshotKeepsTheWorld` does not count what players do between the snapshot and
  the moment the restore stops the game: nothing promises that it is kept.
* `RestoreDelivers` speaks of restores that ran alone: an abandoned restore and
  its repetition share their directories, and a restore can then complete over a
  directory that the other one has replaced.
* `AllOrNothing` speaks of attempts whose compensation met no error: the
  compensation runs on the job's context (modpacks.go:362), and after a boot test
  that lasts until the deadline none of its steps is done.
* `InventoryIsTrue`: a start of a server that runs already clears
  `restart_required` although nothing was loaded (jobs.go:88): the files nobody
  asks to load any more are in `missed`.
* `SuccessIsWhole`: requirements past 16 files are skipped in silence
  (addons.go:235).  Of the requirements of requirements only the resolution is
  checked; their files are dropped (addons.go:250).  And an update to a release of
  another project removes the old file name also where a requirement has just
  put its file there (features.go:803).
* `NoLitter` and `NothingIsLeftOver`: a crash of the agent leaves its temporary
  file, which blocks that name from then on; after a failed update the file of
  the former release stays and no row names it.
* `ArchivesHaveRows`: a backup the owner deletes while its own job is repeated
  is archived again without a row.
* `DueIsClaimed` is about the claim: a claimed occurrence whose slot is busy,
  also by a schedule claimed with it, is not enqueued and not tried again.
* `PasswordIsInForce`: a registration whose row is changed before it is read back
  opens a session that carries the new version.  `LimitIsLifted` holds because
  the window is fixed; docs/architecture.md:55 calls it a sliding one.

### Bounds, and why they are enough

* `jobs`: two servers and three jobs give a server a second job while one waits,
  runs or is orphaned, and another server to compete for the worker; two stamps
  give every order of insertion against `created_at`.  Attempts use the real
  limit, crashes and lost replies are not bounded.  The proofs remove the bounds
  for everything but liveness.
* `lifecycle`: three requests are create, an operation and its opposite (or a
  repeated delete); two crashes exhaust two attempts.  The attempt limit is 2
  instead of 3: the number occurs in `Restart` only.
* `subscription`: three crashes give up a job at the real limit; three requests
  include a renewal, its retry and a deletion.
* `capacity`: three requests are the least with a holder of the lock, one that
  waits with an old snapshot, and one that repeats a key; the fourth lets two
  servers be sold, released, and followed by the large one, for which there is
  then memory and a port but no disk.  The large server alone uses up the memory,
  two small ones the ports.
* `restore`: three backups are one to restore, its snapshot, and one more
  (or the snapshot of a second restore); two files make a world that can be
  read while it changes and half extracted; one orphan at a time.  Two
  mishaps are the crash that makes an orphan and one more crash, deadline or
  failed statement beside it, and use up 2 attempts.  The violation runs use smaller
  instances, so that the traces are short.
* `modpack`: two packs and two installations let the second one find a pack to
  put back, installed or left over from a failure; two crashes give up an
  installation at the limit of 2 attempts, or interrupt both; the proofs remove all of these bounds.
* `addons`: two add-ons let one disturb the other; x-1 and x-2 are releases with
  the version in the file name; the two releases of l share a name and can be
  installed for themselves too; c requires itself, and is refused.  x-1 requires
  l and then c, which is past the limit of 2 files (16 in the code).  Three requests install, update to another project and remove; two
  crashes give up a job at the limit of 2 attempts.
* `schedules`: retention is 1 instead of 7 (it occurs in `Excess` only, and the
  proofs hold for each but 0), so that
  three backups exceed it; five identifiers are one backup more than a crash
  between archive and row can leave.  One event suffices to disable, delete or
  re-enable a schedule, to lapse the subscription, to delete a backup or to fail
  one statement; the crashes combine with it.
* `sessions`: two changes are a suspension and its end, or a reset and a change of
  password; two tokens and requests let a session be refused while another
  request uses it.  The limit is 1 instead of 5 and occurs in two comparisons.

All but `jobs`, `schedules` and `sessions` say `CHECK_DEADLOCK FALSE`: with requests, crashes and faults used
up, or every request answered, those systems stop.  Requests and small servers in `capacity`, backups in `restore`,
packs in `modpack` and the rows of `addons` are symmetric: they are only compared for equality, and those
runs have no liveness property.

### Fairness, and why the code justifies it

* The worker, the reconciler and the expiry worker are goroutines on tickers
  that never end while the process runs: weak fairness of their steps
  (`Work`, `Reconcile`, `ExpiryRound`).  Each step ends, because agent calls and
  statements have deadlines.
* `JobQueue` does not bound crashes, and a crash disables a claim; so it asks
  strong fairness of claiming: a controller that is up for 500 ms infinitely
  often claims infinitely often.
* The controller is started again: weak fairness of `Start`/`Restart`
  (`restart: unless-stopped`, compose.yaml:219).
* In `Schedules` the worker (`Work`), the claim of what is due and the enqueuing
  of each claimed schedule are weakly fair, being goroutines on tickers as well,
  and the clock is (`Tick`): a schedule that is never due shows nothing.  In
  `Sessions` only the clock is: Redis expires keys whatever anybody does.
* `GameReady`: a game that is starting becomes ready unless it is disturbed.
* Nothing forces requests, faults, crashes, the clock of a subscription, or the deletion of files.

## 4. What is proved

TLC's runs show the properties on the instances above; the theorems show them for
every value of the constants, under the assumption each module names
(`JobQueueAssumption`, `LifecycleAssumption`, `SubscriptionAssumption`,
`CapacityAssumption`, `RestoreAssumption`, `ModpackAssumption`, `AddonsAssumption`,
`SchedulesAssumption`, `SessionsAssumption`: limits and bounds are natural numbers, the
attempt limit, the retention and the ports are positive, `None` is none of the
identifiers, the catalogue is a function).

| Module | Theorem | Property |
|---|---|---|
| `JobQueueProofs` | `QueueInvariant` | `QueueInv`, inductive |
| | `TypeCorrect`, `SlotExclusive`, `WorkerOwnsItsRow`, `BoundedAttempts` | `TypeOK`, `OneActivePerServer`, `WorkerHoldsRunning`, `AttemptsBounded` |
| | `OutcomesAreFinal` | `OutcomeIsFinal` |
| | `QueueImplementsSlot` | `ImplementsSlot`, for every server |
| `ServerLifecycleProofs` | `LifecycleInvariant` | `LifecycleInv`, inductive |
| | `LifecycleTypeCorrect`, `DeletionIsIdle` | `TypeOK`, `DeletedIsIdle` |
| | `DeletionIsFinal` | `DeletedStaysGone` |
| | `LifecycleImplementsSlot` | `ImplementsSlot` |
| `SalesProofs` | `CapacityInvariant` | `CapacityInv`, inductive |
| | `CapacityTypeCorrect`, `AddressesSound` | `CapacityTypeOK`, `AddressesAreSound` |
| | `SalesFit` | `SaleFits` |
| | `RepeatedCheckout` | `RepeatIsRecognised` |
| | `SubscriptionInvariant` | `SubscriptionInv`, inductive |
| | `SubscriptionTypeCorrect`, `PortMatchesStatus` | `TypeOK`, `PortFollowsStatus` |
| | `GraceEndsByPaymentOrRelease` | `GraceIsNotUndone` |
| | `EveryProvisionIsAnswered` | `ProvisionIsAnswered` |
| | `SubscriptionImplementsSlot` | `ImplementsSlot`, from the checkout's job on |
| `RestoreProofs` | `RestoreInvariant` | `RestoreInv`, inductive |
| | `RestoreTypeCorrect`, `WorldsNeverMixed` | `TypeOK`, `NeverMixed` |
| | `SnapshotsFirst`, `RestoresDeliver` | `SnapshotFirst`, `RestoreDelivers` |
| | `RestoreImplementsSlot` | `ImplementsSlot` |
| `ModpackProofs` | `ModpackInvariant` | `ModpackInv`, inductive |
| | `ModpackTypeCorrect`, `TablesAgree`, `InstallsAllOrNothing` | `TypeOK`, `RowsAgree`, `AllOrNothing` |
| | `WorldNotLost` | `WorldIsKept` |
| | `ModpackImplementsSlot` | `ImplementsSlot` |
| `AddonsProofs` | `AddonsInvariant` | `AddonsInv`, inductive |
| | `AddonsTypeCorrect`, `InventoryHolds`, `NothingLittered` | `TypeOK`, `InventoryIsTrue`, `NoLitter` |
| | `NothingLeftOver` | `NothingIsLeftOver` |
| | `SuccessesWhole` | `SuccessIsWhole`, of a catalogue in which a release and its requirements have different file names (`NamesDiffer`) |
| | `AddonsImplementSlot` | `ImplementsSlot` |
| `SchedulesProofs` | `SchedulesInvariant` | `SchedulesInv`, inductive |
| | `SchedulesTypeCorrect`, `NoArchiveIsLost` | `TypeOK`, `ArchivesHaveRows` |
| | `RetentionIsKept` | `RetentionHolds` |
| | `NewestAreSpared` | `PruningSparesTheNewest` |
| | `SchedulesImplementSlot` | `ImplementsSlot` |
| `SessionsProofs` | `SessionInvariant` | `SessionInv`, inductive |
| | `SessionTypeCorrect`, `RevocationHolds`, `PasswordHolds` | `TypeOK`, `RevokedStaysRevoked`, `PasswordIsInForce` |
| | `RefusalIsFinal` | `RefusedForGood` |

**The queue.** `OneActivePerServer` alone does not carry the refinement: an
active row must also have a server (`ActiveHasTarget`), the worker must hold a
row that is running (`WorkerHoldsRunning`, or `finishJob` could end a row that
was requeued), and a queued row must have an attempt left (`AttemptsBounded`, or
a claim could exceed the limit).  Recovery preserves all of it because it makes
no inactive row active.  For the refinement: a server has at most one active
job, so `SlotPhase` and `SlotTries` are that job's status and attempts (lemmas on
the choice); each action changes one job, and is a step of the slot of its
server and a stutter of the others; `Start` changes several slots at once, which
is why the quantifier over servers is inside the box.

**The lifecycle.** `DeletedIsIdle` is not inductive: it must be known that a
delete that reaches `Record` without an error has left no container.
`DeleteOnItsWay` says so, through the requests left of the operation; it holds
only because nobody else can insert a job while the worker is at work
(`WorkerAtJob`: the slot is then running) and because neither the reconciler's
probe, nor the game, nor an agent call that goes on without its caller ever makes a
container: only a provision does, and it stops.  Then no step touches the row or the
container of a deleted server (`DeletedStep`), and a step that touches the slot
is one of `JobSlot` (`SlotStep`), which needs `AttemptLeft` for the claim.

**The other uses of the slot.** The proofs that `Subscription`, `Restore`,
`ModpackInstall`, `Addons` and `Schedules` implement `JobSlot` have the same shape,
one case per action (`SlotStep`).  Two facts of each inductive invariant carry
them: a queued job has an attempt left, and the step that ends a job runs only
while the job does.  In `ModpackInstall` the mapping forgets the attempts of a
job that has its outcome, because the model, like the row, keeps them.

**The subscription.** `PortFollowsStatus` is inductive beside the types: the
release and the deletion take the port in the transaction that writes the
status or `deleted_at`, and the renewal of a released subscription takes one in
its own.  The theorems hold for every `ActionCheck`, so with and without
`release`.  `ProvisionIsAnswered` follows from
`AnswerInv`: a free slot holds no job, so an insertion never replaces the
provision job, and a worker that is about to finish one has already answered
the subscription, or found it changed by somebody else, or has had a statement
fail (`dropped`).

**Capacity.** That addresses are distinct follows from what `Violates` refuses;
that every server that may run has one, from what is written in one
transaction.  None of this relies on a refusal for staleness of a checkout or a
renewal, which there is not.  `RepeatIsRecognised` needs the lock: whoever is past the first
statement holds it (`LockHeld`), so a key found unused stays unused until the
insert (`KeyUnused`), and a refusal for capacity can only meet an unused key.
`SaleFits` needs it too: what a holder has found room for still fits when it
inserts (`RoomLeft`), because everybody without the lock can only give back.  The
owner's creates are no exception to this: they hold the lock as well, it is
their own snapshot that is old, and no `RoomLeft` is claimed of them
(`oversell`).  The sum over servers is the cardinality of the union of their units,
so the step from one server more to its megabytes more is a fact about
disjoint finite sets (`MemoryAdds`) and no induction.

**Restore.** Two calls may extract into one directory only for the same backup.
`Aim` says that a call that reads an archive has the checksum of its backup's row,
which no job changes any more (`New`, the backup a job has brought, is never the
one it restores), so both calls extract the same world, and what is staged is part
of it (`StagedInv`).  What is read, staged, moved and archived is `Sound(torn)`: of one
world, or part of one reading in `torn`, a set that only grows, so what was sound
stays so (`SoundGrows`).  This holds of orphans too; what they do to a directory in use
is why `RestoreDelivers` needs `alone`: without an orphan the directories follow the
call stage by stage (`Stages`), and the game is down from the restore's first step on
(`Stopped`), so that nothing is played in what it has delivered before it ends.
`Snapshot` carries the archive of the pre-restore
backup, and that its row is ready unless that statement failed, from its answer on, because only a deletion removes an archive and an
orphan that renames its own file over it leaves one.

**Modpack installation.** `RowsAgree` is inductive with the agreement of what the
payload remembers (`Frame`): the request writes both tables in one transaction,
the compensation puts both back.  `AllOrNothing` needs to know, for each step
of the first attempt, what rows, directory, container and archive are
(`FirstAttempt`): untouched up to the first provision, then the archive holds the
directory of the request, and after the restore each step of the compensation
adds its part.  It is guarded by `undone`: as soon as one step of the
compensation has failed, nothing of this is left to prove, nor true.  In a
repetition the directory the job archives is the half-installed one; this is
why the invariant speaks of the first attempt only.  `WorldIsKept` does not need
the compensation to succeed: up to the backup nothing has touched the directory,
from then on the archive holds it and no step of the job writes the archive again
(`World`).

**Add-ons.** `InventoryIsTrue` looks at moments when no job runs, but has to hold
through jobs of other add-ons.  `SureIsGood` says the same at every moment for
the add-ons in `sure`, and the rest says that a job at work touches no such file
(`CallsOwn`): what it writes is its own release's name, distinct from those of
all other rows (`NamesApart`, the unique constraint), or a requirement's, which
`Shared` excludes; what it removes is its old name, which no other row has taken
since (`JobsRow`, because the slot is held from the request on).  `Placed` carries
the primary file from its rename to the statement that records it.  For
`NothingIsLeftOver`, a file that no row names is the old file of the job in the
slot, which has not removed it yet (`Left`), and the attempts used up are at most
the crashes that happened.  For `SuccessIsWhole`, a requirement that is no
longer in `todo` and among the files that are collected is in place (`Whole`; the first `MaxFiles`
are, by `FirstOfRequires`) and stays there, because within a job the
only other writes go to the names of other requirements.

**Schedules.** Two facts about finite sets in a total order carry the pruning:
of the elements with fewer than n before them there are at most n (`KeptFew`),
and one with n or more before it has n before it that are of that kind
(`KeptEnough`); both follow from the first element of a set (`FirstExists`).  So
the candidates leave at most `Retain`, and each of them has `Retain` newer ones
that are not candidates (`CandidatesLeave`, `CandidatesOutdated`).  That it stays
so while the loop runs is `KeptInv` and `PruneInv`: in a smooth attempt the only
rows that go are those of candidates, and a schedule deleted meanwhile makes all
its backups alike.  `OwnInv` says that the backup in the making is the newest,
because the slot admits no other job and a row comes with its job; hence it is
no candidate.  `ArchivesHaveRows` holds because worker and owner remove the
archive before the row (`ArchiveInv`), and only the backup in the making gains one.

**Sessions.** A session never carries a version ahead of the row's, one with the
row's version has the row's password unless a registration opened it (`IsCurrent`),
and every change increments the version; so what was open or verified before a
change stays behind it for ever.

Model-checked only: liveness (`QueuedJobResolves`, `Converges`, `GraceIsReleased`,
`DueIsClaimed`, `LimitIsLifted`), because temporal reasoning with fairness is
outside what the prover handles.  Every other property of a passing run is a
theorem.

## 5. What is left out

* Data: names, versions, prices, ports as numbers of a real range, audit rows,
  log lines.
* Inside the modelled components: `transferServer` and the status lookup of the
  API (`Subscription`), downloads of backups (`Restore`),
  console events and `restart_required` (`ServerLifecycle`), image pulls and CPU
  limits (`NodeAgent`: they only make an operation fail).
* In `Restore`: a save is one step, so a world is never torn by the game's own
  writing of one file; what the game writes into a directory that a restore has
  moved aside goes with it; a deletion whose last statement fails (the archive
  gone, the row ready) beside a restore; a start or restart call that goes on
  without its caller (`ServerLifecycle`) and starts the game in the middle of a
  restore or of a modpack's installation.
* A failure of the statement that ends a job: it is in `JobQueue`
  (`FinishLost`), and the other modules end a job in one step.
* The search and choice of a modpack's file, and the runtime files and metadata
  the agent writes for it (`ModpackInstall`).
* In `Schedules` the order of `created_at` is that of the commits
  (`CreateRow`); it is the start of the inserting transaction in the code
  (store.go:500), and `JobQueue` leaves it free.  Two scheduled backups are at least a
  job apart, so a difference needs a transaction that is open for that long.
* The change of a schedule's action, `last_run_at` and `last_job_id`, and that one
  claim takes at most 20 (`Schedules`); CSRF tokens, origins, hashing, the owner's
  account and the counter of registrations, which is like that of logins
  (`Sessions`); the catalogue's search (`Addons`).
* Not modelled, planned: the console cursor, the connection pool, the repetition
  of migrations, the deduplication of alerts.
* Not modelled, and not planned: file manager, console pipe, server list ping,
  host metrics, certificates, HTTP routing, web panel, shell scripts: pure I/O
  or stateless.

## 6. Plan

Written so far, in the order of importance: the queue every other part relies
on, the lifecycle of a server, what is sold and when it ends, capacity, restore,
modpack installation, add-ons, schedules, sessions.  Next, in order:

1. `Pool`: callers that hold a connection and wait for another.  `Console`: a
   cursor skips no event.  `Migrations`: repetition over newer rows.  `Alerts`:
   one open alert of a kind.
2. The transfer of a server to another owner in `Subscription`.
