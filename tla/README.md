# TLA+ models of JumpServer

JumpServer is a bastion host: users reach assets through it, and it keeps, hands
out and rotates the secrets of the accounts on those assets. This directory holds
specifications of the parts of it where several processes, a remote system and
failures meet, checked with TLC, with their safety proved with TLAPS.

Paths below are relative to `src/apps/`.

## 1. Inventory of the system

| Component | State | Operations | What is hard | What must hold |
|---|---|---|---|---|
| **Secret rotation** `accounts/automations/{base,change_secret,push_account}`, frame in `assets/automations/base/manager.py` | execution row; record rows with old and candidate secret; account rows; redis lock `account-change-secret:<id>`; status `queue:change_secret:<id>`; the worker's memory; the remote account | load, lock, record, batch, write back, finalise, save, release | worker killed anywhere, save fails, host reports lost, two executions on one account, copies that are stale, lock that expires | the remote secret is never lost; success means both sides agree; locks exclude; nothing stays pending |
| **Recovery** `accounts/automations/recovery.py`, `accounts/tasks/automation.py` | markers of missing tasks in the cache; Celery's view of the workers | find open executions without a task, close their records, clear their keys | a live worker taken for dead, the recovery itself interrupted, one failure in a pass | closes once, closes everything, frees no foreign lock |
| **Record requests** `accounts/api/automations/change_secret.py`, `verify_account` | `verification_status`, account version | retry, verify, restore | restore of a candidate that is no longer current | an account that moved on is not overwritten |
| **Change after a session** `terminal/serializers/session.py`, `accounts/utils.py` | QUEUED / READY / PROCESSING with a TTL, a debounce key | enqueue at session end, delayed task, clear | TTL against countdown and busy workers, keys without owner, accounts that cannot be prepared | a session that ended is followed by a change, or its key met one of three accidents |
| **Vault backends** `accounts/backends`, `accounts/tasks/vault.py` | secret in the vault or in the row, mark, mount | save, sync, restore, move of the mount | vault fails inside a transaction, hidden writes by `update`, writes during a copy | row and vault agree, no saved secret is replaced by an older one but by a stale copy |
| **Tickets** `tickets` | state, status, step, assignees, serial number | open, approve, reject, close, bulk | concurrent decisions, rows that are stale, locks of several tickets, locks given back before the commit | one decision a step, one grant a ticket, numbers without a gap |
| **Connection tokens** `authentication/{api,models}/connection_token.py` | expiry, reusable flag, approval | create, exchange, renew, read secret, expire | read, check and write in three steps, saves of whole rows | a used token is refused, an approval belongs to its own token |
| **Login, MFA, blocking** `authentication/mixins.py`, `users/utils.py` | the patched user model, counters in the cache, session keys | authenticate, check, count, block | one method of a class shared by all threads | no user is created behind the setting |
| **Terminal sessions, applets** `terminal` | sessions, tasks, heartbeats, keys of accounts in use | report, orphan cleanup, kill, select account | cleanup against a live session | a live session stays open, an account is used by one while its key lives |
| **Permission trees** `perms/utils/user_perm_tree.py` | redis set of fresh organisations, rows of the tree, rebuild lock | expire, rebuild, mark | a change during a rebuild, rebuild and mark in different transactions | a change is seen in the end by whom a permission names |
| **Node tree** `assets/models/node.py`, `assets/api/node.py` | keys and marks of nodes, the mapping of nodes to assets | create, move, delete, expire, generate | whole rows saved from stale objects, memory of several processes | every parent exists, no process answers from an old mapping |
| **Shared infrastructure** `common/decorators.py`, `common/utils/{lock,connection}.py`, `common/cache.py` | redis locks and the thread-local mark of a reentrant one, merged calls, batched records, hashes of counts, subscriptions | acquire, release at once or on commit, merge, batch, count, expire, subscribe | threads that share dictionaries, releases and expiries that wait for a commit that never comes, two requests that fill one hash | a lock is held until its work is committed and comes free, a count is wrong only for a reason (some changes tell nobody) |
| **Account discovery** `accounts/automations/gather_account`, `accounts/risk_handlers.py` | gathered rows, risks, the sets of names an execution read | scan, compare, create, six updates, flush of risks, sync; handling of a risk | two executions on one asset, users who decide meanwhile, whole objects saved over rows that moved on | an undisturbed execution leaves rows and risks true, an ignored row stays ignored |
| **Ops jobs** `ops/models/job.py`, `ops/api/job.py` | status and task of an execution, its process id | send, start, run, set result, stop, hourly clean | stop, result and clean write one row; workers are killed | a row that says running has a worker, and does not say so for ever |
| **Settings** `settings/models.py`, `settings/signal_handlers.py` | the rows, the copy of each process | save, publish, subscribe, refresh | messages that nobody receives, handlers and loads that fail, processes that restart | an old copy has its reason, the last value wins where nothing failed |
| **The rest** other automations, audits, notifications, reports, rbac, labels, orgs, users, static files | rows | CRUD, one transaction each | little | not modelled |

How they interact: operators and schedules start Celery tasks; the end of a terminal
session queues accounts for rotation; a rotation execution talks to the database, to
redis and, through ansible, to the remote host; a periodic task recovers executions
whose worker disappeared; an approved ticket creates a permission or activates a
connection token, and permissions and node changes invalidate the trees. Most
components meet only through a row or a key that one writes and another reads; such
a row is an input of the reader's model (the lock and the attempt of a change in
`SessionEndQueue`, the approval in `ConnectionToken`, the committed permission in
`PermTree`), so that each model has every interleaving of its own steps with it.

Every hazard found is listed, at its line, in `PROJECT.json`.

## 2. What was planned and what is done

| Part of the plan | Modules | State |
|---|---|---|
| Rotation, recovery, record requests | `SecretRotation`, `SecretCustody` | checked; types, locks, recoverability, the meaning of a success, pending records, final rows, what a divergence leaves behind and the refinement proved |
| External vault | `VaultedAccounts`, `MountMove` | checked; the safety of both proved |
| Session end queue | `SessionEndQueue` | checked, with liveness; its safety proved |
| Tickets | `TicketFlow`, `TicketDecision`, `TicketSerial` | checked; `TicketFlow` proved to implement `TicketDecision` and to count every approval; the serial numbers proved |
| Connection tokens | `ConnectionToken` | checked and proved |
| Sessions and applets | `SessionLife`, `AppletAccounts` | checked, with liveness; the safety of both proved |
| Trees | `PermTree`, `PermTreeBuild`, `NodeMapping`, `NodeTree` | checked, with liveness; the safety of all four proved, also what a rebuild computes |
| Missing workers | `WorkerWatch` | checked, with liveness; its safety proved |
| Shared infrastructure | `MergeDelay`, `BulkLog`, `DistributedLock`, and `AuthGuard` for logins | checked; the safety of all four proved |
| Counts, settings | `CountCache`, `SettingCopies` | checked, with liveness; the safety of both proved |
| Account discovery | `AccountDiscovery` | checked and proved |
| Ops jobs | `JobRun` | checked, with liveness; `RunningHasWorker` proved |

Left: the steps of a login and its MFA and blocking counters, the other automations, the
choice of an applet host, the nightly deletion of records (section 8).

## 3. Modules

Every component module states its constants and their assumption, its variables,
one action per step of the code, the next-state relation, and its properties. Its
definitions keep the names of the code where they can. A definition whose comment
says *mutant* or *faulty* is a wrong variant of the one after it; `PROJECT.json`
uses it to show that a property notices the difference, and no specification uses it.

| Module | What it models |
|---|---|
| `SecretRotation` | the whole life of a change or push execution, its recovery, the requests about its records |
| `SecretCustody` | the abstract promise: a secret is written down before it is applied, only by the holder of the account, and stays written down |
| `WorkerWatch` | how the periodic check finds executions whose worker is gone: the part `SecretRotation` calls `Gone(e) \/ Overrun` |
| `SessionEndQueue` | the keys QUEUED, READY, PROCESSING, the debounce and the delayed task that change a secret after a session |
| `VaultedAccounts` | one secret between a row and an external vault that is in no transaction |
| `MountMove` | the copy of all current secrets to another mount of the vault |
| `TicketFlow` | requests that open and decide tickets: reads, row locks, uncommitted rows, commits |
| `TicketDecision` | the abstract ticket: steps approved one after the other, one end, one effect |
| `TicketSerial` | the serial number of a ticket between a distributed lock and a unique index |
| `ConnectionToken` | a token between its requests, each of which reads, checks and writes in separate steps |
| `AppletAccounts` | the choice of an account of an applet host by keys in the cache |
| `AuthGuard` | `authenticate` and the method of the user model it replaces for the whole process |
| `SessionLife` | sessions of a component, the keys its reports set, the pass that finishes the ones without a key |
| `PermTree` | rebuilds, marks and expiry of the tree of a user, in both modes |
| `PermTreeBuild` | what one rebuild computes: the nodes of the tree and the counts of the stack |
| `NodeMapping` | the mapping of nodes to assets in the memory of processes, its two locks, its expiry by messages |
| `NodeTree` | keys and marks of nodes through creations, moves and deletions of whole rows |
| `MergeDelay` | calls within some seconds merged into one run, with three dictionaries and no lock |
| `BulkLog` | records that threads collect in one list and one of them saves |
| `DistributedLock` | the redis lock: plain, reentrant, given back on commit, and what transactions, rollbacks and deaths make of it |
| `CountCache` | one hash of counts, filled by whoever misses a field, emptied by changes |
| `SettingCopies` | a setting, its copy in every process, and the messages that refresh it |
| `AccountDiscovery` | executions that compare a host with accounts and rows, and users who handle what they report |
| `JobRun` | the execution of a job between its task, requests to stop it and the hourly clean |
| `MC_SecretRotation`, `MC_Trees`, `MC_Access`, `MC_Services`, `MC_Delays`, `MC_Upkeep` | instances for TLC |
| `SecretRotation_proofs` | theorems about the rotation |
| `TicketFlow_proofs` | about tickets, serial numbers, `AuthGuard` and accounts of applets |
| `VaultedAccounts_proofs` | about the vault and its mount, the session end queue, tokens, sessions, trees of users, rebuilds and the node tree |
| `WorkerWatch_proofs` | about the watch, records, merged calls, counts, jobs, locks and discovery |
| `Trees_proofs`, `Access_proofs`, `Services_proofs`, `Upkeep_proofs` | about everything the run of the `MC_` module claims; the first also about `NodeMapping`, the last about `SettingCopies` |

### SecretRotation and the code

| Variable | Code |
|---|---|
| `exe[e]` | the `AutomationExecution` row; `kind` and `targets` are in its snapshot; `src` is the execution whose records it works on (itself, or for a retry the earlier one, taken from `record_map`) |
| `rec[i][a]` | the record `i` made for `a`: status, old and new secret, account version, verification status |
| `acct[a]` | `Account` row: secret, version, and the secret in the newest history row |
| `remote[a]` | what the host accepts; external |
| `lock[a]`, `task[a]` | redis keys: owner of the lock, `execution_id` in the PROCESSING status |
| `pc[e]`, `step[e][a]` | where `run`/`do_run`/`post_run` of the worker is, and what it did with one account (`step` also stands for `account_locks`, the runners and the inventory mapper) |
| `outcome[e]`, `tally[e][a]` | `self.status`; in which of `ok_accounts`, `fail_accounts`, `unverified_accounts` the account is counted |
| `cb[e][a]` | ansible's report, with the reason code of `change_secret`: `ok`, `sync` (changed, probe inconclusive), `unknown` (inconclusive, not known to be changed), `failed`, or nothing |
| `loaded[e][a]` | the `Account` object in the worker's memory |
| `cleaning[e]` | accounts whose keys a running recovery has still to clear |

The life of a worker is `Create`, `PreRun`, `LoadAccounts`; for each account
`FilterOut | Acquire | Reject`, then `CreateRecord | RecordThenFail | PrepareFails`;
`Prepared`; for each batch `StartBatch`, `RunHost` for its hosts, `RunnerEnds`
(finished, stopped, raised), then one of `HostSuccess`, `HostError`, `HostIncomplete`
per host, each followed by `Free`, and `EndBatch`; `Stop` or `NoMoreBatches`;
`FinalizeClear` per account and `Finalize`; `SaveExecution`; `ReleaseAll`. `Abort`
leaves the preparation; `Crash` may come between any two steps. A database
transaction is one step; redis and database are never written in the same step,
except that a status set right after a save (`CreateRecord`) or a clear that only
undoes the worker's own lock is kept with it: what a crash in between leaves (a
record without a status; a rejected account still locked) is also left by a crash
just before, up to a key that nobody reads.

`Saved` follows `AccountHistoricalRecords.post_save`: the version grows when the
object's secret differs from the newest history entry, even if the secret column is
not among the saved fields. `Touched` is `VaultQuerySetMixin.update`, which re-reads
the rows and sends `post_save`.

`Overrun = TRUE` lets locks and statuses expire under a live worker and lets the
recovery take a live worker for dead: the configuration without a total timeout, or
a broker that is partitioned. `Overrun = FALSE` says the total timeout, which is
below the lock's, ends a worker before its lock expires.

### Abstractions

* One account secret; passwords and keys are alike. `Secret` is a small set; a new
  candidate is fresh unless `Recurring`, which stands for a secret chosen by hand.
* Secrets are stored in the row (local vault).
* `change_secret_status`, progress, summaries in text, e-mail and logs are left out.
* Records whose account was deleted, pushes of accounts with an empty secret, and
  users who edit a secret by hand are left out, as is the nightly deletion of records.
* Redis answers a live worker. That the recovery loses redis half-way is modelled.
* A gateway that is not ready is a `Stop`; a failed and an inconclusive verification
  are both `"no"`, since no restore distinguishes them.
* How a missing worker is found is abstracted to `Gone(e) \/ Overrun`.

### The other modules and the code

**WorkerWatch.** `row`, `celery` and `marker` are the execution rows, the
`CeleryTaskExecution` rows and the key `account_automation:missing:<id>`; `task` is
what a worker does. A pass of the check is several actions (`BeginCheck`,
`CloseEnded`, `Inspect`, `Look`, `EndCheck`), because rows, Celery states and replies
are read at different times; the closing transaction (`Finalize`) reads its row
again. `Kill`, `Cut`, `Revoke`, a save that raises and a pass that raises
(`CheckFails`) are counted in `faults`. An exception of the last save leaves `run`, so it
ends the task and the row stays open (`Save`). A tick is the ten minutes of the beat.

**SessionEndQueue.** `key`, `lock` and `debounced` are the cache keys with their
expiry, `task` the Celery tasks with their countdown. `End` is
`enqueue_change_secret_task`; a task first turns every QUEUED key into READY
(`scan`), then handles its accounts one by one. A change is the lock, an attempt on
the host, and the clear of the key; what the attempt does is `SecretRotation`. An account
may also fail in the preparation (`FailToPrepare`), with or without the lock: its key is then
cleared twice and nothing was attempted. A task that is due waits for a worker of the ansible
queue as long as it takes, so `Tick` may let its QUEUED key expire first; `late` remembers the
ends that lost their key in this way, `refused` those that met the key of a change already
made, `wiped` those whose key was cleared by a change that had not set it.

**VaultedAccounts.** `row` is the committed `_secret`, `draft` what the transaction
that holds the row has written, `vault` the entry, `copy[x]` the instance a request,
an update or the transfer task works with. A call of the vault may fail before or
after it wrote. `enabled` changes when the processes restart. `Save` distinguishes a request
that gives a secret from one that carries the secret it loaded (`carries`): the latter, when
another has committed since its `Load` (`stale`), puts the older one back, which `undone`
remembers until a secret is given again. `last` is the last secret that was *given*.

**MountMove.** `mount` holds the entries of both mounts, `todo` the listed paths a
move has still to visit, `client[c]` the mount a process writes to until it has
heard of the new setting.

**TicketFlow.** `db[t]` is the committed ticket with its steps, assignees and what it
granted; `req[r]` is a request with the rows it has *read*; `work[r]` is what it has
*written* and so the row locks it holds. `Receive`, `Read` (with the check of the user
against the rows as read), `Decide` (under the lock, on the row read again), `Refuse`,
`Commit` and `Die` are separate steps. `TicketSerial` has the part of opening that `Open`
leaves out.

**ConnectionToken.** `Read` takes a copy of a row if the request accepts it; the
action named after the request finishes it on that copy and writes either one column
or, for a renewal, all of them. `passed` are the tokens whose approval arrived.

**AppletAccounts.** `keys` are the cache keys `applet_host_accounts_...` reduced to
their account and applet, `chosen[c]` the account of a connection; choosing and
setting the key are two steps, and any connections may choose at once. A key is set for a
day and never renewed: `KeyExpires` may take it at any time, also under its connection
(that only makes more orders possible, as time is not modelled here). `spoilt` are the
accounts of which a chooser could not see that they are in use, until nobody uses them.

**AuthGuard.** `patched` is whether the model's `get_or_create` is the custom one,
`mark` the thread-local flag it looks at.

**SessionLife.** `left[s]` is the life of a session's key, `todo` and `doomed` are
where the cleaning pass is, `task[s]` the kill task.

**PermTree, PermTreeBuild.** `built` is the redis set, `tree[o]` the committed rows of
one organisation, each with the rebuild that wrote it and the permissions it was made
from; `work[p]` is what a page has written and not committed. `Check` is the hourly task,
which unmarks the organisations of the users some permission still names (`named`, the
organisations whose version is in `Granting`) and perhaps others. What a rebuild writes
is `PermTreeBuild`, with the shortcut for an org root that is the only granted node
(`only_root`: nothing is counted, the row keeps its amount `stored`), where every initial state is one set of nodes, assets and grants
and the actions are the turns of the loop of `compute_tree_node_assets_amount`.

**NodeMapping.** A mapping is the version of the database it was read at. `call[t]`
is one call of `get_node_all_asset_ids_mapping`, with the lock of the process
(`inside`) and the distributed one (`lock`); `expiring` and `inbox` are the merged
call that expires and the messages it publishes.

**NodeTree.** `request[r].obj` and `.objs` are the objects a request has read and later
saves whole; `written` is what it has saved and not committed. `CreateChild`,
`MoveOne` and `Delete` are the loops of the views, a node at a time.

**MergeDelay.** The three dictionaries of `merge_delay_run` are `argsCache`,
`taskCache` and `timeCache`; a call is `Get`, `Merge`, `Cancel`, `Schedule`, a run is
`Start`, `Run`, `PopTask`, `PopArgs`, `PopTime`.

**BulkLog.** `cache` is the list, `batch` what the holder of the lock took from it.

**DistributedLock.** `owner` is the value of the key, `mark[t]` the thread-local
`locked_by` of a reentrant lock, `open[t]` the `with` blocks a thread is in, `txn[t]` its
transaction, `due[t]` the releases handed to `on_commit`. The key is renewed as long as a
lock object lives, so it expires (`Expire`) only when its object is gone: its thread died,
or a rollback forgot its release.

**CountCache.** A count is the number of changes it has seen. `hash` is the redis hash,
`reader[r]` a request with its `Cache` object (`data`) and what it has counted and not
stored (`got`), `pending` the fields whose expiry waits after a commit. A field in `Timed`
also changes with the clock (`Pass`: counts of this week or today), and a change of one in
`Unmapped` may schedule nothing, because the receiver looks up `type(instance)`; `unheard`
are the fields that changed so. `Losses` adds the
delayed call of the signal handlers, which may come before the commit (`ExpireEarly`), is
run although the transaction was rolled back, or dies with its process (`Lose`).

**SettingCopies.** `db` is the row as the number of its changes, `copy[p]` the value in
`settings`, `link[p]` the subscription, `inbox[p]` the messages on it, `read[p]` what the
handler has read and not set. A message published while the subscription is not up is
lost, as are the messages of a connection that breaks. A handler that raises loses its message
(`HandlerFails`), and a first load that fails leaves the process with the `Default` of its
configuration (`StartFails`); `missed[p]` remembers any of these until the next complete read.

**AccountDiscovery.** `remote` and `accounts` are the names the host and the database have,
`row` and `risk` the `GatheredAccount` and `AccountRisk` rows; `run[g]` is an execution
with the sets it has read (`Scan`, `Prefetch`, `LoadRisks`), followed by its statements
one by one (`CreateRows`, `UpdateStatus`, `SyncAccounts`) and the transaction `Flush`.
`request[h]` reads a risk and saves the whole object (`Read`, `Finish`).

**JobRun.** `row` is the execution, `task` and `copy` the Celery task and the object it has
read, `signal` what is on its way to it, `pass` the hourly clean that has found the row.

### How one run explores several modules

`MC_Trees`, `MC_Access`, `MC_Services`, `MC_Delays` and `MC_Upkeep` each instantiate several
components side by side. Their variables are disjoint, and in the code these
components do not share state either, except for the inputs named in section 1, so
interleaving them with each other would only multiply their states without adding a
behaviour of any of them. Instead a variable `part`, chosen at the start and never
changed, says which component a behaviour is about; the other variables stay as they
began. The states of a run are then the sum, not the product, of those of its parts.
A property of such a module is the conjunction of what its parts claim for one reason
(for example that calls end), each restricted to its own part; the mutants in
`PROJECT.json` break the conjuncts one by one. Several instances of one module
(`Small` and `Large`, `Token` and `Pair`, `Single` and `Many`, `Watch` and `Lone`, `Alone`
and the log of two threads) are parts of their own.

## 4. Runs

| Run | Instance | Question | States |
|---|---|---|---|
| `rotate` | 1 account, 2 executions, change and retry, 3 secrets, verify and restore | `TypeOK`, nothing pending without an owner (`PendingIsOwned`), `NoSilentDivergence`, `SuccessIsSynced`, `TerminalIsFinal`, refinement of `SecretCustody` | 1.7 M |
| `pushes` | 2 accounts, 2 executions, batches of every shape | `LockHeldWhileWorking`, `SuccessIsComplete` | 1.6 M |
| `overrun` | 1 account, 2 changes, locks expire and recoveries come under live workers | `RemoteRecoverable`: the secret is still on the row or in a record | 1.9 M |
| `forced` | 1 account, change and push, forced restores, repeated secrets | refinement of `SecretCustody` | 0.9 M |
| `live` | 1 account, 2 executions, change and retry, 2 secrets, every save may raise, fair | `ExecutionsEnd`, `LocksEnd`; a record stays pending only behind an open execution or a failed save (`PendingIsOwned`) | 0.18 M |
| `stale_old` | as `rotate` | **fails**: see section 7 | |
| `trees` | mapping: 2 processes, 3 threads, 2 changes, 1 failure; trees: 2 organisations, 2 pages, 2 changes (the second takes the last permission), 1 failure, small and large; rebuild: 4 keys, 2 assets, every choice; nodes: 3 requests of any kind in a row on a chain with a sibling, 3 creations at once | `TypesOK`, `MemoryIsFresh`, `UserTreeIsRight`, `NothingOlder`, `TreeStaysWhole` | 1.02 M |
| `trees_live` | mapping: 3 threads, no change, 1 thread killed; tree: 1 organisation, 3 pages, 2 changes of which the first names the user and the second no longer does, 1 failure; 3 creations; fair | `CallsEnd`, `EventuallyCurrent` | 0.04 M |
| `access` | tickets: 2 requests, 3 users, flows with one and two steps, and two tickets in bulk; serials: 3 openers, 2 days of 2 numbers; applets: 3 connections of 2 users, choosing at any time, keys that expire at any time, 2 applets, 3 accounts, hosts with and without concurrency; 3 threads and 3 backends; fair | `TypesOK`, `GrantNeedsEveryStep`, `ApprovalsCount`, `NothingIsGivenTwice`, `DecisionSpec`, `OnlyAloneIsGuarded`, `CallsEnd` | 0.30 M |
| `services` | log: 2 threads with 3 calls, 1 thread with 4; watch: 2 tasks with an execution each and 1 fault, 1 task with 2 executions and 2 faults; vault: 2 editors and the transfer, 1 editor, 1 update and the transfer, 3 saves; mount: 2 paths, 2 processes, 3 writes, 2 moves; queue: 2 sessions, 2 delayed tasks and 1 by hand, 2 workers, keys of 4 ticks, 5 ticks; 2 sessions of a component with keys of 2 ticks; 3 delayed calls; counts: 2 requests, 2 fields of 1 change, one with the clock and one that may go unheard, and 1 field of 2 changes whose expiries are lost or early; tokens: 1 token and 2 requests, 2 tokens and 1 request | `TypesOK`, `NothingForgotten`, `WrongCountHasReason`, `OnlyGoneIsClosed`, `SecretsStay`, `TokenRules` | 2.79 M |
| `delays` | queue: as above with keys of 3 ticks and 3 ticks; 1 session of a component; 2 delayed calls; watch: 1 task with 2 executions, 2 faults and a deadline of 2 ticks; fair | `NothingStaysOpen`, `ExecutionsClose` | 0.15 M |
| `upkeep` | counts: 2 requests and 1 field of 2 changes whose expiries are lost or early; locks: 2 threads, 4 lock objects, plain on commit, reentrant, and both, with deaths and rollbacks, and 3 objects with all of it; a setting: 2 processes, 2 writers, 2 changes, 2 faults of any kind; discovery: 1 user, 3 executions in a row or 2 at once, with and without synchronised accounts, 2 changes, 1 handled risk; jobs: 1 or 2 workers, 2 requests to stop; fair | `TypesOK`, `OldNeedsAMiss`, `WorkIsOwned`, `DiscoveryIsTrue`, `EndsWell` | 0.38 M |

Why the bounds are enough to be interesting: two executions give every pair of
worker, rival, crashed worker, recovery and retry of the first's records; three
secrets give the first secret and a fresh candidate for each execution; one account
suffices where accounts do not interact (they meet only in batches, counts and
`Finalize`, which `pushes` covers with two). In the other modules two actors give every
pair of a reader and a writer, or of two writers, and a third one is there where two may
both be behind another (threads of two processes, openers of tickets, delayed calls). In
`upkeep`, one user of the host is enough, since no statement compares two of them; three
executions in a row let one lose, the next find and the last repair; two changes of the
host or of the accounts undo each other; four lock objects let both threads enter twice or come back once; one
worker alone is needed because only when no worker without the task answers does a stop
take the other way. In `services`, two fields show what one request stores of a field another
has expired; a second execution of one task shows what becomes of the first, and a second
task what the reply of one worker says of the other; the deadline is one tick more than the
grace and two observations need. In the session end queue a task is due after 2 ticks and
the key lives 4 (3 in `delays`), and the tick after that is there too, so that keys are found
in time and expire under a task that waits (in the code it has 40 seconds). READY and
PROCESSING, which live an hour or as long as a lock, outlast every behaviour of the run. In
the applets three connections are enough: two may choose one account at once, and the third
is refused or releases between them; a longer queue only repeats this. Deadlock is not checked where every
execution may have ended: the system may stop.

State constraints are named in `MC_SecretRotation`: `NoRequests` (no verification, and so no restore
but a forced one; used in `overrun`, `forced` and `live`, where it is not the question), and in `overrun` also `NoErrors` (an interrupted execution is canceled: no guard that
matters there tells the two statuses apart) and `StatusFirst` (the status of an account
expires before its lock), which keep the instance small.
Symmetry is used in safety runs only: those of the rotation and `trees`.

For every property of a run `PROJECT.json` names a mutated definition that breaks it. The
comments of the rotation properties say which cases they except: a push applies the old
secret of its copy, a forced restore stores a candidate nobody has tried, and a worker that
outlasts its lock writes over another, so `NoSilentDivergence` is not claimed with these; the accounts a Windows asset drops are
excepted from `SuccessIsComplete`.

## 5. Fairness

*Rotation.* `FairSpec` assumes weak fairness of `Work(e)` (a process that is not dead goes
on: every wait of a runner has a timeout), of `Recovery(e)` (a periodic task that runs for
ever; its body is one attempt per open execution), and of `LockExpires` and `TaskExpires`
(keys with a TTL). A crash, `RecoverStops` and the operator's requests are not fair:
nothing makes them happen. Weak fairness is enough because each of these stays enabled
until it is taken.

*Trees.* A thread that holds no lock goes on, keys expire, merged calls run and messages
are read (weak). A lock is given to each waiter (strong): callers poll redis until they
get it, and a thread cannot wait for ever while others come and go. Where two conditions
stand in one formula of `MC_Trees` they belong to different parts; since `part` never
changes, the formula is the condition of the part a behaviour is in.

*Requests.* In `MC_Access` requests and openers of tickets go on once begun, and the lock of
the serial numbers expires. A waiter for a row lock is served because the database hands it
over; that nobody waits in a circle is what `CallsEnd` shows.

*Delays.* Time goes on, the beat comes again, a task that is due is taken, a worker that died
is started again; a network that is cut may stay cut. In `SessionLife` a tick is strongly
fair, for it waits for reports of live sessions.

*Upkeep.* A request goes on and gets a lock that is free again and again (strong, as above),
a key without an object expires, a thread leaves its `with` blocks and ends its transaction,
a writer ends its transaction and publishes, a process is started again and subscribes
again for ever (`Subscription.retry`), the handler reads a row that is not locked again and
again, and the clean of executions comes every hour. A task and a request to stop it may
hang for ever, and processes may be killed.

## 6. Proofs

Every theorem of a component holds for all values of its constants that satisfy the named
assumption of its module, which TLC evaluates for each instance: names are distinct, sets of
keys are finite, flags are Booleans, bounds are natural numbers. What a run claims was
checked by TLC before it was proved. A proof module holds the theorems of several
components: one by `EXTENDS`, the others by `INSTANCE` with variables of their own.

| Theorem | Module | States |
|---|---|---|
| `TypesHold`, `LocksHold` | `SecretRotation_proofs` | `TypeOK`, `LockHeldWhileWorking` |
| `SecretsSurvive` | | `RemoteRecoverable` |
| `RotationKeepsCustody` | | `CustodySpec`, if `~Overrun` |
| `SuccessesAreComplete` | | `SuccessIsComplete` |
| `ClosedStaysClosed`, `PendingHasOwner`, `SuccessesAreSynced` | | `TerminalIsFinal`, `PendingIsOwned`, `SuccessIsSynced`, each with the condition `~Overrun` it states |
| `DivergenceShows` | | `NoSilentDivergence`, with the conditions it states |
| `FlowDecides`, `GrantsAreApproved`, `EveryApprovalCounts`, `FinishedStays`, `TypesHold` | `TicketFlow_proofs` | of `TicketFlow`: `DecisionSpec`, `GrantNeedsEveryStep`, `ApprovalsCount`, `ClosedIsFinal`, types |
| `SerialsHaveNoGap` | | of `TicketSerial`: types, `SerialsDense`, `FullMeansFull` |
| `MethodComesBack`, `OnlyTheDisturbedCreate` | | of `AuthGuard`: types and `NoLeak`, and who creates a user |
| `AccountsAreExclusive` | | of `AppletAccounts`: types, who shares an account, `UsedHasKey`, each but for `spoilt` accounts |
| `MarksHaveEntries`, `SecretIsKept`, `TransfersKeep`, `VaultTypes` | `VaultedAccounts_proofs` | of `VaultedAccounts`: `MarkedIsInVault`, `NoLostSecret` (which excepts `undone`) without `Updaters`, `TransferKeepsSecret`, types |
| `MovesReplaceNothing`, `ComparedSecretsAreMoved` | | of `MountMove`: nothing is replaced, and what is switched to was compared |
| `EndsAreNotForgotten` | | of `SessionEndQueue`: types, `NoneForgotten`, which excepts `refused`, `wiped` and `late` ends |
| `GatesPassed`, `RacesAreBounded`, `TokenTypes` | | of `ConnectionToken`: `GatePassed` and `UsedIsDead`; `GivenInTime`, `RevivedByStale`, `UndoneByRenewal`; types |
| `SessionsInTouchStayOpen` | | of `SessionLife`: types, and what the cleanup leaves open |
| `TreesAreCurrent`, `NoTreeGoesBack` | | of `PermTree`: types, one part for an organisation, fresh parts are current; `NoOlderTree` |
| `RebuildsAreRight` | | of `PermTreeBuild`: types, `AmountsAreVisible` (with `only_root`: the amount stored before), `PopIsFinal`, `TreeIsComplete` |
| `NodesHaveKeys`, `SerialTreesStayWhole`, `LockedCreationsSucceed` | | of `NodeTree`: types; a whole tree after any serial requests of one node each; creations at once, all under the lock |
| `WatchIsSound`, `OnlyGoneCloses`, `ResultsStay`, `WatchTypes` | `WorkerWatch_proofs` | of `WorkerWatch`: the invariant, `ClosesGone`, `KeepsResults`, types |
| `RecordsAreSavedOnce`, `AloneNothingIsLost` | | of `BulkLog`: types and what is saved; what one thread loses |
| `UndisturbedCallsAreKept` | | of `MergeDelay`: types, whose arguments may be lost |
| `WrongCountsAreExcused`, `CountsAreBounded` | | of `CountCache`: `StaleNeedsARace`, which excepts `unheard` changes too; types |
| `RunsAreWorkedOn` | | of `JobRun`: `RunningHasWorker` |
| `LocksAreHeld`, `LockTypes` | | of `DistributedLock`: `HeldWhileInside`, unless `Reentrant /\ OnCommit /\ Rollbacks`; types |
| `DiscoveryTypes`, `IgnoredRowsStay`, `QuietRunsRepair` | | of `AccountDiscovery`: types, what a user ignores stays, what an undisturbed execution leaves is right |
| `MemoryStaysFresh`, `OneLoadsAtATime`, `NothingOlderIsStored` | `Trees_proofs` | of `NodeMapping`: `MemoryIsFresh` and two more |
| `TreesTypesHold`, `UserTreesAreRight`, `NothingGetsOlder`, `TreesStayWhole` | | of `MC_Trees`: `TypesOK`, `UserTreeIsRight`, `NothingOlder`, `TreeStaysWhole` |
| `AccessTypesHold`, `AccessGivesNothingTwice`, `AccessGuardsTheAlone` | `Access_proofs` | of `MC_Access`: `TypesOK`, `NothingIsGivenTwice`, `OnlyAloneIsGuarded` |
| `ServicesTypesHold`, `NothingIsForgotten`, `WrongCountsHaveReasons`, `OnlyGoneAreClosed`, `SecretsAreKept`, `TokensObeyTheRules` | `Services_proofs` | of `MC_Services`: `TypesOK`, `NothingForgotten`, `WrongCountHasReason`, `OnlyGoneIsClosed`, `SecretsStay`, `TokenRules` |
| `OldIsTold`, `SettingTypes` | `Upkeep_proofs` | of `SettingCopies`: `OldNeedsAMiss`, where a miss may be a message, a handler or a load; types |
| `UpkeepTypesHold`, `WorkersOwnTheirWork`, `DiscoveriesAreTrue` | | of `MC_Upkeep`: `TypesOK`, `WorkIsOwned`, `DiscoveryIsTrue` |

### Rotation

*Locks and secrets.* The inductive invariant is
`IInv == TypeOK /\ Registry /\ LockInv`. The types alone are not
inductive: `HostSuccess` copies `rec.new` to the account and `RunHost` to the host, and that
this is a secret and not `None` needs `Registry`: an account past its lock has a record, a
record of a change has both secrets, and a retry's record belongs to a change. `LockInv`
adds to the claim about locks that a recovery clears keys only for a worker that is gone,
without which `RecoverClear` could take a lock from a live one. Most actions leave
`Registry` alone for the same reasons, stated once as `RecKept`, `ExeKept` and
`WorkersKept` (lemma `Steady`); the ones that do not (`Create`, `LoadAccounts`,
`CreateRecord`, `RecordThenFail`) have their own steps.

*Custody.* The argument is the ledger of an account: the secrets in its records, or the
first secret before the first record. `SecretsWritten` says that the account row, the host
and every worker's copy hold only secrets of the ledger; only a new change record moves the
ledger, and only by adding its candidate (`OnlyNewRecords`, `LedgerGrows`). So what is known
of an account is its ledger, which gives recoverability and the refinement mapping at once;
the refinement also needs `LockInv`, for whoever writes down or applies a secret is the
holder.

*Results.* Each has an invariant of its own on top of `IInv`. `SuccessesAreComplete`: an
account an execution was started for and that nobody handles any more is in one of the
tallies, so that an outcome without failures is one of successes (`AllComplete`).
`ClosedStaysClosed`: a live worker before its release has an open row (`StatusInv`),
because a recovery takes only the rows of the dead. `PendingHasOwner`: a record is owned by
the execution it was made for or by the retry that works on it, and both a final save and a
recovery resolve all they own. `SuccessesAreSynced`: a host that reported success and is not
written back has the candidate (`DeliveredInv`), since only the holder of the lock changes
the host.

`DivergenceShows` needs most (`DivergenceInv`). `NoSilentDivergence` (`Evident`) is not
inductive, because a restore copies the candidate of a record that was verified some time
ago. `VerifiedOf` says that the candidate of a verified record that still fits the account
is the secret of the host, unless a record shows that the two sides differ. To keep this
when an account moves on, such a record must not come to fit again: `FormerOf` says that a
pair of secret and version that records or copies hold, once left, does not come back,
which is what the version is for. `BatchOf` covers the attempts under way: what a worker is
about to send is in a record that shows it, or a restore has copied it meanwhile. A step is
then one of five kinds (`Outcome`: calm, a run of a host, a write back, a probe, a restore),
and each kind keeps the four parts.

### Who gets in

*Tickets*, for flows of any length. The invariant says that committed
rows are sound (the steps before the current one are approved by one of their own assignees,
a grant is what was applied for), that an uncommitted row is one decision away from the
committed one, that no two requests have written one row, and that a request has still to
do only tickets that exist. The second is the refinement: a commit is a step of
`TicketDecision` for each ticket it writes, because nobody else could change the rows
meanwhile. `EveryApprovalCounts` compares two cardinalities (`CountInv`): a commit adds one
request to the ones that approved a ticket exactly when it adds one approved step to its
row.

*Serial numbers* (`SerialInv`). The committed tickets of a day have the numbers 1 to their
count, and at most one ticket of the day is written and not committed, with the next number.
A number read under the lock is the next one, or the one that a ticket took which was written
then and has been committed since; the unique index refuses the latter.

*The patched model* (`GuardInv`). A thread inside that nobody disturbed finds the method that
refuses, and with nobody inside there is none. *Applets* (`HostInv`). Two connections with one
account share it as the settings allow (`Apart`), and who uses an account that is exclusive
has its key, both unless the account is spoilt. So whoever chooses an account that no key
names and that another has got finds one who has not set the key yet or whose key has
expired, and either spoils the account (`ChoiceKeeps`).

*Tokens* (`TokenInv`). A copy that a request works with agrees with its
row in the columns nobody writes again (when it was made, its rule); a request that will
write the expiry had read a token that was not used up; a token that exists was made before
the permission went. `RacesAreBounded` follows by cases on the action.

*Sessions* (`LifeInv`). The key of a session that is reported in time lasts for its life less
the silence of its component, so that no pass finds it gone.

### Where secrets are

*The vault* (`VaultInv`). Who has the row locked works on a draft it knows
(`Holders`). Every mark, in the row or in a copy that may still be saved, was made after the
vault took a secret (`Marks`); while the vault is off nobody has one, since it is switched
off with the rows restored and a restart forgets the copies. For the secret itself (`Custody`), a mark stands
for the last given secret or for one that a save left behind when it was rolled back, and a
request that loaded after the last commit of another has no other secret to carry (`Known`),
unless an older one was put back. This part, and `SecretIsKept`, assume that there are no updates outside a transaction: with them
it is false (section 7).

*The mount* (`MountInv`). Until the setting is switched every process writes to the old mount,
and while a move compares, each path it has compared is the same in both or was written since.

*The session end queue* (`QueueInv`). The keys belong to the tasks that are on their way: a
QUEUED key has a task that will find it, or is overdue when the key expires (`QueuedInv`),
READY is the key of a task that will take it, or clear it because it could not be prepared
(`ReadyInv`), and a debounce has a task that waits. So an end that was neither followed nor
met one of the three accidents is `Awaited` (`EndInv`). Of the settings only
`Debounce <= Countdown < QueueTTL` is assumed, which the code's defaults satisfy.

### Trees

*Mappings of nodes* (`IInv`). The cache is never filled
(`NothingCached`), who holds a lock is where it is used (`LocksOwned`), what a thread has
read is as new as the memory it will replace (`ReadIsFresh`), and no memory is of the
future.

*Trees of users* (`TreeInv`). One page works under a lock that has not expired; what it has
deleted and written is in its own rows (`WorkInv`), the committed parts are never newer than
the permissions (`PartsInv`), what it has read is what it will store (`ReadInv`), and a part
that is marked is in the tree or was read by a page that has it (`MarkInv`).

*Rebuilds* (`BuildInv`). The code sorts the nodes by their keys and walks over them with a
stack. The order is total, and what stands between a key and one below it is below it too
(`BelowIsTogether`). Sorting is `CHOOSE` over the arrangements; that there
is a sorted one is shown by giving each key the place one after the keys before it. The loop
keeps: the stack is a chain (`StackInv`), what has left it is not above what is to come
(`OrderInv`), and the node at place `i` of the stack has collected the assets of what is at
and below it and was not below the next one (`AssetsInv`). A granted org root that is the only
node takes no turn of the loop (`Uncounted`). Where one would use induction over the
keys, a least number is taken (`LeastNumber`).

*Nodes.* `NodeTypes` says in particular that no two nodes have one key, also in what a
request has written and not committed. `SerialTreesStayWhole` assumes one request at a time
that selects one node. A request has then touched nothing or ended, or what it sees is a
whole tree: each step of a creation, a deletion or a move makes a whole tree of one, and a
move changes the keys at and below the node it moves and no others. For creations at once
(`GrowInv`) the parent a request has read before the lock is still there when it has the
lock, because a creation changes no key.

### What runs behind requests

*The watch* (`WatchInv`). That the check closes nothing that lives rests on facts which are
spread over the pass. Of a task that lives only one execution is open, the one
at work; it is younger than the deadline; it is marked as missing only after a reply has
left it out (`missed`), and when a reply leaves it out there is no mark yet, so this is the
first observation and closes nothing. What the pass calls
ended or revoked is over, since a status of Celery that is final does not change back. The
two assumptions on the settings that the code's defaults satisfy are needed here: a mark
lives longer than the time between two observations, and the deadline is longer than the
grace.

*Records* (`SavedInv`). What was saved and is still in the list is the batch of a thread that
is about to clear it. *Merged calls* (`DelayInv`). The arguments of a call that has returned
are in the dictionary where its own run finds them (`Safe`), or a run waits for them
(`Waits`), or an undisturbed call is about to put them into its run (`TakenOver`), or the
call was disturbed. *Counts*. What a request has counted and not stored has the same excuses
as what is in the hash; a change nobody hears is one of them until the field is counted again.

*Jobs*. Nothing has begun before a worker has the task, and a runner that ended has a status.
*Locks*. The objects of a thread are its own and used once; with a plain lock a thread has one
context or the release it left (`Single`); with a reentrant one the mark of a thread is the
key, and its outermost context, or one release that waits, will give it back (`Marked`). A
rollback that forgets this release breaks `Marked`, hence the exception. *Settings*. What a
handler has read, and not only what a process uses, is old only while the process is going to
be told, or something has failed it since it last read.

*Discovery* (`Quietly`). Of an execution that nothing has interfered with, the invariant says
for each statement what it has made true so far: the users it knows are those of the host, the
rows follow host and accounts as far as the statements have come (`RowFollows`), a row that
was ignored is as it was, and the risks are those that the differences call for
(`RisksRight`). Nothing is assumed of the rows at its start, so that it repairs what earlier
executions, requests and changes left.

### From the components to the runs

For the parts of a run a lemma `Same...` says that the instance with the constants of the run
and the one of the theorem have the same steps, and a lemma `...Holds` that a behaviour which
begins in the part stays in it and is one of the component. A property of the run is then the
conjunction of the theorems, proved of the whole specification of the run. Where a run checks
a property of one component (`MemoryIsFresh`, `GrantNeedsEveryStep`, `ApprovalsCount`,
`DecisionSpec`, `OldNeedsAMiss`), the theorem is about the component's own specification.

### Only model-checked

All liveness (`ExecutionsEnd`, `LocksEnd`, `CallsEnd`, `EventuallyCurrent`,
`NothingStaysOpen`, `ExecutionsClose`, `EndsWell`): it needs fairness and `ENABLED`, which
this prover does not handle. The run `stale_old` shows a behaviour, which nothing has to
prove. Every other property of a run is stated by a theorem.

## 7. Where the code and its comments disagree, and limits that were found

`change_secret/manager.py:58` says that the old and the candidate secret are persisted
before the host is touched. They are, but the old one comes from an `Account` object that
`load_accounts_by_asset` (`base/manager.py:228`) read before the lock was taken. When another
execution finishes the account in between, the new record holds a secret and a version the
account no longer has. The candidate is still stored, so `RemoteRecoverable` holds; but if
the worker then dies after the remote change, the restore of that record is refused as a
conflict, since it compares both (`api/automations/change_secret.py:229`). The run
`stale_old` shows the record.

The properties are stated as far as the code keeps them. Where their comments except a case,
it is one of these:

*Rotation and secrets*
* The request that saves an account without a new secret saves the one it has loaded, and so
  puts it back over what another has committed since (`models/mixins/vault.py`, a save of the
  whole row). `NoLostSecret` excepts what follows until a secret is given again.
* The end of a session can be forgotten: if the delayed task waits for an ansible worker longer
  than the QUEUED key outlives the countdown (`late`); if a change that does not get the lock,
  or cannot prepare the account (`base/manager.py:335`, `:380`), clears a key that it did not
  set (`wiped`); or if the key of a change already made is still there (`refused`).
* `QuerySet.update` of accounts writes the vault although the callers mean other columns
  (`models/mixins/vault.py:39`); a secret may be lost that way, so `NoLostSecret` is claimed
  without such updates. A secret that is cleared leaves a marked row that cannot be restored.
* A move of the mount that was aborted leaves copies that make the next move fail, and a
  process that has not heard of the switch goes on writing to the old mount.
* A verification of a record is never taken back (`accounts/api/automations/change_secret.py:205`).
  After the retry of an older record has put its secret back on the host, a restore of the
  newer record is accepted, and account and host differ although every record says success.
  It takes three executions, more than `rotate` has; `NoSilentDivergence` names this case, and
  its theorem covers any number of executions.

*Requests*
* A second ticket of one day whose serial number conflicts in the database fails.
* `AuthGuard` protects a login only while no other thread authenticates.
* Two connections get one account of an applet host if both choose before either sets its key
  (there is no lock), or if a connection outlasts the day its key lives
  (`terminal/models/applet/applet.py:374`; nothing renews it).
* The kill task of a session that lives can be dropped by the cleaning pass.
* `merge_delay_run` loses the arguments of a call only when the call, or one that took its
  arguments over, was overlapped by another call or by the end of a run. A call that was not
  overlapped itself can be lost in this way; it takes four calls, one more than a run of TLC
  has, and was found when a stronger claim could not be proved. `bulk_create_decorator` loses
  nothing only in one thread.

*Copies*
* The mapping of nodes is read from the cache but never stored there. A move of a node does
  not expire it. A tree can be marked as fresh although the rebuild was rolled back.
* The hourly task unmarks the trees of the users that a permission still names
  (`perms/tasks.py:42`). Who lost the last one during a rebuild, or whose expiry was lost, may
  keep the old tree, so `EventuallyCurrent` leaves this case out.
* A granted org root that is the tree's only node shows the amount its row had: what is
  computed is set on an attribute that nobody stores (`perms/utils/user_perm_tree.py:356`).
* `release_on_transaction_commit` is described as a release when the current transaction has
  ended (`common/utils/lock.py:37`), but a rollback forgets it and the key stays until it
  expires. A reentrant lock then also keeps its thread-local mark; no caller combines both
  with a transaction of its own, so `HeldWhileInside` leaves this combination out.
* `ComputeLock` is to keep the counts from being computed twice (`common/cache.py:15`), but
  `Cache.refresh` (`:158`) computes all of them without it when the hash is empty. A count
  that was expired before the commit of a transaction longer than 30 seconds stays wrong. A
  count of this week or today (`orgs/caches.py:90`) is kept when the day is over, and the
  creation of a `Host` or another subclass of `Asset` expires nothing, since the receiver looks
  for the exact type (`orgs/signal_handlers/cache.py:86`).
* What a process missed while its subscription was broken, or because its handler raised
  (`common/utils/connection.py:78`) or its first load failed (`settings/models.py:83`), it
  learns only with the next message.

*Discovery and jobs*
* A lost user is to be pending (`gather_account/manager.py:425`), but a later statement
  (`:457`) confirms every row that has an account; the risk is reported all the same.
* Of two discoveries of one asset the second can refer a risk to a row that was not stored
  (`:194`, `:526`); the risk is left out (MySQL) or the flush fails (PostgreSQL).
* Rows of accounts that a discovery creates say they are absent until the next one; such a
  discovery confirms ignored rows; the next discovery reopens an ignored risk.
* Adding an account for a risk without `new_found` raises after it has had its effects.
* `stop` revokes an execution as soon as one worker does not have it, also if it has begun
  (`ops/api/job.py:275`), where the comment speaks of one that waits in the queue. The
  result of a runner may overwrite a stop, and a runner's status without a name of its own
  is stored and is then neither running nor finished.

## 8. Not modelled

The status of each component is in `PROJECT.json`. Left out are

* the nightly deletion of records, also of the ones that hold the only copy of a secret: it
  would make `RemoteRecoverable` a statement about the days records are kept;
* the steps of a login, MFA, and the counters that block: each is one read and one write of
  a key per request, and a model would restate them;
* backup, verification and removal of accounts, checks of risks, and the risk actions that
  start other automations: they share the frame of rotation and write rows of their own;
* sharing of sessions, commands, replays, and the choice and deployment of applet hosts;
* process ids and machines in a stop of a job; a soft time limit that ends the task inside the
  handler of an error, and a runner that ends without a final status and has `running` stored
  again (`ops/models/job.py:457`); the mapping of organisations in memory;
* a first load of the settings that fails after a part of them (for the one setting modelled it
  either was loaded or not);
* asset automations, inventory and permission views, organisations, users, roles, labels,
  audits, notifications, reports: one transaction that stores what was sent;
* web entry points, static files, translations, and the vendored libraries.

The map covers a few percent of the repository's lines. Most of the others are serializers,
views, forms, migrations, settings and drivers without a state of their own.
