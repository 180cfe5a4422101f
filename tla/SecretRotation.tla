--------------------------- MODULE SecretRotation ---------------------------
(***************************************************************************)
(* Rotation of account secrets: the change-secret and push-account         *)
(* executions of apps/accounts/automations, the redis lock that keeps two  *)
(* executions off one account, the records that hold the candidate secret, *)
(* and the periodic recovery of executions whose worker disappeared.       *)
(*                                                                         *)
(* A worker prepares its accounts (lock, then record), runs them in        *)
(* batches on the remote hosts, writes each result back, and finally       *)
(* closes the records that got no result.  It may die between any two      *)
(* steps.                                                                  *)
(***************************************************************************)
EXTENDS Naturals, FiniteSets

CONSTANTS
    Account,      \* accounts whose secrets are rotated
    Execution,    \* identifiers of AutomationExecution rows
    Secret,       \* values a secret can take
    InitSecret,   \* the secret every account starts with, here and remotely
    None,         \* no owner of a lock; no secret in a record
    Kinds,        \* kinds of execution the instance starts
    Forces,       \* values of "force" operators pass to a restore
    Recurring,    \* BOOLEAN: a candidate may be a secret used before
    SaveFaults,   \* BOOLEAN: a database save may raise
    Overrun       \* BOOLEAN: a live worker may outlast its lock and be
                  \* declared missing (no total timeout, or a partition)

ASSUME ConstantsAssumption ==
    /\ InitSecret \in Secret
    /\ None \notin Secret
    /\ None \notin Execution
    /\ Kinds \subseteq {"change", "retry", "push"}
    /\ Forces \subseteq BOOLEAN
    /\ {Recurring, SaveFaults, Overrun} \subseteq BOOLEAN

VARIABLES
    exe,       \* the AutomationExecution rows
    rec,       \* rec[i][a]: the record execution i created for account a
    acct,      \* the Account rows: secret, version, secret of newest history
    remote,    \* the secret the remote system accepts
    lock,      \* redis: owner of account-change-secret:<account>
    task,      \* redis: owner in the PROCESSING status of the account
    pc,        \* where the worker of an execution is
    outcome,   \* self.status of the worker
    step,      \* step[e][a]: what worker e has done with account a
    cb,        \* cb[e][a]: what the ansible callback says of the host
    loaded,    \* loaded[e][a]: secret and version in the worker's Account object
    tally,     \* tally[e][a]: how the execution's result counts the account
    cleaning   \* accounts whose cache keys a recovery still has to clear

rows    == <<exe, rec, acct>>
redis   == <<lock, task>>
memory  == <<pc, outcome, step, cb, loaded, tally>>
vars    == <<rows, remote, redis, memory, cleaning>>

Open      == {"pending", "running"}
Terminal  == {"success", "failed", "error", "canceled"}
RecStatus == {"none", "pending", "success", "failed", "unverified"}
Verdict   == {"no", "pending", "success"}
PC        == {"idle", "created", "load", "prepare", "loop", "runner", "settle",
              "raised", "stopped", "post", "save", "release", "gone"}
Step      == {"out", "todo", "filtered", "locked", "broken", "ready", "batch",
              "ran", "left", "settled", "cleared", "freed"}
Report    == {"none", "ok", "sync", "unknown", "failed"}
Tally     == {"none", "success", "failed", "unverified"}

\* Steps in which the worker believes it holds the lock of the account.
Holding   == {"locked", "ready", "batch", "ran", "left", "settled"}
\* Mutant of Unresolved: a host that reported nothing counts as done.
UnresolvedRun == {"broken", "ready", "batch", "ran"}
\* Steps whose record is still pending in the memory of the worker.
Unresolved == {"broken", "ready", "batch", "ran", "left"}

NoRecord == [status |-> "none", old |-> None, new |-> None, version |-> 0,
             verified |-> "no"]

ExeRow == [status: {"none"} \cup Open \cup Terminal,
           kind: {"change", "retry", "push"}, src: Execution, targets: SUBSET Account]
RecRow == [status: RecStatus, old: Secret \cup {None}, new: Secret \cup {None},
           version: Nat, verified: Verdict]
AcctRow == [secret: Secret, version: Nat, hist: Secret]
Copy    == [secret: Secret, version: Nat]

TypeOK ==
    /\ exe \in [Execution -> ExeRow]
    /\ rec \in [Execution -> [Account -> RecRow]]
    /\ acct \in [Account -> AcctRow]
    /\ remote \in [Account -> Secret]
    /\ lock \in [Account -> Execution \cup {None}]
    /\ task \in [Account -> Execution \cup {None}]
    /\ pc \in [Execution -> PC]
    /\ outcome \in [Execution -> Terminal]
    /\ step \in [Execution -> [Account -> Step]]
    /\ cb \in [Execution -> [Account -> Report]]
    /\ loaded \in [Execution -> [Account -> Copy]]
    /\ tally \in [Execution -> [Account -> Tally]]
    /\ cleaning \in [Execution -> SUBSET Account]

Init ==
    /\ exe = [e \in Execution |-> [status |-> "none", kind |-> "change",
                                   src |-> e, targets |-> {}]]
    /\ rec = [e \in Execution |-> [a \in Account |-> NoRecord]]
    /\ acct = [a \in Account |-> [secret |-> InitSecret, version |-> 0,
                                  hist |-> InitSecret]]
    /\ remote = [a \in Account |-> InitSecret]
    /\ lock = [a \in Account |-> None]
    /\ task = [a \in Account |-> None]
    /\ pc = [e \in Execution |-> "idle"]
    /\ outcome = [e \in Execution |-> "success"]
    /\ step = [e \in Execution |-> [a \in Account |-> "out"]]
    /\ cb = [e \in Execution |-> [a \in Account |-> "none"]]
    /\ loaded = [e \in Execution |-> [a \in Account |->
                    [secret |-> InitSecret, version |-> 0]]]
    /\ tally = [e \in Execution |-> [a \in Account |-> "none"]]
    /\ cleaning = [e \in Execution |-> {}]

-----------------------------------------------------------------------------
(* Pieces shared by the handlers.                                          *)

Gone(e)  == pc[e] = "gone"
Alive(e) == pc[e] \notin {"idle", "gone"}

\* What a worker remembers is lost when it ends.
Forget(e) ==
    /\ pc' = [pc EXCEPT ![e] = "gone"]
    /\ outcome' = [outcome EXCEPT ![e] = "success"]
    /\ step' = [step EXCEPT ![e] = [a \in Account |-> "out"]]
    /\ cb' = [cb EXCEPT ![e] = [a \in Account |-> "none"]]
    /\ loaded' = [loaded EXCEPT ![e] = [a \in Account |->
                    [secret |-> InitSecret, version |-> 0]]]
    /\ tally' = [tally EXCEPT ![e] = [a \in Account |-> "none"]]

\* No result is written but not yet released: the worker is one thread.
Quiet(e) == \A a \in Account : step[e][a] # "settled"

\* The record worker e works on: its own, or the one a retry reuses.
Rec(e, a) == rec[exe[e].src][a]

\* The secret worker e sends to the remote account.
Sent(e, a) == IF exe[e].kind = "push" THEN loaded[e][a].secret ELSE Rec(e, a).new

\* The secret in the Account object the handlers of worker e save: a retry
\* reads the account through its record at that moment.
Mem(e, a) == IF exe[e].kind = "retry" THEN acct[a].secret ELSE loaded[e][a].secret

\* The account row after Account.save wrote "secret" from an object whose own
\* secret is "mem": a version is added when mem differs from the newest
\* history entry, whether or not the secret column itself is saved.
Saved(a, mem, secret) ==
    [secret |-> secret, hist |-> mem,
     version |-> IF mem = acct[a].hist THEN acct[a].version
                                       ELSE acct[a].version + 1]

\* QuerySet.update re-reads the row and sends post_save for it.
Touched(a) == Saved(a, acct[a].secret, acct[a].secret)

\* Mutant of Mark: the report of the host is stored as it is.
MarkReport(e, a, status) == rec' = [rec EXCEPT ![exe[e].src][a].status = cb[e][a]]

Mark(e, a, status) == rec' = [rec EXCEPT ![exe[e].src][a].status = status]
Count(e, a, how)   == tally' = [tally EXCEPT ![e][a] = how]
Goto(e, a, next)   == step' = [step EXCEPT ![e][a] = next]

\* Mutant of Clear: deletes the keys whoever owns them.
ClearAny(e, a) ==
    /\ task' = [task EXCEPT ![a] = None]
    /\ lock' = [lock EXCEPT ![a] = None]

\* clear_account_queue_status: the status if it is ours, then our lock.
Clear(e, a) ==
    /\ task' = [task EXCEPT ![a] = IF @ = e THEN None ELSE @]
    /\ lock' = [lock EXCEPT ![a] = IF @ = e THEN None ELSE @]

-----------------------------------------------------------------------------
(* Starting an execution and preparing its accounts.                       *)

\* The row is created by the Celery task.  A retry reuses records of src.
Create(e, k, src, T) ==
    /\ exe[e].status = "none"
    /\ T # {}
    /\ IF k = "retry"
         THEN /\ exe[src].kind = "change"
              /\ \A a \in T : rec[src][a].status # "none"
         ELSE src = e
    /\ exe' = [exe EXCEPT ![e] = [status |-> "pending", kind |-> k,
                                  src |-> src, targets |-> T]]
    /\ pc' = [pc EXCEPT ![e] = "created"]
    /\ UNCHANGED <<rec, acct, remote, redis, outcome, step, cb, loaded, tally, cleaning>>

PreRun(e) ==
    /\ pc[e] = "created"
    /\ exe' = [exe EXCEPT ![e].status = "running"]
    /\ pc' = [pc EXCEPT ![e] = "load"]
    /\ UNCHANGED <<rec, acct, remote, redis, outcome, step, cb, loaded, tally, cleaning>>

\* All Account objects of the execution are read once, before any lock.
LoadAccounts(e) ==
    /\ pc[e] = "load"
    /\ loaded' = [loaded EXCEPT ![e] = [a \in Account |->
                    IF a \in exe[e].targets
                    THEN [secret |-> acct[a].secret, version |-> acct[a].version]
                    ELSE @[a]]]
    /\ step' = [step EXCEPT ![e] =
                  [a \in Account |-> IF a \in exe[e].targets THEN "todo" ELSE "out"]]
    /\ pc' = [pc EXCEPT ![e] = "prepare"]
    /\ UNCHANGED <<rows, remote, redis, outcome, cb, tally, cleaning>>

\* A Windows asset drops accounts that are not password accounts, silently.
FilterOut(e, a) ==
    /\ pc[e] = "prepare" /\ step[e][a] = "todo"
    /\ Goto(e, a, "filtered")
    /\ UNCHANGED <<rows, remote, redis, pc, outcome, cb, loaded, tally, cleaning>>

\* Mutant of Acquire: a held lock does not stop the worker.
AcquireHeld(e, a) ==
    /\ pc[e] = "prepare" /\ step[e][a] = "todo"
    /\ lock' = [lock EXCEPT ![a] = e]
    /\ Goto(e, a, "locked")
    /\ UNCHANGED <<rows, remote, task, pc, outcome, cb, loaded, tally, cleaning>>

Acquire(e, a) ==
    /\ pc[e] = "prepare" /\ step[e][a] = "todo"
    /\ lock[a] = None
    /\ lock' = [lock EXCEPT ![a] = e]
    /\ Goto(e, a, "locked")
    /\ UNCHANGED <<rows, remote, task, pc, outcome, cb, loaded, tally, cleaning>>

\* The account is not found, or another execution holds its lock.
Reject(e, a) ==
    /\ pc[e] = "prepare" /\ step[e][a] = "todo"
    /\ Goto(e, a, "freed")
    /\ Count(e, a, "failed")
    /\ Clear(e, a)
    /\ UNCHANGED <<rows, remote, pc, outcome, cb, loaded, cleaning>>

\* get_secret: random, or the one the operator chose for all the accounts.
\* Only a change needs one.
Candidate(e, a, s) ==
    IF exe[e].kind = "change"
      THEN Recurring \/ s \notin {InitSecret} \cup {rec[i][a].new : i \in Execution}
      ELSE s = InitSecret

\* Mutant of RecordWith: a retry takes a new candidate into its record.
RecordAfresh(e, a, s) ==
    rec' = [rec EXCEPT ![exe[e].src][a] =
              [status |-> "pending", old |-> loaded[e][a].secret, new |-> s,
               version |-> loaded[e][a].version, verified |-> "no"]]

\* Mutant of RecordWith: the secret that is replaced is not stored.
RecordWithoutOld(e, a, s) ==
    rec' = [rec EXCEPT ![exe[e].src][a] =
              IF exe[e].kind = "change"
              THEN [NoRecord EXCEPT !.status = "pending", !.new = s,
                                    !.version = loaded[e][a].version]
              ELSE [@ EXCEPT !.status = "pending"]]

\* get_or_create_record: the candidate is stored before the host is touched.
RecordWith(e, a, s) ==
    rec' = [rec EXCEPT ![exe[e].src][a] =
              CASE exe[e].kind = "retry" -> [@ EXCEPT !.status = "pending"]
                [] exe[e].kind = "push" -> [NoRecord EXCEPT !.status = "pending"]
                [] OTHER -> [status |-> "pending", old |-> loaded[e][a].secret,
                             new |-> s, version |-> loaded[e][a].version,
                             verified |-> "no"]]

CreateRecord(e, a, s) ==
    /\ pc[e] = "prepare" /\ step[e][a] = "locked"
    /\ Candidate(e, a, s)
    /\ RecordWith(e, a, s)
    /\ task' = [task EXCEPT ![a] = e]
    /\ Goto(e, a, "ready")
    /\ UNCHANGED <<exe, acct, remote, lock, pc, outcome, cb, loaded, tally, cleaning>>

\* gen_account_inventory raises before the record exists ...
PrepareFails(e, a) ==
    /\ pc[e] = "prepare" /\ step[e][a] = "locked"
    /\ Goto(e, a, "freed")
    /\ Count(e, a, "failed")
    /\ Clear(e, a)
    /\ UNCHANGED <<rows, remote, pc, outcome, cb, loaded, cleaning>>

\* ... or after it: the lock goes at once, the record is failed later.
RecordThenFail(e, a, s) ==
    /\ pc[e] = "prepare" /\ step[e][a] = "locked"
    /\ Candidate(e, a, s)
    /\ RecordWith(e, a, s)
    /\ Goto(e, a, "broken")
    /\ Clear(e, a)
    /\ UNCHANGED <<exe, acct, remote, pc, outcome, cb, loaded, tally, cleaning>>

Prepared(e) ==
    /\ pc[e] = "prepare"
    /\ \A a \in Account : step[e][a] \notin {"todo", "locked", "broken", "settled"}
    /\ pc' = [pc EXCEPT ![e] = "loop"]
    /\ UNCHANGED <<rows, remote, redis, outcome, step, cb, loaded, tally, cleaning>>

\* do_run raises while the inventories are generated, or a change without a
\* secret to set finds nothing to do.
Abort(e, how) ==
    /\ \/ pc[e] \in {"load", "prepare"} /\ Quiet(e) /\ how = "error"
       \/ pc[e] = "load" /\ exe[e].kind # "push" /\ how = "failed"
    /\ outcome' = [outcome EXCEPT ![e] = how]
    /\ pc' = [pc EXCEPT ![e] = "post"]
    /\ UNCHANGED <<rows, remote, redis, step, cb, loaded, tally, cleaning>>

-----------------------------------------------------------------------------
(* The batches.                                                            *)

StartBatch(e, B) ==
    /\ pc[e] = "loop"
    /\ B # {} /\ \A a \in B : step[e][a] = "ready"
    /\ step' = [step EXCEPT ![e] = [a \in Account |-> IF a \in B THEN "batch" ELSE @[a]]]
    /\ pc' = [pc EXCEPT ![e] = "runner"]
    /\ UNCHANGED <<rows, remote, redis, outcome, cb, loaded, tally, cleaning>>

\* Revoked (canceled) or past the deadline (error), seen before a batch runs.
Stop(e, how) ==
    /\ pc[e] = "loop"
    /\ how \in {"canceled", "error"}
    /\ \E a \in Account : step[e][a] = "ready"
    /\ outcome' = [outcome EXCEPT ![e] = how]
    /\ pc' = [pc EXCEPT ![e] = "post"]
    /\ UNCHANGED <<rows, remote, redis, step, cb, loaded, tally, cleaning>>

NoMoreBatches(e) ==
    /\ pc[e] = "loop"
    /\ \A a \in Account : step[e][a] # "ready"
    /\ pc' = [pc EXCEPT ![e] = "post"]
    /\ UNCHANGED <<rows, remote, redis, outcome, step, cb, loaded, tally, cleaning>>

\* Ansible works on one host.  A report of success, or of a completed change
\* whose login probe was inconclusive ("sync"), implies that the secret was
\* set; with any other report it may or may not have been.
RunHost(e, a, changed, report) ==
    /\ pc[e] = "runner" /\ step[e][a] = "batch"
    /\ report \in {"ok", "sync"} => changed
    /\ remote' = IF changed THEN [remote EXCEPT ![a] = Sent(e, a)] ELSE remote
    /\ cb' = [cb EXCEPT ![e][a] = report]
    /\ Goto(e, a, "ran")
    /\ UNCHANGED <<rows, redis, pc, outcome, loaded, tally, cleaning>>

\* The runner finished, was stopped before it finished, or raised; what a
\* runner that raised does to the status is done before its hosts are.
RunnerEnds(e, next, how) ==
    /\ pc[e] = "runner" /\ Quiet(e)
    /\ next \in {"settle", "stopped", "raised"}
    /\ how \in IF next = "raised" THEN {"failed", "error"} ELSE {outcome[e]}
    /\ outcome' = [outcome EXCEPT ![e] = how]
    /\ pc' = [pc EXCEPT ![e] = next]
    /\ UNCHANGED <<rows, remote, redis, step, cb, loaded, tally, cleaning>>

-----------------------------------------------------------------------------
(* Writing the results back.  Each handler ends in "settled"; Free follows. *)

\* The transaction that saves the account and the record raises.  The record
\* alone is then saved by an update, which may raise too and is only logged.
SaveFails(e, a, status) ==
    /\ SaveFaults
    /\ Mark(e, a, status) \/ UNCHANGED rec
    /\ outcome' = [outcome EXCEPT ![e] = "error"]
    /\ UNCHANGED acct

\* Mutant of HostSuccess: an inconclusive probe counts as a success.
HostSuccessUnprobed(e, a) ==
    LET synced == exe[e].kind # "push" /\ cb[e][a] # "unknown" IN
    /\ pc[e] = "settle" /\ Quiet(e) /\ step[e][a] = "ran"
    /\ cb[e][a] \in {"ok", "sync", "unknown"}
    /\ acct' = [acct EXCEPT ![a] =
                  IF synced THEN Saved(a, Rec(e, a).new, Rec(e, a).new)
                  ELSE Saved(a, Mem(e, a), acct[a].secret)]
    /\ Mark(e, a, "success")
    /\ Count(e, a, "success")
    /\ cb' = [cb EXCEPT ![e][a] = "none"]
    /\ Goto(e, a, "settled")
    /\ UNCHANGED <<exe, remote, redis, pc, outcome, loaded, cleaning>>

\* on_host_success: one transaction for the account and the record.
HostSuccess(e, a) ==
    LET verdict == IF cb[e][a] = "ok" THEN "success" ELSE "unverified"
        synced  == exe[e].kind # "push" /\ cb[e][a] # "unknown"
    IN
    /\ pc[e] = "settle" /\ Quiet(e) /\ step[e][a] = "ran"
    /\ cb[e][a] \in {"ok", "sync", "unknown"}
    /\ \/ /\ acct' = [acct EXCEPT ![a] =
                        IF synced THEN Saved(a, Rec(e, a).new, Rec(e, a).new)
                        ELSE Saved(a, Mem(e, a), acct[a].secret)]
          /\ Mark(e, a, verdict)
          /\ Count(e, a, verdict)
          /\ UNCHANGED outcome
       \/ /\ SaveFails(e, a, "unverified")
          /\ Count(e, a, "unverified")
    /\ cb' = [cb EXCEPT ![e][a] = "none"]
    /\ Goto(e, a, "settled")
    /\ UNCHANGED <<exe, remote, redis, pc, loaded, cleaning>>

\* on_host_error: a failed or unreachable host, a gateway that cannot be
\* reached before the batch runs, or an inventory that could not be built.
HostError(e, a) ==
    /\ Quiet(e)
    /\ \/ pc[e] \in {"settle", "raised", "stopped"} /\ step[e][a] = "ran" /\ cb[e][a] = "failed"
       \/ pc[e] = "runner" /\ step[e][a] = "batch"
       \/ pc[e] = "prepare" /\ step[e][a] = "broken"
    /\ \/ /\ acct' = [acct EXCEPT ![a] = Saved(a, Mem(e, a), acct[a].secret)]
          /\ Mark(e, a, "failed")
          /\ UNCHANGED outcome
       \/ SaveFails(e, a, "failed")
    /\ Count(e, a, "failed")
    /\ cb' = [cb EXCEPT ![e][a] = "none"]
    /\ Goto(e, a, IF step[e][a] = "broken" THEN "freed" ELSE "settled")
    /\ UNCHANGED <<exe, remote, redis, pc, loaded, cleaning>>

\* on_host_incomplete: every host of an interrupted batch that did not fail.
HostIncomplete(e, a) ==
    /\ pc[e] \in {"raised", "stopped"} /\ Quiet(e)
    /\ step[e][a] \in {"batch", "ran"} /\ cb[e][a] # "failed"
    /\ \/ /\ acct' = [acct EXCEPT ![a] = Touched(a)]
          /\ Mark(e, a, "unverified")
          /\ UNCHANGED outcome
       \/ SaveFails(e, a, "unverified")
    /\ Count(e, a, "unverified")
    /\ cb' = [cb EXCEPT ![e][a] = "none"]
    /\ Goto(e, a, "settled")
    /\ UNCHANGED <<exe, remote, redis, pc, loaded, cleaning>>

Free(e, a) ==
    /\ Alive(e) /\ step[e][a] = "settled"
    /\ Clear(e, a)
    /\ Goto(e, a, "freed")
    /\ UNCHANGED <<rows, remote, pc, outcome, cb, loaded, tally, cleaning>>

\* The batch is over; hosts of a finished run that reported nothing are left.
\* After a batch that was stopped comes the next one, or, when a user or the
\* deadline canceled it, the end.
EndBatch(e, how) ==
    /\ pc[e] \in {"settle", "raised", "stopped"} /\ Quiet(e)
    /\ \A a \in Account : step[e][a] \in {"batch", "ran"} =>
                             pc[e] = "settle" /\ cb[e][a] = "none"
    /\ how \in IF pc[e] = "stopped" THEN {"failed", "canceled", "error"} ELSE {outcome[e]}
    /\ outcome' = [outcome EXCEPT ![e] = how]
    /\ step' = [step EXCEPT ![e] = [a \in Account |->
                  IF @[a] \in {"batch", "ran"} THEN "left" ELSE @[a]]]
    /\ pc' = [pc EXCEPT ![e] = IF @ = "stopped" /\ how # "failed" THEN "post" ELSE "loop"]
    /\ UNCHANGED <<rows, remote, redis, cb, loaded, tally, cleaning>>

-----------------------------------------------------------------------------
(* post_run.                                                               *)

\* finalize_pending_records first gives up the locks, one account at a time,
FinalizeClear(e, a) ==
    /\ pc[e] = "post" /\ step[e][a] \in Unresolved
    /\ Clear(e, a)
    /\ Count(e, a, "unverified")
    /\ Goto(e, a, "cleared")
    /\ UNCHANGED <<rows, remote, pc, outcome, cb, loaded, cleaning>>

\* then updates the accounts and the records, unless one update raises.
Finalize(e) ==
    LET P == {a \in Account : step[e][a] = "cleared"} IN
    /\ pc[e] = "post"
    /\ \A a \in Account : step[e][a] \notin Unresolved
    /\ \/ /\ acct' = [a \in Account |-> IF a \in P THEN Touched(a) ELSE acct[a]]
          /\ rec' = [rec EXCEPT ![exe[e].src] = [a \in Account |->
                       IF a \in P /\ @[a].status = "pending"
                       THEN [@[a] EXCEPT !.status = "unverified"] ELSE @[a]]]
          /\ outcome' = [outcome EXCEPT ![e] =
                           IF P # {} /\ @ \notin {"canceled", "error"} THEN "failed" ELSE @]
       \/ /\ SaveFaults /\ P # {}
          /\ acct' \in {acct, [a \in Account |-> IF a \in P THEN Touched(a) ELSE acct[a]]}
          /\ outcome' = [outcome EXCEPT ![e] = IF @ = "canceled" THEN @ ELSE "error"]
          /\ UNCHANGED rec
    /\ pc' = [pc EXCEPT ![e] = "save"]
    /\ UNCHANGED <<exe, remote, redis, step, cb, loaded, tally, cleaning>>

\* Mutant of SaveExecution: the counts of the accounts are not looked at.
SaveUncounted(e) ==
    /\ pc[e] = "save"
    /\ exe' = [exe EXCEPT ![e].status = outcome[e]]
    /\ pc' = [pc EXCEPT ![e] = "release"]
    /\ UNCHANGED <<rec, acct, remote, redis, outcome, step, cb, loaded, tally, cleaning>>

\* update_execution saves the whole row.  When the save raises, the Celery
\* task fails and the row stays open for the recovery.
SaveExecution(e) ==
    LET unclean == \E a \in Account : tally[e][a] \in {"failed", "unverified"}
        final   == IF outcome[e] \notin {"canceled", "error"} /\ unclean
                   THEN "failed" ELSE outcome[e]
    IN
    /\ pc[e] = "save"
    /\ \/ exe' = [exe EXCEPT ![e].status = final]
       \/ SaveFaults /\ UNCHANGED exe
    /\ outcome' = [outcome EXCEPT ![e] = final]
    /\ pc' = [pc EXCEPT ![e] = "release"]
    /\ UNCHANGED <<rec, acct, remote, redis, step, cb, loaded, tally, cleaning>>

\* release_all_account_locks: those the worker still has in account_locks.
ReleaseAll(e) ==
    /\ pc[e] = "release"
    /\ lock' = [a \in Account |->
                  IF step[e][a] \in Holding /\ lock[a] = e THEN None ELSE lock[a]]
    /\ Forget(e)
    /\ UNCHANGED <<rows, remote, task, cleaning>>

Crash(e) ==
    /\ Alive(e)
    /\ Forget(e)
    /\ UNCHANGED <<rows, remote, redis, cleaning>>

-----------------------------------------------------------------------------
(* Recovery of interrupted executions, and expiry of the cache keys.       *)

\* Mutant of LeftPending: the records of a retry are forgotten.
OwnPending(e, i, a) == rec[i][a].status = "pending" /\ i = e

\* The records an execution left pending: its own, and those it retried.
LeftPending(e, i, a) ==
    /\ rec[i][a].status = "pending"
    /\ i = e \/ (i = exe[e].src /\ a \in exe[e].targets)

\* Mutant of Closed: the candidate of an interrupted record is dropped.
ClosedForGood(r) == [r EXCEPT !.status = "unverified", !.new = None]

Closed(r) == [r EXCEPT !.status = "unverified"]

\* Mutant of Interrupted: the status of the row is not looked at again.
InterruptedAny(e) == exe[e].status # "none" /\ (Gone(e) \/ Overrun)

\* Mutant of Interrupted: an execution that has not set its row to running.
InterruptedRunning(e) == exe[e].status = "running" /\ (Gone(e) \/ Overrun)

\* The row is open and its worker is gone, or believed to be.
Interrupted(e) == exe[e].status \in Open /\ (Gone(e) \/ Overrun)

\* finalize_interrupted_execution: one transaction that locks the row.
Recover(e, how) ==
    LET affected == {a \in Account : \E i \in Execution : LeftPending(e, i, a)} IN
    /\ Interrupted(e)
    /\ rec' = [i \in Execution |-> [a \in Account |->
                 IF LeftPending(e, i, a) THEN Closed(rec[i][a]) ELSE rec[i][a]]]
    /\ acct' = [a \in Account |-> IF a \in affected THEN Touched(a) ELSE acct[a]]
    /\ exe' = [exe EXCEPT ![e].status = how]
    /\ cleaning' = [cleaning EXCEPT ![e] = affected \cup exe[e].targets]
    /\ UNCHANGED <<remote, redis, memory>>

\* The cache keys are cleared after the transaction, account by account.
RecoverClear(e, a) ==
    /\ a \in cleaning[e]
    /\ Clear(e, a)
    /\ cleaning' = [cleaning EXCEPT ![e] = @ \ {a}]
    /\ UNCHANGED <<rows, remote, memory>>

\* The process running the recovery stops, or redis fails for the rest.
RecoverStops(e) ==
    /\ cleaning[e] # {}
    /\ cleaning' = [cleaning EXCEPT ![e] = {}]
    /\ UNCHANGED <<rows, remote, redis, memory>>

LockExpires(a) ==
    /\ lock[a] # None
    /\ Gone(lock[a]) \/ Overrun
    /\ lock' = [lock EXCEPT ![a] = None]
    /\ UNCHANGED <<rows, remote, task, memory, cleaning>>

\* Mutant of TaskExpires: the status lives as long as there is no lock.
TaskOutlives(a) ==
    /\ task[a] # None
    /\ lock[a] = task[a]
    /\ Gone(task[a]) \/ Overrun
    /\ task' = [task EXCEPT ![a] = None]
    /\ UNCHANGED <<rows, remote, lock, memory, cleaning>>

TaskExpires(a) ==
    /\ task[a] # None
    /\ Gone(task[a]) \/ Overrun
    /\ task' = [task EXCEPT ![a] = None]
    /\ UNCHANGED <<rows, remote, lock, memory, cleaning>>

-----------------------------------------------------------------------------
(* The operator's requests about one change record.                        *)

VerifyStart(i, a) ==
    /\ rec[i][a].new # None
    /\ rec' = [rec EXCEPT ![i][a].verified = "pending"]
    /\ UNCHANGED <<exe, acct, remote, redis, memory, cleaning>>

\* The probe logs in with the candidate; no lock is taken.  A failed and an
\* inconclusive probe are both "no": neither lets a restore go on.
VerifyEnd(i, a, verdict) ==
    /\ rec[i][a].verified = "pending"
    /\ verdict = "success" => remote[a] = rec[i][a].new
    /\ rec' = [rec EXCEPT ![i][a].verified = verdict]
    /\ UNCHANGED <<exe, acct, remote, redis, memory, cleaning>>

\* Mutant of NotMoved: an account that moved on is overwritten.
MovedOrNot(a, r) == acct[a].secret # r.new

\* The account still has the secret and version the candidate replaced.
NotMoved(a, r) == acct[a].version = r.version /\ acct[a].secret = r.old

\* Copies a verified candidate to the account unless the account moved on.
Restore(i, a, force) ==
    LET r == rec[i][a] IN
    /\ r.new # None
    /\ r.verified # "pending"
    /\ force \/ r.verified = "success"
    /\ \/ acct[a].secret = r.new /\ UNCHANGED acct
       \/ /\ acct[a].secret # r.new
          /\ NotMoved(a, r)
          /\ acct' = [acct EXCEPT ![a] = Saved(a, r.new, r.new)]
    /\ rec' = [rec EXCEPT ![i][a].status = "success"]
    /\ UNCHANGED <<exe, remote, redis, memory, cleaning>>

-----------------------------------------------------------------------------
Prepare(e, a) ==
    \/ FilterOut(e, a) \/ Acquire(e, a) \/ Reject(e, a) \/ PrepareFails(e, a)
    \/ \E s \in Secret : CreateRecord(e, a, s) \/ RecordThenFail(e, a, s)

Settle(e, a) == HostSuccess(e, a) \/ HostError(e, a) \/ HostIncomplete(e, a) \/ Free(e, a)

\* What a worker does of itself: everything but dying.
Work(e) ==
    \/ PreRun(e) \/ LoadAccounts(e) \/ Prepared(e) \/ NoMoreBatches(e)
    \/ Finalize(e) \/ SaveExecution(e) \/ ReleaseAll(e)
    \/ \E a \in Account : Prepare(e, a) \/ Settle(e, a) \/ FinalizeClear(e, a)
    \/ \E B \in SUBSET Account : StartBatch(e, B)
    \/ \E a \in Account, changed \in BOOLEAN, report \in Report :
          RunHost(e, a, changed, report)
    \/ \E how \in Terminal : \/ Abort(e, how) \/ Stop(e, how) \/ EndBatch(e, how)
                             \/ \E next \in PC : RunnerEnds(e, next, how)

Recovery(e) ==
    \/ \E how \in {"canceled", "error"} : Recover(e, how)
    \/ \E a \in Account : RecoverClear(e, a)

Request(i, a) ==
    \/ VerifyStart(i, a)
    \/ \E verdict \in {"success", "no"} : VerifyEnd(i, a, verdict)
    \/ \E force \in Forces : Restore(i, a, force)

Next ==
    \/ \E e \in Execution :
          \/ \E k \in Kinds, src \in Execution, T \in SUBSET Account : Create(e, k, src, T)
          \/ Work(e) \/ Crash(e) \/ Recovery(e) \/ RecoverStops(e)
    \/ \E a \in Account : LockExpires(a) \/ TaskExpires(a)
    \/ \E i \in Execution, a \in Account : Request(i, a)

Spec == Init /\ [][Next]_vars

\* A worker that is not dead goes on; the periodic recovery runs again and
\* again; keys with a TTL expire.  Nothing obliges an operator to act.
Fairness ==
    /\ \A e \in Execution : WF_vars(Work(e)) /\ WF_vars(Recovery(e))
    /\ \A a \in Account : WF_vars(LockExpires(a)) /\ WF_vars(TaskExpires(a))

FairSpec == Spec /\ Fairness

-----------------------------------------------------------------------------
(* Properties.                                                             *)

\* Every secret the database still holds for the account.
Known(a) ==
    {acct[a].secret} \cup
    {s \in Secret : \E i \in Execution : s \in {rec[i][a].old, rec[i][a].new}}

\* The lock account-change-secret:<id> keeps its promise: a worker between
\* acquire_account_lock and the release of the account really is its owner,
\* so no two workers prepare, change or write back one account together,
\* whatever other executions and recoveries clear.
LockHeldWhileWorking ==
    ~Overrun => \A e \in Execution, a \in Account :
        Alive(e) /\ step[e][a] \in Holding => lock[a] = e

\* create_record: "If the worker is killed after the remote change, the
\* candidate remains recoverable".  Whatever happens, the secret the remote
\* system accepts is on the account or in some record of it.
RemoteRecoverable == \A a \in Account : remote[a] \in Known(a)

\* A record is left pending only while an execution that has to resolve it is
\* open: its own or one that retries it.  Only a failing database can leave
\* one behind, and then that execution does not end as a success.
PendingIsOwned ==
    \A i \in Execution, a \in Account : rec[i][a].status = "pending" =>
        \E e \in Execution :
            /\ exe[e].src = i /\ a \in exe[e].targets
            /\ \/ exe[e].status \in Open
               \/ SaveFaults /\ exe[e].status \in {"failed", "canceled", "error"}

\* The status an execution shows is earned: when it is saved as a success, no
\* account it was started for was rejected, failed or left unverified.
SuccessIsComplete ==
    \A e \in Execution : pc[e] = "release" /\ exe[e].status = "success" =>
        \A a \in exe[e].targets : step[e][a] = "filtered" \/ tally[e][a] = "success"

\* A local secret that is not the remote one shows in a record of the account:
\* the record that holds the remote secret as its candidate is failed,
\* unverified or still pending; or the account has taken the candidate of a
\* record while the remote system is back at the secret it replaced.  (The
\* second happens when a retry of an older record puts its secret back: that
\* does not take back the verification of a newer one, which a restore then
\* still trusts.  A push applies the old secret of its copy, a forced restore
\* stores a candidate nobody has seen work, and a worker that outlasts its
\* lock writes back over another: instances with these do not claim it.)
NoSilentDivergence ==
    "push" \notin Kinds /\ Forces \subseteq {FALSE} /\ ~Overrun =>
        \A a \in Account : remote[a] # acct[a].secret => \E i \in Execution :
            \/ /\ rec[i][a].new = remote[a]
               /\ rec[i][a].status \in {"failed", "unverified", "pending"}
            \/ rec[i][a].old = remote[a] /\ rec[i][a].new = acct[a].secret

\* A worker reports an account as changed only when the new secret is both on
\* the account row and accepted by the remote system.
SuccessIsSynced ==
    [][~Overrun => \A e \in Execution, a \in Account :
          /\ exe[e].kind # "push"
          /\ tally[e][a] # "success" /\ tally'[e][a] = "success"
          => /\ acct'[a].secret = Rec(e, a).new
             /\ remote'[a] = acct'[a].secret]_vars

\* A closed execution stays as it was closed: the recovery and a worker that
\* is still finishing never write the status of the same row twice.
TerminalIsFinal ==
    [][~Overrun => \A e \in Execution :
          exe[e].status \in Terminal => exe'[e].status = exe[e].status]_vars

\* A record remembers the secret the candidate replaces: create_record stores
\* the account's secret and version "before touching the remote account".
OldSecretIsCurrent ==
    [][\A i \in Execution, a \in Account :
          rec[i][a].new = None /\ rec'[i][a].new # None
          => /\ rec'[i][a].old = acct[a].secret
             /\ rec'[i][a].version = acct[a].version]_vars

\* Every execution that was started ends, also when its worker died.
ExecutionsEnd ==
    \A e \in Execution : exe[e].status \in Open ~> exe[e].status \in Terminal

\* No account stays locked, or shown as being processed, by an execution whose
\* worker is gone, even when the recovery stops before it cleared the keys.
LocksEnd ==
    \A a \in Account, e \in Execution :
        (Gone(e) /\ e \in {lock[a], task[a]}) ~> e \notin {lock[a], task[a]}

Custody == INSTANCE SecretCustody WITH
    Holder <- Execution, Nobody <- None,
    known <- [a \in Account |-> Known(a)], holder <- lock

CustodySpec == Custody!CustodySpec
=============================================================================
