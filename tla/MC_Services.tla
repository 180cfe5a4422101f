---------------------------- MODULE MC_Services ----------------------------
(***************************************************************************)
(* Instances for TLC of the modules about accounts, sessions and what runs *)
(* behind them: BulkLog, WorkerWatch, VaultedAccounts, MountMove,          *)
(* SessionEndQueue, SessionLife, MergeDelay, CountCache and                *)
(* ConnectionToken.  They share no variable, so a run explores them side   *)
(* by side: part says which of them a behaviour is about, and the          *)
(* variables of the others keep their first values.                        *)
(***************************************************************************)
EXTENDS BulkLog, TLC

CONSTANTS
    Parts,                 \* what a run explores
    t1, t2,                \* threads that log
    k1, k2, e1, e2, Machines,  \* tasks, their executions, workers
    editor1, editor2, updater, transfer, Password, Empty, Mark, Keyless,
    Path, Client,          \* of MountMove
    Account, Session, Delayed, Manual,
    Calls,                 \* of MergeDelay
    Reader, Field, Single, None,  \* of CountCache
    token1, token2, request1, request2

VARIABLES
    part,
    task, celery, row, age, up, cut, marker, missed, check, revoked, faults, recent,
    column, vault, enabled, held, draft, copy, at, loose, saves, last, carries, stale, undone,
    mount, move, visit, got, used, client, written, writes, moves,
    session, key, guard, debounced, job, attempts, refused, wiped, late, now,
    open, live, left, silent, ever, trusted, kill, contact, told, pass, doomed, deaths,
    call, dict, seen, heap, snap, run, argsCache, taskCache, timeCache, handled, overlapped,
    counted, writing, early, pending, hash, countlock, reader, lost, suspect, unheard,
    tokens, asked, passed, withdrawn, spent, clock

wvars == <<task, celery, row, age, up, cut, marker, missed, check, revoked, faults, recent>>
avars == <<column, vault, enabled, held, draft, copy, at, loose, saves, last, carries, stale, undone>>
mvars == <<mount, move, visit, got, used, client, written, writes, moves>>
qvars == <<session, key, guard, debounced, job, attempts, refused, wiped, late, now>>
lvars == <<open, live, left, silent, ever, trusted, kill, contact, told, pass, doomed, deaths>>
dvars == <<call, dict, seen, heap, snap, run, argsCache, taskCache, timeCache, handled, overlapped>>
cvars == <<counted, writing, early, pending, hash, countlock, reader, lost, suspect, unheard>>
tvars == <<tokens, asked, passed, withdrawn, spent, clock>>
allvars == <<part, vars, wvars, avars, mvars, qvars, lvars, dvars, cvars, tvars>>

\* Two threads that log, and one alone.
Alone == INSTANCE BulkLog WITH Threads <- {t1}, MaxCalls <- 4, MaxItems <- 3

\* Two tasks with an execution each, and one thing that goes wrong; and one task with two
\* executions, and two things that go wrong.
Watch == INSTANCE WorkerWatch WITH Tasks <- {k1, k2}, Executions <- {e1, e2}, Workers <- Machines,
           None <- Nobody, OwnerOf <- (e1 :> k1) @@ (e2 :> k2), Grace <- 1, Confirm <- 1,
           MarkerTTL <- 2, Deadline <- 3, MaxFaults <- 1
Lone == INSTANCE WorkerWatch WITH Tasks <- {k1}, Executions <- {e1, e2}, Workers <- Machines,
           None <- Nobody, OwnerOf <- [e \in {e1, e2} |-> k1], Grace <- 1, Confirm <- 1,
           MarkerTTL <- 3, Deadline <- 3, MaxFaults <- 2

\* Two requests that save an account while the transfer task runs; and a request, an
\* update of other columns and the task.
Edits == INSTANCE VaultedAccounts WITH Secrets <- Password, NoSecret <- Empty, Absent <- Nobody,
           None <- Nobody, Editors <- {editor1, editor2}, Updaters <- {}, Transfer <- transfer,
           Clearing <- TRUE, MaxSaves <- 3, row <- column, pc <- at
Updates == INSTANCE VaultedAccounts WITH Secrets <- Password, NoSecret <- Empty, Absent <- Nobody,
           None <- Nobody, Editors <- {editor1}, Updaters <- {updater}, Transfer <- transfer,
           Clearing <- TRUE, MaxSaves <- 3, row <- column, pc <- at

\* Two processes write secrets while the setting is changed twice.
Mount == INSTANCE MountMove WITH Paths <- Path, Values <- Password, Absent <- Nobody,
           Clients <- Client, MaxWrites <- 3, MaxMoves <- 2, pc <- move, todo <- visit

\* Two sessions of one account and two workers; a tick is ten seconds.
Queue == INSTANCE SessionEndQueue WITH Accounts <- Account, Sessions <- Session, None <- Nobody,
           Debounce <- 1, Countdown <- 2, QueueTTL <- 4, Workers <- 2, MaxTime <- 5,
           lock <- guard, task <- job

Life == INSTANCE SessionLife WITH Sessions <- Session, Ttl <- 2, Nobody <- Nobody,
          MaxDeaths <- 1, row <- open, task <- kill, todo <- pass

\* Three calls: one is overlapped by the end of a run and superseded by the third.
Delay == INSTANCE MergeDelay WITH None <- Nobody, pc <- call, task <- run

\* Counts that expire after each commit, or change unheard: one with the clock, one by rows
\* of a type no receiver maps; and one whose expiries are lost or come too early.
Counts == INSTANCE CountCache
            WITH Timed <- Field \ Single, Unmapped <- Single, MaxVersion <- 1, Losses <- FALSE,
                 db <- counted, lock <- countlock
Count == INSTANCE CountCache
           WITH Field <- Single, Timed <- {}, Unmapped <- {}, MaxVersion <- 2, Losses <- TRUE,
                 db <- counted, lock <- countlock

\* Two requests about one token; and a token made of another.  A one-time token lives one
\* tick, a reusable one two, and the grace period is one.
Token == INSTANCE ConnectionToken WITH Tokens <- {token1}, Calls <- {request1, request2},
           NoToken <- None, OneTime <- 1, Reusable <- 2, Grace <- 1, MaxTime <- 3,
           row <- tokens, call <- asked, revoked <- withdrawn, used <- spent, now <- clock
Pair == INSTANCE ConnectionToken WITH Tokens <- {token1, token2}, Calls <- {request1},
           NoToken <- None, OneTime <- 1, Reusable <- 2, Grace <- 1, MaxTime <- 1,
           row <- tokens, call <- asked, revoked <- withdrawn, used <- spent, now <- clock

ASSUME ServicesAssumption ==
    /\ Parts \subseteq {"log", "alone", "watch", "lone", "edits", "updates", "mount", "queue", "life",
                         "delay", "counts", "count", "token", "pair"}
    /\ BulkAssumption /\ Alone!BulkAssumption
    /\ Watch!WatchAssumption /\ Lone!WatchAssumption
    /\ Edits!ValuesAssumption /\ Updates!ValuesAssumption
    /\ Mount!MountAssumption /\ Queue!QueueAssumption /\ Life!SessionAssumption
    /\ Delay!NoneAssumption /\ Counts!CacheAssumption /\ Count!CacheAssumption
    /\ Token!TokenAssumption /\ Pair!TokenAssumption

AllInit ==
    /\ part \in Parts
    /\ IF part = "alone" THEN Alone!Init ELSE Init
    /\ IF part = "lone" THEN Lone!Init ELSE Watch!Init
    /\ IF part = "updates" THEN Updates!Init ELSE Edits!Init
    /\ Mount!Init /\ Queue!Init /\ Life!Init /\ Delay!Init
    /\ IF part = "pair" THEN Pair!Init ELSE Token!Init
    /\ IF part = "count" THEN Count!Init ELSE Counts!Init
    \* The first values differ only where they matter.
    /\ part \in {"edits", "updates"} \/ (~enabled /\ column = CHOOSE v \in Password : TRUE)
    /\ part = "mount" \/ mount = [m \in {"old", "new"} |-> [p \in Path |-> Nobody]]

AllNext ==
    \/ /\ part = "log" /\ Next
       /\ UNCHANGED <<part, wvars, avars, mvars, qvars, lvars, dvars, cvars, tvars>>
    \/ /\ part = "alone" /\ Alone!Next
       /\ UNCHANGED <<part, wvars, avars, mvars, qvars, lvars, dvars, cvars, tvars>>
    \/ /\ part = "watch" /\ Watch!Next
       /\ UNCHANGED <<part, vars, avars, mvars, qvars, lvars, dvars, cvars, tvars>>
    \/ /\ part = "lone" /\ Lone!Next
       /\ UNCHANGED <<part, vars, avars, mvars, qvars, lvars, dvars, cvars, tvars>>
    \/ /\ part = "edits" /\ Edits!Next
       /\ UNCHANGED <<part, vars, wvars, mvars, qvars, lvars, dvars, cvars, tvars>>
    \/ /\ part = "updates" /\ Updates!Next
       /\ UNCHANGED <<part, vars, wvars, mvars, qvars, lvars, dvars, cvars, tvars>>
    \/ /\ part = "mount" /\ Mount!Next
       /\ UNCHANGED <<part, vars, wvars, avars, qvars, lvars, dvars, cvars, tvars>>
    \/ /\ part = "queue" /\ Queue!Next
       /\ UNCHANGED <<part, vars, wvars, avars, mvars, lvars, dvars, cvars, tvars>>
    \/ /\ part = "life" /\ Life!Next
       /\ UNCHANGED <<part, vars, wvars, avars, mvars, qvars, dvars, cvars, tvars>>
    \/ /\ part = "delay" /\ Delay!Next
       /\ UNCHANGED <<part, vars, wvars, avars, mvars, qvars, lvars, cvars, tvars>>
    \/ /\ part = "counts" /\ Counts!Next
       /\ UNCHANGED <<part, vars, wvars, avars, mvars, qvars, lvars, dvars, tvars>>
    \/ /\ part = "count" /\ Count!Next
       /\ UNCHANGED <<part, vars, wvars, avars, mvars, qvars, lvars, dvars, tvars>>
    \/ /\ part = "token" /\ Token!Next
       /\ UNCHANGED <<part, vars, wvars, avars, mvars, qvars, lvars, dvars, cvars>>
    \/ /\ part = "pair" /\ Pair!Next
       /\ UNCHANGED <<part, vars, wvars, avars, mvars, qvars, lvars, dvars, cvars>>

AllSpec == AllInit /\ [][AllNext]_allvars

-----------------------------------------------------------------------------
(* The properties of the modules, each about the part it belongs to. *)

TypesOK ==
    CASE part = "log" -> TypeOK
      [] part = "alone" -> Alone!TypeOK
      [] part = "watch" -> Watch!TypeOK
      [] part = "lone" -> Lone!TypeOK
      [] part = "edits" -> Edits!TypeOK
      [] part = "updates" -> Updates!TypeOK
      [] part = "mount" -> Mount!TypeOK
      [] part = "queue" -> Queue!TypeOK
      [] part = "life" -> Life!TypeOK
      [] part = "delay" -> Delay!TypeOK
      [] part = "counts" -> Counts!TypeOK
      [] part = "count" -> Count!TypeOK
      [] part = "token" -> Token!TypeOK
      [] OTHER -> Pair!TypeOK

\* An execution is closed only when its task is gone, and one that has its result keeps it
\* (recover_interrupted_account_automation_tasks).
OnlyGoneIsClosed ==
    [][IF part = "lone" THEN Lone!ClosesGone /\ Lone!KeepsResults
                        ELSE Watch!ClosesGone /\ Watch!KeepsResults]_wvars

\* The last secret given is where the row says it is, whoever saves, moves or rolls back, unless
\* a request wrote back the one it had loaded before (VaultModelMixin, sync_secret_to_vault),
\* and a move to another mount replaces nothing that is newer and switches only when all it
\* compared agrees (copy_current_secrets_from).
SecretsStay ==
    /\ [](part \in {"edits", "updates"} => Edits!MarkedIsInVault)
    /\ [](part = "edits" => Edits!NoLostSecret)
    /\ [][IF part = "updates" THEN Updates!TransferRow => Updates!Stored' = Updates!Stored
                              ELSE Edits!TransferRow => Edits!Stored' = Edits!Stored]_avars
    /\ Mount!NothingReplaced /\ Mount!ComparedIsMoved

\* A token that may be used was let through and is not used up; it is revived, loses its
\* approval or gives out a secret only as the requests that raced allow.
TokenRules ==
    /\ [](/\ part = "token" => Token!GatePassed /\ Token!UsedIsDead
          /\ part = "pair" => Pair!GatePassed /\ Pair!UsedIsDead)
    /\ [][IF part = "pair"
             THEN Pair!GivenInTime /\ Pair!RevivedByStale /\ Pair!UndoneByRenewal
             ELSE Token!GivenInTime /\ Token!RevivedByStale /\ Token!UndoneByRenewal]_tvars

\* A wrong count has its reason: a race, an expiry still to come or lost, the clock, or a change
\* no receiver maps (Cache.expire and the requests that fill it).
WrongCountHasReason ==
    /\ part = "counts" => Counts!StaleNeedsARace
    /\ part = "count" => Count!StaleNeedsARace

\* A session that ended has been or will be followed, or was refused, wiped or late, one its
\* component reports is open, and the arguments of a delayed call are lost only if it, or one that took them over, was
\* overlapped (the key QUEUED, the keys of live sessions and the caches of merge_delay_run).
\* What one thread logs is saved or kept, and two threads save no record twice
\* (bulk_create_decorator).
NothingForgotten ==
    CASE part = "log" -> SavedOnce
      [] part = "alone" -> Alone!SavedOnce /\ Alone!NothingLost
      [] part = "queue" -> Queue!NoneForgotten
      [] part = "life" -> Life!LiveIsOpen
      [] part = "delay" -> Delay!LossNeedsOverlap
      [] OTHER -> TRUE
============================================================================
