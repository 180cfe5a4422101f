----------------------------- MODULE MC_Upkeep -----------------------------
(***************************************************************************)
(* Instances for TLC of the modules about copies and what keeps them true: *)
(* CountCache, SettingCopies, DistributedLock, AccountDiscovery and JobRun.*)
(* They share no variable, so a run explores them side by side: part says  *)
(* which of them a behaviour is about, and the variables of the others     *)
(* keep their first values.                                                *)
(***************************************************************************)
EXTENDS SettingCopies, TLC

CONSTANTS
    Parts,                            \* what a run explores
    Reader, Field, Nobody,    \* of CountCache
    Thread, Object, Fewer,            \* of DistributedLock
    User, Three, Two, Handled,        \* executions, alone and two at once, and requests
    j1, j2, Stop                      \* workers and requests of JobRun

VARIABLES
    part,
    counted, writing, early, pending, hash, countlock, reader, lost, suspect, unheard,
    owner, mark, by, open, txn, due,
    remote, accounts, row, risk, run, request, calm, changes,
    job, task, taskcopy, outcome, worker, pidfile, stop, signal, old, pass, killed

cvars == <<counted, writing, early, pending, hash, countlock, reader, lost, suspect, unheard>>
lvars == <<owner, mark, by, open, txn, due>>
dvars == <<remote, accounts, row, risk, run, request, calm, changes>>
jvars == <<job, task, taskcopy, outcome, worker, pidfile, stop, signal, old, pass, killed>>
allvars == <<part, vars, cvars, lvars, dvars, jvars>>

\* A count whose expiries are lost or come too early.
Delayed == INSTANCE CountCache
             WITH Timed <- {}, Unmapped <- {}, MaxVersion <- 2, Losses <- TRUE,
                  db <- counted, lock <- countlock

\* The ways a lock is used.
Waits == INSTANCE DistributedLock
           WITH Reentrant <- FALSE, OnCommit <- TRUE, Rollbacks <- TRUE, Deaths <- TRUE
Enters == INSTANCE DistributedLock
            WITH Reentrant <- TRUE, OnCommit <- FALSE, Rollbacks <- TRUE, Deaths <- TRUE
Both == INSTANCE DistributedLock
          WITH Reentrant <- TRUE, OnCommit <- TRUE, Rollbacks <- FALSE, Deaths <- TRUE
Mixed == INSTANCE DistributedLock
         WITH Object <- Fewer, Reentrant <- TRUE, OnCommit <- TRUE, Rollbacks <- TRUE, Deaths <- TRUE

\* Executions that discover, one at a time or two at once, and with synchronised accounts.
Turns == INSTANCE AccountDiscovery
           WITH Run <- Three, Request <- Handled, Sync <- FALSE, AtOnce <- 1, MaxChanges <- 2
Syncs == INSTANCE AccountDiscovery
           WITH Run <- Three, Request <- Handled, Sync <- TRUE, AtOnce <- 1, MaxChanges <- 2
Meet == INSTANCE AccountDiscovery
          WITH Run <- Two, Request <- Handled, Sync <- FALSE, AtOnce <- 2, MaxChanges <- 2
MeetSync == INSTANCE AccountDiscovery
              WITH Run <- Two, Request <- Handled, Sync <- TRUE, AtOnce <- 2, MaxChanges <- 2

Ends == {"success", "failed", "unknown"}
One == INSTANCE JobRun WITH Worker <- {j1}, Request <- Stop, Outcomes <- Ends,
         row <- job, copy <- taskcopy
More == INSTANCE JobRun WITH Worker <- {j1, j2}, Request <- Stop, Outcomes <- Ends,
          row <- job, copy <- taskcopy

Discoveries == {"turns", "syncs", "meet", "meetsync"}

ASSUME UpkeepAssumption ==
    /\ Parts \subseteq {"delayed", "waits", "enters", "both", "mixed", "setting", "one", "more"}
                         \cup Discoveries
    /\ SettingAssumption /\ Delayed!CacheAssumption
    /\ One!JobAssumption /\ More!JobAssumption
    /\ Waits!LockAssumption /\ Enters!LockAssumption /\ Both!LockAssumption /\ Mixed!LockAssumption
    /\ Turns!DiscoveryAssumption /\ Syncs!DiscoveryAssumption
    /\ Meet!DiscoveryAssumption /\ MeetSync!DiscoveryAssumption

AllInit ==
    /\ part \in Parts
    /\ Init /\ Delayed!Init /\ More!Init
    /\ IF part = "mixed" THEN Mixed!Init ELSE Both!Init
    /\ IF part \in {"meet", "meetsync"} THEN Meet!Init ELSE Turns!Init
    /\ part \notin Discoveries => remote = {} /\ accounts = {}

InCache(p, A) == part = p /\ A /\ UNCHANGED <<part, vars, lvars, dvars, jvars>>
InLock(p, A) == part = p /\ A /\ UNCHANGED <<part, vars, cvars, dvars, jvars>>
InSetting(A) == part = "setting" /\ A /\ UNCHANGED <<part, cvars, lvars, dvars, jvars>>
Discovering(p, A) == part = p /\ A /\ UNCHANGED <<part, vars, cvars, lvars, jvars>>
InJob(p, A) == part = p /\ A /\ UNCHANGED <<part, vars, cvars, lvars, dvars>>

AllNext ==
    \/ InCache("delayed", Delayed!Next)
    \/ InLock("waits", Waits!Next) \/ InLock("enters", Enters!Next)
    \/ InLock("both", Both!Next) \/ InLock("mixed", Mixed!Next)
    \/ InSetting(Next)
    \/ Discovering("turns", Turns!Next) \/ Discovering("syncs", Syncs!Next)
    \/ Discovering("meet", Meet!Next) \/ Discovering("meetsync", MeetSync!Next)
    \/ InJob("one", One!Next) \/ InJob("more", More!Next)

AllSpec == AllInit /\ [][AllNext]_allvars

\* What is fair of each, where it moves.
AllFairness ==
    /\ \A r \in Reader : /\ WF_allvars(InCache("delayed", Delayed!Read(r)))
                         /\ SF_allvars(InCache("delayed", Delayed!TakeLock(r)))
    /\ WF_allvars(InLock("mixed", Mixed!Expire))
    /\ \A t \in Thread : WF_allvars(InLock("mixed", Mixed!Ends(t)))
    /\ \A w \in Writer : /\ WF_allvars(InSetting(Commit(w) \/ Rollback(w)))
                         /\ WF_allvars(InSetting(Publish(w)))
    /\ \A p \in Process : /\ WF_allvars(InSetting(Start(p)))
                          /\ WF_allvars(InSetting(Subscribe(p)))
                          /\ WF_allvars(InSetting(Set(p)))
                          /\ SF_allvars(InSetting(Read(p)))
    /\ WF_allvars(InJob("more", More!Clean))

FairAllSpec == AllSpec /\ AllFairness

-----------------------------------------------------------------------------
(* The properties of the modules, each about the part it belongs to.       *)

TypesOK ==
    CASE part = "setting" -> TypeOK
      [] part = "delayed" -> Delayed!TypeOK
      [] part \in {"waits", "enters", "both"} -> Both!TypeOK
      [] part = "mixed" -> Mixed!TypeOK
      [] part \in {"turns", "syncs"} -> Turns!TypeOK
      [] part \in {"meet", "meetsync"} -> Meet!TypeOK
      [] OTHER -> More!TypeOK

\* Who is at work owns what says so: a lock is its user's own, however it is used
\* (DistributedLock), and an execution that says running has a worker, or lost it
\* (JobExecution.start).
WorkIsOwned ==
    /\ part = "waits" => Waits!HeldWhileInside
    /\ part = "enters" => Enters!HeldWhileInside
    /\ part = "both" => Both!HeldWhileInside
    /\ part = "one" => One!RunningHasWorker
    /\ part = "more" => More!RunningHasWorker

\* An undisturbed discovery leaves rows and risks true, and executions leave what a user
\* ignores (GatherAccountsManager.do_run, update_gather_accounts_status).
DiscoveryIsTrue ==
    /\ [](/\ part = "turns" => Turns!QuietRunRepairs
          /\ part = "syncs" => Syncs!QuietRunRepairs
          /\ part = "meet" => Meet!QuietRunRepairs
          /\ part = "meetsync" => MeetSync!QuietRunRepairs)
    /\ [][(part \in {"turns", "meet"}) => Turns!IgnoredKept]_dvars

\* In the end a request for a count is answered, a lock is free, processes nothing failed use
\* the setting of the database, and an execution of a job does not say running (Cache, DistributedLock,
\* Subscription.retry, clean_unexpected_execution).
EndsWell ==
    /\ part = "delayed" => Delayed!AnswersCome
    /\ part = "mixed" => Mixed!LockIsFreed
    /\ part = "setting" => CopiesAgree
    /\ part = "more" => More!JobCloses
=============================================================================
