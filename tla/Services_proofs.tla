--------------------------- MODULE Services_proofs ---------------------------
(***************************************************************************)
(* What the run of MC_Services checks, proved of its whole specification.  *)
(* Each part of it is an instance of a module that has its theorems in     *)
(* WorkerWatch_proofs or VaultedAccounts_proofs; here those are instances  *)
(* with the constants of the part.  For each part a lemma Same... says     *)
(* that both instances have the same steps, and a lemma ...Holds that a    *)
(* behaviour that begins in the part stays in it and is one of the module. *)
(***************************************************************************)
EXTENDS MC_Services, TLAPS

\* The theorems about trees, jobs and locks are not used here.
CONSTANTS Org, Page, InPage, MaxFailures, Key, Asset, Request, Outcomes, Root, Nodes, Requests,
          InitialKey, Ops, MaxSelect, MaxActive, MaxMark, User, Run, Handling, Sync, AtOnce, MaxChanges,
          Thread, Object, Reentrant, OnCommit, Rollbacks, Deaths, Granting
VARIABLES perm, tree, built, expiring, page, rewritten, treelock, failures, raced,
          nodes, placed, direct_nodes, direct_assets, ungroup, stored, infos, stack, assets, amount,
          runner, jobtask, taskcopy, outcome, worker, pidfile, stop, signal, old, killed, closing,
          owner, mark, by, txn, due, noderow, change, creator,
          remote, accounts, gathered, risk, discovery, request, calm, changes

-----------------------------------------------------------------------------
(* The parts of the run.                                                   *)

\* The proofs about two tasks and two threads.
Watching == INSTANCE WorkerWatch_proofs
              WITH Tasks <- {k1, k2}, Executions <- {e1, e2}, Workers <- Machines, None <- Nobody,
                   OwnerOf <- (e1 :> k1) @@ (e2 :> k2), Grace <- 1, Confirm <- 1, MarkerTTL <- 2,
                   Deadline <- 3, MaxFaults <- 1, Uncounted <- None, Timed <- Field \ Single,
                   Unmapped <- Single, MaxVersion <- 1, Losses <- FALSE,
                   Worker <- Machines, job <- runner, pass <- closing

LEMMA SameLog ==
    /\ Watching!Bulk!Init <=> Init
    /\ Watching!Bulk!Next <=> Next
    /\ UNCHANGED vars => UNCHANGED Watching!Bulk!vars
    /\ Watching!Bulk!TypeOK <=> TypeOK
    /\ Watching!Bulk!SavedOnce <=> SavedOnce
  BY SMTT(60) DEF Watching!Bulk!vars, Watching!Bulk!MaxRecords, Watching!Bulk!Records, Watching!Bulk!TypeOK,
     Watching!Bulk!Init, Watching!Bulk!Goto, Watching!Bulk!Call, Watching!Bulk!OrgChanged,
     Watching!Bulk!Add, Watching!Bulk!Finish, Watching!Bulk!LockIsFree, Watching!Bulk!Handle,
     Watching!Bulk!Save, Watching!Bulk!KeptOnFailure, Watching!Bulk!SaveFails, Watching!Bulk!Clear,
     Watching!Bulk!Next, Watching!Bulk!SavedOnce, vars, MaxRecords, Records, TypeOK, Init, Goto,
     Call, OrgChanged, Add, Finish, LockIsFree, Handle, Save, KeptOnFailure, SaveFails, Clear, Next,
     SavedOnce, Watching!Bulk!Contains, Contains, Watching!Bulk!IsPrefix, IsPrefix

LEMMA LogHolds ==
    AllSpec /\ part = "log"
    => [](part = "log" /\ TypeOK /\ SavedOnce)
<1>1. AllInit /\ part = "log" => Watching!Bulk!Init
  BY SameLog, SMTT(60) DEF AllInit
<1>2. part = "log" /\ [AllNext]_allvars
      => (part = "log")' /\ [Watching!Bulk!Next]_(Watching!Bulk!vars)
  BY SameLog, ZenonT(60) DEF AllNext, allvars, wvars, avars, mvars, qvars, lvars, dvars, cvars, tvars,
     vars
<1>3. Watching!Bulk!BulkAssumption
  BY ServicesAssumption, SMTT(60) DEF ServicesAssumption, Watching!Bulk!BulkAssumption, BulkAssumption
<1>4. Watching!Bulk!Spec => [](Watching!Bulk!TypeOK /\ Watching!Bulk!SavedOnce)
  BY Watching!RecordsAreSavedOnce, <1>3, SMTT(60)
<1> QED
  BY SameLog, <1>1, <1>2, <1>4, PTL DEF AllSpec, Watching!Bulk!Spec

LEMMA SameWatch ==
    /\ Watching!Init <=> Watch!Init
    /\ Watching!Next <=> Watch!Next
    /\ UNCHANGED Watch!vars => UNCHANGED Watching!vars
    /\ Watching!TypeOK <=> Watch!TypeOK
    /\ Watching!ClosesGone <=> Watch!ClosesGone
    /\ Watching!KeepsResults <=> Watch!KeepsResults
  BY SMTT(60) DEF Watching!vars, Watching!NoCheck, Watching!NoTask, Watching!Live, Watching!Terminal,
     Watching!CloseAs, Watching!TypeOK, Watching!Start, Watching!Create, Watching!Save,
     Watching!End, Watching!PostRun, Watching!TasksDie, Watching!Kill, Watching!Restart,
     Watching!Cut, Watching!Heal, Watching!Revoke, Watching!StillOpen, Watching!Finalize,
     Watching!CloseRevoked, Watching!BeginCheck, Watching!CloseEnded, Watching!Replies,
     Watching!Inspect, Watching!Host, Watching!IsActive, Watching!WorkerReplied, Watching!TooYoung,
     Watching!Present, Watching!Clear, Watching!Confirmed, Watching!Look, Watching!EndCheck,
     Watching!CheckFails, Watching!Tick, Watching!Init, Watching!Work, Watching!Watch,
     Watching!Next, Watching!ClosesGone, Watching!KeepsResults, Watch!vars, Watch!NoCheck,
     Watch!NoTask, Watch!Live, Watch!Terminal, Watch!CloseAs, Watch!TypeOK, Watch!Start,
     Watch!Create, Watch!Save, Watch!End, Watch!PostRun, Watch!TasksDie, Watch!Kill, Watch!Restart,
     Watch!Cut, Watch!Heal, Watch!Revoke, Watch!StillOpen, Watch!Finalize, Watch!CloseRevoked,
     Watch!BeginCheck, Watch!CloseEnded, Watch!Replies, Watch!Inspect, Watch!Host, Watch!IsActive,
     Watch!WorkerReplied, Watch!TooYoung, Watch!Present, Watch!Clear, Watch!Confirmed, Watch!Look,
     Watch!EndCheck, Watch!CheckFails, Watch!Tick, Watch!Init, Watch!Work, Watch!Watch, Watch!Next,
     Watch!ClosesGone, Watch!KeepsResults, Watching!Cardinality, Watch!Cardinality

LEMMA WatchHolds ==
    AllSpec /\ part = "watch"
    => /\ [](part = "watch" /\ Watch!TypeOK)
       /\ [][Watch!ClosesGone /\ Watch!KeepsResults]_wvars
<1>1. AllInit /\ part = "watch" => Watching!Init
  BY SameWatch, SMTT(60) DEF AllInit
<1>2. part = "watch" /\ [AllNext]_allvars
      => (part = "watch")' /\ [Watching!Next]_(Watching!vars)
  BY SameWatch, ZenonT(60) DEF AllNext, allvars, wvars, avars, mvars, qvars, lvars, dvars, cvars, tvars,
     vars, Watch!vars
<1>3. Watching!WatchAssumption
  BY ServicesAssumption, SMTT(60) DEF ServicesAssumption, Watching!WatchAssumption, Watch!WatchAssumption,
     Watching!IsFiniteSet, Watch!IsFiniteSet
<1>4. Watching!Spec => []Watching!TypeOK
  BY Watching!WatchTypes, <1>3, SMTT(60)
<1>5. Watching!Spec => [][Watching!ClosesGone]_(Watching!vars)
  BY Watching!OnlyGoneCloses, <1>3
<1>6. Watching!Spec => [][Watching!KeepsResults]_(Watching!vars)
  BY Watching!ResultsStay, <1>3
<1>7. [Watching!ClosesGone]_(Watching!vars) /\ [Watching!KeepsResults]_(Watching!vars)
      => [Watch!ClosesGone /\ Watch!KeepsResults]_wvars
  BY SameWatch, SMTT(60) DEF wvars, Watching!vars
<1> QED
  BY SameWatch, <1>1, <1>2, <1>4, <1>5, <1>6, <1>7, PTL DEF AllSpec, Watching!Spec

LEMMA SameDelay ==
    /\ Watching!Delay!Init <=> Delay!Init
    /\ Watching!Delay!Next <=> Delay!Next
    /\ UNCHANGED Delay!vars => UNCHANGED Watching!Delay!vars
    /\ Watching!Delay!TypeOK <=> Delay!TypeOK
    /\ Watching!Delay!LossNeedsOverlap <=> Delay!LossNeedsOverlap
  BY SMTT(60) DEF Watching!Delay!caches, Watching!Delay!vars, Watching!Delay!PcStates,
     Watching!Delay!TaskStates, Watching!Delay!TypeOK, Watching!Delay!UnderWay,
     Watching!Delay!Ending, Watching!Delay!NoteOverlap, Watching!Delay!Goto, Watching!Delay!DictOf,
     Watching!Delay!Get, Watching!Delay!Merge, Watching!Delay!CancelTask, Watching!Delay!Args,
     Watching!Delay!Cancel, Watching!Delay!Delay, Watching!Delay!Submit, Watching!Delay!Schedule,
     Watching!Delay!Step, Watching!Delay!Start, Watching!Delay!Run, Watching!Delay!DropTask,
     Watching!Delay!PopTask, Watching!Delay!PopArgs, Watching!Delay!PopTime, Watching!Delay!Init,
     Watching!Delay!InCall, Watching!Delay!InTask, Watching!Delay!Next, Watching!Delay!Carried,
     Watching!Delay!Dropped, Watching!Delay!Disturbed, Watching!Delay!LossNeedsOverlap,
     Delay!caches, Delay!vars, Delay!PcStates, Delay!TaskStates, Delay!TypeOK, Delay!UnderWay,
     Delay!Ending, Delay!NoteOverlap, Delay!Goto, Delay!DictOf, Delay!Get, Delay!Merge,
     Delay!CancelTask, Delay!Args, Delay!Cancel, Delay!Delay, Delay!Submit, Delay!Schedule,
     Delay!Step, Delay!Start, Delay!Run, Delay!DropTask, Delay!PopTask, Delay!PopArgs,
     Delay!PopTime, Delay!Init, Delay!InCall, Delay!InTask, Delay!Next, Delay!Carried,
     Delay!Dropped, Delay!Disturbed, Delay!LossNeedsOverlap, Watching!Delay!Cardinality,
     Delay!Cardinality

LEMMA DelayHolds ==
    AllSpec /\ part = "delay"
    => [](part = "delay" /\ Delay!TypeOK /\ Delay!LossNeedsOverlap)
<1>1. AllInit /\ part = "delay" => Watching!Delay!Init
  BY SameDelay DEF AllInit
<1>2. part = "delay" /\ [AllNext]_allvars
      => (part = "delay")' /\ [Watching!Delay!Next]_(Watching!Delay!vars)
  BY SameDelay, ZenonT(60) DEF AllNext, allvars, wvars, avars, mvars, qvars, lvars, dvars, cvars, tvars,
     vars, Delay!vars, Delay!caches
<1>3. Watching!Delay!NoneAssumption
  BY ServicesAssumption, SMTT(60) DEF ServicesAssumption, Watching!Delay!NoneAssumption, Delay!NoneAssumption
<1>4. Watching!Delay!Spec => [](Watching!Delay!TypeOK /\ Watching!Delay!LossNeedsOverlap)
  BY Watching!UndisturbedCallsAreKept, <1>3
<1> QED
  BY SameDelay, <1>1, <1>2, <1>4, PTL DEF AllSpec, Watching!Delay!Spec

LEMMA SameCounts ==
    /\ Watching!Cache!Init <=> Counts!Init
    /\ Watching!Cache!Next <=> Counts!Next
    /\ UNCHANGED Counts!vars => UNCHANGED Watching!Cache!vars
    /\ Watching!Cache!TypeOK <=> Counts!TypeOK
    /\ Watching!Cache!StaleNeedsARace <=> Counts!StaleNeedsARace
  BY SMTT(60) DEF Watching!Cache!vars, Watching!Cache!Version, Watching!Cache!Counts,
     Watching!Cache!NoCounts, Watching!Cache!TypeOK, Watching!Cache!Init, Watching!Cache!Others,
     Watching!Cache!Write, Watching!Cache!Ended, Watching!Cache!Commit, Watching!Cache!Rollback,
     Watching!Cache!Filled, Watching!Cache!Counted, Watching!Cache!Drop, Watching!Cache!Expire,
     Watching!Cache!ExpireEarly, Watching!Cache!ExpireAll, Watching!Cache!Pass, Watching!Cache!Unheard, Watching!Cache!Lose,
     Watching!Cache!Changes, Watching!Cache!Go, Watching!Cache!Ask, Watching!Cache!Load,
     Watching!Cache!TakeLock, Watching!Cache!Compute, Watching!Cache!Check, Watching!Cache!Count,
     Watching!Cache!Store, Watching!Cache!Reload, Watching!Cache!Answer, Watching!Cache!Read,
     Watching!Cache!Next, Watching!Cache!StaleNeedsARace, Counts!vars, Counts!Version,
     Counts!Counts, Counts!NoCounts, Counts!TypeOK, Counts!Init, Counts!Others, Counts!Write,
     Counts!Ended, Counts!Commit, Counts!Rollback, Counts!Filled, Counts!Counted, Counts!Drop,
     Counts!Expire, Counts!ExpireEarly, Counts!ExpireAll, Counts!Pass, Counts!Unheard, Counts!Lose, Counts!Changes, Counts!Go,
     Counts!Ask, Counts!Load, Counts!TakeLock, Counts!Compute, Counts!Check, Counts!Count,
     Counts!Store, Counts!Reload, Counts!Answer, Counts!Read, Counts!Next, Counts!StaleNeedsARace

LEMMA CountsHolds ==
    AllSpec /\ part = "counts"
    => [](part = "counts" /\ Counts!TypeOK /\ Counts!StaleNeedsARace)
<1>1. AllInit /\ part = "counts" => Watching!Cache!Init
  BY SameCounts DEF AllInit
<1>2. part = "counts" /\ [AllNext]_allvars
      => (part = "counts")' /\ [Watching!Cache!Next]_(Watching!Cache!vars)
  BY SameCounts, ZenonT(60) DEF AllNext, allvars, wvars, avars, mvars, qvars, lvars, dvars, cvars, tvars,
     vars, Counts!vars
<1>3. Watching!Cache!CacheAssumption
  BY ServicesAssumption, SMTT(60) DEF ServicesAssumption, Watching!Cache!CacheAssumption,
     Counts!CacheAssumption
<1>4. Watching!Cache!Spec => []Watching!Cache!TypeOK
  BY Watching!CountsAreBounded, <1>3, SMTT(60)
<1>5. Watching!Cache!Spec => []Watching!Cache!StaleNeedsARace
  BY Watching!WrongCountsAreExcused, <1>3
<1> QED
  BY SameCounts, <1>1, <1>2, <1>4, <1>5, PTL DEF AllSpec, Watching!Cache!Spec

\* About one task and one thread.
LoneWatching == INSTANCE WorkerWatch_proofs
                  WITH Tasks <- {k1}, Executions <- {e1, e2}, Workers <- Machines, None <- Nobody,
                       OwnerOf <- [e \in {e1, e2} |-> k1], Grace <- 1, Confirm <- 1, MarkerTTL <- 3,
                       Deadline <- 3, MaxFaults <- 2, Threads <- {t1}, MaxCalls <- 4, MaxItems <- 3,
                       Field <- Single, Uncounted <- None, Timed <- {}, Unmapped <- {},
                       MaxVersion <- 2, Losses <- TRUE,
                       Worker <- Machines, job <- runner, pass <- closing

LEMMA SameAlone ==
    /\ LoneWatching!Bulk!Init <=> Alone!Init
    /\ LoneWatching!Bulk!Next <=> Alone!Next
    /\ UNCHANGED Alone!vars => UNCHANGED LoneWatching!Bulk!vars
    /\ LoneWatching!Bulk!TypeOK <=> Alone!TypeOK
    /\ LoneWatching!Bulk!SavedOnce <=> Alone!SavedOnce
    /\ LoneWatching!Bulk!NothingLost <=> Alone!NothingLost
  BY SMTT(60) DEF LoneWatching!Bulk!vars, LoneWatching!Bulk!MaxRecords, LoneWatching!Bulk!Records,
     LoneWatching!Bulk!TypeOK, LoneWatching!Bulk!Init, LoneWatching!Bulk!Goto,
     LoneWatching!Bulk!Call, LoneWatching!Bulk!OrgChanged, LoneWatching!Bulk!Add,
     LoneWatching!Bulk!Finish, LoneWatching!Bulk!LockIsFree, LoneWatching!Bulk!Handle,
     LoneWatching!Bulk!Save, LoneWatching!Bulk!KeptOnFailure, LoneWatching!Bulk!SaveFails,
     LoneWatching!Bulk!Clear, LoneWatching!Bulk!Next, LoneWatching!Bulk!SavedOnce,
     LoneWatching!Bulk!NothingLost, Alone!vars, Alone!MaxRecords, Alone!Records, Alone!TypeOK,
     Alone!Init, Alone!Goto, Alone!Call, Alone!OrgChanged, Alone!Add, Alone!Finish,
     Alone!LockIsFree, Alone!Handle, Alone!Save, Alone!KeptOnFailure, Alone!SaveFails, Alone!Clear,
     Alone!Next, Alone!SavedOnce, Alone!NothingLost, LoneWatching!Bulk!Contains, Alone!Contains,
     LoneWatching!Bulk!IsPrefix, Alone!IsPrefix

LEMMA AloneHolds ==
    AllSpec /\ part = "alone"
    => [](part = "alone" /\ Alone!TypeOK /\ Alone!SavedOnce /\ Alone!NothingLost)
<1>1. AllInit /\ part = "alone" => LoneWatching!Bulk!Init
  BY SameAlone DEF AllInit
<1>2. part = "alone" /\ [AllNext]_allvars
      => (part = "alone")' /\ [LoneWatching!Bulk!Next]_(LoneWatching!Bulk!vars)
  BY SameAlone, ZenonT(60) DEF AllNext, allvars, wvars, avars, mvars, qvars, lvars, dvars, cvars, tvars,
     vars, Alone!vars
<1>3. LoneWatching!Bulk!BulkAssumption
  BY ServicesAssumption, SMTT(60) DEF ServicesAssumption, LoneWatching!Bulk!BulkAssumption,
     Alone!BulkAssumption
<1>4. LoneWatching!Bulk!Spec => [](LoneWatching!Bulk!TypeOK /\ LoneWatching!Bulk!SavedOnce)
  BY LoneWatching!RecordsAreSavedOnce, <1>3
<1>5. LoneWatching!Bulk!Spec => []LoneWatching!Bulk!NothingLost
  BY LoneWatching!AloneNothingIsLost, <1>3, SMTT(60)
<1> QED
  BY SameAlone, <1>1, <1>2, <1>4, <1>5, PTL DEF AllSpec, LoneWatching!Bulk!Spec

LEMMA SameLone ==
    /\ LoneWatching!Init <=> Lone!Init
    /\ LoneWatching!Next <=> Lone!Next
    /\ UNCHANGED Lone!vars => UNCHANGED LoneWatching!vars
    /\ LoneWatching!TypeOK <=> Lone!TypeOK
    /\ LoneWatching!ClosesGone <=> Lone!ClosesGone
    /\ LoneWatching!KeepsResults <=> Lone!KeepsResults
  BY SMTT(60) DEF LoneWatching!vars, LoneWatching!NoCheck, LoneWatching!NoTask, LoneWatching!Live,
     LoneWatching!Terminal, LoneWatching!CloseAs, LoneWatching!TypeOK, LoneWatching!Start,
     LoneWatching!Create, LoneWatching!Save, LoneWatching!End, LoneWatching!PostRun,
     LoneWatching!TasksDie, LoneWatching!Kill, LoneWatching!Restart, LoneWatching!Cut,
     LoneWatching!Heal, LoneWatching!Revoke, LoneWatching!StillOpen, LoneWatching!Finalize,
     LoneWatching!CloseRevoked, LoneWatching!BeginCheck, LoneWatching!CloseEnded,
     LoneWatching!Replies, LoneWatching!Inspect, LoneWatching!Host, LoneWatching!IsActive,
     LoneWatching!WorkerReplied, LoneWatching!TooYoung, LoneWatching!Present, LoneWatching!Clear,
     LoneWatching!Confirmed, LoneWatching!Look, LoneWatching!EndCheck, LoneWatching!CheckFails,
     LoneWatching!Tick, LoneWatching!Init, LoneWatching!Work, LoneWatching!Watch, LoneWatching!Next,
     LoneWatching!ClosesGone, LoneWatching!KeepsResults, Lone!vars, Lone!NoCheck, Lone!NoTask,
     Lone!Live, Lone!Terminal, Lone!CloseAs, Lone!TypeOK, Lone!Start, Lone!Create, Lone!Save,
     Lone!End, Lone!PostRun, Lone!TasksDie, Lone!Kill, Lone!Restart, Lone!Cut, Lone!Heal,
     Lone!Revoke, Lone!StillOpen, Lone!Finalize, Lone!CloseRevoked, Lone!BeginCheck,
     Lone!CloseEnded, Lone!Replies, Lone!Inspect, Lone!Host, Lone!IsActive, Lone!WorkerReplied,
     Lone!TooYoung, Lone!Present, Lone!Clear, Lone!Confirmed, Lone!Look, Lone!EndCheck,
     Lone!CheckFails, Lone!Tick, Lone!Init, Lone!Work, Lone!Watch, Lone!Next, Lone!ClosesGone,
     Lone!KeepsResults, LoneWatching!Cardinality, Lone!Cardinality

LEMMA LoneHolds ==
    AllSpec /\ part = "lone"
    => /\ [](part = "lone" /\ Lone!TypeOK)
       /\ [][Lone!ClosesGone /\ Lone!KeepsResults]_wvars
<1>1. AllInit /\ part = "lone" => LoneWatching!Init
  BY SameLone DEF AllInit
<1>2. part = "lone" /\ [AllNext]_allvars
      => (part = "lone")' /\ [LoneWatching!Next]_(LoneWatching!vars)
  BY SameLone, ZenonT(60) DEF AllNext, allvars, wvars, avars, mvars, qvars, lvars, dvars, cvars, tvars,
     vars, Lone!vars
<1>3. LoneWatching!WatchAssumption
  BY ServicesAssumption, SMTT(60) DEF ServicesAssumption, LoneWatching!WatchAssumption, Lone!WatchAssumption,
     LoneWatching!IsFiniteSet, Lone!IsFiniteSet
<1>4. LoneWatching!Spec => []LoneWatching!TypeOK
  BY LoneWatching!WatchTypes, <1>3
<1>5. LoneWatching!Spec => [][LoneWatching!ClosesGone]_(LoneWatching!vars)
  BY LoneWatching!OnlyGoneCloses, <1>3
<1>6. LoneWatching!Spec => [][LoneWatching!KeepsResults]_(LoneWatching!vars)
  BY LoneWatching!ResultsStay, <1>3
<1>7. [LoneWatching!ClosesGone]_(LoneWatching!vars)
          /\ [LoneWatching!KeepsResults]_(LoneWatching!vars)
      => [Lone!ClosesGone /\ Lone!KeepsResults]_wvars
  BY SameLone DEF wvars, LoneWatching!vars
<1> QED
  BY SameLone, <1>1, <1>2, <1>4, <1>5, <1>6, <1>7, PTL DEF AllSpec, LoneWatching!Spec

LEMMA SameCount ==
    /\ LoneWatching!Cache!Init <=> Count!Init
    /\ LoneWatching!Cache!Next <=> Count!Next
    /\ UNCHANGED Count!vars => UNCHANGED LoneWatching!Cache!vars
    /\ LoneWatching!Cache!TypeOK <=> Count!TypeOK
    /\ LoneWatching!Cache!StaleNeedsARace <=> Count!StaleNeedsARace
  BY SMTT(60) DEF LoneWatching!Cache!vars, LoneWatching!Cache!Version, LoneWatching!Cache!Counts,
     LoneWatching!Cache!NoCounts, LoneWatching!Cache!TypeOK, LoneWatching!Cache!Init,
     LoneWatching!Cache!Others, LoneWatching!Cache!Write, LoneWatching!Cache!Ended,
     LoneWatching!Cache!Commit, LoneWatching!Cache!Rollback, LoneWatching!Cache!Filled,
     LoneWatching!Cache!Counted, LoneWatching!Cache!Drop, LoneWatching!Cache!Expire,
     LoneWatching!Cache!ExpireEarly, LoneWatching!Cache!ExpireAll, LoneWatching!Cache!Pass, LoneWatching!Cache!Unheard, LoneWatching!Cache!Lose,
     LoneWatching!Cache!Changes, LoneWatching!Cache!Go, LoneWatching!Cache!Ask,
     LoneWatching!Cache!Load, LoneWatching!Cache!TakeLock, LoneWatching!Cache!Compute,
     LoneWatching!Cache!Check, LoneWatching!Cache!Count, LoneWatching!Cache!Store,
     LoneWatching!Cache!Reload, LoneWatching!Cache!Answer, LoneWatching!Cache!Read,
     LoneWatching!Cache!Next, LoneWatching!Cache!StaleNeedsARace, Count!vars, Count!Version,
     Count!Counts, Count!NoCounts, Count!TypeOK, Count!Init, Count!Others, Count!Write, Count!Ended,
     Count!Commit, Count!Rollback, Count!Filled, Count!Counted, Count!Drop, Count!Expire,
     Count!ExpireEarly, Count!ExpireAll, Count!Pass, Count!Unheard, Count!Lose, Count!Changes, Count!Go, Count!Ask, Count!Load,
     Count!TakeLock, Count!Compute, Count!Check, Count!Count, Count!Store, Count!Reload,
     Count!Answer, Count!Read, Count!Next, Count!StaleNeedsARace

LEMMA CountHolds ==
    AllSpec /\ part = "count"
    => [](part = "count" /\ Count!TypeOK /\ Count!StaleNeedsARace)
<1>1. AllInit /\ part = "count" => LoneWatching!Cache!Init
  BY SameCount, SMTT(60) DEF AllInit
<1>2. part = "count" /\ [AllNext]_allvars
      => (part = "count")' /\ [LoneWatching!Cache!Next]_(LoneWatching!Cache!vars)
  BY SameCount, ZenonT(60) DEF AllNext, allvars, wvars, avars, mvars, qvars, lvars, dvars, cvars, tvars,
     vars, Count!vars
<1>3. LoneWatching!Cache!CacheAssumption
  BY ServicesAssumption, SMTT(60) DEF ServicesAssumption, LoneWatching!Cache!CacheAssumption,
     Count!CacheAssumption
<1>4. LoneWatching!Cache!Spec => []LoneWatching!Cache!TypeOK
  BY LoneWatching!CountsAreBounded, <1>3
<1>5. LoneWatching!Cache!Spec => []LoneWatching!Cache!StaleNeedsARace
  BY LoneWatching!WrongCountsAreExcused, <1>3
<1> QED
  BY SameCount, <1>1, <1>2, <1>4, <1>5, PTL DEF AllSpec, LoneWatching!Cache!Spec

\* About two editors and one token.
Editing == INSTANCE VaultedAccounts_proofs
             WITH Secrets <- Password, NoSecret <- Empty, Absent <- Nobody, None <- Nobody,
                  Editors <- {editor1, editor2}, Updaters <- {}, Transfer <- transfer,
                  Clearing <- TRUE, MaxSaves <- 3, row <- column, pc <- at,
                  Paths <- Path, MountValues <- Password, Clients <- Client, MaxWrites <- 3,
                  MaxMoves <- 2, Accounts <- Account, Sessions <- Session, Debounce <- 1,
                  Countdown <- 2, QueueTTL <- 4, Workers <- 2, MaxTime <- 5,
                  Tokens <- {token1}, Calls <- {request1, request2}, NoToken <- None,
                  OneTime <- 1, Reusable <- 2, Grace <- 1, TokenTime <- 3,
                  table <- tokens, call <- asked, revoked <- withdrawn,
                  Reported <- Session, Ttl <- 2, MaxDeaths <- 1, MaxVersion <- 1

LEMMA SameEdits ==
    /\ Editing!Init <=> Edits!Init
    /\ Editing!Next <=> Edits!Next
    /\ UNCHANGED Edits!vars => UNCHANGED Editing!vars
    /\ Editing!TypeOK <=> Edits!TypeOK
    /\ Editing!MarkedIsInVault <=> Edits!MarkedIsInVault
    /\ Editing!NoLostSecret <=> Edits!NoLostSecret
  BY SMTT(60) DEF Editing!vars, Editing!history, Editing!Values, Editing!Actors, Editing!Columns, Editing!TypeOK,
     Editing!Init, Editing!Goto, Editing!Lock, Editing!Free, Editing!Patched, Editing!Vaulted,
     Editing!Load, Editing!Given, Editing!Save, Editing!Marked, Editing!SkipMarked,
     Editing!WriteVault, Editing!WriteFails, Editing!Told, Editing!Commit, Editing!RollBack, Editing!Request,
     Editing!Update, Editing!UpdateVault, Editing!MarkRow, Editing!UpdateOthers, Editing!Pick,
     Editing!ReadAgain, Editing!LockRow, Editing!EndTransfer, Editing!SkipOrFail, Editing!Sync,
     Editing!Restorable, Editing!Restore, Editing!TransferRow, Editing!Restart, Editing!Next,
     Editing!MarkedIsInVault, Editing!NoLostSecret, Edits!vars, Edits!history, Edits!Values, Edits!Actors,
     Edits!Columns, Edits!TypeOK, Edits!Init, Edits!Goto, Edits!Lock, Edits!Free, Edits!Patched,
     Edits!Vaulted, Edits!Load, Edits!Given, Edits!Save, Edits!Marked, Edits!SkipMarked,
     Edits!WriteVault, Edits!WriteFails, Edits!Told, Edits!Commit, Edits!RollBack, Edits!Request, Edits!Update,
     Edits!UpdateVault, Edits!MarkRow, Edits!UpdateOthers, Edits!Pick, Edits!ReadAgain,
     Edits!LockRow, Edits!EndTransfer, Edits!SkipOrFail, Edits!Sync, Edits!Restorable,
     Edits!Restore, Edits!TransferRow, Edits!Restart, Edits!Next, Edits!MarkedIsInVault,
     Edits!NoLostSecret

LEMMA EditsHolds ==
    AllSpec /\ part = "edits"
    => /\ [](part = "edits" /\ Edits!TypeOK /\ Edits!MarkedIsInVault /\ Edits!NoLostSecret)
       /\ [][Edits!TransferRow => Edits!Stored' = Edits!Stored]_(Edits!vars)
<1>1. AllInit /\ part = "edits" => Editing!Init
  BY SameEdits, SMTT(60) DEF AllInit
<1>2. part = "edits" /\ [AllNext]_allvars
      => (part = "edits")' /\ [Editing!Next]_(Editing!vars)
  BY SameEdits, ZenonT(60) DEF AllNext, allvars, wvars, avars, mvars, qvars, lvars, dvars, cvars, tvars,
     vars, Edits!vars, Edits!history
<1>3. Editing!ValuesAssumption
  BY ServicesAssumption, SMTT(60) DEF ServicesAssumption, Editing!ValuesAssumption, Edits!ValuesAssumption
<1>4. Editing!Spec => []Editing!TypeOK
  BY Editing!VaultTypes, <1>3
<1>5. Editing!Spec => []Editing!MarkedIsInVault
  BY Editing!MarksHaveEntries, <1>3, SMTT(60)
<1>6. Editing!Spec => []Editing!NoLostSecret
  BY Editing!SecretIsKept, <1>3
<1>7. Editing!Spec => [][Editing!TransferRow => Editing!Stored' = Editing!Stored]_(Editing!vars)
  BY Editing!TransfersKeep, <1>3, SMTT(60) DEF Editing!TransferKeepsSecret
<1>8. [Editing!TransferRow => Editing!Stored' = Editing!Stored]_(Editing!vars)
      => [Edits!TransferRow => Edits!Stored' = Edits!Stored]_(Edits!vars)
  BY SMTT(60) DEF Editing!Goto, Edits!Goto, Editing!Lock, Edits!Lock, Editing!Free, Edits!Free,
     Editing!Marked, Edits!Marked, Editing!Pick, Edits!Pick, Editing!ReadAgain, Edits!ReadAgain,
     Editing!LockRow, Edits!LockRow, Editing!EndTransfer, Edits!EndTransfer, Editing!SkipOrFail,
     Edits!SkipOrFail, Editing!Sync, Edits!Sync, Editing!Restorable, Edits!Restorable,
     Editing!Restore, Edits!Restore, Editing!TransferRow, Edits!TransferRow, Editing!Vaulted,
     Edits!Vaulted, Editing!Stored, Edits!Stored, Editing!vars, Edits!vars,
     Editing!history, Edits!history
<1> QED
  BY SameEdits, <1>1, <1>2, <1>4, <1>5, <1>6, <1>7, <1>8, PTL DEF AllSpec, Editing!Spec

LEMMA SameMount ==
    /\ Editing!Mount!Init <=> Mount!Init
    /\ Editing!Mount!Next <=> Mount!Next
    /\ UNCHANGED Mount!vars => UNCHANGED Editing!Mount!vars
    /\ Editing!Mount!TypeOK <=> Mount!TypeOK
  BY SMTT(60) DEF Editing!Mount!vars, Editing!Mount!Mounts, Editing!Mount!Nothing, Editing!Mount!TypeOK,
     Editing!Mount!Init, Editing!Mount!Listed, Editing!Mount!Begin, Editing!Mount!Gone,
     Editing!Mount!ReadPath, Editing!Mount!Abort, Editing!Mount!Free, Editing!Mount!PutPath,
     Editing!Mount!ToVerify, Editing!Mount!BeginVerify, Editing!Mount!Same,
     Editing!Mount!VerifyPath, Editing!Mount!CallFails, Editing!Mount!Switch, Editing!Mount!Move,
     Editing!Mount!Refresh, Editing!Mount!Write, Editing!Mount!Next, Mount!vars, Mount!Mounts,
     Mount!Nothing, Mount!TypeOK, Mount!Init, Mount!Listed, Mount!Begin, Mount!Gone, Mount!ReadPath,
     Mount!Abort, Mount!Free, Mount!PutPath, Mount!ToVerify, Mount!BeginVerify, Mount!Same,
     Mount!VerifyPath, Mount!CallFails, Mount!Switch, Mount!Move, Mount!Refresh, Mount!Write,
     Mount!Next

LEMMA MountHolds ==
    AllSpec /\ part = "mount"
    => /\ [](part = "mount" /\ Mount!TypeOK)
       /\ [][Mount!Move => \A p \in Path : mount["new"][p] # Nobody
                       => mount'["new"][p] = mount["new"][p]]_(Mount!vars)
       /\ [][Mount!Switch => \A p \in Mount!Listed("old") \ written : Mount!Same(p)]_(Mount!vars)
<1>1. AllInit /\ part = "mount" => Editing!Mount!Init
  BY SameMount DEF AllInit
<1>2. part = "mount" /\ [AllNext]_allvars
      => (part = "mount")' /\ [Editing!Mount!Next]_(Editing!Mount!vars)
  BY SameMount, ZenonT(60) DEF AllNext, allvars, wvars, avars, mvars, qvars, lvars, dvars, cvars, tvars,
     vars, Mount!vars
<1>3. Editing!Mount!MountAssumption
  BY ServicesAssumption, SMTT(60) DEF ServicesAssumption, Editing!Mount!MountAssumption, Mount!MountAssumption
<1>4. Editing!Mount!Spec => []Editing!Mount!TypeOK /\ Editing!Mount!NothingReplaced
  BY Editing!MovesReplaceNothing, <1>3, SMTT(60)
<1>5. Editing!Mount!Spec => [][Editing!Mount!Move => \A p \in Path : mount["new"][p] # Nobody
                       => mount'["new"][p] = mount["new"][p]]_(Editing!Mount!vars)
  BY Editing!MovesReplaceNothing, <1>3 DEF Editing!Mount!NothingReplaced
<1>6. [Editing!Mount!Move => \A p \in Path : mount["new"][p] # Nobody
                       => mount'["new"][p] = mount["new"][p]]_(Editing!Mount!vars)
      => [Mount!Move => \A p \in Path : mount["new"][p] # Nobody
                       => mount'["new"][p] = mount["new"][p]]_(Mount!vars)
  BY SMTT(60) DEF Editing!Mount!Nothing, Mount!Nothing, Editing!Mount!Listed, Mount!Listed,
     Editing!Mount!Begin, Mount!Begin, Editing!Mount!Gone, Mount!Gone, Editing!Mount!ReadPath,
     Mount!ReadPath, Editing!Mount!Abort, Mount!Abort, Editing!Mount!Free, Mount!Free,
     Editing!Mount!PutPath, Mount!PutPath, Editing!Mount!ToVerify, Mount!ToVerify,
     Editing!Mount!BeginVerify, Mount!BeginVerify, Editing!Mount!Same, Mount!Same,
     Editing!Mount!VerifyPath, Mount!VerifyPath, Editing!Mount!CallFails, Mount!CallFails,
     Editing!Mount!Switch, Mount!Switch, Editing!Mount!Move, Mount!Move, Editing!Mount!vars,
     Mount!vars
<1>7. Editing!Mount!Spec => [][Editing!Mount!Switch
          => \A p \in Editing!Mount!Listed("old") \ written
          : Editing!Mount!Same(p)]_(Editing!Mount!vars)
  BY Editing!ComparedSecretsAreMoved, <1>3, SMTT(60) DEF Editing!Mount!ComparedIsMoved
<1>8. [Editing!Mount!Switch => \A p \in Editing!Mount!Listed("old") \ written
          : Editing!Mount!Same(p)]_(Editing!Mount!vars)
      => [Mount!Switch => \A p \in Mount!Listed("old") \ written : Mount!Same(p)]_(Mount!vars)
  BY SMTT(60) DEF Editing!Mount!Switch, Mount!Switch, Editing!Mount!Listed, Mount!Listed, Editing!Mount!Same,
     Mount!Same, Editing!Mount!vars, Mount!vars
<1> QED
  BY SameMount, <1>1, <1>2, <1>4, <1>5, <1>6, <1>7, <1>8, PTL DEF AllSpec, Editing!Mount!Spec

LEMMA SameQueue ==
    /\ Editing!Queue!Init <=> Queue!Init
    /\ Editing!Queue!Next <=> Queue!Next
    /\ UNCHANGED Queue!vars => UNCHANGED Editing!Queue!vars
    /\ Editing!Queue!TypeOK <=> Queue!TypeOK
    /\ Editing!Queue!NoneForgotten <=> Queue!NoneForgotten
  BY SMTT(60) DEF Editing!Queue!Tasks, Editing!Queue!vars, Editing!Queue!NoKey, Editing!Queue!Key,
     Editing!Queue!Forever, Editing!Queue!New, Editing!Queue!Idle, Editing!Queue!TypeOK,
     Editing!Queue!Busy, Editing!Queue!EndedOn, Editing!Queue!Followed, Editing!Queue!Set,
     Editing!Queue!Open, Editing!Queue!QueuedUntil, Editing!Queue!Enqueue,
     Editing!Queue!IsDebounced, Editing!Queue!End, Editing!Queue!StartByHand,
     Editing!Queue!StartDelayed, Editing!Queue!SeeQueued, Editing!Queue!SetReady,
     Editing!Queue!NothingQueued, Editing!Queue!ScanEnds, Editing!Queue!Take, Editing!Queue!Change,
     Editing!Queue!Release, Editing!Queue!NotOfAnother, Editing!Queue!LookAtKey, Editing!Queue!FailToPrepare, Editing!Queue!Expired, Editing!Queue!Overdue,
     Editing!Queue!ClearKey, Editing!Queue!Finish, Editing!Queue!Tick, Editing!Queue!Init,
     Editing!Queue!Work, Editing!Queue!Next, Editing!Queue!Pending, Editing!Queue!NoneForgotten,
     Queue!Tasks, Queue!vars, Queue!NoKey, Queue!Key, Queue!Forever, Queue!New, Queue!Idle,
     Queue!TypeOK, Queue!Busy, Queue!EndedOn, Queue!Followed, Queue!Set, Queue!Open,
     Queue!QueuedUntil, Queue!Enqueue, Queue!IsDebounced, Queue!End, Queue!StartByHand,
     Queue!StartDelayed, Queue!SeeQueued, Queue!SetReady, Queue!NothingQueued, Queue!ScanEnds,
     Queue!Take, Queue!Change, Queue!Release, Queue!NotOfAnother, Queue!LookAtKey, Queue!FailToPrepare, Queue!Expired, Queue!Overdue, Queue!ClearKey,
     Queue!Finish, Queue!Tick, Queue!Init, Queue!Work, Queue!Next, Queue!Pending,
     Queue!NoneForgotten, Editing!Queue!Cardinality, Queue!Cardinality

LEMMA QueueHolds ==
    AllSpec /\ part = "queue"
    => [](part = "queue" /\ Queue!TypeOK /\ Queue!NoneForgotten)
<1>1. AllInit /\ part = "queue" => Editing!Queue!Init
  BY SameQueue DEF AllInit
<1>2. part = "queue" /\ [AllNext]_allvars
      => (part = "queue")' /\ [Editing!Queue!Next]_(Editing!Queue!vars)
  BY SameQueue, ZenonT(60) DEF AllNext, allvars, wvars, avars, mvars, qvars, lvars, dvars, cvars, tvars,
     vars, Queue!vars
<1>3. Editing!Queue!QueueAssumption
  BY ServicesAssumption, SMTT(60) DEF ServicesAssumption, Editing!Queue!Tasks, Queue!Tasks,
     Editing!Queue!QueueAssumption, Queue!QueueAssumption
<1>4. Editing!Queue!Spec => [](Editing!Queue!TypeOK /\ Editing!Queue!NoneForgotten)
  BY Editing!EndsAreNotForgotten, <1>3, SMTT(60)
<1> QED
  BY SameQueue, <1>1, <1>2, <1>4, PTL DEF AllSpec, Editing!Queue!Spec

LEMMA SameLife ==
    /\ Editing!Life!Init <=> Life!Init
    /\ Editing!Life!Next <=> Life!Next
    /\ UNCHANGED Life!vars => UNCHANGED Editing!Life!vars
    /\ Editing!Life!TypeOK <=> Life!TypeOK
    /\ Editing!Life!LiveIsOpen <=> Life!LiveIsOpen
  BY SMTT(60) DEF Editing!Life!vars, Editing!Life!TypeOK, Editing!Life!Init, Editing!Life!Open,
     Editing!Life!Start, Editing!Life!SetActive, Editing!Life!Report, Editing!Life!Finish,
     Editing!Life!Execute, Editing!Life!LoseContact, Editing!Life!Return, Editing!Life!RequestKill,
     Editing!Life!Aged, Editing!Life!Tick, Editing!Life!CleanBegin, Editing!Life!is_active,
     Editing!Life!CleanVisit, Editing!Life!CleanEnd, Editing!Life!CleanDies, Editing!Life!Clean,
     Editing!Life!Next, Editing!Life!LiveIsOpen, Life!vars, Life!TypeOK, Life!Init, Life!Open,
     Life!Start, Life!SetActive, Life!Report, Life!Finish, Life!Execute, Life!LoseContact,
     Life!Return, Life!RequestKill, Life!Aged, Life!Tick, Life!CleanBegin, Life!is_active,
     Life!CleanVisit, Life!CleanEnd, Life!CleanDies, Life!Clean, Life!Next, Life!LiveIsOpen

LEMMA LifeHolds ==
    AllSpec /\ part = "life"
    => [](part = "life" /\ Life!TypeOK /\ Life!LiveIsOpen)
<1>1. AllInit /\ part = "life" => Editing!Life!Init
  BY SameLife, SMTT(60) DEF AllInit
<1>2. part = "life" /\ [AllNext]_allvars
      => (part = "life")' /\ [Editing!Life!Next]_(Editing!Life!vars)
  BY SameLife, ZenonT(60) DEF AllNext, allvars, wvars, avars, mvars, qvars, lvars, dvars, cvars, tvars,
     vars, Life!vars
<1>3. Editing!Life!SessionAssumption
  BY ServicesAssumption, SMTT(60) DEF ServicesAssumption, Editing!Life!SessionAssumption,
     Life!SessionAssumption
<1>4. Editing!Life!Spec => [](Editing!Life!TypeOK /\ Editing!Life!LiveIsOpen)
  BY Editing!SessionsInTouchStayOpen, <1>3
<1> QED
  BY SameLife, <1>1, <1>2, <1>4, PTL DEF AllSpec, Editing!Life!Spec

LEMMA SameToken ==
    /\ Editing!Token!Init <=> Token!Init
    /\ Editing!Token!Next <=> Token!Next
    /\ UNCHANGED Token!vars => UNCHANGED Editing!Token!vars
    /\ Editing!Token!TypeOK <=> Token!TypeOK
    /\ Editing!Token!GatePassed <=> Token!GatePassed
    /\ Editing!Token!UsedIsDead <=> Token!UsedIsDead
    /\ Editing!Token!GivenInTime <=> Token!GivenInTime
    /\ Editing!Token!RevivedByStale <=> Token!RevivedByStale
    /\ Editing!Token!UndoneByRenewal <=> Token!UndoneByRenewal
  BY SMTT(60) DEF Editing!Token!Ops, Editing!Token!Rules, Editing!Token!Row, Editing!Token!vars,
     Editing!Token!Past, Editing!Token!Idle, Editing!Token!Copy, Editing!Token!TypeOK,
     Editing!Token!Permed, Editing!Token!Rows, Editing!Token!Live, Editing!Token!Finish,
     Editing!Token!Put, Editing!Token!ActiveIf, Editing!Token!NewRow, Editing!Token!MayAsk,
     Editing!Token!Create, Editing!Token!Accepts, Editing!Token!Read, Editing!Token!ExpireRow,
     Editing!Token!Stays, Editing!Token!Secret, Editing!Token!Renewal, Editing!Token!Expire,
     Editing!Token!LastsUntil, Editing!Token!Reuse, Editing!Token!Exchange, Editing!Token!Refuse,
     Editing!Token!Activate, Editing!Token!Approve, Editing!Token!FaceVerified,
     Editing!Token!Revoke, Editing!Token!Tick, Editing!Token!Init, Editing!Token!Next,
     Editing!Token!GatePassed, Editing!Token!GivenInTime, Editing!Token!UsedIsDead,
     Editing!Token!RevivedByStale, Editing!Token!UndoneByRenewal, Token!Ops, Token!Rules, Token!Row,
     Token!vars, Token!Past, Token!Idle, Token!Copy, Token!TypeOK, Token!Permed, Token!Rows,
     Token!Live, Token!Finish, Token!Put, Token!ActiveIf, Token!NewRow, Token!MayAsk, Token!Create,
     Token!Accepts, Token!Read, Token!ExpireRow, Token!Stays, Token!Secret, Token!Renewal,
     Token!Expire, Token!LastsUntil, Token!Reuse, Token!Exchange, Token!Refuse, Token!Activate,
     Token!Approve, Token!FaceVerified, Token!Revoke, Token!Tick, Token!Init, Token!Next,
     Token!GatePassed, Token!GivenInTime, Token!UsedIsDead, Token!RevivedByStale,
     Token!UndoneByRenewal

LEMMA TokenHolds ==
    AllSpec /\ part = "token"
    => /\ [](part = "token" /\ Token!TypeOK /\ Token!GatePassed /\ Token!UsedIsDead)
       /\ [][Token!GivenInTime /\ Token!RevivedByStale /\ Token!UndoneByRenewal]_tvars
<1>1. AllInit /\ part = "token" => Editing!Token!Init
  BY SameToken, SMTT(60) DEF AllInit
<1>2. part = "token" /\ [AllNext]_allvars
      => (part = "token")' /\ [Editing!Token!Next]_(Editing!Token!vars)
  BY SameToken, ZenonT(60) DEF AllNext, allvars, wvars, avars, mvars, qvars, lvars, dvars, cvars, tvars,
     vars, Token!vars
<1>3. Editing!Token!TokenAssumption
  BY ServicesAssumption, SMTT(60) DEF ServicesAssumption, Editing!Token!Rules, Token!Rules, Editing!Token!Row,
     Token!Row, Editing!Token!TokenAssumption, Token!TokenAssumption
<1>4. Editing!Token!Spec => []Editing!Token!TypeOK
  BY Editing!TokenTypes, <1>3
<1>5. Editing!Token!Spec => [](Editing!Token!GatePassed /\ Editing!Token!UsedIsDead)
  BY Editing!GatesPassed, <1>3, SMTT(60)
<1>6. Editing!Token!Spec => [][Editing!Token!GivenInTime /\ Editing!Token!RevivedByStale
          /\ Editing!Token!UndoneByRenewal]_(Editing!Token!vars)
  BY Editing!RacesAreBounded, <1>3, SMTT(60)
<1>7. [Editing!Token!GivenInTime /\ Editing!Token!RevivedByStale
          /\ Editing!Token!UndoneByRenewal]_(Editing!Token!vars)
      => [Token!GivenInTime /\ Token!RevivedByStale /\ Token!UndoneByRenewal]_tvars
  BY SameToken, SMTT(60) DEF tvars, Editing!Token!vars
<1> QED
  BY SameToken, <1>1, <1>2, <1>4, <1>5, <1>6, <1>7, PTL DEF AllSpec, Editing!Token!Spec

\* About an editor and an update outside a transaction, and two tokens.
Updating == INSTANCE VaultedAccounts_proofs
              WITH Secrets <- Password, NoSecret <- Empty, Absent <- Nobody, None <- Nobody,
                   Editors <- {editor1}, Updaters <- {updater}, Transfer <- transfer,
                   Clearing <- TRUE, MaxSaves <- 3, row <- column, pc <- at,
                   Paths <- Path, MountValues <- Password, Clients <- Client, MaxWrites <- 3,
                   MaxMoves <- 2, Accounts <- Account, Sessions <- Session, Debounce <- 1,
                   Countdown <- 2, QueueTTL <- 4, Workers <- 2, MaxTime <- 5,
                   Tokens <- {token1, token2}, Calls <- {request1}, NoToken <- None,
                   OneTime <- 1, Reusable <- 2, Grace <- 1, TokenTime <- 1,
                   table <- tokens, call <- asked, revoked <- withdrawn,
                   Reported <- Session, Ttl <- 2, MaxDeaths <- 1, MaxVersion <- 1

LEMMA SameUpdates ==
    /\ Updating!Init <=> Updates!Init
    /\ Updating!Next <=> Updates!Next
    /\ UNCHANGED Updates!vars => UNCHANGED Updating!vars
    /\ Updating!TypeOK <=> Updates!TypeOK
    /\ Updating!MarkedIsInVault <=> Updates!MarkedIsInVault
  BY SMTT(60) DEF Updating!vars, Updating!history, Updating!Values, Updating!Actors, Updating!Columns, Updating!TypeOK,
     Updating!Init, Updating!Goto, Updating!Lock, Updating!Free, Updating!Patched, Updating!Load,
     Updating!Given, Updating!Save, Updating!Marked, Updating!SkipMarked, Updating!WriteVault,
     Updating!WriteFails, Updating!Told, Updating!Commit, Updating!RollBack, Updating!Request, Updating!Update,
     Updating!UpdateVault, Updating!MarkRow, Updating!UpdateOthers, Updating!Pick,
     Updating!ReadAgain, Updating!LockRow, Updating!EndTransfer, Updating!SkipOrFail, Updating!Sync,
     Updating!Restorable, Updating!Restore, Updating!TransferRow, Updating!Restart, Updating!Next,
     Updating!MarkedIsInVault, Updates!vars, Updates!history, Updates!Values, Updates!Actors, Updates!Columns,
     Updates!TypeOK, Updates!Init, Updates!Goto, Updates!Lock, Updates!Free, Updates!Patched,
     Updates!Vaulted, Updates!Load, Updates!Given, Updates!Save, Updates!Marked, Updates!SkipMarked,
     Updates!WriteVault, Updates!WriteFails, Updates!Told, Updates!Commit, Updates!RollBack, Updates!Request,
     Updates!Update, Updates!UpdateVault, Updates!MarkRow, Updates!UpdateOthers, Updates!Pick,
     Updates!ReadAgain, Updates!LockRow, Updates!EndTransfer, Updates!SkipOrFail, Updates!Sync,
     Updates!Restorable, Updates!Restore, Updates!TransferRow, Updates!Restart, Updates!Next,
     Updates!MarkedIsInVault

LEMMA UpdatesHolds ==
    AllSpec /\ part = "updates"
    => /\ [](part = "updates" /\ Updates!TypeOK /\ Updates!MarkedIsInVault)
       /\ [][Updates!TransferRow => Updates!Stored' = Updates!Stored]_(Updates!vars)
<1>1. AllInit /\ part = "updates" => Updating!Init
  BY SameUpdates DEF AllInit
<1>2. part = "updates" /\ [AllNext]_allvars
      => (part = "updates")' /\ [Updating!Next]_(Updating!vars)
  BY SameUpdates, ZenonT(60) DEF AllNext, allvars, wvars, avars, mvars, qvars, lvars, dvars, cvars,
     tvars, vars, Updates!vars, Updates!history
<1>3. Updating!ValuesAssumption
  BY ServicesAssumption, SMTT(60) DEF ServicesAssumption, Updating!ValuesAssumption, Updates!ValuesAssumption
<1>4. Updating!Spec => []Updating!TypeOK
  BY Updating!VaultTypes, <1>3
<1>5. Updating!Spec => []Updating!MarkedIsInVault
  BY Updating!MarksHaveEntries, <1>3
<1>6. Updating!Spec => [][Updating!TransferRow
          => Updating!Stored' = Updating!Stored]_(Updating!vars)
  BY Updating!TransfersKeep, <1>3 DEF Updating!TransferKeepsSecret
<1>7. [Updating!TransferRow => Updating!Stored' = Updating!Stored]_(Updating!vars)
      => [Updates!TransferRow => Updates!Stored' = Updates!Stored]_(Updates!vars)
  BY SMTT(60) DEF Updating!Goto, Updates!Goto, Updating!Lock, Updates!Lock, Updating!Free, Updates!Free,
     Updating!Marked, Updates!Marked, Updating!Pick, Updates!Pick, Updating!ReadAgain, Updates!ReadAgain,
     Updating!LockRow, Updates!LockRow, Updating!EndTransfer, Updates!EndTransfer, Updating!SkipOrFail,
     Updates!SkipOrFail, Updating!Sync, Updates!Sync, Updating!Restorable, Updates!Restorable,
     Updating!Restore, Updates!Restore, Updating!TransferRow, Updates!TransferRow, Updating!Vaulted,
     Updates!Vaulted, Updating!Stored, Updates!Stored, Updating!vars, Updates!vars,
     Updating!history, Updates!history
<1> QED
  BY SameUpdates, <1>1, <1>2, <1>4, <1>5, <1>6, <1>7, PTL DEF AllSpec, Updating!Spec

LEMMA SamePair ==
    /\ Updating!Token!Init <=> Pair!Init
    /\ Updating!Token!Next <=> Pair!Next
    /\ UNCHANGED Pair!vars => UNCHANGED Updating!Token!vars
    /\ Updating!Token!TypeOK <=> Pair!TypeOK
    /\ Updating!Token!GatePassed <=> Pair!GatePassed
    /\ Updating!Token!UsedIsDead <=> Pair!UsedIsDead
    /\ Updating!Token!GivenInTime <=> Pair!GivenInTime
    /\ Updating!Token!RevivedByStale <=> Pair!RevivedByStale
    /\ Updating!Token!UndoneByRenewal <=> Pair!UndoneByRenewal
  BY SMTT(60) DEF Updating!Token!Ops, Updating!Token!Rules, Updating!Token!Row, Updating!Token!vars,
     Updating!Token!Past, Updating!Token!Idle, Updating!Token!Copy, Updating!Token!TypeOK,
     Updating!Token!Permed, Updating!Token!Rows, Updating!Token!Live, Updating!Token!Finish,
     Updating!Token!Put, Updating!Token!ActiveIf, Updating!Token!NewRow, Updating!Token!MayAsk,
     Updating!Token!Create, Updating!Token!Accepts, Updating!Token!Read, Updating!Token!ExpireRow,
     Updating!Token!Stays, Updating!Token!Secret, Updating!Token!Renewal, Updating!Token!Expire,
     Updating!Token!LastsUntil, Updating!Token!Reuse, Updating!Token!Exchange,
     Updating!Token!Refuse, Updating!Token!Activate, Updating!Token!Approve,
     Updating!Token!FaceVerified, Updating!Token!Revoke, Updating!Token!Tick, Updating!Token!Init,
     Updating!Token!Next, Updating!Token!GatePassed, Updating!Token!GivenInTime,
     Updating!Token!UsedIsDead, Updating!Token!RevivedByStale, Updating!Token!UndoneByRenewal,
     Pair!Ops, Pair!Rules, Pair!Row, Pair!vars, Pair!Past, Pair!Idle, Pair!Copy, Pair!TypeOK,
     Pair!Permed, Pair!Rows, Pair!Live, Pair!Finish, Pair!Put, Pair!ActiveIf, Pair!NewRow,
     Pair!MayAsk, Pair!Create, Pair!Accepts, Pair!Read, Pair!ExpireRow, Pair!Stays, Pair!Secret,
     Pair!Renewal, Pair!Expire, Pair!LastsUntil, Pair!Reuse, Pair!Exchange, Pair!Refuse,
     Pair!Activate, Pair!Approve, Pair!FaceVerified, Pair!Revoke, Pair!Tick, Pair!Init, Pair!Next,
     Pair!GatePassed, Pair!GivenInTime, Pair!UsedIsDead, Pair!RevivedByStale, Pair!UndoneByRenewal

LEMMA PairHolds ==
    AllSpec /\ part = "pair"
    => /\ [](part = "pair" /\ Pair!TypeOK /\ Pair!GatePassed /\ Pair!UsedIsDead)
       /\ [][Pair!GivenInTime /\ Pair!RevivedByStale /\ Pair!UndoneByRenewal]_tvars
<1>1. AllInit /\ part = "pair" => Updating!Token!Init
  BY SamePair, SMTT(60) DEF AllInit
<1>2. part = "pair" /\ [AllNext]_allvars
      => (part = "pair")' /\ [Updating!Token!Next]_(Updating!Token!vars)
  BY SamePair, ZenonT(60) DEF AllNext, allvars, wvars, avars, mvars, qvars, lvars, dvars, cvars, tvars,
     vars, Pair!vars
<1>3. Updating!Token!TokenAssumption
  BY ServicesAssumption, SMTT(60) DEF ServicesAssumption, Updating!Token!Rules, Pair!Rules,
     Updating!Token!Row, Pair!Row, Updating!Token!TokenAssumption, Pair!TokenAssumption
<1>4. Updating!Token!Spec => []Updating!Token!TypeOK
  BY Updating!TokenTypes, <1>3
<1>5. Updating!Token!Spec => [](Updating!Token!GatePassed /\ Updating!Token!UsedIsDead)
  BY Updating!GatesPassed, <1>3
<1>6. Updating!Token!Spec => [][Updating!Token!GivenInTime /\ Updating!Token!RevivedByStale
          /\ Updating!Token!UndoneByRenewal]_(Updating!Token!vars)
  BY Updating!RacesAreBounded, <1>3
<1>7. [Updating!Token!GivenInTime /\ Updating!Token!RevivedByStale
          /\ Updating!Token!UndoneByRenewal]_(Updating!Token!vars)
      => [Pair!GivenInTime /\ Pair!RevivedByStale /\ Pair!UndoneByRenewal]_tvars
  BY SamePair DEF tvars, Updating!Token!vars
<1> QED
  BY SamePair, <1>1, <1>2, <1>4, <1>5, <1>6, <1>7, PTL DEF AllSpec, Updating!Token!Spec

\* Types hold in each part of MC_Services, which runs the nine modules about accounts,
\* sessions and tokens.
THEOREM ServicesTypesHold ==
    AllSpec => []TypesOK
<1>1. AllInit => \/ part = "log" \/ part = "alone" \/ part = "watch" \/ part = "lone"
                 \/ part = "edits" \/ part = "updates" \/ part = "mount" \/ part = "queue"
                 \/ part = "life" \/ part = "delay" \/ part = "counts" \/ part = "count"
                 \/ part = "token" \/ part = "pair"
  BY ServicesAssumption, SMTT(60) DEF ServicesAssumption, AllInit
<1>2. /\ part = "log" /\ TypeOK => TypesOK
      /\ part = "alone" /\ Alone!TypeOK => TypesOK
      /\ part = "watch" /\ Watch!TypeOK => TypesOK
      /\ part = "lone" /\ Lone!TypeOK => TypesOK
      /\ part = "edits" /\ Edits!TypeOK => TypesOK
      /\ part = "updates" /\ Updates!TypeOK => TypesOK
      /\ part = "mount" /\ Mount!TypeOK => TypesOK
      /\ part = "queue" /\ Queue!TypeOK => TypesOK
      /\ part = "life" /\ Life!TypeOK => TypesOK
      /\ part = "delay" /\ Delay!TypeOK => TypesOK
      /\ part = "counts" /\ Counts!TypeOK => TypesOK
      /\ part = "count" /\ Count!TypeOK => TypesOK
      /\ part = "token" /\ Token!TypeOK => TypesOK
      /\ part = "pair" /\ Pair!TypeOK => TypesOK
  BY SMTT(60) DEF TypesOK
<1> QED
  BY <1>1, <1>2, LogHolds, AloneHolds, WatchHolds, LoneHolds, EditsHolds, UpdatesHolds, MountHolds,
     QueueHolds, LifeHolds, DelayHolds, CountsHolds, CountHolds, TokenHolds, PairHolds, PTL
     DEF AllSpec

\* create_activities, enqueue_change_secret_task, is_active, merge_delay_run: what is logged is saved
\* or kept and no record is saved twice; the end of a session is followed by a change of the secret,
\* or its key was refused, cleared by another change or expired before a worker came to it; a
\* session in touch stays open; and a delayed call is lost only to an overlap.
THEOREM NothingIsForgotten ==
    AllSpec => []NothingForgotten
<1>1. AllInit => \/ part = "log" \/ part = "alone" \/ part = "watch" \/ part = "lone"
                 \/ part = "edits" \/ part = "updates" \/ part = "mount" \/ part = "queue"
                 \/ part = "life" \/ part = "delay" \/ part = "counts" \/ part = "count"
                 \/ part = "token" \/ part = "pair"
  BY ServicesAssumption DEF ServicesAssumption, AllInit
<1>2. /\ part = "log" /\ SavedOnce => NothingForgotten
      /\ part = "alone" /\ Alone!SavedOnce /\ Alone!NothingLost => NothingForgotten
      /\ part = "watch" => NothingForgotten
      /\ part = "lone" => NothingForgotten
      /\ part = "edits" => NothingForgotten
      /\ part = "updates" => NothingForgotten
      /\ part = "mount" => NothingForgotten
      /\ part = "queue" /\ Queue!NoneForgotten => NothingForgotten
      /\ part = "life" /\ Life!LiveIsOpen => NothingForgotten
      /\ part = "delay" /\ Delay!LossNeedsOverlap => NothingForgotten
      /\ part = "counts" => NothingForgotten
      /\ part = "count" => NothingForgotten
      /\ part = "token" => NothingForgotten
      /\ part = "pair" => NothingForgotten
  BY SMTT(60) DEF NothingForgotten
<1> QED
  BY <1>1, <1>2, LogHolds, AloneHolds, WatchHolds, LoneHolds, EditsHolds, UpdatesHolds, MountHolds,
     QueueHolds, LifeHolds, DelayHolds, CountsHolds, CountHolds, TokenHolds, PairHolds, PTL
     DEF AllSpec

\* Cache.expire, compute_values: a count is wrong only while its expiry is to come, after a race or
\* an expiry that was lost, or since the clock or a change that no receiver maps changed it unheard.
THEOREM WrongCountsHaveReasons ==
    AllSpec => []WrongCountHasReason
<1>1. AllInit => \/ part = "log" \/ part = "alone" \/ part = "watch" \/ part = "lone"
                 \/ part = "edits" \/ part = "updates" \/ part = "mount" \/ part = "queue"
                 \/ part = "life" \/ part = "delay" \/ part = "counts" \/ part = "count"
                 \/ part = "token" \/ part = "pair"
  BY ServicesAssumption DEF ServicesAssumption, AllInit
<1>2. /\ part = "log" => WrongCountHasReason
      /\ part = "alone" => WrongCountHasReason
      /\ part = "watch" => WrongCountHasReason
      /\ part = "lone" => WrongCountHasReason
      /\ part = "edits" => WrongCountHasReason
      /\ part = "updates" => WrongCountHasReason
      /\ part = "mount" => WrongCountHasReason
      /\ part = "queue" => WrongCountHasReason
      /\ part = "life" => WrongCountHasReason
      /\ part = "delay" => WrongCountHasReason
      /\ part = "counts" /\ Counts!StaleNeedsARace => WrongCountHasReason
      /\ part = "count" /\ Count!StaleNeedsARace => WrongCountHasReason
      /\ part = "token" => WrongCountHasReason
      /\ part = "pair" => WrongCountHasReason
  BY SMTT(60) DEF WrongCountHasReason
<1> QED
  BY <1>1, <1>2, LogHolds, AloneHolds, WatchHolds, LoneHolds, EditsHolds, UpdatesHolds, MountHolds,
     QueueHolds, LifeHolds, DelayHolds, CountsHolds, CountHolds, TokenHolds, PairHolds, PTL
     DEF AllSpec

\* recover_interrupted_account_automation_tasks: an execution is closed only when its task is
\* gone, and one that has a result keeps it.
THEOREM OnlyGoneAreClosed == AllSpec => OnlyGoneIsClosed
<1> DEFINE Kept == IF part = "lone" THEN Lone!ClosesGone /\ Lone!KeepsResults
                                    ELSE Watch!ClosesGone /\ Watch!KeepsResults
<1>1. /\ part = "watch" /\ [Watch!ClosesGone /\ Watch!KeepsResults]_wvars => [Kept]_wvars
      /\ part = "lone" /\ [Lone!ClosesGone /\ Lone!KeepsResults]_wvars => [Kept]_wvars
      /\ UNCHANGED wvars => [Kept]_wvars
  BY SMTT(60)
<1>2. ~(part = "watch") /\ ~(part = "lone") /\ [AllNext]_allvars
      => (~(part = "watch") /\ ~(part = "lone"))' /\ UNCHANGED wvars
  BY ZenonT(60) DEF AllNext, allvars, wvars, avars, mvars, qvars, lvars, dvars, cvars, tvars, vars
<1> QED
  BY <1>1, <1>2, WatchHolds, LoneHolds, PTL DEF AllSpec, OnlyGoneIsClosed

\* VaultModelMixin, sync_secret_to_vault, copy_current_secrets_from: the last secret given is where
\* its row says, unless a request wrote back the older one it had loaded; the transfer keeps what it
\* finds, and a move replaces nothing and switches to what it compared.
THEOREM SecretsAreKept == AllSpec => SecretsStay
<1> DEFINE There == /\ part \in {"edits", "updates"} => Edits!MarkedIsInVault
                    /\ part = "edits" => Edits!NoLostSecret
           Kept == IF part = "updates" THEN Updates!TransferRow => Updates!Stored' = Updates!Stored
                                       ELSE Edits!TransferRow => Edits!Stored' = Edits!Stored
<1>1. /\ part = "edits" /\ Edits!MarkedIsInVault /\ Edits!NoLostSecret => There
      /\ part = "updates" /\ Updates!MarkedIsInVault => There
      /\ ~(part = "edits") /\ ~(part = "updates") => There
  BY SMTT(60) DEF Updates!MarkedIsInVault, Edits!MarkedIsInVault
<1>2. ~(part = "edits") /\ ~(part = "updates") /\ [AllNext]_allvars
      => (~(part = "edits") /\ ~(part = "updates"))' /\ UNCHANGED avars
  BY ZenonT(60) DEF AllNext, allvars, wvars, avars, mvars, qvars, lvars, dvars, cvars, tvars, vars
<1>3. ~(part = "mount") /\ [AllNext]_allvars
      => ~(part = "mount")' /\ UNCHANGED Mount!vars
  BY ZenonT(60) DEF AllNext, allvars, wvars, avars, mvars, qvars, lvars, dvars, cvars, tvars, vars,
     Mount!vars
<1>4. /\ UNCHANGED Mount!vars => [Mount!Move => \A p \in Path : mount["new"][p] # Nobody
                       => mount'["new"][p] = mount["new"][p]]_(Mount!vars)
      /\ UNCHANGED Mount!vars => [Mount!Switch => \A p \in Mount!Listed("old") \ written
                : Mount!Same(p)]_(Mount!vars)
  BY SMTT(60)
<1>5. /\ UNCHANGED Edits!vars => UNCHANGED avars
      /\ UNCHANGED Updates!vars => UNCHANGED avars
  BY SMTT(60) DEF avars, Edits!vars, Edits!history, Updates!vars, Updates!history
<1>6. /\ part = "edits" /\ [Edits!TransferRow => Edits!Stored' = Edits!Stored]_(Edits!vars)
            => [Kept]_avars
      /\ part = "updates" /\ [Updates!TransferRow => Updates!Stored' = Updates!Stored]_(Updates!vars)
            => [Kept]_avars
      /\ UNCHANGED avars => [Kept]_avars
  BY <1>5, SMTT(60)
<1> QED
  BY <1>1, <1>2, <1>3, <1>4, <1>6, EditsHolds, UpdatesHolds, MountHolds, PTL DEF AllSpec, SecretsStay,
     Mount!NothingReplaced, Mount!ComparedIsMoved

\* ConnectionToken: what may be used was let through and is not used up, and what a race undoes is
\* bounded.
THEOREM TokensObeyTheRules == AllSpec => TokenRules
<1> DEFINE Rule == IF part = "pair" THEN Pair!GivenInTime /\ Pair!RevivedByStale
          /\ Pair!UndoneByRenewal
                                    ELSE Token!GivenInTime /\ Token!RevivedByStale
                                              /\ Token!UndoneByRenewal
       Gates == /\ part = "token" => Token!GatePassed /\ Token!UsedIsDead
                /\ part = "pair" => Pair!GatePassed /\ Pair!UsedIsDead
<1>1. /\ part = "token" /\ [Token!GivenInTime /\ Token!RevivedByStale
          /\ Token!UndoneByRenewal]_tvars => [Rule]_tvars
      /\ part = "pair" /\ [Pair!GivenInTime /\ Pair!RevivedByStale
                /\ Pair!UndoneByRenewal]_tvars => [Rule]_tvars
      /\ UNCHANGED tvars => [Rule]_tvars
  BY SMTT(60)
<1>2. ~(part = "token") /\ ~(part = "pair") /\ [AllNext]_allvars
      => (~(part = "token") /\ ~(part = "pair"))' /\ UNCHANGED tvars
  BY ZenonT(60) DEF AllNext, allvars, wvars, avars, mvars, qvars, lvars, dvars, cvars, tvars, vars
<1>3. /\ part = "token" /\ Token!GatePassed /\ Token!UsedIsDead => Gates
      /\ part = "pair" /\ Pair!GatePassed /\ Pair!UsedIsDead => Gates
      /\ ~(part = "token") /\ ~(part = "pair") => Gates
  OBVIOUS
<1> QED
  BY <1>1, <1>2, <1>3, TokenHolds, PairHolds, PTL DEF AllSpec, TokenRules
=============================================================================
