--------------------------- MODULE Upkeep_proofs ---------------------------
(***************************************************************************)
(* The copies of a setting, for any processes, writers, changes and        *)
(* failures; and what the run of MC_Upkeep checks, proved of its whole     *)
(* specification.  Each other part of it is an instance of a module that   *)
(* has its theorems in WorkerWatch_proofs; here those are instances with   *)
(* the constants of the part.  For each part a lemma Same... says that     *)
(* both instances have the same steps, and a lemma ...Holds that a         *)
(* behaviour that begins in the part stays in it and is one of the module. *)
(***************************************************************************)
EXTENDS MC_Upkeep, FiniteSetTheorems, TLAPS

-----------------------------------------------------------------------------
(* The copies of a setting.                                                *)

\* TypeOK but for the bounds.
Types ==
    /\ db \in Nat
    /\ draft \in [Writer -> {"none", "written", "committed"}]
    /\ copy \in [Process -> Nat \cup {None, Default}]
    /\ link \in [Process -> {"down", "started", "up", "broken"}]
    /\ inbox \in [Process -> Nat]
    /\ read \in [Process -> Nat \cup {None}]
    /\ missed \in [Process -> BOOLEAN]

\* Something will tell the process, or something should have.
Told(p) == missed[p] \/ inbox[p] > 0 \/ \E w \in Writer : draft[w] = "committed"

\* What a handler has read is old only if the process is told again.
ReadIsTold == \A p \in Process : read[p] \notin {None, db} => Told(p)
CopyIsTold == \A p \in Process : copy[p] \notin {None, db} => Told(p) \/ read[p] = db

\* A process that is not there has no handler.
DownReadsNothing == \A p \in Process : link[p] = "down" => read[p] = None

IInv == Types /\ ReadIsTold /\ CopyIsTold /\ DownReadsNothing

LEMMA InitHolds == ASSUME SettingAssumption PROVE Init => IInv
BY DEF SettingAssumption, Init, IInv, Types, ReadIsTold, CopyIsTold, DownReadsNothing

\* A change: from its commit to its message every process is told of it, and the message
\* reaches it or is missed.
LEMMA WriterKeeps ==
    ASSUME SettingAssumption, IInv, NEW w \in Writer,
           Write(w) \/ Commit(w) \/ Rollback(w) \/ Publish(w)
    PROVE  IInv'
<1> USE DEF IInv, Types, ReadIsTold, CopyIsTold, DownReadsNothing, Told
<1>1. CASE Write(w)
  <2>1. \A v \in Writer : draft'[v] = "committed" <=> draft[v] = "committed"
    BY <1>1 DEF Write
  <2>2. QED BY <1>1, <2>1 DEF Write
<1>2. CASE Commit(w)
  <2>1. Types' /\ draft'[w] = "committed"
    BY <1>2 DEF Commit
  <2>2. QED BY <1>2, <2>1 DEF Commit
<1>3. CASE Rollback(w)
  <2>1. \A v \in Writer : draft'[v] = "committed" <=> draft[v] = "committed"
    BY <1>3 DEF Rollback
  <2>2. QED BY <1>3, <2>1 DEF Rollback
<1>4. CASE Publish(w)
  <2>1. PICK to \in SUBSET Process : Sent(to) /\ (to = Process \/ to = {})
    BY <1>4 DEF Publish
  <2>2. Types'
    <3>1. inbox' \in [Process -> Nat]
      BY <2>1 DEF Sent
    <3>2. missed' \in [Process -> BOOLEAN]
      <4>1. \A p \in Process : (missed[p] \/ p \notin to \/ link[p] # "up") \in BOOLEAN
        OBVIOUS
      <4>2. QED BY <2>1, <4>1, Zenon DEF Sent
    <3>3. draft' \in [Writer -> {"none", "written", "committed"}]
      BY <1>4 DEF Publish
    <3>4. QED BY <1>4, <3>1, <3>2, <3>3 DEF Publish
  <2>3. \A p \in Process : missed'[p] \/ inbox'[p] > 0
    <3> SUFFICES ASSUME NEW p \in Process PROVE missed'[p] \/ inbox'[p] > 0
      OBVIOUS
    <3>1. CASE p \in to /\ link[p] = "up"
      <4>1. inbox'[p] = inbox[p] + 1
        BY <2>1, <3>1 DEF Sent
      <4>2. QED BY <4>1
    <3>2. CASE ~ (p \in to /\ link[p] = "up")
      <4>1. missed'[p]
        BY <2>1, <3>2, Zenon DEF Sent
      <4>2. QED BY <4>1
    <3>3. QED BY <3>1, <3>2
  <2>4. QED BY <1>4, <2>2, <2>3 DEF Publish
<1>5. QED BY <1>1, <1>2, <1>3, <1>4

\* A process: a message is taken by reading the setting again, and lost only as missed; what
\* fails it is noted.
LEMMA ProcessKeeps ==
    ASSUME SettingAssumption, IInv, NEW p \in Process,
           Start(p) \/ StartFails(p) \/ Subscribe(p) \/ Read(p) \/ Set(p) \/ HandlerFails(p)
           \/ Break(p) \/ Die(p)
    PROVE  IInv'
<1> USE DEF SettingAssumption, IInv, Types, ReadIsTold, CopyIsTold, DownReadsNothing, Told
<1>1. CASE Start(p) BY <1>1 DEF Start
<1>2. CASE Subscribe(p) BY <1>2 DEF Subscribe
<1>3. CASE Read(p) BY <1>3 DEF Read
<1>4. CASE Set(p) BY <1>4 DEF Set
<1>5. CASE Break(p) BY <1>5 DEF Break, Faulty
<1>6. CASE Die(p) BY <1>6 DEF Die, Faulty
<1>7. CASE StartFails(p) BY <1>7 DEF StartFails, Faulty
<1>8. CASE HandlerFails(p) BY <1>8 DEF HandlerFails, Faulty
<1>9. QED BY <1>1, <1>2, <1>3, <1>4, <1>5, <1>6, <1>7, <1>8

\* refresh_all_settings, refresh_settings_on_changed and refresh_item: a process uses an old value
\* only while a change is not yet published, a message is on its way or handled, or since it missed
\* a message, its handler raised or its first load failed.
THEOREM OldIsTold ==
    ASSUME SettingAssumption
    PROVE  Spec => []OldNeedsAMiss
<1>1. Init => IInv BY InitHolds
<1>2. IInv /\ [Next]_vars => IInv'
  <2> SUFFICES ASSUME IInv, [Next]_vars PROVE IInv' OBVIOUS
  <2>1. CASE UNCHANGED vars
    BY <2>1 DEF vars, IInv, Types, ReadIsTold, CopyIsTold, DownReadsNothing, Told
  <2>2. QED BY WriterKeeps, ProcessKeeps, <2>1 DEF Next
<1>3. IInv => OldNeedsAMiss BY DEF IInv, CopyIsTold, Told, OldNeedsAMiss
<1>4. QED BY <1>1, <1>2, <1>3, PTL DEF Spec

\* Writers with a change that is committed and not published, and the bound it gives: a channel
\* holds no more messages than there were changes.
Announced == {w \in Writer : draft[w] = "committed"}
Bounded ==
    /\ TypeOK /\ IsFiniteSet(Announced)
    /\ \A p \in Process : inbox[p] + Cardinality(Announced) <= db
    /\ \A v, w \in Writer : draft[v] = "written" /\ draft[w] = "written" => v = w
    /\ Locked => db < MaxVersion

\* A step of a writer.
LEMMA WriterBounded ==
    ASSUME SettingAssumption, Bounded, NEW w \in Writer,
           Write(w) \/ Commit(w) \/ Rollback(w) \/ Publish(w)
    PROVE  Bounded'
<1> USE DEF SettingAssumption, Bounded, TypeOK, Value, Locked
<1>0. Cardinality(Announced) \in Nat
  BY FS_CardinalityType
<1>1. CASE Write(w) \/ Rollback(w)
  <2>1. Announced' = Announced
    BY <1>1 DEF Announced, Write, Rollback
  <2>2. CASE Write(w)
    BY <2>1, <2>2 DEF Write
  <2>3. CASE Rollback(w)
    BY <2>1, <2>3 DEF Rollback
  <2> QED
    BY <1>1, <2>2, <2>3
<1>2. CASE Commit(w)
  <2>1. Announced' = Announced \cup {w} /\ w \notin Announced
    BY <1>2 DEF Announced, Commit
  <2>2. IsFiniteSet(Announced') /\ Cardinality(Announced') = Cardinality(Announced) + 1
    BY <2>1, FS_AddElement
  <2>3. db < MaxVersion /\ ~Locked'
    BY <1>2 DEF Commit
  <2>4. TypeOK' /\ Locked' = FALSE
    BY <1>2, <2>3 DEF Commit
  <2>5. \A p \in Process : inbox'[p] + Cardinality(Announced') <= db'
    BY <1>0, <1>2, <2>2 DEF Commit
  <2> QED
    BY <2>2, <2>3, <2>4, <2>5
<1>3. CASE Publish(w)
  <2>1. Announced' = Announced \ {w} /\ w \in Announced
    BY <1>3 DEF Announced, Publish
  <2>2. IsFiniteSet(Announced') /\ Cardinality(Announced') = Cardinality(Announced) - 1
    BY <2>1, FS_RemoveElement
  <2>3. Locked' = Locked /\ \A v, x \in Writer : draft'[v] = "written"
            /\ draft'[x] = "written" => v = x
    BY <1>3 DEF Publish
  <2>4. \A p \in Process : inbox'[p] \in {inbox[p], inbox[p] + 1}
    BY <1>3 DEF Publish, Sent
  <2>5. Cardinality(Announced) >= 1
    BY <1>0, <2>2, FS_CardinalityType
  <2>6. db' = db
    BY <1>3 DEF Publish
  <2>7. \A p \in Process : inbox'[p] + Cardinality(Announced') <= db'
    BY <1>0, <2>2, <2>4, <2>5, <2>6
  <2>8. inbox' \in [Process -> 0..MaxVersion]
    <3>1. \A p \in Process : inbox'[p] \in 0..MaxVersion
      BY <1>0, <2>4, <2>5
    <3>2. inbox' = [p \in Process |-> inbox'[p]]
      BY <1>3 DEF Publish, Sent
    <3> QED
      BY <3>1, <3>2
  <2>9. missed' \in [Process -> BOOLEAN] /\ draft' \in [Writer -> {"none", "written", "committed"}]
    BY <1>3 DEF Publish, Sent
  <2> QED
    BY <1>3, <2>2, <2>3, <2>6, <2>7, <2>8, <2>9 DEF Publish
<1> QED
  BY <1>1, <1>2, <1>3

\* The copies of a setting have its type, and a process is sent no more messages than there
\* were changes (refresh_settings_on_changed).
THEOREM SettingTypes ==
    ASSUME SettingAssumption
    PROVE  Spec => []TypeOK
<1>1. Init => Bounded
  <2> SUFFICES ASSUME Init PROVE Bounded
    OBVIOUS
  <2>1. Announced = {}
    BY DEF Init, Announced
  <2>2. IsFiniteSet(Announced) /\ Cardinality(Announced) = 0
    BY <2>1, FS_EmptySet
  <2> QED
    BY <2>2 DEF SettingAssumption, Init, Bounded, TypeOK, Value, Locked
<1>2. Bounded /\ [Next]_vars => Bounded'
  <2> SUFFICES ASSUME Bounded, [Next]_vars PROVE Bounded'
    OBVIOUS
  <2>1. ASSUME NEW p \in Process, Start(p) \/ StartFails(p) \/ Subscribe(p) \/ Read(p) \/ Set(p)
            \/ HandlerFails(p) \/ Break(p) \/ Die(p)
        PROVE  Bounded'
    <3>0. Cardinality(Announced) \in Nat
      BY FS_CardinalityType DEF Bounded
    <3>1. Announced' = Announced /\ db' = db /\ draft' = draft
      BY <2>1 DEF Announced, Start, StartFails, Subscribe, Read, Set, HandlerFails, Break, Die
    <3>2. TypeOK' /\ \A q \in Process : inbox'[q] <= inbox[q]
      <4> USE DEF SettingAssumption, Bounded, TypeOK, Value
      <4>1. CASE Start(p) BY <4>1 DEF Start
      <4>2. CASE Subscribe(p) BY <4>2 DEF Subscribe
      <4>3. CASE Read(p) BY <4>3 DEF Read
      <4>4. CASE Set(p) BY <4>4 DEF Set
      <4>5. CASE Break(p) BY <4>5 DEF Break, Faulty
      <4>6. CASE Die(p) BY <4>6 DEF Die, Faulty
      <4>7. CASE StartFails(p) BY <4>7 DEF StartFails, Faulty
      <4>8. CASE HandlerFails(p) BY <4>8 DEF HandlerFails, Faulty
      <4> QED BY <2>1, <4>1, <4>2, <4>3, <4>4, <4>5, <4>6, <4>7, <4>8
    <3>3. \A q \in Process : inbox'[q] + Cardinality(Announced) <= db
      BY <3>0, <3>2 DEF Bounded, TypeOK, Value, SettingAssumption
    <3> QED
      BY <3>1, <3>2, <3>3 DEF Bounded, Locked
  <2>2. CASE UNCHANGED vars
    BY <2>2 DEF vars, Bounded, TypeOK, Value, Locked, Announced
  <2> QED
    BY WriterBounded, <2>1, <2>2 DEF Next
<1>3. Bounded => TypeOK
  BY SMTT(60) DEF Bounded
<1> QED
  BY <1>1, <1>2, <1>3, PTL DEF Spec

-----------------------------------------------------------------------------
(* The proofs of the other parts.                                          *)

\* The theorems about tasks, records and calls are not used here.
CONSTANTS Tasks, Executions, Workers, OwnerOf, Grace, Confirm, MarkerTTL, Deadline,
          Threads, BatchSize, MaxCalls, MaxItems, Calls
VARIABLES celery, age, up, cut, marker, check, revoked, recent,
          cache, lock, batch, saved, made, pc, after, todo, calls,
          call, dict, seen, heap, snap, argsCache, taskCache, timeCache, handled, overlapped

-----------------------------------------------------------------------------
(* The parts of the run.                                                   *)

\* The proofs with a plain lock, one worker, and discoveries in turn.
First == INSTANCE WorkerWatch_proofs
               WITH Reentrant <- FALSE, OnCommit <- TRUE, Rollbacks <- TRUE, Deaths <- TRUE,
                    Worker <- {j1}, Request <- Stop, Outcomes <- Ends,
                    jobtask <- task, Uncounted <- None, Timed <- {}, Unmapped <- {},
                    MaxVersion <- 2, Losses <- TRUE,
                    Run <- Three, Handling <- Handled, Sync <- FALSE, AtOnce <- 1,
                    MaxChanges <- 2, gathered <- row, discovery <- run

LEMMA SameDelayed ==
    /\ First!Cache!Init <=> Delayed!Init
    /\ First!Cache!Next <=> Delayed!Next
    /\ UNCHANGED Delayed!vars => UNCHANGED First!Cache!vars
    /\ First!Cache!TypeOK <=> Delayed!TypeOK
  BY SMTT(60) DEF First!Cache!vars, First!Cache!Version, First!Cache!Counts, First!Cache!NoCounts,
     First!Cache!TypeOK, First!Cache!Init, First!Cache!Others, First!Cache!Write, First!Cache!Ended,
     First!Cache!Commit, First!Cache!Rollback, First!Cache!Filled, First!Cache!Counted,
     First!Cache!Drop, First!Cache!Expire, First!Cache!ExpireEarly, First!Cache!ExpireAll, First!Cache!Pass, First!Cache!Unheard,
     First!Cache!Lose, First!Cache!Changes, First!Cache!Go, First!Cache!Ask, First!Cache!Load,
     First!Cache!TakeLock, First!Cache!Compute, First!Cache!Check, First!Cache!Count,
     First!Cache!Store, First!Cache!Reload, First!Cache!Answer, First!Cache!Read, First!Cache!Next,
     Delayed!vars, Delayed!Version, Delayed!Counts, Delayed!NoCounts, Delayed!TypeOK, Delayed!Init,
     Delayed!Others, Delayed!Write, Delayed!Ended, Delayed!Commit, Delayed!Rollback, Delayed!Filled,
     Delayed!Counted, Delayed!Drop, Delayed!Expire, Delayed!ExpireEarly, Delayed!ExpireAll, Delayed!Pass, Delayed!Unheard,
     Delayed!Lose, Delayed!Changes, Delayed!Go, Delayed!Ask, Delayed!Load, Delayed!TakeLock,
     Delayed!Compute, Delayed!Check, Delayed!Count, Delayed!Store, Delayed!Reload, Delayed!Answer,
     Delayed!Read, Delayed!Next

LEMMA DelayedHolds ==
    AllSpec /\ part = "delayed"
    => [](part = "delayed" /\ Delayed!TypeOK)
<1>1. AllInit /\ part = "delayed" => First!Cache!Init
  BY SameDelayed DEF AllInit, Discoveries
<1>2. part = "delayed" /\ [AllNext]_allvars
      => (part = "delayed")' /\ [First!Cache!Next]_(First!Cache!vars)
  BY SameDelayed, ZenonT(60) DEF AllNext, allvars, vars, cvars, lvars, dvars, jvars, InCache, InLock,
     InSetting, Discovering, InJob, Delayed!vars
<1>3. First!Cache!CacheAssumption
  BY UpkeepAssumption DEF UpkeepAssumption, First!Cache!CacheAssumption, Delayed!CacheAssumption
<1>4. First!Cache!Spec => []First!Cache!TypeOK
  BY First!CountsAreBounded, <1>3
<1> QED
  BY SameDelayed, <1>1, <1>2, <1>4, PTL DEF AllSpec, First!Cache!Spec

LEMMA SameWaits ==
    /\ First!Lock!Init <=> Waits!Init
    /\ First!Lock!Next <=> Waits!Next
    /\ UNCHANGED Waits!vars => UNCHANGED First!Lock!vars
    /\ First!Lock!TypeOK <=> Waits!TypeOK
    /\ First!Lock!HeldWhileInside <=> Waits!HeldWhileInside
  BY SMTT(60) DEF First!Lock!vars, First!Lock!Kinds, First!Lock!TypeOK, First!Lock!InTransaction,
     First!Lock!Init, First!Lock!Mine, First!Lock!MayAsk, First!Lock!Entered, First!Lock!Acquire,
     First!Lock!ReEnter, First!Lock!KindOf, First!Lock!Freed, First!Lock!Refused,
     First!Lock!Release, First!Lock!Deferred, First!Lock!Leave, First!Lock!Begin, First!Lock!Commit,
     First!Lock!RunDue, First!Lock!Rollback, First!Lock!Die, First!Lock!Alive, First!Lock!Expire,
     First!Lock!Next, First!Lock!Inside, First!Lock!HeldWhileInside, Waits!vars, Waits!Kinds,
     Waits!TypeOK, Waits!InTransaction, Waits!Init, Waits!Mine, Waits!MayAsk, Waits!Entered,
     Waits!Acquire, Waits!ReEnter, Waits!KindOf, Waits!Freed, Waits!Refused, Waits!Release,
     Waits!Deferred, Waits!Leave, Waits!Begin, Waits!Commit, Waits!RunDue, Waits!Rollback,
     Waits!Die, Waits!Alive, Waits!Expire, Waits!Next, Waits!Inside, Waits!HeldWhileInside

LEMMA WaitsHolds ==
    AllSpec /\ part = "waits"
    => [](part = "waits" /\ Both!TypeOK /\ Waits!HeldWhileInside)
<1>1. AllInit /\ part = "waits" => First!Lock!Init
  BY SameWaits DEF AllInit, Discoveries, Both!Init, Waits!Init
<1>2. part = "waits" /\ [AllNext]_allvars
      => (part = "waits")' /\ [First!Lock!Next]_(First!Lock!vars)
  BY SameWaits, ZenonT(60) DEF AllNext, allvars, vars, cvars, lvars, dvars, jvars, InCache, InLock,
     InSetting, Discovering, InJob, Waits!vars
<1>3. First!Lock!LockAssumption
  BY UpkeepAssumption, SMTT(60) DEF UpkeepAssumption, First!Lock!LockAssumption, Waits!LockAssumption
<1>4. First!Lock!Spec => []First!Lock!TypeOK
  BY First!LockTypes, <1>3
<1>5. First!Lock!Spec => []First!Lock!HeldWhileInside
  BY First!LocksAreHeld, <1>3
<1>6. Waits!TypeOK => Both!TypeOK
  BY ZenonT(60) DEF Waits!Kinds, Both!Kinds, Waits!TypeOK, Both!TypeOK
<1> QED
  BY SameWaits, <1>1, <1>2, <1>4, <1>5, <1>6, PTL DEF AllSpec, First!Lock!Spec

LEMMA SameTurns ==
    /\ First!Discover!Init <=> Turns!Init
    /\ First!Discover!Next <=> Turns!Next
    /\ UNCHANGED Turns!vars => UNCHANGED First!Discover!vars
    /\ First!Discover!TypeOK <=> Turns!TypeOK
    /\ First!Discover!QuietRunRepairs <=> Turns!QuietRunRepairs
  BY SMTT(60) DEF First!Discover!vars, First!Discover!Kind, First!Discover!Status, First!Discover!Rows,
     First!Discover!Risks, First!Discover!RowTable, First!Discover!RiskTable,
     First!Discover!Actions, First!Discover!Steps, First!Discover!TypeOK, First!Discover!NoRows,
     First!Discover!NoRisks, First!Discover!Init, First!Discover!Lone, First!Discover!Without,
     First!Discover!Change, First!Discover!Busy, First!Discover!Scan, First!Discover!Prefetch,
     First!Discover!LoadRisks, First!Discover!Known, First!Discover!Go, First!Discover!CreateRows,
     First!Discover!NotIgnored, First!Discover!Marked, First!Discover!Present,
     First!Discover!Remote, First!Discover!UpdateStatus, First!Discover!SyncAccounts,
     First!Discover!Resolved, First!Discover!Recorded, First!Discover!RefOf, First!Discover!HasRow,
     First!Discover!Missing, First!Discover!Updated, First!Discover!Outdated,
     First!Discover!SameRisk, First!Discover!Broken, First!Discover!Flushed,
     First!Discover!UpdateBroken, First!Discover!Flush, First!Discover!Effect, First!Discover!Read,
     First!Discover!StatusOf, First!Discover!Finish, First!Discover!Gather, First!Discover!Next,
     First!Discover!Quiet, First!Discover!Judged, First!Discover!QuietRunRepairs, Turns!vars,
     Turns!Kind, Turns!Status, Turns!Rows, Turns!Risks, Turns!RowTable, Turns!RiskTable,
     Turns!Actions, Turns!Steps, Turns!TypeOK, Turns!NoRows, Turns!NoRisks, Turns!Init, Turns!Lone,
     Turns!Without, Turns!Change, Turns!Busy, Turns!Scan, Turns!Prefetch, Turns!LoadRisks,
     Turns!Known, Turns!Go, Turns!CreateRows, Turns!NotIgnored, Turns!Marked, Turns!Present,
     Turns!Remote, Turns!UpdateStatus, Turns!SyncAccounts, Turns!Resolved, Turns!Recorded,
     Turns!RefOf, Turns!HasRow, Turns!Missing, Turns!Updated, Turns!Outdated, Turns!SameRisk,
     Turns!Broken, Turns!Flushed, Turns!UpdateBroken, Turns!Flush, Turns!Effect, Turns!Read,
     Turns!StatusOf, Turns!Finish, Turns!Gather, Turns!Next, Turns!Quiet, Turns!Judged,
     Turns!QuietRunRepairs, First!Discover!Cardinality, Turns!Cardinality

LEMMA TurnsHolds ==
    AllSpec /\ part = "turns"
    => /\ [](part = "turns" /\ Turns!TypeOK /\ Turns!QuietRunRepairs)
       /\ [][Turns!IgnoredKept]_dvars
<1>1. AllInit /\ part = "turns" => First!Discover!Init
  BY SameTurns DEF AllInit, Discoveries
<1>2. part = "turns" /\ [AllNext]_allvars
      => (part = "turns")' /\ [First!Discover!Next]_(First!Discover!vars)
  BY SameTurns, ZenonT(60) DEF AllNext, allvars, vars, cvars, lvars, dvars, jvars, InCache, InLock,
     InSetting, Discovering, InJob, Turns!vars
<1>3. First!Discover!DiscoveryAssumption
  BY UpkeepAssumption, SMTT(60) DEF UpkeepAssumption, First!Discover!Status, Turns!Status,
     First!Discover!Rows, Turns!Rows, First!Discover!Risks, Turns!Risks,
     First!Discover!DiscoveryAssumption, Turns!DiscoveryAssumption
<1>4. First!Discover!Spec => []First!Discover!TypeOK
  BY First!DiscoveryTypes, <1>3
<1>5. First!Discover!Spec => []First!Discover!QuietRunRepairs
  BY First!QuietRunsRepair, <1>3
<1>6. First!Discover!Spec => [][First!Discover!IgnoredKept]_(First!Discover!vars)
  BY First!IgnoredRowsStay, <1>3 DEF First!Discover!IgnoredStays
<1>7. [First!Discover!IgnoredKept]_(First!Discover!vars)
      => [Turns!IgnoredKept]_dvars
  BY SMTT(60) DEF dvars, First!Discover!IgnoredKept, Turns!IgnoredKept, First!Discover!vars, Turns!vars
<1> QED
  BY SameTurns, <1>1, <1>2, <1>4, <1>5, <1>6, <1>7, PTL DEF AllSpec, First!Discover!Spec

LEMMA SameOne ==
    /\ First!Job!Init <=> One!Init
    /\ First!Job!Next <=> One!Next
    /\ UNCHANGED One!vars => UNCHANGED First!Job!vars
    /\ First!Job!TypeOK <=> One!TypeOK
    /\ First!Job!RunningHasWorker <=> One!RunningHasWorker
  BY SMTT(60) DEF First!Job!vars, First!Job!Status, First!Job!AtWork, First!Job!TypeOK, First!Job!Init,
     First!Job!Outside, First!Job!Send, First!Job!Receive, First!Job!Begin, First!Job!GetRunner,
     First!Job!Run, First!Job!WritePid, First!Job!RunnerEnds, First!Job!Raise, First!Job!SetResult,
     First!Job!SetError, First!Job!Die, First!Job!Inside, First!Job!Advance, First!Job!StopReads,
     First!Job!Active, First!Job!Inspect, First!Job!Revoke, First!Job!Publish, First!Job!StopCloses,
     First!Job!Terminate, First!Job!Grow, First!Job!Find, First!Job!Close, First!Job!Clean,
     First!Job!Next, First!Job!RunningHasWorker, One!vars, One!Status, One!AtWork, One!TypeOK,
     One!Init, One!Outside, One!Send, One!Receive, One!Begin, One!GetRunner, One!Run, One!WritePid,
     One!RunnerEnds, One!Raise, One!SetResult, One!SetError, One!Die, One!Inside, One!Advance,
     One!StopReads, One!Active, One!Inspect, One!Revoke, One!Publish, One!StopCloses, One!Terminate,
     One!Grow, One!Find, One!Close, One!Clean, One!Next, One!RunningHasWorker

LEMMA OneHolds ==
    AllSpec /\ part = "one"
    => [](part = "one" /\ More!TypeOK /\ One!RunningHasWorker)
<1>1. AllInit /\ part = "one" => First!Job!Init
  BY SameOne DEF AllInit, Discoveries, More!Init, One!Init
<1>2. part = "one" /\ [AllNext]_allvars
      => (part = "one")' /\ [First!Job!Next]_(First!Job!vars)
  BY SameOne, ZenonT(60) DEF AllNext, allvars, vars, cvars, lvars, dvars, jvars, InCache, InLock,
     InSetting, Discovering, InJob, One!vars
<1>3. First!Job!JobAssumption
  BY UpkeepAssumption, SMTT(60) DEF UpkeepAssumption, First!Job!JobAssumption, One!JobAssumption
<1>4. First!Job!Spec => [](First!Job!TypeOK /\ First!Job!RunningHasWorker)
  BY First!RunsAreWorkedOn, <1>3, SMTT(60)
<1>5. One!TypeOK => More!TypeOK
  BY SMTT(60) DEF One!Status, More!Status, One!AtWork, More!AtWork, One!TypeOK, More!TypeOK
<1> QED
  BY SameOne, <1>1, <1>2, <1>4, <1>5, PTL DEF AllSpec, First!Job!Spec

\* With a reentrant lock, two workers, and accounts that are synchronised.
Second == INSTANCE WorkerWatch_proofs
                WITH Reentrant <- TRUE, OnCommit <- FALSE, Rollbacks <- TRUE, Deaths <- TRUE,
                     Worker <- {j1, j2}, Request <- Stop, Outcomes <- Ends,
                     jobtask <- task, Uncounted <- None, Timed <- {}, Unmapped <- {},
                     MaxVersion <- 2, Losses <- TRUE,
                     Run <- Three, Handling <- Handled, Sync <- TRUE, AtOnce <- 1,
                     MaxChanges <- 2, gathered <- row, discovery <- run

LEMMA SameEnters ==
    /\ Second!Lock!Init <=> Enters!Init
    /\ Second!Lock!Next <=> Enters!Next
    /\ UNCHANGED Enters!vars => UNCHANGED Second!Lock!vars
    /\ Second!Lock!TypeOK <=> Enters!TypeOK
    /\ Second!Lock!HeldWhileInside <=> Enters!HeldWhileInside
  BY SMTT(60) DEF Second!Lock!vars, Second!Lock!Kinds, Second!Lock!TypeOK, Second!Lock!InTransaction,
     Second!Lock!Init, Second!Lock!Mine, Second!Lock!MayAsk, Second!Lock!Entered,
     Second!Lock!Acquire, Second!Lock!ReEnter, Second!Lock!KindOf, Second!Lock!Freed,
     Second!Lock!Refused, Second!Lock!Release, Second!Lock!Deferred, Second!Lock!Leave,
     Second!Lock!Begin, Second!Lock!Commit, Second!Lock!RunDue, Second!Lock!Rollback,
     Second!Lock!Die, Second!Lock!Alive, Second!Lock!Expire, Second!Lock!Next, Second!Lock!Inside,
     Second!Lock!HeldWhileInside, Enters!vars, Enters!Kinds, Enters!TypeOK, Enters!InTransaction,
     Enters!Init, Enters!Mine, Enters!MayAsk, Enters!Entered, Enters!Acquire, Enters!ReEnter,
     Enters!KindOf, Enters!Freed, Enters!Refused, Enters!Release, Enters!Deferred, Enters!Leave,
     Enters!Begin, Enters!Commit, Enters!RunDue, Enters!Rollback, Enters!Die, Enters!Alive,
     Enters!Expire, Enters!Next, Enters!Inside, Enters!HeldWhileInside

LEMMA EntersHolds ==
    AllSpec /\ part = "enters"
    => [](part = "enters" /\ Both!TypeOK /\ Enters!HeldWhileInside)
<1>1. AllInit /\ part = "enters" => Second!Lock!Init
  BY SameEnters, SMTT(60) DEF AllInit, Discoveries, Both!Init, Enters!Init
<1>2. part = "enters" /\ [AllNext]_allvars
      => (part = "enters")' /\ [Second!Lock!Next]_(Second!Lock!vars)
  BY SameEnters, ZenonT(60) DEF AllNext, allvars, vars, cvars, lvars, dvars, jvars, InCache, InLock,
     InSetting, Discovering, InJob, Enters!vars
<1>3. Second!Lock!LockAssumption
  BY UpkeepAssumption DEF UpkeepAssumption, Second!Lock!LockAssumption, Enters!LockAssumption
<1>4. Second!Lock!Spec => []Second!Lock!TypeOK
  BY Second!LockTypes, <1>3
<1>5. Second!Lock!Spec => []Second!Lock!HeldWhileInside
  BY Second!LocksAreHeld, <1>3
<1>6. Enters!TypeOK => Both!TypeOK
  BY DEF Enters!Kinds, Both!Kinds, Enters!TypeOK, Both!TypeOK
<1> QED
  BY SameEnters, <1>1, <1>2, <1>4, <1>5, <1>6, PTL DEF AllSpec, Second!Lock!Spec

LEMMA SameSyncs ==
    /\ Second!Discover!Init <=> Syncs!Init
    /\ Second!Discover!Next <=> Syncs!Next
    /\ UNCHANGED Syncs!vars => UNCHANGED Second!Discover!vars
    /\ Second!Discover!TypeOK <=> Syncs!TypeOK
    /\ Second!Discover!QuietRunRepairs <=> Syncs!QuietRunRepairs
<1>1. Second!Discover!Init <=> Syncs!Init
  BY SMTT(60) DEF Second!Discover!Kind, Second!Discover!NoRows, Second!Discover!NoRisks,
     Second!Discover!Init, Syncs!Kind, Syncs!NoRows, Syncs!NoRisks, Syncs!Init
<1>2. \A g \in Three : Second!Discover!Gather(g) <=> Syncs!Gather(g)
  <2>1. \A g \in Three : Second!Discover!Scan(g) <=> Syncs!Scan(g)
    BY SMTT(60) DEF Second!Discover!Busy, Second!Discover!Scan, Syncs!Busy, Syncs!Scan,
       Second!Discover!Cardinality, Syncs!Cardinality
  <2>2. \A g \in Three : Second!Discover!Prefetch(g) <=> Syncs!Prefetch(g)
    BY SMTT(60) DEF Second!Discover!Prefetch, Syncs!Prefetch
  <2>3. \A g \in Three : Second!Discover!LoadRisks(g) <=> Syncs!LoadRisks(g)
    BY SMTT(60) DEF Second!Discover!LoadRisks, Syncs!LoadRisks
  <2>4. \A g \in Three : Second!Discover!CreateRows(g) <=> Syncs!CreateRows(g)
    BY SMTT(60) DEF Second!Discover!Known, Second!Discover!Go, Second!Discover!CreateRows,
       Syncs!Known, Syncs!Go, Syncs!CreateRows
  <2>5. \A g \in Three : Second!Discover!UpdateStatus(g) <=> Syncs!UpdateStatus(g)
    BY SMTT(60) DEF Second!Discover!Known, Second!Discover!Go, Second!Discover!NotIgnored,
       Second!Discover!Marked, Second!Discover!Present, Second!Discover!Remote,
       Second!Discover!UpdateStatus, Syncs!Known, Syncs!Go, Syncs!NotIgnored, Syncs!Marked,
       Syncs!Present, Syncs!Remote, Syncs!UpdateStatus
  <2>6. \A g \in Three : Second!Discover!SyncAccounts(g) <=> Syncs!SyncAccounts(g)
    BY SMTT(60) DEF Second!Discover!Go, Second!Discover!SyncAccounts, Syncs!Go,
       Syncs!SyncAccounts
  <2>7. \A g \in Three : Second!Discover!Flush(g) <=> Syncs!Flush(g)
    BY SMTT(60) DEF Second!Discover!Kind, Second!Discover!Known, Second!Discover!Go,
       Second!Discover!Resolved, Second!Discover!Recorded, Second!Discover!RefOf,
       Second!Discover!HasRow, Second!Discover!Missing, Second!Discover!Updated,
       Second!Discover!Outdated, Second!Discover!SameRisk, Second!Discover!Broken,
       Second!Discover!Flushed, Second!Discover!UpdateBroken, Second!Discover!Flush, Syncs!Kind,
       Syncs!Known, Syncs!Go, Syncs!Resolved, Syncs!Recorded, Syncs!RefOf, Syncs!HasRow,
       Syncs!Missing, Syncs!Updated, Syncs!Outdated, Syncs!SameRisk, Syncs!Broken,
       Syncs!Flushed, Syncs!UpdateBroken, Syncs!Flush
  <2> QED
    BY <2>1, <2>2, <2>3, <2>4, <2>5, <2>6, <2>7 DEF Second!Discover!Gather, Syncs!Gather
<1>3. \A u \in User : Second!Discover!Change(u) <=> Syncs!Change(u)
  BY SMTT(60) DEF Second!Discover!Kind, Second!Discover!Lone, Second!Discover!Without,
     Second!Discover!Change, Syncs!Kind, Syncs!Lone, Syncs!Without, Syncs!Change
<1>4. \A h \in Handled :
       /\ Second!Discover!Finish(h) <=> Syncs!Finish(h)
       /\ \A k \in Syncs!Kind, u \in User, act \in Syncs!Actions :
            Second!Discover!Read(h, k, u, act) <=> Syncs!Read(h, k, u, act)
  BY SMTT(60) DEF Second!Discover!Kind, Second!Discover!Lone, Second!Discover!Without,
     Second!Discover!Effect, Second!Discover!Read, Second!Discover!StatusOf,
     Second!Discover!Finish, Syncs!Kind, Syncs!Lone, Syncs!Without, Syncs!Effect, Syncs!Read,
     Syncs!StatusOf, Syncs!Finish
<1>5. Second!Discover!Next <=> Syncs!Next
  BY <1>2, <1>3, <1>4, SMTT(60) DEF Second!Discover!Kind, Second!Discover!Actions,
     Second!Discover!Next, Syncs!Kind, Syncs!Actions, Syncs!Next
<1>6. UNCHANGED Syncs!vars => UNCHANGED Second!Discover!vars
  BY SMTT(60) DEF Second!Discover!vars, Syncs!vars
<1>7. Second!Discover!TypeOK <=> Syncs!TypeOK
  BY SMTT(60) DEF Second!Discover!Kind, Second!Discover!Status, Second!Discover!Rows,
     Second!Discover!Risks, Second!Discover!RowTable, Second!Discover!RiskTable,
     Second!Discover!Actions, Second!Discover!Steps, Second!Discover!TypeOK, Syncs!Kind,
     Syncs!Status, Syncs!Rows, Syncs!Risks, Syncs!RowTable, Syncs!RiskTable, Syncs!Actions,
     Syncs!Steps, Syncs!TypeOK
<1>8. Second!Discover!QuietRunRepairs <=> Syncs!QuietRunRepairs
  BY SMTT(60) DEF Second!Discover!Quiet, Second!Discover!Judged,
     Second!Discover!QuietRunRepairs, Syncs!Quiet, Syncs!Judged, Syncs!QuietRunRepairs
<1> QED
  BY <1>1, <1>5, <1>6, <1>7, <1>8

LEMMA SyncsHolds ==
    AllSpec /\ part = "syncs"
    => [](part = "syncs" /\ Turns!TypeOK /\ Syncs!QuietRunRepairs)
<1>1. AllInit /\ part = "syncs" => Second!Discover!Init
  BY SameSyncs, SMTT(60) DEF AllInit, Discoveries, Turns!Kind, Syncs!Kind, Turns!NoRows, Syncs!NoRows,
     Turns!NoRisks, Syncs!NoRisks, Turns!Init, Syncs!Init
<1>2. part = "syncs" /\ [AllNext]_allvars
      => (part = "syncs")' /\ [Second!Discover!Next]_(Second!Discover!vars)
  BY SameSyncs, ZenonT(60) DEF AllNext, allvars, vars, cvars, lvars, dvars, jvars, InCache, InLock,
     InSetting, Discovering, InJob, Syncs!vars
<1>3. Second!Discover!DiscoveryAssumption
  BY UpkeepAssumption, SMTT(60) DEF UpkeepAssumption, Second!Discover!Status, Syncs!Status,
     Second!Discover!Rows, Syncs!Rows, Second!Discover!Risks, Syncs!Risks,
     Second!Discover!DiscoveryAssumption, Syncs!DiscoveryAssumption
<1>4. Second!Discover!Spec => []Second!Discover!TypeOK
  BY Second!DiscoveryTypes, <1>3
<1>5. Second!Discover!Spec => []Second!Discover!QuietRunRepairs
  BY Second!QuietRunsRepair, <1>3
<1>6. Syncs!TypeOK => Turns!TypeOK
  BY SMTT(60) DEF Syncs!Kind, Turns!Kind, Syncs!Status, Turns!Status, Syncs!Rows, Turns!Rows, Syncs!Risks,
     Turns!Risks, Syncs!RowTable, Turns!RowTable, Syncs!RiskTable, Turns!RiskTable, Syncs!Actions,
     Turns!Actions, Syncs!Steps, Turns!Steps, Syncs!TypeOK, Turns!TypeOK
<1> QED
  BY SameSyncs, <1>1, <1>2, <1>4, <1>5, <1>6, PTL DEF AllSpec, Second!Discover!Spec

LEMMA SameMore ==
    /\ Second!Job!Init <=> More!Init
    /\ Second!Job!Next <=> More!Next
    /\ UNCHANGED More!vars => UNCHANGED Second!Job!vars
    /\ Second!Job!TypeOK <=> More!TypeOK
    /\ Second!Job!RunningHasWorker <=> More!RunningHasWorker
  BY SMTT(60) DEF Second!Job!vars, Second!Job!Status, Second!Job!AtWork, Second!Job!TypeOK, Second!Job!Init,
     Second!Job!Outside, Second!Job!Send, Second!Job!Receive, Second!Job!Begin,
     Second!Job!GetRunner, Second!Job!Run, Second!Job!WritePid, Second!Job!RunnerEnds,
     Second!Job!Raise, Second!Job!SetResult, Second!Job!SetError, Second!Job!Die, Second!Job!Inside,
     Second!Job!Advance, Second!Job!StopReads, Second!Job!Active, Second!Job!Inspect,
     Second!Job!Revoke, Second!Job!Publish, Second!Job!StopCloses, Second!Job!Terminate,
     Second!Job!Grow, Second!Job!Find, Second!Job!Close, Second!Job!Clean, Second!Job!Next,
     Second!Job!RunningHasWorker, More!vars, More!Status, More!AtWork, More!TypeOK, More!Init,
     More!Outside, More!Send, More!Receive, More!Begin, More!GetRunner, More!Run, More!WritePid,
     More!RunnerEnds, More!Raise, More!SetResult, More!SetError, More!Die, More!Inside,
     More!Advance, More!StopReads, More!Active, More!Inspect, More!Revoke, More!Publish,
     More!StopCloses, More!Terminate, More!Grow, More!Find, More!Close, More!Clean, More!Next,
     More!RunningHasWorker

LEMMA MoreHolds ==
    AllSpec /\ part = "more"
    => [](part = "more" /\ More!TypeOK /\ More!RunningHasWorker)
<1>1. AllInit /\ part = "more" => Second!Job!Init
  BY SameMore DEF AllInit, Discoveries
<1>2. part = "more" /\ [AllNext]_allvars
      => (part = "more")' /\ [Second!Job!Next]_(Second!Job!vars)
  BY SameMore, ZenonT(60) DEF AllNext, allvars, vars, cvars, lvars, dvars, jvars, InCache, InLock,
     InSetting, Discovering, InJob, More!vars
<1>3. Second!Job!JobAssumption
  BY UpkeepAssumption, SMTT(60) DEF UpkeepAssumption, Second!Job!JobAssumption, More!JobAssumption
<1>4. Second!Job!Spec => [](Second!Job!TypeOK /\ Second!Job!RunningHasWorker)
  BY Second!RunsAreWorkedOn, <1>3
<1> QED
  BY SameMore, <1>1, <1>2, <1>4, PTL DEF AllSpec, Second!Job!Spec

\* With a lock that is both, without rollbacks, and discoveries at once.
Third == INSTANCE WorkerWatch_proofs
               WITH Reentrant <- TRUE, OnCommit <- TRUE, Rollbacks <- FALSE, Deaths <- TRUE,
                    Worker <- {j1, j2}, Request <- Stop, Outcomes <- Ends,
                    jobtask <- task, Uncounted <- None, Timed <- {}, Unmapped <- {},
                    MaxVersion <- 2, Losses <- TRUE,
                    Run <- Two, Handling <- Handled, Sync <- FALSE, AtOnce <- 2,
                    MaxChanges <- 2, gathered <- row, discovery <- run

LEMMA SameBoth ==
    /\ Third!Lock!Init <=> Both!Init
    /\ Third!Lock!Next <=> Both!Next
    /\ UNCHANGED Both!vars => UNCHANGED Third!Lock!vars
    /\ Third!Lock!TypeOK <=> Both!TypeOK
    /\ Third!Lock!HeldWhileInside <=> Both!HeldWhileInside
  BY SMTT(60) DEF Third!Lock!vars, Third!Lock!Kinds, Third!Lock!TypeOK, Third!Lock!InTransaction,
     Third!Lock!Init, Third!Lock!Mine, Third!Lock!MayAsk, Third!Lock!Entered, Third!Lock!Acquire,
     Third!Lock!ReEnter, Third!Lock!KindOf, Third!Lock!Freed, Third!Lock!Refused,
     Third!Lock!Release, Third!Lock!Deferred, Third!Lock!Leave, Third!Lock!Begin, Third!Lock!Commit,
     Third!Lock!RunDue, Third!Lock!Rollback, Third!Lock!Die, Third!Lock!Alive, Third!Lock!Expire,
     Third!Lock!Next, Third!Lock!Inside, Third!Lock!HeldWhileInside, Both!vars, Both!Kinds,
     Both!TypeOK, Both!InTransaction, Both!Init, Both!Mine, Both!MayAsk, Both!Entered, Both!Acquire,
     Both!ReEnter, Both!KindOf, Both!Freed, Both!Refused, Both!Release, Both!Deferred, Both!Leave,
     Both!Begin, Both!Commit, Both!RunDue, Both!Rollback, Both!Die, Both!Alive, Both!Expire,
     Both!Next, Both!Inside, Both!HeldWhileInside

LEMMA BothHolds ==
    AllSpec /\ part = "both"
    => [](part = "both" /\ Both!TypeOK /\ Both!HeldWhileInside)
<1>1. AllInit /\ part = "both" => Third!Lock!Init
  BY SameBoth, SMTT(60) DEF AllInit, Discoveries
<1>2. part = "both" /\ [AllNext]_allvars
      => (part = "both")' /\ [Third!Lock!Next]_(Third!Lock!vars)
  BY SameBoth, ZenonT(60) DEF AllNext, allvars, vars, cvars, lvars, dvars, jvars, InCache, InLock,
     InSetting, Discovering, InJob, Both!vars
<1>3. Third!Lock!LockAssumption
  BY UpkeepAssumption, SMTT(60) DEF UpkeepAssumption, Third!Lock!LockAssumption, Both!LockAssumption
<1>4. Third!Lock!Spec => []Third!Lock!TypeOK
  BY Third!LockTypes, <1>3
<1>5. Third!Lock!Spec => []Third!Lock!HeldWhileInside
  BY Third!LocksAreHeld, <1>3
<1> QED
  BY SameBoth, <1>1, <1>2, <1>4, <1>5, PTL DEF AllSpec, Third!Lock!Spec

LEMMA SameMeet ==
    /\ Third!Discover!Init <=> Meet!Init
    /\ Third!Discover!Next <=> Meet!Next
    /\ UNCHANGED Meet!vars => UNCHANGED Third!Discover!vars
    /\ Third!Discover!TypeOK <=> Meet!TypeOK
    /\ Third!Discover!QuietRunRepairs <=> Meet!QuietRunRepairs
<1>1. Third!Discover!Init <=> Meet!Init
  BY SMTT(60) DEF Third!Discover!Kind, Third!Discover!NoRows, Third!Discover!NoRisks,
     Third!Discover!Init, Meet!Kind, Meet!NoRows, Meet!NoRisks, Meet!Init
<1>2. \A g \in Two : Third!Discover!Gather(g) <=> Meet!Gather(g)
  <2>1. \A g \in Two : Third!Discover!Scan(g) <=> Meet!Scan(g)
    BY SMTT(60) DEF Third!Discover!Busy, Third!Discover!Scan, Meet!Busy, Meet!Scan,
       Third!Discover!Cardinality, Meet!Cardinality
  <2>2. \A g \in Two : Third!Discover!Prefetch(g) <=> Meet!Prefetch(g)
    BY SMTT(60) DEF Third!Discover!Prefetch, Meet!Prefetch
  <2>3. \A g \in Two : Third!Discover!LoadRisks(g) <=> Meet!LoadRisks(g)
    BY SMTT(60) DEF Third!Discover!LoadRisks, Meet!LoadRisks
  <2>4. \A g \in Two : Third!Discover!CreateRows(g) <=> Meet!CreateRows(g)
    BY SMTT(60) DEF Third!Discover!Known, Third!Discover!Go, Third!Discover!CreateRows,
       Meet!Known, Meet!Go, Meet!CreateRows
  <2>5. \A g \in Two : Third!Discover!UpdateStatus(g) <=> Meet!UpdateStatus(g)
    BY SMTT(60) DEF Third!Discover!Known, Third!Discover!Go, Third!Discover!NotIgnored,
       Third!Discover!Marked, Third!Discover!Present, Third!Discover!Remote,
       Third!Discover!UpdateStatus, Meet!Known, Meet!Go, Meet!NotIgnored, Meet!Marked,
       Meet!Present, Meet!Remote, Meet!UpdateStatus
  <2>6. \A g \in Two : Third!Discover!SyncAccounts(g) <=> Meet!SyncAccounts(g)
    BY SMTT(60) DEF Third!Discover!Go, Third!Discover!SyncAccounts, Meet!Go, Meet!SyncAccounts
  <2>7. \A g \in Two : Third!Discover!Flush(g) <=> Meet!Flush(g)
    BY SMTT(60) DEF Third!Discover!Kind, Third!Discover!Known, Third!Discover!Go,
       Third!Discover!Resolved, Third!Discover!Recorded, Third!Discover!RefOf,
       Third!Discover!HasRow, Third!Discover!Missing, Third!Discover!Updated,
       Third!Discover!Outdated, Third!Discover!SameRisk, Third!Discover!Broken,
       Third!Discover!Flushed, Third!Discover!UpdateBroken, Third!Discover!Flush, Meet!Kind,
       Meet!Known, Meet!Go, Meet!Resolved, Meet!Recorded, Meet!RefOf, Meet!HasRow, Meet!Missing,
       Meet!Updated, Meet!Outdated, Meet!SameRisk, Meet!Broken, Meet!Flushed, Meet!UpdateBroken,
       Meet!Flush
  <2> QED
    BY <2>1, <2>2, <2>3, <2>4, <2>5, <2>6, <2>7 DEF Third!Discover!Gather, Meet!Gather
<1>3. \A u \in User : Third!Discover!Change(u) <=> Meet!Change(u)
  BY SMTT(60) DEF Third!Discover!Kind, Third!Discover!Lone, Third!Discover!Without,
     Third!Discover!Change, Meet!Kind, Meet!Lone, Meet!Without, Meet!Change
<1>4. \A h \in Handled :
       /\ Third!Discover!Finish(h) <=> Meet!Finish(h)
       /\ \A k \in Meet!Kind, u \in User, act \in Meet!Actions :
            Third!Discover!Read(h, k, u, act) <=> Meet!Read(h, k, u, act)
  BY SMTT(60) DEF Third!Discover!Kind, Third!Discover!Lone, Third!Discover!Without,
     Third!Discover!Effect, Third!Discover!Read, Third!Discover!StatusOf, Third!Discover!Finish,
     Meet!Kind, Meet!Lone, Meet!Without, Meet!Effect, Meet!Read, Meet!StatusOf, Meet!Finish
<1>5. Third!Discover!Next <=> Meet!Next
  BY <1>2, <1>3, <1>4, SMTT(60) DEF Third!Discover!Kind, Third!Discover!Actions,
     Third!Discover!Next, Meet!Kind, Meet!Actions, Meet!Next
<1>6. UNCHANGED Meet!vars => UNCHANGED Third!Discover!vars
  BY SMTT(60) DEF Third!Discover!vars, Meet!vars
<1>7. Third!Discover!TypeOK <=> Meet!TypeOK
  BY SMTT(60) DEF Third!Discover!Kind, Third!Discover!Status, Third!Discover!Rows,
     Third!Discover!Risks, Third!Discover!RowTable, Third!Discover!RiskTable,
     Third!Discover!Actions, Third!Discover!Steps, Third!Discover!TypeOK, Meet!Kind,
     Meet!Status, Meet!Rows, Meet!Risks, Meet!RowTable, Meet!RiskTable, Meet!Actions,
     Meet!Steps, Meet!TypeOK
<1>8. Third!Discover!QuietRunRepairs <=> Meet!QuietRunRepairs
  BY SMTT(60) DEF Third!Discover!Quiet, Third!Discover!Judged, Third!Discover!QuietRunRepairs,
     Meet!Quiet, Meet!Judged, Meet!QuietRunRepairs
<1> QED
  BY <1>1, <1>5, <1>6, <1>7, <1>8

LEMMA MeetHolds ==
    AllSpec /\ part = "meet"
    => /\ [](part = "meet" /\ Meet!TypeOK /\ Meet!QuietRunRepairs)
       /\ [][Turns!IgnoredKept]_dvars
<1>1. AllInit /\ part = "meet" => Third!Discover!Init
  BY SameMeet, SMTT(60) DEF AllInit, Discoveries
<1>2. part = "meet" /\ [AllNext]_allvars
      => (part = "meet")' /\ [Third!Discover!Next]_(Third!Discover!vars)
  BY SameMeet, ZenonT(60) DEF AllNext, allvars, vars, cvars, lvars, dvars, jvars, InCache, InLock,
     InSetting, Discovering, InJob, Meet!vars
<1>3. Third!Discover!DiscoveryAssumption
  BY UpkeepAssumption DEF UpkeepAssumption, Third!Discover!Status, Meet!Status, Third!Discover!Rows,
     Meet!Rows, Third!Discover!Risks, Meet!Risks, Third!Discover!DiscoveryAssumption,
     Meet!DiscoveryAssumption
<1>4. Third!Discover!Spec => []Third!Discover!TypeOK
  BY Third!DiscoveryTypes, <1>3
<1>5. Third!Discover!Spec => []Third!Discover!QuietRunRepairs
  BY Third!QuietRunsRepair, <1>3
<1>6. Third!Discover!Spec => [][Third!Discover!IgnoredKept]_(Third!Discover!vars)
  BY Third!IgnoredRowsStay, <1>3 DEF Third!Discover!IgnoredStays
<1>7. [Third!Discover!IgnoredKept]_(Third!Discover!vars)
      => [Turns!IgnoredKept]_dvars
  BY DEF dvars, Third!Discover!IgnoredKept, Turns!IgnoredKept, Third!Discover!vars, Turns!vars
<1> QED
  BY SameMeet, <1>1, <1>2, <1>4, <1>5, <1>6, <1>7, PTL DEF AllSpec, Third!Discover!Spec

\* With a lock that is both, with rollbacks, and synchronised discoveries at once.
Fourth == INSTANCE WorkerWatch_proofs
                WITH Reentrant <- TRUE, OnCommit <- TRUE, Rollbacks <- TRUE, Deaths <- TRUE,
                     Object <- Fewer, Worker <- {j1, j2}, Request <- Stop, Outcomes <- Ends,
                     jobtask <- task, Uncounted <- None, Timed <- {}, Unmapped <- {},
                     MaxVersion <- 2, Losses <- TRUE,
                     Run <- Two, Handling <- Handled, Sync <- TRUE, AtOnce <- 2,
                     MaxChanges <- 2, gathered <- row, discovery <- run

LEMMA SameMixed ==
    /\ Fourth!Lock!Init <=> Mixed!Init
    /\ Fourth!Lock!Next <=> Mixed!Next
    /\ UNCHANGED Mixed!vars => UNCHANGED Fourth!Lock!vars
    /\ Fourth!Lock!TypeOK <=> Mixed!TypeOK
  BY SMTT(60) DEF Fourth!Lock!vars, Fourth!Lock!Kinds, Fourth!Lock!TypeOK, Fourth!Lock!InTransaction,
     Fourth!Lock!Init, Fourth!Lock!Mine, Fourth!Lock!MayAsk, Fourth!Lock!Entered,
     Fourth!Lock!Acquire, Fourth!Lock!ReEnter, Fourth!Lock!KindOf, Fourth!Lock!Freed,
     Fourth!Lock!Refused, Fourth!Lock!Release, Fourth!Lock!Deferred, Fourth!Lock!Leave,
     Fourth!Lock!Begin, Fourth!Lock!Commit, Fourth!Lock!RunDue, Fourth!Lock!Rollback,
     Fourth!Lock!Die, Fourth!Lock!Alive, Fourth!Lock!Expire, Fourth!Lock!Next, Mixed!vars,
     Mixed!Kinds, Mixed!TypeOK, Mixed!InTransaction, Mixed!Init, Mixed!Mine, Mixed!MayAsk,
     Mixed!Entered, Mixed!Acquire, Mixed!ReEnter, Mixed!KindOf, Mixed!Freed, Mixed!Refused,
     Mixed!Release, Mixed!Deferred, Mixed!Leave, Mixed!Begin, Mixed!Commit, Mixed!RunDue,
     Mixed!Rollback, Mixed!Die, Mixed!Alive, Mixed!Expire, Mixed!Next

LEMMA MixedHolds ==
    AllSpec /\ part = "mixed"
    => [](part = "mixed" /\ Mixed!TypeOK)
<1>1. AllInit /\ part = "mixed" => Fourth!Lock!Init
  BY SameMixed DEF AllInit, Discoveries
<1>2. part = "mixed" /\ [AllNext]_allvars
      => (part = "mixed")' /\ [Fourth!Lock!Next]_(Fourth!Lock!vars)
  BY SameMixed, ZenonT(60) DEF AllNext, allvars, vars, cvars, lvars, dvars, jvars, InCache, InLock,
     InSetting, Discovering, InJob, Mixed!vars
<1>3. Fourth!Lock!LockAssumption
  BY UpkeepAssumption, SMTT(60) DEF UpkeepAssumption, Fourth!Lock!LockAssumption, Mixed!LockAssumption
<1>4. Fourth!Lock!Spec => []Fourth!Lock!TypeOK
  BY Fourth!LockTypes, <1>3
<1> QED
  BY SameMixed, <1>1, <1>2, <1>4, PTL DEF AllSpec, Fourth!Lock!Spec

LEMMA SameMeetSync ==
    /\ Fourth!Discover!Init <=> MeetSync!Init
    /\ Fourth!Discover!Next <=> MeetSync!Next
    /\ UNCHANGED MeetSync!vars => UNCHANGED Fourth!Discover!vars
    /\ Fourth!Discover!TypeOK <=> MeetSync!TypeOK
    /\ Fourth!Discover!QuietRunRepairs <=> MeetSync!QuietRunRepairs
  BY ZenonT(60) DEF Fourth!Discover!vars, Fourth!Discover!Kind, Fourth!Discover!Status, Fourth!Discover!Rows,
     Fourth!Discover!Risks, Fourth!Discover!RowTable, Fourth!Discover!RiskTable,
     Fourth!Discover!Actions, Fourth!Discover!Steps, Fourth!Discover!TypeOK, Fourth!Discover!NoRows,
     Fourth!Discover!NoRisks, Fourth!Discover!Init, Fourth!Discover!Lone, Fourth!Discover!Without,
     Fourth!Discover!Change, Fourth!Discover!Busy, Fourth!Discover!Scan, Fourth!Discover!Prefetch,
     Fourth!Discover!LoadRisks, Fourth!Discover!Known, Fourth!Discover!Go,
     Fourth!Discover!CreateRows, Fourth!Discover!NotIgnored, Fourth!Discover!Marked,
     Fourth!Discover!Present, Fourth!Discover!Remote, Fourth!Discover!UpdateStatus,
     Fourth!Discover!SyncAccounts, Fourth!Discover!Resolved, Fourth!Discover!Recorded,
     Fourth!Discover!RefOf, Fourth!Discover!HasRow, Fourth!Discover!Missing,
     Fourth!Discover!Updated, Fourth!Discover!Outdated, Fourth!Discover!SameRisk,
     Fourth!Discover!Broken, Fourth!Discover!Flushed, Fourth!Discover!UpdateBroken,
     Fourth!Discover!Flush, Fourth!Discover!Effect, Fourth!Discover!Read, Fourth!Discover!StatusOf,
     Fourth!Discover!Finish, Fourth!Discover!Gather, Fourth!Discover!Next, Fourth!Discover!Quiet,
     Fourth!Discover!Judged, Fourth!Discover!QuietRunRepairs, MeetSync!vars, MeetSync!Kind,
     MeetSync!Status, MeetSync!Rows, MeetSync!Risks, MeetSync!RowTable, MeetSync!RiskTable,
     MeetSync!Actions, MeetSync!Steps, MeetSync!TypeOK, MeetSync!NoRows, MeetSync!NoRisks,
     MeetSync!Init, MeetSync!Lone, MeetSync!Without, MeetSync!Change, MeetSync!Busy, MeetSync!Scan,
     MeetSync!Prefetch, MeetSync!LoadRisks, MeetSync!Known, MeetSync!Go, MeetSync!CreateRows,
     MeetSync!NotIgnored, MeetSync!Marked, MeetSync!Present, MeetSync!Remote, MeetSync!UpdateStatus,
     MeetSync!SyncAccounts, MeetSync!Resolved, MeetSync!Recorded, MeetSync!RefOf, MeetSync!HasRow,
     MeetSync!Missing, MeetSync!Updated, MeetSync!Outdated, MeetSync!SameRisk, MeetSync!Broken,
     MeetSync!Flushed, MeetSync!UpdateBroken, MeetSync!Flush, MeetSync!Effect, MeetSync!Read,
     MeetSync!StatusOf, MeetSync!Finish, MeetSync!Gather, MeetSync!Next, MeetSync!Quiet,
     MeetSync!Judged, MeetSync!QuietRunRepairs, Fourth!Discover!Cardinality, MeetSync!Cardinality

LEMMA MeetSyncHolds ==
    AllSpec /\ part = "meetsync"
    => [](part = "meetsync" /\ Meet!TypeOK /\ MeetSync!QuietRunRepairs)
<1>1. AllInit /\ part = "meetsync" => Fourth!Discover!Init
  BY SameMeetSync DEF AllInit, Discoveries, Meet!Kind, MeetSync!Kind, Meet!NoRows, MeetSync!NoRows,
     Meet!NoRisks, MeetSync!NoRisks, Meet!Init, MeetSync!Init
<1>2. part = "meetsync" /\ [AllNext]_allvars
      => (part = "meetsync")' /\ [Fourth!Discover!Next]_(Fourth!Discover!vars)
  BY SameMeetSync, ZenonT(60) DEF AllNext, allvars, vars, cvars, lvars, dvars, jvars, InCache, InLock,
     InSetting, Discovering, InJob, MeetSync!vars
<1>3. Fourth!Discover!DiscoveryAssumption
  BY UpkeepAssumption, SMTT(60) DEF UpkeepAssumption, Fourth!Discover!Status, MeetSync!Status,
     Fourth!Discover!Rows, MeetSync!Rows, Fourth!Discover!Risks, MeetSync!Risks,
     Fourth!Discover!DiscoveryAssumption, MeetSync!DiscoveryAssumption
<1>4. Fourth!Discover!Spec => []Fourth!Discover!TypeOK
  BY Fourth!DiscoveryTypes, <1>3
<1>5. Fourth!Discover!Spec => []Fourth!Discover!QuietRunRepairs
  BY Fourth!QuietRunsRepair, <1>3
<1>6. MeetSync!TypeOK => Meet!TypeOK
  BY DEF MeetSync!Kind, Meet!Kind, MeetSync!Status, Meet!Status, MeetSync!Rows, Meet!Rows,
     MeetSync!Risks, Meet!Risks, MeetSync!RowTable, Meet!RowTable, MeetSync!RiskTable,
     Meet!RiskTable, MeetSync!Actions, Meet!Actions, MeetSync!Steps, Meet!Steps, MeetSync!TypeOK,
     Meet!TypeOK
<1> QED
  BY SameMeetSync, <1>1, <1>2, <1>4, <1>5, <1>6, PTL DEF AllSpec, Fourth!Discover!Spec

-----------------------------------------------------------------------------
(* What the run checks.                                                    *)
LEMMA BeginsInPart ==
    AllInit
    => \/ part = "delayed" \/ part = "waits" \/ part = "enters" \/ part = "both"
           \/ part = "mixed" \/ part = "setting" \/ part = "turns" \/ part = "syncs"
           \/ part = "meet" \/ part = "meetsync" \/ part = "one" \/ part = "more"
  BY UpkeepAssumption, SMTT(60) DEF UpkeepAssumption, Discoveries, AllInit

\* A part that does not change the setting leaves its copies as they are.
LEMMA SettingRuns == AllSpec => Spec
<1>1. AllInit => Init
  BY SMTT(60) DEF AllInit
<1>2. [AllNext]_allvars => [Next]_vars
  BY ZenonT(60) DEF AllNext, allvars, InCache, InLock, InSetting, Discovering, InJob
<1> QED
  BY <1>1, <1>2, PTL DEF AllSpec, Spec

LEMMA SettingStays == AllSpec /\ part = "setting" => []((part = "setting") /\ TypeOK)
<1>1. part = "setting" /\ [AllNext]_allvars => (part = "setting")'
  BY ZenonT(60) DEF AllNext, allvars, InCache, InLock, InSetting, Discovering, InJob
<1>2. SettingAssumption
  BY UpkeepAssumption, SMTT(60) DEF UpkeepAssumption
<1> QED
  BY <1>1, <1>2, SettingRuns, SettingTypes, PTL DEF AllSpec

\* Types hold in each part of MC_Upkeep.
THEOREM UpkeepTypesHold == AllSpec => []TypesOK
<1>1. /\ part = "delayed" /\ Delayed!TypeOK => TypesOK
      /\ part = "waits" /\ Both!TypeOK => TypesOK
      /\ part = "enters" /\ Both!TypeOK => TypesOK
      /\ part = "both" /\ Both!TypeOK => TypesOK
      /\ part = "mixed" /\ Mixed!TypeOK => TypesOK
      /\ part = "setting" /\ TypeOK => TypesOK
      /\ part = "turns" /\ Turns!TypeOK => TypesOK
      /\ part = "syncs" /\ Turns!TypeOK => TypesOK
      /\ part = "meet" /\ Meet!TypeOK => TypesOK
      /\ part = "meetsync" /\ Meet!TypeOK => TypesOK
      /\ part = "one" /\ More!TypeOK => TypesOK
      /\ part = "more" /\ More!TypeOK => TypesOK
  BY SMTT(60) DEF TypesOK
<1> QED
  BY <1>1, BeginsInPart, SettingStays, DelayedHolds, WaitsHolds, EntersHolds, BothHolds, MixedHolds,
     TurnsHolds, SyncsHolds, MeetHolds, MeetSyncHolds, OneHolds, MoreHolds, PTL DEF AllSpec

\* DistributedLock, JobExecution.start: in each part who is at work owns what says so, the key of
\* the lock or the execution that says running.
THEOREM WorkersOwnTheirWork == AllSpec => []WorkIsOwned
<1>1. /\ part = "delayed" => WorkIsOwned
      /\ part = "waits" /\ Waits!HeldWhileInside => WorkIsOwned
      /\ part = "enters" /\ Enters!HeldWhileInside => WorkIsOwned
      /\ part = "both" /\ Both!HeldWhileInside => WorkIsOwned
      /\ part = "mixed" => WorkIsOwned
      /\ part = "setting" => WorkIsOwned
      /\ part = "turns" => WorkIsOwned
      /\ part = "syncs" => WorkIsOwned
      /\ part = "meet" => WorkIsOwned
      /\ part = "meetsync" => WorkIsOwned
      /\ part = "one" /\ One!RunningHasWorker => WorkIsOwned
      /\ part = "more" /\ More!RunningHasWorker => WorkIsOwned
  BY SMTT(60) DEF WorkIsOwned
<1> QED
  BY <1>1, BeginsInPart, SettingStays, DelayedHolds, WaitsHolds, EntersHolds, BothHolds, MixedHolds,
     TurnsHolds, SyncsHolds, MeetHolds, MeetSyncHolds, OneHolds, MoreHolds, PTL DEF AllSpec

\* GatherAccountsManager.do_run, update_gather_accounts_status: in each part an undisturbed
\* discovery leaves rows and risks true, and executions leave what a user ignores.
THEOREM DiscoveriesAreTrue == AllSpec => DiscoveryIsTrue
<1> DEFINE Quietly == /\ part = "turns" => Turns!QuietRunRepairs
                      /\ part = "syncs" => Syncs!QuietRunRepairs
                      /\ part = "meet" => Meet!QuietRunRepairs
                      /\ part = "meetsync" => MeetSync!QuietRunRepairs
           Keeps == (part \in {"turns", "meet"}) => Turns!IgnoredKept
<1>1. /\ part = "delayed" => Quietly
      /\ part = "waits" => Quietly
      /\ part = "enters" => Quietly
      /\ part = "both" => Quietly
      /\ part = "mixed" => Quietly
      /\ part = "setting" => Quietly
      /\ part = "turns" /\ Turns!QuietRunRepairs => Quietly
      /\ part = "syncs" /\ Syncs!QuietRunRepairs => Quietly
      /\ part = "meet" /\ Meet!QuietRunRepairs => Quietly
      /\ part = "meetsync" /\ MeetSync!QuietRunRepairs => Quietly
      /\ part = "one" => Quietly
      /\ part = "more" => Quietly
  BY SMTT(60)
<1>2. /\ part = "delayed" => [Keeps]_dvars
      /\ part = "waits" => [Keeps]_dvars
      /\ part = "enters" => [Keeps]_dvars
      /\ part = "both" => [Keeps]_dvars
      /\ part = "mixed" => [Keeps]_dvars
      /\ part = "setting" => [Keeps]_dvars
      /\ part = "turns" /\ [Turns!IgnoredKept]_dvars => [Keeps]_dvars
      /\ part = "syncs" => [Keeps]_dvars
      /\ part = "meet" /\ [Turns!IgnoredKept]_dvars => [Keeps]_dvars
      /\ part = "meetsync" => [Keeps]_dvars
      /\ part = "one" => [Keeps]_dvars
      /\ part = "more" => [Keeps]_dvars
  BY SMTT(60)
<1> HIDE DEF Quietly, Keeps
<1>3. AllSpec => []Quietly
  BY <1>1, BeginsInPart, SettingStays, DelayedHolds, WaitsHolds, EntersHolds, BothHolds, MixedHolds,
     TurnsHolds, SyncsHolds, MeetHolds, MeetSyncHolds, OneHolds, MoreHolds, PTL DEF AllSpec
<1>4. AllSpec => [][Keeps]_dvars
  BY <1>2, BeginsInPart, SettingStays, DelayedHolds, WaitsHolds, EntersHolds, BothHolds, MixedHolds,
     TurnsHolds, SyncsHolds, MeetHolds, MeetSyncHolds, OneHolds, MoreHolds, PTL DEF AllSpec
<1> QED
  BY <1>3, <1>4, PTL DEF DiscoveryIsTrue, Quietly, Keeps
=============================================================================
