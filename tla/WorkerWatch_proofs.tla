------------------------ MODULE WorkerWatch_proofs ------------------------
(***************************************************************************)
(* Theorems about what runs behind the requests of a web worker, for every *)
(* number of tasks, workers, threads, calls, users and changes.            *)
(* WorkerWatch: the periodic check closes only executions nobody works on, *)
(* and rewrites no result. BulkLog: a record is saved once. MergeDelay: a  *)
(* call that no other disturbs is handled. CountCache: a wrong count has a *)
(* reason. JobRun: however an execution of a job ends by itself, its row   *)
(* does not go on saying running. DistributedLock: whoever is inside has   *)
(* the key, plain, reentrant or held until a commit. AccountDiscovery: an  *)
(* execution that nothing disturbs leaves rows and risks that are right.   *)
(***************************************************************************)
EXTENDS WorkerWatch, Integers, Sequences, FiniteSetTheorems, TLAPS

\* What a pass has in its hands.
Ended == [state : {"ended"}, over : SUBSET Executions, rest : SUBSET Executions,
          how : UNION {[S -> {"canceled", "error"}] : S \in SUBSET Executions}]
Missing == [state : {"missing"}, rest : SUBSET Executions, active : SUBSET Tasks,
            replied : SUBSET Workers]

CheckOK ==
  /\ check \in {NoCheck} \cup Ended \cup Missing
  /\ check.state = "ended" => check.over \subseteq DOMAIN check.how

\* The state of a task: it works on one execution of its own, which is open; Celery does not
\* call it over; nobody is about to close its executions because it is.
TaskOK(t) ==
  /\ task[t].state = "new" => task[t] = NoTask
  /\ task[t].cur # None => Live(t) /\ OwnerOf[task[t].cur] = t /\ row[task[t].cur] = "open"
  /\ celery[t] \in Terminal => task[t].state \in {"ending", "over"}

\* The executions a pass knows were created when it began.
InPass(e) == \/ check.state \in {"ended", "missing"} /\ e \in check.rest
             \/ check.state = "ended" /\ e \in check.over

\* A worker answered and the reply left the task out.
LeftOut(e) == /\ check.state = "missing" /\ e \in check.rest
              /\ ~IsActive(e) /\ WorkerReplied(e)

\* What is known of an execution: before it is created, of its marker, ...
ExecutionOK(e) ==
  /\ row[e] = "none" => marker[e] = -1 /\ age[e] = 0 /\ e \notin revoked /\ ~InPass(e)
  /\ row[e] # "none" => task[OwnerOf[e]].state # "new"
  /\ marker[e] # -1 => age[e] >= Grace
  /\ marker[e] < MarkerTTL
  /\ e \in revoked => task[OwnerOf[e]].state = "over"
  /\ check.state = "ended" /\ e \in check.over => celery[OwnerOf[e]] \in Terminal

\* ... and while its task runs: only the one at work is open, it is younger than the
\* deadline, and it is marked as missing only after a reply left it out, once.
RunningOK(e) ==
  Live(OwnerOf[e]) =>
    /\ age[e] < Deadline
    /\ row[e] = "open" => task[OwnerOf[e]].cur = e
    /\ e \notin missed => marker[e] = -1
    /\ LeftOut(e) => marker[e] = -1 /\ e \in missed

WatchInv ==
  /\ WatchAssumption /\ TypeOK /\ CheckOK
  /\ \A t \in Tasks : TaskOK(t)
  /\ \A e \in Executions : ExecutionOK(e) /\ RunningOK(e)

-----------------------------------------------------------------------------
LEMMA Constants ==
  ASSUME WatchAssumption
  PROVE  /\ \A e \in Executions : OwnerOf[e] \in Tasks
         /\ None \notin Executions \cup Workers
         /\ Grace \in Nat /\ Confirm \in Nat /\ MarkerTTL \in Nat /\ Deadline \in Nat /\ MaxFaults \in Nat
         /\ 0 < Confirm /\ Confirm < MarkerTTL /\ Grace < Deadline
  BY DEF WatchAssumption

LEMMA CheckStates ==
  ASSUME CheckOK
  PROVE  /\ check.state = "idle" <=> check = NoCheck
         /\ check.state = "ended" <=> check \in Ended
         /\ check.state = "missing" <=> check \in Missing
  BY DEF CheckOK, NoCheck, Ended, Missing

TaskRow == [state : {"new", "running", "ending", "over"}, host : Workers \cup {None},
            cur : Executions \cup {None}]

LEMMA TaskSet ==
  ASSUME TypeOK, NEW t \in Tasks, NEW s \in {"running", "ending", "over"}, NEW c \in Executions \cup {None},
         task' = [task EXCEPT ![t].state = s, ![t].cur = c]
  PROVE  /\ task' \in [Tasks -> TaskRow]
         /\ task'[t].state = s /\ task'[t].cur = c /\ task'[t].host = task[t].host
         /\ \A x \in Tasks : x # t => task'[x] = task[x]
  <1>1. task \in [Tasks -> TaskRow]
    BY DEF TypeOK, TaskRow
  <1> DEFINE q == [task[t] EXCEPT !.state = s, !.cur = c]
  <1>2. q \in TaskRow /\ q.state = s /\ q.cur = c /\ q.host = task[t].host
    BY <1>1 DEF TaskRow
  <1>3. task' = [task EXCEPT ![t] = q]
    OBVIOUS
  <1> HIDE DEF q
  <1> QED
    BY <1>1, <1>2, <1>3, ZenonT(60)

LEMMA WatchInit ==
  ASSUME WatchAssumption, Init
  PROVE  WatchInv
  <1>1. TypeOK
    <2>1. NoTask \in TaskRow /\ \A t \in Tasks : ~Live(t)
      BY DEF Init, NoTask, TaskRow, Live
    <2>2. task \in [Tasks -> TaskRow]
      BY <2>1 DEF Init
    <2>3. age \in [Executions -> 0..Deadline] /\ marker \in [Executions -> -1..MarkerTTL] /\ faults \in 0..MaxFaults
      BY Constants DEF Init
    <2> QED
      BY <2>1, <2>2, <2>3 DEF Init, TypeOK, NoCheck, TaskRow
  <1>2. CheckOK
    BY DEF Init, CheckOK, NoCheck
  <1>3. \A t \in Tasks : TaskOK(t)
    BY DEF Init, TaskOK, NoTask, Terminal
  <1>4. \A e \in Executions : ExecutionOK(e) /\ RunningOK(e)
    <2> SUFFICES ASSUME NEW e \in Executions PROVE ExecutionOK(e) /\ RunningOK(e)
      OBVIOUS
    <2>1. OwnerOf[e] \in Tasks /\ task[OwnerOf[e]].state = "new" /\ marker[e] = -1 /\ row[e] = "none" /\ age[e] = 0
      BY Constants DEF Init, NoTask
    <2>2. check.state = "idle" /\ revoked = {} /\ -1 < MarkerTTL
      BY Constants DEF Init, NoCheck
    <2> QED
      BY <2>1, <2>2 DEF ExecutionOK, RunningOK, InPass, Live
  <1> QED
    BY <1>1, <1>2, <1>3, <1>4 DEF WatchInv

-----------------------------------------------------------------------------
(* The worker.                                                             *)

LEMMA StartKeeps ==
  ASSUME WatchInv, NEW t \in Tasks, NEW w \in Workers, Start(t, w)
  PROVE  WatchInv'
  <1> USE Constants DEF WatchInv, Start
  <1>1. TypeOK'
    BY DEF TypeOK, Live, NoTask, Terminal
  <1>2. CheckOK'
    BY DEF CheckOK
  <1>3. \A x \in Tasks : TaskOK(x)'
    BY DEF TaskOK, TypeOK, Live, NoTask, Terminal
  <1>4. \A x \in Executions : ExecutionOK(x)'
    BY DEF ExecutionOK, TypeOK, NoTask, Terminal, InPass
  <1>5. \A x \in Executions : RunningOK(x)'
    <2> SUFFICES ASSUME NEW x \in Executions, Live(OwnerOf[x])' PROVE RunningOK(x)'
      BY DEF RunningOK
    <2>1. CASE OwnerOf[x] = t
      <3>1. row[x] = "none"
        BY <2>1 DEF ExecutionOK, NoTask
      <3>2. marker[x] = -1 /\ age[x] = 0 /\ ~InPass(x)
        BY <3>1 DEF ExecutionOK
      <3> QED
        BY <3>1, <3>2 DEF RunningOK, LeftOut, InPass
    <2>2. CASE OwnerOf[x] # t
      <3>1. task'[OwnerOf[x]] = task[OwnerOf[x]]
        BY <2>2 DEF TypeOK
      <3> QED
        BY <3>1 DEF RunningOK, Live, LeftOut, IsActive, WorkerReplied, Host
    <2> QED
      BY <2>1, <2>2
  <1> QED
    BY <1>1, <1>2, <1>3, <1>4, <1>5

LEMMA CreateKeeps ==
  ASSUME WatchInv, NEW t \in Tasks, NEW e \in Executions, Create(t, e)
  PROVE  WatchInv'
  <1> USE Constants DEF WatchInv, Create, CloseAs
  <1>1. TypeOK'
    BY DEF TypeOK, Live
  <1>2. CheckOK'
    BY DEF CheckOK
  <1>3. \A x \in Tasks : TaskOK(x)'
    BY DEF TaskOK, TypeOK, Live, NoTask
  <1>4. \A x \in Executions : ExecutionOK(x)'
    BY DEF ExecutionOK, TypeOK, Live, InPass
  <1>5. \A x \in Executions : RunningOK(x)'
    <2>1. \A x \in Executions : IF x = e THEN row'[x] = "open" /\ age'[x] = 0
                                         ELSE row'[x] = row[x] /\ age'[x] = age[x]
      BY DEF TypeOK
    <2>2. \A x \in Tasks : /\ task'[x].state = task[x].state /\ task'[x].host = task[x].host
                           /\ task'[x].cur = IF x = t THEN e ELSE task[x].cur
      BY DEF TypeOK
    <2>3. row[e] = "none" /\ OwnerOf[e] = t /\ task[t].cur = None
      OBVIOUS
    <2>4. marker[e] = -1 /\ ~InPass(e)
      BY <2>3 DEF ExecutionOK
    <2> QED
      BY <2>1, <2>2, <2>3, <2>4 DEF RunningOK, TypeOK, Live, InPass, LeftOut, IsActive, WorkerReplied, Host
  <1> QED
    BY <1>1, <1>2, <1>3, <1>4, <1>5

LEMMA SaveKeeps ==
  ASSUME WatchInv, NEW t \in Tasks, Save(t)
  PROVE  WatchInv'
  <1> USE Constants DEF WatchInv
  <1> DEFINE c == task[t].cur
  <1>0. /\ Live(t) /\ c \in Executions /\ OwnerOf[c] = t
        /\ UNCHANGED <<celery, age, up, cut, marker, missed, check, revoked, recent>>
    BY DEF Save, TypeOK, TaskOK
  <1>1. /\ task' \in [Tasks -> TaskRow] /\ task'[t].cur = None
        /\ task'[t].state \in {"running", "ending"} /\ task'[t].host = task[t].host
        /\ \A x \in Tasks : x # t => task'[x] = task[x]
        /\ row' = row \/ row' = [row EXCEPT ![c] = "done"]
        /\ row' = row => task'[t].state = "ending"
        /\ faults' \in 0..MaxFaults
    <2>1. CASE CloseAs(c, "done") /\ UNCHANGED faults /\ task' = [task EXCEPT ![t].cur = None]
      <3>1. row' = [row EXCEPT ![c] = "done"] /\ faults' \in 0..MaxFaults
        BY <2>1 DEF CloseAs, TypeOK
      <3>2. row'[c] = "done" /\ row[c] = "open"
        BY <1>0, <3>1 DEF TypeOK, TaskOK
      <3>3. /\ task' \in [Tasks -> TaskRow] /\ task'[t].cur = None
            /\ task'[t].state = "running" /\ task'[t].host = task[t].host
            /\ \A x \in Tasks : x # t => task'[x] = task[x]
        BY <1>0, <2>1 DEF TypeOK, TaskRow, Live
      <3> QED
        BY <3>1, <3>2, <3>3
    <2>2. CASE /\ UNCHANGED row /\ faults < MaxFaults /\ faults' = faults + 1
               /\ task' = [task EXCEPT ![t].cur = None, ![t].state = "ending"]
      BY <1>0, <2>2 DEF TypeOK, TaskRow, Live
    <2> QED
      BY <2>1, <2>2 DEF Save
  <1> HIDE DEF c
  <1>2. TypeOK'
    BY <1>0, <1>1 DEF TypeOK, Live, TaskRow
  <1>3. CheckOK'
    BY <1>0 DEF CheckOK
  <1>4. \A x \in Tasks : TaskOK(x)'
    BY <1>0, <1>1 DEF TaskOK, TypeOK, Live, NoTask
  <1>5. \A x \in Executions : ExecutionOK(x)'
    BY <1>0, <1>1, SMTT(90) DEF ExecutionOK, TypeOK, Live, InPass
  <1>6. \A x \in Executions : RunningOK(x)'
    <2> SUFFICES ASSUME NEW x \in Executions, Live(OwnerOf[x])' PROVE RunningOK(x)'
      BY DEF RunningOK
    <2>1. Live(OwnerOf[x]) /\ Host(x)' = Host(x)
      BY <1>0, <1>1 DEF Live, Host
    <2>2. row'[x] = "open" => row[x] = "open"
      BY <1>0, <1>1 DEF TypeOK
    <2>3. row'[x] = "open" => task'[OwnerOf[x]].cur = x
      <3>1. CASE OwnerOf[x] # t
        BY <1>1, <2>1, <2>2, <3>1 DEF RunningOK
      <3>2. CASE OwnerOf[x] = t
        <4>1. row' = [row EXCEPT ![c] = "done"]
          BY <1>1, <3>2 DEF Live
        <4>2. row[x] = "open" => x = c
          BY <2>1, <3>2 DEF RunningOK, c
        <4> QED
          BY <2>2, <4>1, <4>2 DEF TypeOK
      <3> QED
        BY <3>1, <3>2
    <2> QED
      BY <1>0, <2>1, <2>3 DEF RunningOK, LeftOut, IsActive, WorkerReplied
  <1> QED
    BY <1>2, <1>3, <1>4, <1>5, <1>6

LEMMA EndKeeps ==
  ASSUME WatchInv, NEW t \in Tasks, End(t)
  PROVE  WatchInv'
  <1> USE Constants DEF WatchInv, End
  <1>1. TypeOK'
    BY DEF TypeOK, Live
  <1>2. CheckOK'
    BY DEF CheckOK
  <1>3. \A x \in Tasks : TaskOK(x)'
    BY DEF TaskOK, TypeOK, Live, NoTask
  <1>4. \A x \in Executions : ExecutionOK(x)'
    BY DEF ExecutionOK, TypeOK, Live, InPass
  <1>5. \A x \in Executions : RunningOK(x)'
    BY DEF RunningOK, TypeOK, Live, LeftOut, IsActive, WorkerReplied, Host
  <1> QED
    BY <1>1, <1>2, <1>3, <1>4, <1>5

LEMMA PostRunKeeps ==
  ASSUME WatchInv, NEW t \in Tasks, PostRun(t)
  PROVE  WatchInv'
  <1> USE Constants DEF WatchInv, PostRun
  <1>1. TypeOK'
    <2>1. celery' \in [Tasks -> {"PENDING", "RUNNING"} \cup Terminal]
      BY DEF TypeOK, Terminal
    <2>2. /\ task' \in [Tasks -> TaskRow] /\ task'[t].state = "over"
          /\ \A x \in Tasks : x # t => task'[x] = task[x]
      BY DEF TypeOK, TaskRow
    <2> QED
      BY <2>1, <2>2 DEF TypeOK, TaskRow, Live
  <1>2. CheckOK'
    BY DEF CheckOK
  <1>3. \A x \in Tasks : TaskOK(x)'
    BY DEF TaskOK, TypeOK, Live, NoTask, Terminal
  <1>4. \A x \in Executions : ExecutionOK(x)'
    BY DEF ExecutionOK, TypeOK, Terminal, InPass
  <1>5. \A x \in Executions : RunningOK(x)'
    BY DEF RunningOK, TypeOK, Live, LeftOut, IsActive, WorkerReplied, Host
  <1> QED
    BY <1>1, <1>2, <1>3, <1>4, <1>5

-----------------------------------------------------------------------------
(* What goes wrong.                                                        *)

LEMMA KillKeeps ==
  ASSUME WatchInv, NEW w \in Workers, Kill(w)
  PROVE  WatchInv'
  <1> USE Constants DEF WatchInv
  <1>0. /\ UNCHANGED <<celery, row, age, cut, marker, missed, check, revoked, recent>>
        /\ up' = up \ {w} /\ faults' = faults + 1 /\ faults < MaxFaults
    BY DEF Kill
  <1>1. /\ task' \in [Tasks -> TaskRow]
        /\ \A x \in Tasks : IF task[x].host = w THEN task'[x].state = "over" /\ task'[x].cur = None
                                                ELSE task'[x] = task[x]
    <2>1. \A x \in Tasks : task[x] \in TaskRow
      BY DEF TypeOK, TaskRow
    <2>2. \A r \in TaskRow : LET q == [r EXCEPT !.state = "over", !.cur = None]
                             IN q \in TaskRow /\ q.state = "over" /\ q.cur = None
      BY DEF TaskRow
    <2> QED
      BY <2>1, <2>2 DEF Kill, TasksDie
  <1>2. TypeOK'
    BY <1>0, <1>1 DEF TypeOK, Live, TaskRow
  <1>3. CheckOK'
    BY <1>0 DEF CheckOK
  <1>4. \A x \in Tasks : task[x].state = "new" => task[x].host = None
    BY DEF TaskOK, NoTask
  <1>5. \A x \in Tasks : TaskOK(x)'
    BY <1>0, <1>1 DEF TaskOK, Live
  <1>6. \A x \in Executions : ExecutionOK(x)'
    BY <1>0, <1>1 DEF ExecutionOK, InPass
  <1>7. \A x \in Executions : RunningOK(x)'
    BY <1>0, <1>1 DEF RunningOK, Live, LeftOut, IsActive, WorkerReplied, Host
  <1> QED
    BY <1>2, <1>3, <1>5, <1>6, <1>7

LEMMA NetworkKeeps ==
  ASSUME WatchInv, NEW w \in Workers, Restart(w) \/ Cut(w) \/ Heal(w)
  PROVE  WatchInv'
  <1> USE DEF WatchInv
  <1>1. /\ UNCHANGED <<task, celery, row, age, marker, missed, check, revoked, recent>>
        /\ up \subseteq up' /\ up' \subseteq Workers /\ cut' \subseteq Workers /\ faults' \in 0..MaxFaults
    BY Constants DEF Restart, Cut, Heal, TypeOK
  <1>2. TypeOK'
    BY <1>1 DEF TypeOK, Live
  <1>3. CheckOK' /\ \A x \in Tasks : TaskOK(x)'
    BY <1>1 DEF CheckOK, TaskOK, Live
  <1>4. \A x \in Executions : ExecutionOK(x)' /\ RunningOK(x)'
    BY <1>1 DEF ExecutionOK, InPass, RunningOK, Live, LeftOut, IsActive, WorkerReplied, Host
  <1> QED
    BY <1>2, <1>3, <1>4

LEMMA RevokeKeeps ==
  ASSUME WatchInv, NEW t \in Tasks, Revoke(t)
  PROVE  WatchInv'
  <1> USE Constants DEF WatchInv
  <1>1. /\ task' \in [Tasks -> TaskRow]
        /\ task'[t].state = "over" /\ task'[t].cur = None
        /\ \A x \in Tasks : x # t => task'[x] = task[x]
    BY TaskSet DEF Revoke
  <1>2. /\ celery' \in [Tasks -> {"PENDING", "RUNNING"} \cup Terminal]
        /\ \A x \in Tasks : celery'[x] = IF x = t THEN "REVOKED" ELSE celery[x]
        /\ revoked' = revoked \cup {e \in Executions : OwnerOf[e] = t /\ row[e] = "open"}
        /\ faults' \in 0..MaxFaults
        /\ UNCHANGED <<row, age, up, cut, marker, missed, check, recent>>
    BY DEF Revoke, TypeOK, Terminal
  <1>3. TypeOK'
    BY <1>1, <1>2 DEF TypeOK, Live, TaskRow
  <1>4. CheckOK' /\ \A x \in Tasks : TaskOK(x)'
    BY <1>1, <1>2 DEF CheckOK, TaskOK, Live
  <1>5. \A x \in Executions : ExecutionOK(x)' /\ RunningOK(x)'
    BY <1>1, <1>2 DEF ExecutionOK, InPass, RunningOK, Live, LeftOut, IsActive, WorkerReplied, Host, Terminal
  <1> QED
    BY <1>3, <1>4, <1>5

LEMMA CloseRevokedKeeps ==
  ASSUME WatchInv, NEW e \in Executions, CloseRevoked(e)
  PROVE  WatchInv'
  <1> USE Constants DEF WatchInv
  <1>1. /\ row' = row \/ row' = [row EXCEPT ![e] = "canceled"]
        /\ revoked' \subseteq revoked /\ faults' \in 0..MaxFaults
        /\ UNCHANGED <<task, celery, age, up, cut, marker, missed, check, recent>>
    BY DEF CloseRevoked, Finalize, CloseAs, TypeOK
  <1>2. row[e] # "none" /\ task[OwnerOf[e]].state = "over"
    BY DEF CloseRevoked, ExecutionOK
  <1>3. /\ row' \in [Executions -> {"none", "open", "done", "canceled", "error"}]
        /\ \A x \in Executions : row'[x] = row[x] \/ (x = e /\ row'[x] = "canceled")
    <2>1. CASE row' = row
      BY <2>1 DEF TypeOK
    <2>2. CASE row' = [row EXCEPT ![e] = "canceled"]
      BY <2>2 DEF TypeOK
    <2> QED
      BY <1>1, <2>1, <2>2
  <1>9. \A t \in Tasks : task[t].cur # e /\ task[t].cur \in Executions \cup {None}
    BY <1>2 DEF TaskOK, Live, TypeOK
  <1>4. TypeOK'
    BY <1>1, <1>3 DEF TypeOK, Live
  <1>5. CheckOK'
    BY <1>1 DEF CheckOK
  <1>6. \A x \in Tasks : TaskOK(x)'
    BY <1>1, <1>3, <1>9 DEF TaskOK, Live
  <1>7. \A x \in Executions : ExecutionOK(x)'
    BY <1>1, <1>2, <1>3 DEF ExecutionOK, InPass
  <1>8. \A x \in Executions : RunningOK(x)'
    BY <1>1, <1>2, <1>3 DEF RunningOK, Live, LeftOut, IsActive, WorkerReplied, Host
  <1> QED
    BY <1>4, <1>5, <1>6, <1>7, <1>8

-----------------------------------------------------------------------------
(* The check.                                                              *)

LEMMA BeginCheckKeeps ==
  ASSUME WatchInv, BeginCheck
  PROVE  WatchInv'
  <1> USE Constants DEF WatchInv
  <1> DEFINE open == {e \in Executions : row[e] = "open"}
             over == {e \in open : celery[OwnerOf[e]] \in Terminal}
             how == [e \in over |-> IF celery[OwnerOf[e]] = "REVOKED" THEN "canceled" ELSE "error"]
  <1>1. /\ check' = [state |-> "ended", over |-> over, rest |-> open \ over, how |-> how]
        /\ recent' = TRUE
        /\ UNCHANGED <<task, celery, row, age, up, cut, marker, missed, revoked, faults>>
    BY DEF BeginCheck
  <1>2. /\ over \in SUBSET Executions /\ open \ over \in SUBSET Executions
        /\ how \in [over -> {"canceled", "error"}]
    OBVIOUS
  <1>3. check' \in Ended /\ check'.over \subseteq DOMAIN check'.how
    BY <1>1, <1>2 DEF Ended
  <1>4. /\ check'.state = "ended" /\ check'.over = over /\ check'.rest = open \ over
        /\ \A e \in open \cup over : row[e] = "open"
        /\ \A e \in over : celery[OwnerOf[e]] \in Terminal
    BY <1>1
  <1> HIDE DEF open, over, how
  <1>5. TypeOK'
    BY <1>1, <1>4 DEF TypeOK, Live
  <1>6. CheckOK'
    BY <1>3 DEF CheckOK
  <1>7. \A x \in Tasks : TaskOK(x)'
    BY <1>1 DEF TaskOK, Live
  <1>8. \A x \in Executions : ExecutionOK(x)'
    BY <1>1, <1>4 DEF ExecutionOK, InPass
  <1>9. \A x \in Executions : RunningOK(x)'
    BY <1>1, <1>4 DEF RunningOK, Live, LeftOut
  <1> QED
    BY <1>5, <1>6, <1>7, <1>8, <1>9

LEMMA CloseEndedKeeps ==
  ASSUME WatchInv, NEW e \in Executions, CloseEnded(e)
  PROVE  WatchInv'
  <1> USE Constants DEF WatchInv
  <1>1. /\ check \in Ended /\ check.state = "ended" /\ e \in check.over /\ e \in DOMAIN check.how
        /\ check.how[e] \in {"canceled", "error"}
    <2>1. check \in Ended /\ check.state = "ended" /\ e \in check.over
      BY CheckStates DEF CloseEnded
    <2>2. e \in DOMAIN check.how
      BY <2>1 DEF CheckOK
    <2>3. PICK S \in SUBSET Executions : check.how \in [S -> {"canceled", "error"}]
      BY <2>1 DEF Ended
    <2> QED
      BY <2>1, <2>2, <2>3
  <1>2. /\ check' \in Ended /\ check'.state = "ended" /\ check'.over = check.over \ {e}
        /\ check'.rest = check.rest /\ check'.how = check.how
    <2>1. check' = [check EXCEPT !.over = check.over \ {e}]
      BY DEF CloseEnded
    <2> QED
      BY <1>1, <2>1 DEF Ended
  <1>3. /\ row' \in [Executions -> {"none", "open", "done", "canceled", "error"}]
        /\ \A x \in Executions : row'[x] = row[x] \/ (x = e /\ row'[x] \in {"canceled", "error"})
    <2>1. CASE row' = row
      BY <2>1 DEF TypeOK
    <2>2. CASE row' = [row EXCEPT ![e] = check.how[e]]
      BY <1>1, <2>2 DEF TypeOK
    <2> QED
      BY <2>1, <2>2 DEF CloseEnded, Finalize, CloseAs
  <1>4. /\ marker' \in [Executions -> -1..MarkerTTL]
        /\ \A x \in Executions : marker'[x] = IF x = e THEN -1 ELSE marker[x]
    BY DEF CloseEnded, TypeOK
  <1>5. UNCHANGED <<task, celery, age, up, cut, missed, revoked, faults, recent>>
    BY DEF CloseEnded
  <1>6. row[e] # "none" /\ celery[OwnerOf[e]] \in Terminal
    BY <1>1 DEF ExecutionOK, InPass
  <1>7. /\ ~Live(OwnerOf[e])
        /\ \A t \in Tasks : task[t].cur # e /\ task[t].cur \in Executions \cup {None}
    BY <1>6 DEF TaskOK, Live, TypeOK
  <1>8. TypeOK'
    BY <1>2, <1>3, <1>4, <1>5 DEF TypeOK, Live
  <1>9. CheckOK'
    BY <1>1, <1>2 DEF CheckOK
  <1>10. \A x \in Tasks : TaskOK(x)'
    BY <1>3, <1>5, <1>7 DEF TaskOK, Live
  <1>11. \A x \in Executions : ExecutionOK(x)'
    BY <1>1, <1>2, <1>3, <1>4, <1>5, <1>6 DEF ExecutionOK, InPass
  <1>12. \A x \in Executions : RunningOK(x)'
    BY <1>2, <1>3, <1>4, <1>5, <1>7 DEF RunningOK, Live, LeftOut
  <1> QED
    BY <1>8, <1>9, <1>10, <1>11, <1>12

LEMMA InspectKeeps ==
  ASSUME WatchInv, Inspect
  PROVE  WatchInv'
  <1> USE Constants DEF WatchInv
  <1>0. /\ check \in Ended /\ check.state = "ended" /\ check.over = {} /\ check.rest \in SUBSET Executions
        /\ UNCHANGED <<task, celery, row, age, up, cut, marker, revoked, recent>>
    BY CheckStates DEF Inspect, Ended
  <1>1. \A x \in Tasks : TaskOK(x)'
    BY <1>0 DEF TaskOK, Live
  <1>2. CASE check' = NoCheck /\ UNCHANGED <<missed, faults>>
    <2>1. check'.state = "idle"
      BY <1>2 DEF NoCheck
    <2>2. TypeOK' /\ CheckOK'
      BY <1>0, <1>2, <2>1 DEF TypeOK, CheckOK, Live
    <2>3. \A x \in Executions : ExecutionOK(x)' /\ RunningOK(x)'
      BY <1>0, <1>2, <2>1 DEF ExecutionOK, InPass, RunningOK, Live, LeftOut
    <2> QED
      BY <1>1, <2>2, <2>3
  <1>3. ASSUME NEW out \in SUBSET {t \in Tasks : Live(t) /\ task[t].host \in Replies /\ \A e \in missed : OwnerOf[e] # t},
               faults + Cardinality(out) <= MaxFaults, faults' = faults + Cardinality(out),
               missed' = missed \cup {e \in check.rest : OwnerOf[e] \in out},
               check' = [state |-> "missing", rest |-> check.rest,
                         active |-> {t \in Tasks : Live(t) /\ task[t].host \in Replies} \ out, replied |-> Replies]
        PROVE  WatchInv'
    <2> DEFINE run == {t \in Tasks : Live(t) /\ task[t].host \in Replies}
    <2>1. faults' \in 0..MaxFaults
      <3>1. out \subseteq Tasks /\ IsFiniteSet(Tasks)
        BY DEF WatchAssumption
      <3>2. Cardinality(out) \in Nat
        BY <3>1, FS_Subset, FS_CardinalityType
      <3> QED
        BY <1>3, <3>2 DEF TypeOK
    <2>2. /\ check' \in Missing /\ check'.state = "missing" /\ check'.rest = check.rest
          /\ check'.active = run \ out /\ check'.replied = Replies
      <3>1. Replies \in SUBSET Workers /\ run \ out \in SUBSET Tasks
        BY DEF Replies, TypeOK
      <3> QED
        BY <1>0, <1>3, <3>1 DEF Missing
    <2>3. TypeOK' /\ CheckOK'
      BY <1>0, <1>3, <2>1, <2>2 DEF TypeOK, CheckOK, Live
    <2>4. \A x \in Executions : ExecutionOK(x)'
      BY <1>0, <2>2 DEF ExecutionOK, InPass
    <2>5. \A x \in Executions : RunningOK(x)'
      <3> SUFFICES ASSUME NEW x \in Executions, Live(OwnerOf[x])' PROVE RunningOK(x)'
        BY DEF RunningOK
      <3>1. Live(OwnerOf[x]) /\ OwnerOf[x] \in Tasks
        BY <1>0 DEF Live
      <3>2. ASSUME LeftOut(x)' PROVE x \in check.rest /\ OwnerOf[x] \in out
        <4>1. x \in check.rest /\ OwnerOf[x] \notin run \ out /\ task[OwnerOf[x]].host \in Replies
          BY <1>0, <2>2, <3>2 DEF LeftOut, IsActive, WorkerReplied, Host
        <4> QED
          BY <3>1, <4>1
      <3>3. LeftOut(x)' => marker[x] = -1 /\ x \in missed'
        <4> SUFFICES ASSUME LeftOut(x)' PROVE marker[x] = -1 /\ x \in missed'
          OBVIOUS
        <4>1. x \in check.rest /\ OwnerOf[x] \in out /\ x \notin missed
          BY <3>2
        <4> QED
          BY <1>3, <3>1, <4>1 DEF RunningOK
      <3> QED
        BY <1>0, <1>3, <3>1, <3>3 DEF RunningOK
    <2> QED
      BY <1>1, <2>3, <2>4, <2>5
  <1> QED
    BY <1>2, <1>3 DEF Inspect

(* What a reply lets a pass conclude: a task that runs is not taken for    *)
(* gone, unless the reply left it out; then its execution has no marker.   *)
LEMMA RunningIsNotConfirmed ==
  ASSUME WatchInv, NEW e \in Executions, check.state = "missing", e \in check.rest,
         Live(OwnerOf[e])
  PROVE  /\ ~Present(e) => LeftOut(e)
         /\ Present(e) \/ ~Confirmed(e)
  <1>1. age[e] < Deadline /\ (LeftOut(e) => marker[e] = -1)
    BY DEF WatchInv, RunningOK
  <1>2. ~Present(e) => LeftOut(e)
    BY <1>1 DEF Present, LeftOut
  <1>3. marker[e] = -1 => ~Confirmed(e)
    BY Constants DEF WatchInv, Confirmed
  <1> QED
    BY <1>1, <1>2, <1>3

LEMMA LookKeeps ==
  ASSUME WatchInv, NEW e \in Executions, Look(e)
  PROVE  WatchInv'
  <1> USE Constants DEF WatchInv
  <1>1. /\ check \in Missing /\ check.state = "missing" /\ e \in check.rest
        /\ UNCHANGED <<task, age, up, cut, revoked, faults, recent>>
    BY CheckStates DEF Look
  <1>2. /\ check' \in Missing /\ check'.state = "missing" /\ check'.rest = check.rest \ {e}
        /\ check'.active = check.active /\ check'.replied = check.replied
    <2>1. check' = [check EXCEPT !.rest = check.rest \ {e}]
      BY DEF Look
    <2> QED
      BY <1>1, <2>1 DEF Missing
  <1>3. row[e] # "none" /\ OwnerOf[e] \in Tasks /\ task[OwnerOf[e]].state # "new"
    BY <1>1 DEF ExecutionOK, InPass
  <1>4. /\ marker' \in [Executions -> -1..MarkerTTL]
        /\ \A x \in Executions : x # e => marker'[x] = marker[x]
        /\ marker'[e] \in {-1, marker[e]} \/ (marker'[e] = 0 /\ ~TooYoung(e) /\ ~Present(e))
        /\ IsActive(e) => marker'[e] = -1
    <2>0. marker[e] # -1 => ~TooYoung(e)
      BY DEF ExecutionOK, TooYoung, TypeOK
    <2>1. CASE TooYoung(e) /\ UNCHANGED marker
      BY <2>0, <2>1 DEF TypeOK
    <2>2. CASE ~TooYoung(e) /\ marker' = [marker EXCEPT ![e] = -1]
      BY <2>2 DEF TypeOK
    <2>3. CASE ~TooYoung(e) /\ ~Present(e) /\ marker' = [marker EXCEPT ![e] = IF @ = -1 THEN 0 ELSE @]
      <3>1. ~IsActive(e)
        BY <2>3 DEF Present
      <3> QED
        BY <2>3, <3>1 DEF TypeOK
    <2> QED
      BY <2>1, <2>2, <2>3 DEF Look, Clear
  <1>5. \/ UNCHANGED <<row, celery>>
        \/ /\ ~Present(e) /\ Confirmed(e)
           /\ row' = [row EXCEPT ![e] = "canceled"]
           /\ celery' \in {celery, [celery EXCEPT ![OwnerOf[e]] = "REVOKED"]}
    BY DEF Look, Finalize, CloseAs
  <1>6. missed' = IF IsActive(e) THEN missed \ {e} ELSE missed
    BY DEF Look
  <1>7. /\ row' \in [Executions -> {"none", "open", "done", "canceled", "error"}]
        /\ \A x \in Executions : row'[x] = row[x] \/ (x = e /\ row'[x] = "canceled" /\ ~Live(OwnerOf[e]))
    <2>1. CASE UNCHANGED row
      BY <2>1 DEF TypeOK
    <2>2. CASE ~Present(e) /\ Confirmed(e) /\ row' = [row EXCEPT ![e] = "canceled"]
      <3>1. ~Live(OwnerOf[e])
        BY <1>1, <2>2, RunningIsNotConfirmed
      <3> QED
        BY <2>2, <3>1 DEF TypeOK
    <2> QED
      BY <1>5, <2>1, <2>2
  <1>8. /\ celery' \in [Tasks -> {"PENDING", "RUNNING"} \cup Terminal]
        /\ \A t \in Tasks : celery'[t] = celery[t] \/ (t = OwnerOf[e] /\ celery'[t] = "REVOKED" /\ ~Live(t))
    <2>1. CASE UNCHANGED celery
      BY <2>1 DEF TypeOK
    <2>2. CASE ~Present(e) /\ Confirmed(e) /\ celery' = [celery EXCEPT ![OwnerOf[e]] = "REVOKED"]
      <3>1. ~Live(OwnerOf[e])
        BY <1>1, <2>2, RunningIsNotConfirmed
      <3> QED
        BY <1>3, <2>2, <3>1 DEF TypeOK, Terminal
    <2> QED
      BY <1>5, <2>1, <2>2
  <1>9. TypeOK'
    BY <1>1, <1>2, <1>4, <1>6, <1>7, <1>8 DEF TypeOK, Live
  <1>10. CheckOK'
    BY <1>2 DEF CheckOK
  <1>11. \A x \in Tasks : TaskOK(x)'
    <2> SUFFICES ASSUME NEW x \in Tasks PROVE TaskOK(x)'
      OBVIOUS
    <2>1. task[x].state \in {"new", "running", "ending", "over"} /\ task[x].cur \in Executions \cup {None}
      BY DEF TypeOK
    <2>2. celery'[x] \in Terminal => task[x].state \in {"ending", "over"}
      BY <1>3, <1>8, <2>1 DEF TaskOK, Live
    <2>3. task[x].cur # None => row'[task[x].cur] = "open"
      BY <1>7, <2>1 DEF TaskOK
    <2> QED
      BY <1>1, <2>2, <2>3 DEF TaskOK, Live
  <1>12. \A x \in Executions : ExecutionOK(x)'
    <2> SUFFICES ASSUME NEW x \in Executions PROVE ExecutionOK(x)'
      OBVIOUS
    <2>1. CASE x # e
      BY <1>1, <1>2, <1>4, <1>7, <2>1 DEF ExecutionOK, InPass
    <2>2. CASE x = e
      <3>1. marker'[e] # -1 => age[e] >= Grace
        BY <1>4 DEF ExecutionOK, TooYoung, TypeOK
      <3>2. marker'[e] < MarkerTTL
        BY <1>4 DEF ExecutionOK
      <3>3. row'[e] # "none"
        BY <1>3, <1>7
      <3> QED
        BY <1>1, <1>2, <1>3, <2>2, <3>1, <3>2, <3>3 DEF ExecutionOK
    <2> QED
      BY <2>1, <2>2
  <1>13. \A x \in Executions : RunningOK(x)'
    <2> SUFFICES ASSUME NEW x \in Executions, Live(OwnerOf[x])' PROVE RunningOK(x)'
      BY DEF RunningOK
    <2>1. Live(OwnerOf[x]) /\ row'[x] = "open" => row[x] = "open"
      BY <1>1, <1>7 DEF Live
    <2>2. Live(OwnerOf[x])
      BY <1>1 DEF Live
    <2>3. x \notin missed' => marker'[x] = -1
      <3>1. CASE x # e
        BY <1>4, <1>6, <2>2, <3>1 DEF RunningOK
      <3>2. CASE x = e
        <4>1. ~Present(e) => e \in missed /\ ~IsActive(e)
          BY <1>1, <2>2, <3>2, RunningIsNotConfirmed DEF RunningOK, LeftOut
        <4>2. marker[e] # -1 => e \in missed
          BY <2>2, <3>2 DEF RunningOK
        <4> QED
          BY <1>4, <1>6, <3>2, <4>1, <4>2
      <3> QED
        BY <3>1, <3>2
    <2>4. LeftOut(x)' => marker'[x] = -1 /\ x \in missed'
      <3>1. LeftOut(x)' => LeftOut(x) /\ x # e
        BY <1>1, <1>2 DEF LeftOut, IsActive, WorkerReplied, Host
      <3> QED
        BY <1>4, <1>6, <2>2, <3>1 DEF RunningOK
    <2> QED
      BY <1>1, <1>7, <2>2, <2>3, <2>4 DEF RunningOK
  <1> QED
    BY <1>9, <1>10, <1>11, <1>12, <1>13

LEMMA EndsKeep ==
  ASSUME WatchInv, EndCheck \/ CheckFails
  PROVE  WatchInv'
  <1> USE Constants DEF WatchInv
  <1>1. /\ check' = NoCheck /\ check'.state = "idle" /\ faults' \in 0..MaxFaults
        /\ UNCHANGED <<task, celery, row, age, up, cut, marker, missed, revoked, recent>>
    BY DEF EndCheck, CheckFails, NoCheck, TypeOK
  <1>2. TypeOK' /\ CheckOK' /\ \A x \in Tasks : TaskOK(x)'
    BY <1>1 DEF TypeOK, CheckOK, TaskOK, Live
  <1>3. \A x \in Executions : ExecutionOK(x)' /\ RunningOK(x)'
    BY <1>1 DEF ExecutionOK, InPass, RunningOK, Live, LeftOut
  <1> QED
    BY <1>2, <1>3

-----------------------------------------------------------------------------
(* Time.                                                                   *)

LEMMA TickKeeps ==
  ASSUME WatchInv, Tick
  PROVE  WatchInv'
  <1> USE Constants DEF WatchInv
  <1>1. /\ check = NoCheck /\ check.state = "idle" /\ recent' = FALSE
        /\ UNCHANGED <<task, celery, row, up, cut, missed, check, revoked, faults>>
    BY DEF Tick, NoCheck
  <1>2. /\ age' \in [Executions -> 0..Deadline]
        /\ \A x \in Executions : /\ age'[x] >= age[x] /\ age'[x] <= age[x] + 1
                                 /\ row[x] # "open" => age'[x] = age[x]
    BY DEF Tick, TypeOK
  <1>3. /\ marker' \in [Executions -> -1..MarkerTTL]
        /\ \A x \in Executions : /\ marker[x] = -1 => marker'[x] = -1
                                 /\ marker'[x] < MarkerTTL
    <2>1. \A x \in Executions : marker[x] \in -1..MarkerTTL /\ marker[x] < MarkerTTL
      BY DEF TypeOK, ExecutionOK
    <2> QED
      BY <2>1 DEF Tick
  <1>4. TypeOK' /\ CheckOK' /\ \A x \in Tasks : TaskOK(x)'
    BY <1>1, <1>2, <1>3 DEF TypeOK, CheckOK, TaskOK, Live
  <1>5. \A x \in Executions : age[x] \in 0..Deadline /\ age'[x] \in 0..Deadline /\ marker[x] \in -1..MarkerTTL
    BY <1>2 DEF TypeOK
  <1>6. \A x \in Executions : ExecutionOK(x)'
    BY <1>1, <1>2, <1>3, <1>5 DEF ExecutionOK, InPass
  <1>7. \A x \in Executions : RunningOK(x)'
    <2> SUFFICES ASSUME NEW x \in Executions, Live(OwnerOf[x])' PROVE RunningOK(x)'
      BY DEF RunningOK
    <2>1. Live(OwnerOf[x]) /\ OwnerOf[x] \in Tasks
      BY <1>1 DEF Live
    <2>2. age'[x] < Deadline
      <3>1. CASE row[x] = "open"
        <4>1. task[OwnerOf[x]].cur = x /\ x # None
          BY <2>1, <3>1 DEF RunningOK
        <4>2. age[x] < Deadline - 1
          BY <2>1, <4>1 DEF Tick
        <4> QED
          BY <1>2, <1>5, <4>2
      <3>2. CASE row[x] # "open"
        BY <1>2, <2>1, <3>2 DEF RunningOK
      <3> QED
        BY <3>1, <3>2
    <2> QED
      BY <1>1, <1>3, <2>1, <2>2 DEF RunningOK, LeftOut
  <1> QED
    BY <1>4, <1>6, <1>7

-----------------------------------------------------------------------------
(* The theorems.                                                           *)

LEMMA WatchNext ==
  ASSUME WatchInv, [Next]_vars
  PROVE  WatchInv'
  <1>1. CASE UNCHANGED vars
    <2>1. TypeOK' /\ CheckOK' /\ \A x \in Tasks : TaskOK(x)'
      BY <1>1 DEF WatchInv, vars, TypeOK, CheckOK, TaskOK, Live
    <2>2. \A x \in Executions : ExecutionOK(x)' /\ RunningOK(x)'
      BY <1>1 DEF WatchInv, vars, ExecutionOK, InPass, RunningOK, Live, LeftOut, IsActive, WorkerReplied, Host
    <2> QED
      BY <2>1, <2>2 DEF WatchInv
  <1>2. ASSUME NEW t \in Tasks, Work(t) \/ Revoke(t) \/ \E w \in Workers : Start(t, w) PROVE WatchInv'
    BY <1>2, SaveKeeps, EndKeeps, PostRunKeeps, CreateKeeps, RevokeKeeps, StartKeeps DEF Work
  <1>3. ASSUME NEW w \in Workers, Kill(w) \/ Restart(w) \/ Cut(w) \/ Heal(w) PROVE WatchInv'
    BY <1>3, KillKeeps, NetworkKeeps
  <1>4. ASSUME NEW e \in Executions, CloseRevoked(e) PROVE WatchInv'
    BY <1>4, CloseRevokedKeeps
  <1>5. CASE Watch
    BY <1>5, BeginCheckKeeps, InspectKeeps, EndsKeep, CloseEndedKeeps, LookKeeps DEF Watch
  <1>6. CASE CheckFails
    BY <1>6, EndsKeep
  <1>7. CASE Tick
    BY <1>7, TickKeeps
  <1> QED
    BY <1>1, <1>2, <1>3, <1>4, <1>5, <1>6, <1>7 DEF Next

THEOREM WatchIsSound ==
  ASSUME WatchAssumption
  PROVE  Spec => []WatchInv
  <1>1. Init => WatchInv
    BY WatchInit
  <1>2. WatchInv /\ [Next]_vars => WatchInv'
    BY WatchNext, SMTT(60)
  <1> QED
    BY <1>1, <1>2, PTL DEF Spec

\* Only four actions close an execution; each of them knows that nobody works on it.
LEMMA StepCloses ==
  ASSUME WatchInv, [Next]_vars
  PROVE  ClosesGone
  <1> SUFFICES ASSUME NEW e \in Executions, NEW t \in Tasks,
                      row[e] = "open", row'[e] \in {"canceled", "error"}, Live(t), task[t].cur = e
               PROVE  FALSE
    BY DEF ClosesGone
  <1>0. e # None /\ OwnerOf[e] = t /\ celery[t] \notin Terminal /\ row \in [Executions -> {"none", "open", "done", "canceled", "error"}]
    BY Constants DEF WatchInv, TaskOK, Live, TypeOK
  <1>1. ASSUME NEW x \in Executions, CloseRevoked(x) PROVE FALSE
    <2>1. task[OwnerOf[x]].state = "over"
      BY <1>1 DEF CloseRevoked, WatchInv, ExecutionOK
    <2>2. x # e
      BY <1>0, <2>1 DEF Live
    <2> QED
      BY <1>0, <1>1, <2>2 DEF CloseRevoked, Finalize, CloseAs
  <1>2. ASSUME NEW x \in Executions, CloseEnded(x) PROVE FALSE
    <2>1. celery[OwnerOf[x]] \in Terminal
      BY <1>2 DEF CloseEnded, WatchInv, ExecutionOK
    <2>2. x # e
      BY <1>0, <2>1
    <2> QED
      BY <1>0, <1>2, <2>2 DEF CloseEnded, Finalize, CloseAs
  <1>3. ASSUME NEW x \in Executions, Look(x) PROVE FALSE
    <2>1. row' = row \/ (row' = [row EXCEPT ![x] = "canceled"] /\ ~Present(x) /\ Confirmed(x))
      BY <1>3 DEF Look, Finalize, CloseAs
    <2>2. x = e /\ ~Present(x) /\ Confirmed(x)
      BY <1>0, <2>1
    <2> QED
      BY <1>0, <1>3, <2>2, RunningIsNotConfirmed DEF Look
  <1>4. ASSUME NEW x \in Tasks, Save(x) PROVE FALSE
    BY <1>0, <1>4 DEF Save, CloseAs
  <1>5. ASSUME NEW x \in Tasks, NEW y \in Executions, Create(x, y) PROVE FALSE
    BY <1>0, <1>5 DEF Create, CloseAs
  <1>6. UNCHANGED row => FALSE
    OBVIOUS
  <1> QED
    BY <1>1, <1>2, <1>3, <1>4, <1>5, <1>6
    DEF Next, Work, Watch, Revoke, Start, Kill, Restart, Cut, Heal, CheckFails, Tick, BeginCheck, Inspect,
        EndCheck, End, PostRun, vars

(* The check never closes an execution whose task still works on it        *)
(* (finalize_interrupted_execution, on_celery_task_revoked).               *)
THEOREM OnlyGoneCloses ==
  ASSUME WatchAssumption
  PROVE  Spec => [][ClosesGone]_vars
  <1>1. Init => WatchInv
    BY WatchInit
  <1>2. WatchInv /\ [Next]_vars => WatchInv' /\ [ClosesGone]_vars
    BY WatchNext, StepCloses, SMTT(60)
  <1> QED
    BY <1>1, <1>2, PTL DEF Spec

\* Whoever closes an execution looks at its row again under its lock.
LEMMA StepKeeps ==
  ASSUME WatchInv, [Next]_vars
  PROVE  KeepsResults
  <1> SUFFICES ASSUME NEW e \in Executions, row[e] \in {"done", "canceled", "error"}
               PROVE  row'[e] = row[e]
    BY DEF KeepsResults
  <1>0. row \in [Executions -> {"none", "open", "done", "canceled", "error"}]
    BY DEF WatchInv, TypeOK
  <1>1. ASSUME NEW x \in Executions, NEW s, Finalize(x, s) PROVE row'[e] = row[e]
    BY <1>0, <1>1 DEF Finalize, StillOpen, CloseAs
  <1>2. ASSUME NEW x \in Executions, CloseRevoked(x) \/ CloseEnded(x) \/ Look(x) PROVE row'[e] = row[e]
    BY <1>1, <1>2 DEF CloseRevoked, CloseEnded, Look
  <1>3. ASSUME NEW x \in Tasks, Save(x) PROVE row'[e] = row[e]
    <2>1. task[x].cur \in Executions /\ row[task[x].cur] = "open"
      BY <1>3 DEF Save, WatchInv, TaskOK, TypeOK
    <2> QED
      BY <1>0, <1>3, <2>1 DEF Save, CloseAs
  <1>4. ASSUME NEW x \in Tasks, NEW y \in Executions, Create(x, y) PROVE row'[e] = row[e]
    BY <1>0, <1>4 DEF Create, CloseAs
  <1>5. UNCHANGED row => row'[e] = row[e]
    OBVIOUS
  <1> QED
    BY <1>2, <1>3, <1>4, <1>5
    DEF Next, Work, Watch, Revoke, Start, Kill, Restart, Cut, Heal, CheckFails, Tick, BeginCheck, Inspect,
        EndCheck, End, PostRun, vars

(* What an execution wrote as its result stays, whatever a pass read at    *)
(* its start (finalize_interrupted_execution locks the row and reads it).  *)
THEOREM ResultsStay ==
  ASSUME WatchAssumption
  PROVE  Spec => [][KeepsResults]_vars
  <1>1. Init => WatchInv
    BY WatchInit
  <1>2. WatchInv /\ [Next]_vars => WatchInv' /\ [KeepsResults]_vars
    BY WatchNext, StepKeeps
  <1> QED
    BY <1>1, <1>2, PTL DEF Spec

\* AccountAutomationExecution and its Celery task: types hold; a worker works on an execution
\* of its task, and a pass has executions in its hands.
THEOREM WatchTypes ==
    ASSUME WatchAssumption
    PROVE  Spec => []TypeOK
<1>1. Init => WatchInv
  BY WatchInit
<1>2. WatchInv /\ [Next]_vars => WatchInv'
  BY WatchNext, SMTT(60)
<1>3. WatchInv => TypeOK
  BY DEF WatchInv
<1> QED
  BY <1>1, <1>2, <1>3, PTL DEF Spec

-----------------------------------------------------------------------------
(* BulkLog: records are saved once, and one thread loses none.             *)

CONSTANTS Threads, Nobody, BatchSize, MaxCalls, MaxItems
VARIABLES cache, lock, batch, saved, made, pc, after, todo, calls
Bulk == INSTANCE BulkLog

-----------------------------------------------------------------------------
(* The records the calls may still make, one by one.                       *)

Owed == UNION {{<<t, i>> : i \in 1..todo[t]} : t \in Threads}

\* A call makes MaxItems records at most.
Budget ==
    /\ IsFiniteSet(Owed)
    /\ made + Cardinality(Owed) <= calls * MaxItems

\* What was saved and is still in the list is the batch of the thread that saved it and
\* has not yet emptied the list.
SavedInv ==
    /\ \A r \in Bulk!Records : saved[r] <= 1 /\ (saved[r] > 0 => r <= made)
    /\ \A i \in 1..Len(cache) : cache[i] <= made
    /\ \A i \in 1..Len(cache) :
         saved[cache[i]] > 0 => /\ lock \in Threads /\ pc[lock] = "clear"
                                /\ \E j \in 1..Len(batch) : batch[j] = cache[i]

BulkInv == Bulk!TypeOK /\ Budget /\ SavedInv

\* A pair for each of the next n records of a thread.
LEMMA OwedCount ==
    ASSUME NEW t, NEW n \in Nat
    PROVE  LET S == {<<t, i>> : i \in 1..n}
           IN  IsFiniteSet(S) /\ Cardinality(S) = n
<1> DEFINE S == {<<t, i>> : i \in 1..n}
<1> DEFINE f == [i \in 1..n |-> <<t, i>>]
<1>1. f \in Bijection(1..n, S)
  BY DEF Bijection, Injection, Surjection, IsInjective
<1>2. ExistsBijection(1..n, S)
  BY <1>1 DEF ExistsBijection
<1> QED
  BY <1>2, FS_Interval, FS_Bijection, FS_CountingElements

LEMMA CallsAreFew ==
    ASSUME Bulk!BulkAssumption, NEW n \in Nat
    PROVE  (n + 1) * MaxItems = n * MaxItems + MaxItems /\ n * MaxItems \in Nat
BY DEF Bulk!BulkAssumption

LEMMA CallsBound ==
    ASSUME Bulk!BulkAssumption, NEW n \in 0..MaxCalls
    PROVE  n * MaxItems <= MaxCalls * MaxItems
BY DEF Bulk!BulkAssumption

LEMMA BudgetKeeps ==
    ASSUME Bulk!BulkAssumption, BulkInv, NEW t \in Threads,
           \/ UNCHANGED <<todo, made, calls>>
           \/ Bulk!Call(t) \/ Bulk!Add(t) \/ Bulk!SaveFails(t)
    PROVE  Budget' /\ todo' \in [Threads -> 0..MaxItems]
<1> DEFINE C == Cardinality(Owed)
<1>0. /\ IsFiniteSet(Owed) /\ C \in Nat /\ made \in Nat /\ calls \in Nat /\ MaxItems \in Nat
      /\ made + C <= calls * MaxItems /\ calls * MaxItems \in Nat
      /\ todo \in [Threads -> 0..MaxItems] /\ todo[t] \in Nat
  BY FS_CardinalityType, CallsAreFew DEF BulkInv, Budget, Bulk!TypeOK, Bulk!BulkAssumption
<1>1. CASE UNCHANGED <<todo, made, calls>>
  BY <1>0, <1>1 DEF Budget, Owed
<1>2. CASE Bulk!Call(t)
  <2>1. PICK n \in 1..MaxItems : todo' = [todo EXCEPT ![t] = n]
    BY <1>2 DEF Bulk!Call
  <2> DEFINE New == {<<t, i>> : i \in 1..n}
  <2>2. IsFiniteSet(New) /\ Cardinality(New) = n
    <3>1. n \in Nat
      BY <1>0
    <3> HIDE DEF New
    <3>2. \A m \in Nat : LET S == {<<t, i>> : i \in 1..m} IN IsFiniteSet(S) /\ Cardinality(S) = m
      BY OwedCount
    <3> QED
      BY <3>1, <3>2, Zenon DEF New
  <2>3. Owed' \subseteq Owed \cup New
    BY <1>0, <2>1 DEF Owed
  <2>4. /\ IsFiniteSet(Owed \cup New) /\ Cardinality(Owed \cup New) <= C + n
    <3>1. /\ IsFiniteSet(Owed \cup New)
          /\ Cardinality(Owed \cup New) = C + Cardinality(New) - Cardinality(Owed \cap New)
      BY <1>0, <2>2, FS_Union
    <3>2. IsFiniteSet(Owed \cap New) /\ Cardinality(Owed \cap New) \in Nat
      BY <1>0, FS_Subset, FS_CardinalityType
    <3> QED
      BY <1>0, <2>2, <3>1, <3>2
  <2>5. IsFiniteSet(Owed') /\ Cardinality(Owed') <= Cardinality(Owed \cup New)
    BY <2>3, <2>4, FS_Subset
  <2>6. Cardinality(Owed') \in Nat /\ Cardinality(Owed \cup New) \in Nat
    BY <2>4, <2>5, FS_CardinalityType
  <2>7. made' = made /\ calls' = calls + 1
    BY <1>2 DEF Bulk!Call
  <2>8. (calls + 1) * MaxItems = calls * MaxItems + MaxItems
    BY <1>0, CallsAreFew
  <2>9. made' + Cardinality(Owed') <= calls' * MaxItems
    BY <1>0, <2>2, <2>4, <2>5, <2>6, <2>7, <2>8
  <2> QED
    BY <1>0, <2>1, <2>5, <2>9 DEF Budget
<1>3. CASE Bulk!Add(t)
  <2>1. /\ todo' = [todo EXCEPT ![t] = @ - 1] /\ todo[t] > 0
        /\ made' = made + 1 /\ calls' = calls
    BY <1>3 DEF Bulk!Add
  <2>2. Owed' = Owed \ {<<t, todo[t]>>} /\ <<t, todo[t]>> \in Owed
    BY <1>0, <2>1 DEF Owed
  <2>3. IsFiniteSet(Owed') /\ Cardinality(Owed') = C - 1
    BY <1>0, <2>2, FS_RemoveElement
  <2> QED
    BY <1>0, <2>1, <2>3 DEF Budget
<1>4. CASE Bulk!SaveFails(t)
  <2>1. todo' = [todo EXCEPT ![t] = 0] /\ made' = made /\ calls' = calls
    BY <1>4 DEF Bulk!SaveFails
  <2>2. Owed' \subseteq Owed
    BY <1>0, <2>1 DEF Owed
  <2>3. IsFiniteSet(Owed') /\ Cardinality(Owed') <= C /\ Cardinality(Owed') \in Nat
    BY <1>0, <2>2, FS_Subset, FS_CardinalityType
  <2> QED
    BY <1>0, <2>1, <2>3 DEF Budget
<1> QED
  BY <1>1, <1>2, <1>3, <1>4

LEMMA MadeBound ==
    ASSUME Bulk!BulkAssumption, NEW m \in Nat, NEW n \in 0..MaxCalls, NEW C \in Nat,
           m + C <= n * MaxItems
    PROVE  m \in 0..Bulk!MaxRecords
<1>1. n * MaxItems <= MaxCalls * MaxItems /\ n * MaxItems \in Nat /\ MaxCalls * MaxItems \in Nat
  BY CallsBound, CallsAreFew DEF Bulk!BulkAssumption
<1> QED
  BY <1>1 DEF Bulk!MaxRecords

LEMMA PrefixOf ==
    ASSUME NEW S, NEW s \in Seq(S), NEW t \in Seq(S)
    PROVE  /\ Bulk!IsPrefix(s, s)
           /\ Bulk!IsPrefix(s, t) => /\ Bulk!IsPrefix(s, t) /\ Len(s) <= Len(t)
                                    /\ \A i \in 1..Len(s) : s[i] = t[i]
<1>1. Bulk!IsPrefix(s, s)
  BY DEF Bulk!IsPrefix
<1>2. ASSUME Bulk!IsPrefix(s, t), NEW i \in 1..Len(s) PROVE s[i] = t[i]
  <2>1. Len(s) \in Nat /\ Len(t) \in Nat /\ Len(s) <= Len(t)
    BY <1>2 DEF Bulk!IsPrefix
  <2>2. SubSeq(s, 1, Len(s))[i] = SubSeq(t, 1, Len(s))[i]
    BY <1>2 DEF Bulk!IsPrefix
  <2> QED
    BY <2>1, <2>2
<1> QED
  BY <1>1, <1>2 DEF Bulk!IsPrefix

LEMMA BulkStep ==
    ASSUME Bulk!BulkAssumption, BulkInv, [Bulk!Next]_(Bulk!vars)
    PROVE  BulkInv'
<1> USE DEF BulkInv, Bulk!BulkAssumption
<1>0. made \in Nat /\ calls \in 0..MaxCalls
  BY DEF Bulk!TypeOK
<1>1. CASE UNCHANGED Bulk!vars
  BY <1>1 DEF Bulk!vars, Bulk!TypeOK, Budget, Owed, SavedInv
<1>2. ASSUME NEW t \in Threads, Bulk!Call(t) PROVE BulkInv'
  <2>1. Budget' /\ todo' \in [Threads -> 0..MaxItems]
    BY <1>2, BudgetKeeps
  <2> QED
    BY <1>2, <2>1, SMTT(60) DEF Bulk!Call, Bulk!Goto, Bulk!TypeOK, SavedInv
<1>3. ASSUME NEW t \in Threads, Bulk!OrgChanged(t) PROVE BulkInv'
  <2>1. Budget'
    BY <1>3, BudgetKeeps DEF Bulk!OrgChanged
  <2> QED
    BY <1>3, <2>1, ZenonT(60) DEF Bulk!OrgChanged, Bulk!Goto, Bulk!TypeOK, SavedInv
<1>4. ASSUME NEW t \in Threads, Bulk!Add(t) PROVE BulkInv'
  <2>1. Budget' /\ todo' \in [Threads -> 0..MaxItems]
    BY <1>4, BudgetKeeps
  <2>2. /\ pc[t] = "add" /\ made' = made + 1 /\ cache' = Append(cache, made + 1)
        /\ UNCHANGED <<lock, batch, saved, calls>>
        /\ pc' \in {pc, [pc EXCEPT ![t] = "handle"]}
        /\ after' \in {after, [after EXCEPT ![t] = "add"]}
    BY <1>4 DEF Bulk!Add, Bulk!Goto
  <2>3. made' \in 0..Bulk!MaxRecords /\ made + 1 \in Bulk!Records
    <3>1. Cardinality(Owed') \in Nat /\ made' \in Nat /\ calls' \in 0..MaxCalls
      BY <1>0, <2>1, <2>2, FS_CardinalityType DEF Budget
    <3>2. made' \in 0..Bulk!MaxRecords
      BY <2>1, <3>1, MadeBound DEF Budget
    <3> QED
      BY <1>0, <2>2, <3>2 DEF Bulk!Records
  <2>4. /\ cache' \in Seq(Bulk!Records) /\ Len(cache') = Len(cache) + 1
        /\ \A i \in 1..Len(cache) : cache'[i] = cache[i]
        /\ cache'[Len(cache')] = made + 1
    BY <2>2, <2>3 DEF Bulk!TypeOK
  <2>5. lock # Nobody => Bulk!IsPrefix(batch', cache')
    <3> SUFFICES ASSUME lock # Nobody PROVE Bulk!IsPrefix(batch, cache')
      BY <2>2
    <3>1. Bulk!IsPrefix(batch, cache) /\ batch \in Seq(Bulk!Records) /\ cache \in Seq(Bulk!Records)
      BY DEF Bulk!TypeOK
    <3>2. Len(batch) <= Len(cache) /\ \A i \in 1..Len(batch) : batch[i] = cache[i]
      BY <3>1, PrefixOf
    <3>3. SubSeq(batch, 1, Len(batch)) = SubSeq(cache', 1, Len(batch))
      BY <2>4, <3>1, <3>2
    <3> QED
      BY <2>4, <3>1, <3>2, <3>3 DEF Bulk!IsPrefix
  <2>6. Bulk!TypeOK'
    BY <2>1, <2>2, <2>3, <2>4, <2>5, ZenonT(60) DEF Bulk!TypeOK
  <2>7. saved[made + 1] = 0
    BY <1>0, <2>3, SMTT(60) DEF SavedInv, Bulk!TypeOK
  <2>8. SavedInv'
    <3>1. ASSUME NEW i \in 1..Len(cache'), saved'[cache'[i]] > 0
          PROVE  i \in 1..Len(cache) /\ cache'[i] = cache[i] /\ saved[cache[i]] > 0
      BY <2>2, <2>4, <2>7, <3>1 DEF Bulk!TypeOK
    <3>2. lock \in Threads /\ pc[lock] = "clear" => pc'[lock] = "clear"
      BY <2>2 DEF Bulk!TypeOK
    <3>3. \A r \in Bulk!Records : saved'[r] <= 1 /\ (saved'[r] > 0 => r <= made')
      BY <1>0, <2>2 DEF SavedInv, Bulk!Records, Bulk!TypeOK
    <3>4. \A i \in 1..Len(cache') : cache'[i] <= made'
      <4>1. ASSUME NEW i \in 1..Len(cache') PROVE cache'[i] <= made'
        <5>1. CASE i = Len(cache')
          BY <1>0, <2>2, <2>4, <5>1
        <5>2. CASE i # Len(cache')
          <6>1. i \in 1..Len(cache) /\ cache'[i] = cache[i]
            BY <2>4, <5>2, SMTT(60) DEF Bulk!TypeOK
          <6>2. cache[i] \in Bulk!Records /\ cache[i] <= made
            BY <6>1 DEF SavedInv, Bulk!TypeOK
          <6> QED
            BY <1>0, <2>2, <6>1, <6>2 DEF Bulk!Records, Bulk!MaxRecords
        <5> QED
          BY <5>1, <5>2
      <4> QED
        BY <4>1
    <3> QED
      BY <2>2, <3>1, <3>2, <3>3, <3>4 DEF SavedInv
  <2> QED
    BY <2>1, <2>6, <2>8
<1>5. ASSUME NEW t \in Threads, Bulk!Finish(t) PROVE BulkInv'
  <2>1. Budget'
    BY <1>5, BudgetKeeps DEF Bulk!Finish
  <2> QED
    BY <1>5, <2>1 DEF Bulk!Finish, Bulk!Goto, Bulk!TypeOK, SavedInv
<1>6. ASSUME NEW t \in Threads, Bulk!Handle(t) PROVE BulkInv'
  <2>1. Budget'
    BY <1>6, BudgetKeeps DEF Bulk!Handle
  <2> QED
    <3>1. CASE cache = <<>>
      <4>1. /\ pc' = [pc EXCEPT ![t] = after[t]] /\ pc[t] = "handle" /\ after[t] \in {"idle", "add"}
            /\ UNCHANGED <<cache, lock, batch, saved, made, after, todo, calls>>
        BY <1>6, <3>1 DEF Bulk!Handle, Bulk!Goto, Bulk!TypeOK
      <4>2. Bulk!TypeOK'
        BY <4>1 DEF Bulk!TypeOK
      <4>3. SavedInv'
        BY <4>1 DEF SavedInv, Bulk!TypeOK
      <4> QED
        BY <2>1, <4>2, <4>3
    <3>2. CASE cache # <<>>
      <4>1. /\ pc' = [pc EXCEPT ![t] = "save"] /\ lock' = t /\ lock = Nobody
            /\ batch' = cache /\ UNCHANGED <<cache, saved, made, after, todo, calls>>
        BY <1>6, <3>2 DEF Bulk!Handle, Bulk!Goto, Bulk!LockIsFree
      <4>2. Bulk!IsPrefix(batch', cache')
        BY <4>1, PrefixOf DEF Bulk!TypeOK
      <4>3. Bulk!TypeOK'
        BY <3>2, <4>1, <4>2, SMTT(60) DEF Bulk!TypeOK
      <4>4. SavedInv'
        BY <4>1 DEF SavedInv, Bulk!TypeOK
      <4> QED
        BY <2>1, <4>3, <4>4
    <3> QED
      BY <3>1, <3>2
<1>7. ASSUME NEW t \in Threads, Bulk!Save(t) PROVE BulkInv'
  <2>1. Budget'
    BY <1>7, BudgetKeeps DEF Bulk!Save
  <2> QED
    <3>1. /\ lock = t /\ pc[t] = "save" /\ pc' = [pc EXCEPT ![t] = "clear"]
          /\ saved' = [r \in Bulk!Records |-> saved[r] + (IF Bulk!Contains(batch, r) THEN 1 ELSE 0)]
          /\ UNCHANGED <<cache, lock, batch, made, after, todo, calls>>
      BY <1>7 DEF Bulk!Save, Bulk!Goto, Bulk!TypeOK
    <3>2. \A i \in 1..Len(batch) : i \in 1..Len(cache) /\ batch[i] = cache[i]
      BY <3>1, PrefixOf, SMTT(60) DEF Bulk!TypeOK
    <3>3. \A i \in 1..Len(cache) : cache[i] \in Bulk!Records /\ saved[cache[i]] = 0
      BY <3>1 DEF SavedInv, Bulk!TypeOK
    <3>4. saved' \in [Bulk!Records -> Nat]
      BY <3>1 DEF Bulk!TypeOK
    <3>5. Bulk!TypeOK'
      BY <3>1, <3>4 DEF Bulk!TypeOK
    <3>6. ASSUME NEW r \in Bulk!Records PROVE saved'[r] <= 1 /\ (saved'[r] > 0 => r <= made)
      <4>1. CASE Bulk!Contains(batch, r)
        BY <3>1, <3>2, <3>3, <4>1 DEF SavedInv, Bulk!Contains
      <4>2. CASE ~ Bulk!Contains(batch, r)
        BY <3>1, <4>2 DEF SavedInv, Bulk!TypeOK
      <4> QED
        BY <4>1, <4>2
    <3>7. ASSUME NEW i \in 1..Len(cache), saved'[cache[i]] > 0
          PROVE  \E j \in 1..Len(batch) : batch[j] = cache[i]
      BY <3>1, <3>3, <3>7 DEF Bulk!Contains
    <3> QED
      BY <2>1, <3>1, <3>5, <3>6, <3>7, ZenonT(60) DEF SavedInv, Bulk!TypeOK
<1>8. ASSUME NEW t \in Threads, Bulk!SaveFails(t) PROVE BulkInv'
  <2>1. Budget' /\ todo' \in [Threads -> 0..MaxItems]
    BY <1>8, BudgetKeeps
  <2> QED
    BY <1>8, <2>1 DEF Bulk!SaveFails, Bulk!Goto, Bulk!KeptOnFailure, Bulk!TypeOK, SavedInv
<1>9. ASSUME NEW t \in Threads, Bulk!Clear(t) PROVE BulkInv'
  <2>1. Budget'
    BY <1>9, BudgetKeeps DEF Bulk!Clear
  <2> QED
    BY <1>9, <2>1 DEF Bulk!Clear, Bulk!Goto, Bulk!TypeOK, SavedInv
<1> QED
  BY <1>1, <1>2, <1>3, <1>4, <1>5, <1>6, <1>7, <1>8, <1>9 DEF Bulk!Next

LEMMA BulkBegins ==
    ASSUME Bulk!BulkAssumption, Bulk!Init
    PROVE  BulkInv
<1>1. Owed = {} /\ made = 0 /\ calls = 0 /\ MaxItems \in Nat
  BY DEF Bulk!Init, Owed, Bulk!BulkAssumption
<1>2. Budget
  BY <1>1, FS_EmptySet DEF Budget
<1>3. /\ MaxCalls * MaxItems \in Nat /\ 0 \in 0..MaxCalls /\ 0 \in 0..MaxItems
  BY CallsAreFew DEF Bulk!BulkAssumption
<1>4. Bulk!TypeOK
  BY <1>3 DEF Bulk!Init, Bulk!TypeOK, Bulk!Records, Bulk!MaxRecords, Bulk!BulkAssumption
<1> QED
  BY <1>2, <1>4 DEF BulkInv, SavedInv, Bulk!Init

\* bulk_create_decorator: types hold, and a record is saved at most once, however many threads
\* fill and empty the one cache.
THEOREM RecordsAreSavedOnce ==
    ASSUME Bulk!BulkAssumption
    PROVE  Bulk!Spec => [](Bulk!TypeOK /\ Bulk!SavedOnce)
<1>1. Bulk!Init => BulkInv
  BY BulkBegins
<1>2. BulkInv /\ [Bulk!Next]_(Bulk!vars) => BulkInv'
  BY BulkStep
<1>3. BulkInv => Bulk!TypeOK /\ Bulk!SavedOnce
  BY DEF BulkInv, SavedInv, Bulk!SavedOnce
<1> QED
  BY <1>1, <1>2, <1>3, PTL DEF Bulk!Spec

\* While the only thread saves, its batch is the list, and nothing else was made.
AloneInv ==
    /\ lock # Nobody => batch = cache
    /\ lock # Nobody /\ pc[lock] = "clear" => \A i \in 1..Len(batch) : saved[batch[i]] > 0
    /\ Bulk!NothingLost

LEMMA AloneStep ==
    ASSUME Bulk!BulkAssumption, \A s, t \in Threads : s = t,
           BulkInv, AloneInv, [Bulk!Next]_(Bulk!vars)
    PROVE  AloneInv'
<1> USE DEF AloneInv, Bulk!NothingLost, Bulk!Contains
<1>0. BulkInv'
  BY BulkStep
<1>1. ASSUME NEW t \in Threads,
             Bulk!Call(t) \/ Bulk!OrgChanged(t) \/ Bulk!Finish(t)
      PROVE  AloneInv'
  <2>1. UNCHANGED <<cache, lock, batch, saved, made>>
    BY <1>1 DEF Bulk!Call, Bulk!OrgChanged, Bulk!Finish
  <2>2. lock # Nobody => pc'[lock] = pc[lock]
    BY <1>1 DEF Bulk!Call, Bulk!OrgChanged, Bulk!Finish, BulkInv, Bulk!TypeOK, Bulk!Goto
  <2> QED
    BY <2>1, <2>2
<1>2. ASSUME NEW t \in Threads, Bulk!Add(t) PROVE AloneInv'
  <2>1. /\ lock = Nobody /\ lock' = Nobody /\ made' = made + 1 /\ cache' = Append(cache, made + 1)
        /\ saved' = saved /\ cache \in Seq(Bulk!Records) /\ made \in Nat
    BY <1>2 DEF Bulk!Add, BulkInv, Bulk!TypeOK
  <2>2. /\ Len(cache') = Len(cache) + 1 /\ Len(cache) \in Nat /\ cache'[Len(cache) + 1] = made + 1
        /\ \A i \in 1..Len(cache) : cache'[i] = cache[i] /\ i \in 1..Len(cache')
    BY <2>1
  <2>3. ASSUME NEW r \in 1..made' PROVE saved'[r] > 0 \/ \E i \in 1..Len(cache') : cache'[i] = r
    BY <2>1, <2>2
  <2> QED
    BY <2>1, <2>3
<1>3. ASSUME NEW t \in Threads, Bulk!Handle(t) PROVE AloneInv'
  BY <1>3 DEF Bulk!Handle, Bulk!Goto, Bulk!LockIsFree, BulkInv, Bulk!TypeOK
<1>4. ASSUME NEW t \in Threads, Bulk!Save(t) PROVE AloneInv'
  <2>1. /\ lock = t /\ lock' = t /\ batch' = batch /\ cache' = cache /\ batch = cache /\ made' = made
        /\ saved' = [r \in Bulk!Records |-> saved[r] + (IF Bulk!Contains(batch, r) THEN 1 ELSE 0)]
        /\ saved \in [Bulk!Records -> Nat] /\ batch \in Seq(Bulk!Records) /\ made \in 0..Bulk!MaxRecords
        /\ Bulk!BulkAssumption
    BY <1>4 DEF Bulk!Save, BulkInv, Bulk!TypeOK, Bulk!BulkAssumption
  <2>2. \A i \in 1..Len(batch) : saved'[batch[i]] > 0
    BY <2>1
  <2>3. 1..made \subseteq Bulk!Records
    BY <2>1 DEF Bulk!Records, Bulk!MaxRecords, Bulk!BulkAssumption
  <2>4. \A r \in 1..made : saved[r] > 0 => saved'[r] > 0
    BY <2>1, <2>3
  <2> QED
    BY <2>1, <2>2, <2>4
<1>5. ASSUME NEW t \in Threads, Bulk!SaveFails(t) PROVE AloneInv'
  BY <1>5 DEF Bulk!SaveFails, Bulk!Goto, Bulk!KeptOnFailure, BulkInv, Bulk!TypeOK
<1>6. ASSUME NEW t \in Threads, Bulk!Clear(t) PROVE AloneInv'
  <2>1. /\ lock = t /\ lock # Nobody /\ pc[lock] = "clear" /\ lock' = Nobody /\ cache' = <<>>
        /\ made' = made /\ saved' = saved
    BY <1>6 DEF Bulk!Clear, BulkInv, Bulk!TypeOK, Bulk!BulkAssumption
  <2>2. \A r \in 1..made : saved[r] > 0
    BY <2>1
  <2> QED
    BY <2>1, <2>2
<1>7. CASE UNCHANGED Bulk!vars
  BY <1>7 DEF Bulk!vars
<1> QED
  BY <1>1, <1>2, <1>3, <1>4, <1>5, <1>6, <1>7 DEF Bulk!Next

\* bulk_create_decorator: what a thread that is alone was given is saved, or in the cache, or in
\* the batch it is about to save.
THEOREM AloneNothingIsLost ==
    ASSUME Bulk!BulkAssumption, \A s, t \in Threads : s = t
    PROVE  Bulk!Spec => []Bulk!NothingLost
<1>1. Bulk!Init => BulkInv /\ AloneInv
  <2>1. Bulk!Init => AloneInv
    BY DEF AloneInv, Bulk!Init, Bulk!NothingLost
  <2> QED
    BY <2>1, BulkBegins
<1>2. BulkInv /\ AloneInv /\ [Bulk!Next]_(Bulk!vars) => BulkInv' /\ AloneInv'
  BY BulkStep, AloneStep
<1>3. AloneInv => Bulk!NothingLost
  BY DEF AloneInv
<1> QED
  BY <1>1, <1>2, <1>3, PTL DEF Bulk!Spec

-----------------------------------------------------------------------------
(* MergeDelay: what a delayed call loses, and to whom.                     *)

CONSTANTS Calls
VARIABLES call, dict, seen, heap, snap, run, argsCache, taskCache, timeCache, handled, overlapped
Delay == INSTANCE MergeDelay WITH pc <- call, task <- run

\* Calls under way at once, or while a run clears the caches, have been noticed.
NoticeInv ==
    /\ IsFiniteSet(Delay!UnderWay)
    /\ \A a, b \in Delay!UnderWay : a # b => a \in overlapped
    /\ Delay!Ending # {} => Delay!UnderWay \subseteq overlapped

\* A call passes its arguments on before it has a task.
OrderInv ==
    /\ \A a \in Calls : run[a] # "none" => call[a] = "done"
    /\ \A a \in Calls : snap[a] # {} <=> call[a] \in {"schedule", "done"}
    /\ \A a \in Calls : call[a] # "start" => dict[a] \in Calls
    /\ \A a \in Calls : call[a] = "cancel" => heap[dict[a]] # {}

\* A call that is alone keeps its dictionary in the cache, with its argument.
OwnInv ==
    \A a \in Calls \ overlapped : call[a] \in {"cancel", "schedule"} =>
        argsCache = dict[a] /\ a \in heap[dict[a]] /\ (call[a] = "schedule" => a \in snap[a])

\* An argument was handled or will be: no call can cancel its task.
Safe(a) ==
    \/ a \in handled
    \/ \E b \in Calls :
         a \in snap[b] /\ (run[b] \in {"submitted", "running"} \/ (run[b] = "sleeping" /\ b # taskCache))

\* It waits in the task that the next call cancels, and that call finds it in the
\* dictionary.
Waits(a) ==
    /\ taskCache # None /\ run[taskCache] = "sleeping" /\ a \in snap[taskCache]
    /\ Delay!Ending = {}
    /\ argsCache # None /\ a \in heap[argsCache]
    /\ \A c \in Delay!UnderWay :
         /\ call[c] \in {"merge", "cancel"} /\ dict[c] = argsCache
         /\ call[c] = "merge" => a \in seen[c]

\* A call that is alone has taken it over.
TakenOver(a) ==
    \E c \in Calls \ overlapped :
        call[c] = "schedule" /\ a \in snap[c] /\ a \in heap[dict[c]]

Kept(a) == Delay!Disturbed(a) \/ Safe(a) \/ Waits(a) \/ TakenOver(a)

DelayInv ==
    /\ Delay!TypeOK /\ NoticeInv /\ OrderInv /\ OwnInv
    /\ \A a \in Calls : call[a] = "done" => Kept(a)

\* A step notices overlaps, and makes at most one call more be under way.
LEMMA Notices ==
    ASSUME DelayInv, NEW a \in Calls, Delay!Get(a) \/ Delay!InCall(a) \/ Delay!InTask(a)
    PROVE  /\ NoticeInv'
           /\ overlapped \subseteq overlapped' /\ overlapped' \subseteq Calls
<1>1. /\ Delay!NoteOverlap
      /\ \/ call' = call
         \/ \E l \in Delay!PcStates : call' = [call EXCEPT ![a] = l]
  BY DEF Delay!Get, Delay!InCall, Delay!InTask, Delay!Merge, Delay!Cancel, Delay!Schedule, Delay!Start,
         Delay!Run, Delay!PopTask, Delay!PopArgs, Delay!PopTime, Delay!Goto, Delay!PcStates
<1>2. Delay!UnderWay' \in SUBSET (Delay!UnderWay \cup {a})
  BY <1>1 DEF Delay!UnderWay, DelayInv, Delay!TypeOK
<1>3. IsFiniteSet(Delay!UnderWay \cup {a})
  BY FS_AddElement DEF DelayInv, NoticeInv
<1>4. IsFiniteSet(Delay!UnderWay')
  BY <1>2, <1>3, FS_Subset
<1>5. ASSUME NEW b \in Delay!UnderWay', NEW c \in Delay!UnderWay', b # c
      PROVE  Delay!Cardinality(Delay!UnderWay') > 1
  <2>1. IsFiniteSet({b}) /\ Cardinality({b}) = 1
    BY FS_Singleton
  <2>2. {b} \in SUBSET (Delay!UnderWay') /\ {b} # Delay!UnderWay'
    BY <1>5
  <2>3. Cardinality({b}) <= Cardinality(Delay!UnderWay') /\ Cardinality({b}) # Cardinality(Delay!UnderWay')
    BY <1>4, <2>2, FS_Subset
  <2>4. Cardinality(Delay!UnderWay') \in Nat
    BY <1>4, FS_CardinalityType
  <2>5. Delay!Cardinality(Delay!UnderWay') = Cardinality(Delay!UnderWay')
    BY DEF Delay!Cardinality, Cardinality
  <2> QED
    BY <2>1, <2>3, <2>4, <2>5
<1>6. Delay!UnderWay' \subseteq Calls
  BY DEF Delay!UnderWay
<1> QED
  BY <1>1, <1>4, <1>5, <1>6 DEF Delay!NoteOverlap, NoticeInv, DelayInv, Delay!TypeOK

LEMMA DisturbedStays ==
    ASSUME DelayInv, NEW a \in Calls, Delay!Get(a) \/ Delay!InCall(a) \/ Delay!InTask(a),
           NEW x \in Calls, Delay!Disturbed(x)
    PROVE  Delay!Disturbed(x)'
<1>1. overlapped \subseteq overlapped'
  BY Notices
<1>2. snap' = snap \/ (snap[a] = {} /\ \E A : snap' = [snap EXCEPT ![a] = A])
  BY DEF Delay!Get, Delay!InCall, Delay!InTask, Delay!Merge, Delay!Cancel, Delay!Schedule, Delay!Start,
         Delay!Run, Delay!PopTask, Delay!PopArgs, Delay!PopTime, DelayInv, OrderInv
<1> QED
  BY <1>1, <1>2 DEF Delay!Disturbed, DelayInv, Delay!TypeOK

\* What an undisturbed call finds while it is under way.
LEMMA AloneUnderWay ==
    ASSUME DelayInv, NEW a \in Delay!UnderWay, a \notin overlapped
    PROVE  Delay!UnderWay = {a} /\ Delay!Ending = {}
BY DEF DelayInv, NoticeInv

LEMMA GetKeeps ==
    ASSUME Delay!NoneAssumption, DelayInv, NEW a \in Calls, Delay!Get(a)
    PROVE  DelayInv'
<1> DEFINE d == Delay!DictOf(a)
<1>0. Delay!NoneAssumption /\ Delay!TypeOK /\ OrderInv /\ OwnInv
  BY DEF DelayInv
<1>1. /\ call[a] = "start" /\ d \in Calls
      /\ dict' = [dict EXCEPT ![a] = d] /\ seen' = [seen EXCEPT ![a] = heap[d]]
      /\ call' = [call EXCEPT ![a] = "merge"]
      /\ UNCHANGED <<heap, snap, run, argsCache, taskCache, timeCache, handled>>
  BY <1>0 DEF Delay!Get, Delay!Goto, Delay!DictOf, Delay!TypeOK, Delay!NoneAssumption, Delay!caches
<1>2. NoticeInv' /\ overlapped \subseteq overlapped' /\ overlapped' \subseteq Calls
  BY Notices
<1> HIDE DEF d
<1>3. Delay!TypeOK'
  BY <1>0, <1>1, <1>2 DEF Delay!TypeOK, Delay!PcStates, Delay!TaskStates
<1>4. OrderInv' /\ OwnInv'
  BY <1>0, <1>1, <1>2 DEF Delay!TypeOK, OrderInv, OwnInv
<1>5. ASSUME NEW x \in Calls, call[x] = "done", Kept(x) PROVE Kept(x)'
  <2>1. CASE Delay!Disturbed(x)
    BY <2>1, DisturbedStays DEF Kept
  <2>2. CASE Safe(x)
    BY <1>1, <2>2 DEF Kept, Safe
  <2>3. CASE Waits(x)
    <3>1. argsCache # None /\ d = argsCache /\ x \in heap[d]
      BY <2>3 DEF Waits, d, Delay!DictOf
    <3>2. Delay!Ending' = {} /\ Delay!UnderWay' = Delay!UnderWay \cup {a}
      BY <1>0, <1>1, <2>3 DEF Waits, Delay!Ending, Delay!UnderWay, Delay!TypeOK
    <3>3. Waits(x)'
      BY <1>0, <1>1, <2>3, <3>1, <3>2 DEF Waits, Delay!UnderWay, Delay!TypeOK
    <3> QED
      BY <3>3 DEF Kept
  <2>4. CASE TakenOver(x)
    <3>1. PICK c \in Calls \ overlapped : call[c] = "schedule" /\ x \in snap[c]
      BY <2>4 DEF TakenOver
    <3>2. c # a /\ a \in Delay!UnderWay' /\ c \in Delay!UnderWay'
      BY <1>0, <1>1, <3>1 DEF Delay!UnderWay, Delay!TypeOK
    <3>3. c \in overlapped' /\ x \in snap'[c]
      BY <1>1, <1>2, <3>1, <3>2 DEF NoticeInv
    <3> QED
      BY <3>3 DEF Kept, Delay!Disturbed
  <2> QED
    BY <1>5, <2>1, <2>2, <2>3, <2>4 DEF Kept
<1>6. ASSUME NEW x \in Calls, call'[x] = "done" PROVE call[x] = "done" /\ Kept(x)
  BY <1>0, <1>1, <1>6 DEF DelayInv, Delay!TypeOK
<1> QED
  BY <1>2, <1>3, <1>4, <1>5, <1>6 DEF DelayInv

LEMMA MergeKeeps ==
    ASSUME Delay!NoneAssumption, DelayInv, NEW a \in Calls, Delay!Merge(a)
    PROVE  DelayInv'
<1> DEFINE d == dict[a]
<1>0. Delay!NoneAssumption /\ Delay!TypeOK /\ OrderInv /\ OwnInv
  BY DEF DelayInv
<1>1. /\ call[a] = "merge" /\ d \in Calls
      /\ heap' = [heap EXCEPT ![d] = seen[a] \cup {a}] /\ argsCache' = d
      /\ call' = [call EXCEPT ![a] = "cancel"]
      /\ UNCHANGED <<dict, seen, snap, run, taskCache, timeCache, handled>>
  BY <1>0 DEF Delay!Merge, Delay!Goto, OrderInv
<1>2. NoticeInv' /\ overlapped \subseteq overlapped' /\ overlapped' \subseteq Calls
  BY Notices DEF Delay!InCall
<1> HIDE DEF d
<1>3. Delay!TypeOK'
  BY <1>0, <1>1, <1>2 DEF Delay!TypeOK, Delay!PcStates, Delay!TaskStates
<1>4. OrderInv'
  BY <1>0, <1>1, <1>2 DEF Delay!TypeOK, OrderInv, d
<1>5. OwnInv'
  <2>1. ASSUME NEW b \in Calls \ overlapped', b # a, call[b] \in {"cancel", "schedule"} PROVE FALSE
    BY <1>0, <1>1, <1>2, <2>1 DEF NoticeInv, Delay!UnderWay, Delay!TypeOK
  <2> QED
    BY <1>0, <1>1, <1>2, <2>1 DEF Delay!TypeOK, OwnInv, d
<1>6. ASSUME NEW x \in Calls, call[x] = "done", Kept(x) PROVE Kept(x)'
  <2>1. CASE Delay!Disturbed(x)
    BY <2>1, DisturbedStays DEF Kept, Delay!InCall
  <2>2. CASE Safe(x)
    BY <1>1, <2>2 DEF Kept, Safe
  <2>3. CASE Waits(x)
    <3>1. d = argsCache /\ x \in seen[a]
      BY <1>1, <2>3 DEF Waits, d, Delay!UnderWay
    <3>2. Delay!Ending' = {} /\ Delay!UnderWay' = Delay!UnderWay
      BY <1>0, <1>1, <2>3 DEF Waits, Delay!Ending, Delay!UnderWay, Delay!TypeOK
    <3>3. Waits(x)'
      BY <1>0, <1>1, <2>3, <3>1, <3>2 DEF Waits, Delay!UnderWay, Delay!TypeOK
    <3> QED
      BY <3>3 DEF Kept
  <2>4. CASE TakenOver(x)
    <3>1. PICK c \in Calls \ overlapped : call[c] = "schedule" /\ x \in snap[c]
      BY <2>4 DEF TakenOver
    <3>2. c # a /\ a \in Delay!UnderWay' /\ c \in Delay!UnderWay'
      BY <1>0, <1>1, <3>1 DEF Delay!UnderWay, Delay!TypeOK
    <3>3. c \in overlapped' /\ x \in snap'[c]
      BY <1>1, <1>2, <3>1, <3>2 DEF NoticeInv
    <3> QED
      BY <3>3 DEF Kept, Delay!Disturbed
  <2> QED
    BY <1>6, <2>1, <2>2, <2>3, <2>4 DEF Kept
<1>7. ASSUME NEW x \in Calls, call'[x] = "done" PROVE call[x] = "done" /\ Kept(x)
  BY <1>0, <1>1, <1>7 DEF DelayInv, Delay!TypeOK
<1> QED
  BY <1>2, <1>3, <1>4, <1>5, <1>6, <1>7 DEF DelayInv

LEMMA CancelKeeps ==
    ASSUME Delay!NoneAssumption, DelayInv, NEW a \in Calls, Delay!Cancel(a)
    PROVE  DelayInv'
<1> DEFINE A == heap[dict[a]]
<1>0. Delay!NoneAssumption /\ Delay!TypeOK /\ OrderInv /\ OwnInv
  BY DEF DelayInv
<1>1. /\ call[a] = "cancel" /\ A # {} /\ A \subseteq Calls /\ run[a] = "none"
      /\ snap' = [snap EXCEPT ![a] = A]
      /\ call' = [call EXCEPT ![a] = "schedule"]
      /\ UNCHANGED <<dict, seen, heap, argsCache, timeCache, handled>>
  BY <1>0 DEF Delay!Cancel, Delay!Goto, Delay!Args, OrderInv, Delay!TypeOK
<1>2. NoticeInv' /\ overlapped \subseteq overlapped' /\ overlapped' \subseteq Calls
  BY Notices DEF Delay!InCall
<1>3. /\ run' \in [Calls -> Delay!TaskStates] /\ taskCache' \in {taskCache, None}
      /\ \A b \in Calls : run'[b] # run[b] => /\ b = taskCache /\ run[b] = "sleeping"
                                              /\ run'[b] = "cancelled"
  <2>1. CASE taskCache = None
    BY <1>0, <2>1 DEF Delay!Cancel, Delay!TypeOK
  <2>2. CASE taskCache # None
    BY <1>0, <2>2 DEF Delay!Cancel, Delay!CancelTask, Delay!TypeOK, Delay!TaskStates
  <2> QED
    BY <2>1, <2>2
<1> HIDE DEF A
<1>4. Delay!TypeOK'
  <2>1. /\ snap' \in [Calls -> SUBSET Calls] /\ call' \in [Calls -> Delay!PcStates]
        /\ \A b \in Calls : run'[b] # "none" => run[b] # "none"
    BY <1>0, <1>1, <1>3 DEF Delay!TypeOK, Delay!PcStates
  <2>2. \A b \in Calls : run'[b] # "none" => snap'[b] # {}
    BY <1>0, <1>1, <2>1 DEF Delay!TypeOK
  <2>3. taskCache' # None => call'[taskCache'] = "done"
    BY <1>0, <1>1, <1>3 DEF Delay!TypeOK
  <2> QED
    BY <1>0, <1>1, <1>2, <1>3, <2>1, <2>2, <2>3 DEF Delay!TypeOK
<1>5. OrderInv'
  BY <1>0, <1>1, <1>2, <1>3 DEF Delay!TypeOK, OrderInv, A
<1>6. OwnInv'
  <2>1. ASSUME NEW b \in Calls \ overlapped', b # a, call[b] \in {"cancel", "schedule"} PROVE FALSE
    BY <1>0, <1>1, <1>2, <2>1 DEF NoticeInv, Delay!UnderWay, Delay!TypeOK
  <2> QED
    BY <1>0, <1>1, <1>2, <2>1 DEF Delay!TypeOK, OwnInv, A
<1>7. ASSUME NEW x \in Calls, call[x] = "done", Kept(x) PROVE Kept(x)'
  <2>1. CASE Delay!Disturbed(x)
    BY <2>1, DisturbedStays DEF Kept, Delay!InCall
  <2>2. CASE Safe(x)
    <3>1. ASSUME NEW b \in Calls, x \in snap[b] PROVE x \in snap'[b]
      BY <1>0, <1>1, <3>1 DEF OrderInv, Delay!TypeOK
    <3>2. ASSUME NEW b \in Calls,
                 run[b] \in {"submitted", "running"} \/ (run[b] = "sleeping" /\ b # taskCache)
          PROVE  run'[b] = run[b] /\ (b # taskCache => b # taskCache' \/ run[b] # "sleeping")
      BY <1>0, <1>3, <3>2 DEF Delay!NoneAssumption
    <3> QED
      BY <1>1, <2>2, <3>1, <3>2 DEF Kept, Safe
  <2>3. CASE Waits(x)
    <3>1. x \in snap'[a] /\ x \in heap'[dict'[a]] /\ call'[a] = "schedule"
      BY <1>0, <1>1, <2>3 DEF Waits, Delay!UnderWay, Delay!TypeOK, A
    <3> QED
      BY <3>1 DEF Kept, Delay!Disturbed, TakenOver
  <2>4. CASE TakenOver(x)
    <3>1. PICK c \in Calls \ overlapped : call[c] = "schedule" /\ x \in snap[c]
      BY <2>4 DEF TakenOver
    <3>2. c # a /\ a \in Delay!UnderWay' /\ c \in Delay!UnderWay'
      BY <1>0, <1>1, <3>1 DEF Delay!UnderWay, Delay!TypeOK
    <3>3. c \in overlapped' /\ x \in snap'[c]
      BY <1>0, <1>1, <1>2, <3>1, <3>2 DEF NoticeInv, Delay!TypeOK
    <3> QED
      BY <3>3 DEF Kept, Delay!Disturbed
  <2> QED
    BY <1>7, <2>1, <2>2, <2>3, <2>4 DEF Kept
<1>8. ASSUME NEW x \in Calls, call'[x] = "done" PROVE call[x] = "done" /\ Kept(x)
  BY <1>0, <1>1, <1>8 DEF DelayInv, Delay!TypeOK
<1> QED
  BY <1>2, <1>4, <1>5, <1>6, <1>7, <1>8 DEF DelayInv

LEMMA ScheduleKeeps ==
    ASSUME Delay!NoneAssumption, DelayInv, NEW a \in Calls, Delay!Schedule(a)
    PROVE  DelayInv'
<1>0. Delay!NoneAssumption /\ Delay!TypeOK /\ OrderInv /\ OwnInv
  BY DEF DelayInv
<1>1. /\ call[a] = "schedule" /\ snap[a] # {} /\ run[a] = "none"
      /\ call' = [call EXCEPT ![a] = "done"]
      /\ UNCHANGED <<dict, seen, heap, snap, handled>>
      /\ \/ /\ run' = [run EXCEPT ![a] = "sleeping"] /\ taskCache' = a /\ timeCache' = TRUE
            /\ argsCache' = argsCache
         \/ /\ run' = [run EXCEPT ![a] = "submitted"] /\ argsCache' = None
            /\ timeCache' = FALSE /\ taskCache' = taskCache
  BY <1>0 DEF Delay!Schedule, Delay!Goto, Delay!Delay, Delay!Submit, OrderInv, Delay!TypeOK
<1>2. NoticeInv' /\ overlapped \subseteq overlapped' /\ overlapped' \subseteq Calls
  BY Notices DEF Delay!InCall
<1>3. Delay!TypeOK'
  <2>1. timeCache' \in BOOLEAN
    BY <1>1
  <2> QED
    BY <1>0, <1>1, <1>2, <2>1 DEF Delay!TypeOK, Delay!PcStates, Delay!TaskStates
<1>4. OrderInv'
  BY <1>0, <1>1 DEF Delay!TypeOK, OrderInv
<1>5. OwnInv'
  <2>1. ASSUME NEW b \in Calls \ overlapped', b # a, call[b] \in {"cancel", "schedule"} PROVE FALSE
    BY <1>0, <1>1, <1>2, <2>1 DEF DelayInv, NoticeInv, Delay!UnderWay, Delay!TypeOK
  <2> QED
    BY <1>0, <1>1, <1>2, <2>1 DEF Delay!TypeOK, OwnInv
<1>6. ASSUME NEW x \in Calls, x \in snap[a], x \in heap[dict[a]], a \notin overlapped PROVE Kept(x)'
  <2>1. a \in Delay!UnderWay
    BY <1>1 DEF Delay!UnderWay
  <2>2. Delay!UnderWay = {a} /\ Delay!Ending = {} /\ argsCache = dict[a] /\ dict[a] \in Calls
    BY <1>0, <1>1, <1>6, <2>1, AloneUnderWay DEF OwnInv, OrderInv
  <2>3. CASE run' = [run EXCEPT ![a] = "submitted"]
    BY <1>0, <1>1, <1>6, <2>3 DEF Kept, Safe, Delay!TypeOK
  <2>4. CASE run' = [run EXCEPT ![a] = "sleeping"] /\ taskCache' = a /\ argsCache' = argsCache
    <3>1. Delay!UnderWay' = {}
      BY <1>0, <1>1, <2>2 DEF Delay!UnderWay, Delay!TypeOK
    <3>2. Delay!Ending' = {}
      BY <1>0, <2>2, <2>4 DEF Delay!Ending, Delay!TypeOK
    <3>3. Waits(x)'
      BY <1>0, <1>1, <1>6, <2>2, <2>4, <3>1, <3>2 DEF Waits, Delay!TypeOK, Delay!NoneAssumption
    <3> QED
      BY <3>3 DEF Kept
  <2> QED
    BY <1>1, <2>3, <2>4
<1>7. ASSUME NEW x \in Calls, call[x] = "done", Kept(x) PROVE Kept(x)'
  <2>1. CASE Delay!Disturbed(x)
    BY <2>1, DisturbedStays DEF Kept, Delay!InCall
  <2>2. CASE Safe(x)
    BY <1>0, <1>1, <2>2 DEF Kept, Safe, Delay!TypeOK
  <2>3. CASE Waits(x)
    BY <1>1, <2>3 DEF Waits, Delay!UnderWay
  <2>4. CASE TakenOver(x)
    <3>1. PICK c \in Calls \ overlapped :
             call[c] = "schedule" /\ x \in snap[c] /\ x \in heap[dict[c]]
      BY <2>4 DEF TakenOver
    <3>2. c = a
      BY <1>1, <3>1 DEF DelayInv, NoticeInv, Delay!UnderWay
    <3> QED
      BY <1>6, <3>1, <3>2
  <2> QED
    BY <1>7, <2>1, <2>2, <2>3, <2>4 DEF Kept
<1>8. \A x \in Calls : call'[x] = "done" => x = a \/ (call[x] = "done" /\ Kept(x))
  BY <1>0, <1>1 DEF DelayInv, Delay!TypeOK
<1>9. Kept(a)'
  <2>1. a \in overlapped => Kept(a)'
    <3>1. a \in overlapped => a \in overlapped'
      BY <1>2
    <3> QED
      BY <3>1 DEF Kept, Delay!Disturbed
  <2> QED
    BY <1>0, <1>1, <1>6, <2>1 DEF OwnInv
<1> QED
  BY <1>2, <1>3, <1>4, <1>5, <1>7, <1>8, <1>9 DEF DelayInv

\* A step of the task of one call.
LEMMA TaskKeeps ==
    ASSUME Delay!NoneAssumption, DelayInv, NEW a \in Calls, Delay!InTask(a)
    PROVE  DelayInv'
<1>0. Delay!NoneAssumption /\ Delay!TypeOK /\ OrderInv /\ OwnInv
  BY DEF DelayInv
<1>1. /\ UNCHANGED <<call, dict, seen, heap, snap>>
      /\ run[a] # "none" /\ \E l \in Delay!TaskStates \ {"none"} : run' = [run EXCEPT ![a] = l]
  BY DEF Delay!InTask, Delay!Start, Delay!Run, Delay!PopTask, Delay!PopArgs, Delay!PopTime, Delay!Step,
         Delay!TaskStates
<1>2. NoticeInv' /\ overlapped \subseteq overlapped' /\ overlapped' \subseteq Calls
  BY Notices
<1>3. /\ taskCache' \in {taskCache, None} /\ argsCache' \in {argsCache, None}
      /\ timeCache' \in {timeCache, FALSE}
      /\ handled' = handled \/ handled' = handled \cup snap[a]
  BY DEF Delay!InTask, Delay!Start, Delay!Run, Delay!PopTask, Delay!PopArgs, Delay!PopTime,
         Delay!DropTask, Delay!caches
<1>4. Delay!TypeOK'
  <2>1. run' \in [Calls -> Delay!TaskStates] /\ handled' \subseteq Calls
    BY <1>0, <1>1, <1>3 DEF Delay!TypeOK
  <2>2. timeCache' \in BOOLEAN
    BY <1>0, <1>3 DEF Delay!TypeOK
  <2>3. \A b \in Calls : run'[b] # "none" => run[b] # "none"
    BY <1>0, <1>1 DEF Delay!TypeOK
  <2> QED
    BY <1>0, <1>1, <1>2, <1>3, <2>1, <2>2, <2>3 DEF Delay!TypeOK
<1>5. OrderInv'
  BY <1>0, <1>1 DEF Delay!TypeOK, OrderInv
<1>6. ASSUME argsCache' # argsCache PROVE run[a] = "noTask" /\ a \in Delay!Ending
  BY <1>6 DEF Delay!InTask, Delay!Start, Delay!Run, Delay!PopTask, Delay!PopArgs, Delay!PopTime, Delay!Step,
              Delay!caches, Delay!Ending
<1>7. OwnInv'
  <2>1. ASSUME NEW b \in Calls \ overlapped', call[b] \in {"cancel", "schedule"}
        PROVE  argsCache' = argsCache
    BY <1>2, <1>6, <2>1, AloneUnderWay DEF Delay!UnderWay
  <2> QED
    BY <1>0, <1>1, <1>2, <2>1 DEF OwnInv
<1>8. ASSUME NEW x \in Calls, Safe(x) PROVE Safe(x)'
  <2>1. CASE x \in handled
    BY <1>3, <2>1 DEF Safe
  <2>2. ASSUME NEW b \in Calls, x \in snap[b],
               run[b] \in {"submitted", "running"} \/ (run[b] = "sleeping" /\ b # taskCache)
        PROVE  Safe(x)'
    <3>1. b # taskCache => b # taskCache'
      BY <1>0, <1>3 DEF Delay!NoneAssumption
    <3>2. CASE b # a
      BY <1>0, <1>1, <2>2, <3>1, <3>2 DEF Safe, Delay!TypeOK
    <3>3. CASE b = a /\ run[a] \in {"submitted", "sleeping"}
      <4>1. run' = [run EXCEPT ![a] = "running"]
        BY <3>3 DEF Delay!InTask, Delay!Start, Delay!Run, Delay!PopTask, Delay!PopArgs, Delay!PopTime,
                    Delay!Step
      <4> QED
        BY <1>0, <1>1, <2>2, <3>3, <4>1 DEF Safe, Delay!TypeOK
    <3>4. CASE b = a /\ run[a] = "running"
      <4>1. handled' = handled \cup snap[a]
        BY <3>4 DEF Delay!InTask, Delay!Start, Delay!Run, Delay!PopTask, Delay!PopArgs, Delay!PopTime,
                    Delay!Step
      <4> QED
        BY <2>2, <3>4, <4>1 DEF Safe
    <3> QED
      BY <2>2, <3>2, <3>3, <3>4
  <2> QED
    BY <1>8, <2>1, <2>2 DEF Safe
<1>9. ASSUME NEW x \in Calls, Waits(x) PROVE Kept(x)'
  <2>1. a \notin Delay!Ending /\ argsCache' = argsCache
    BY <1>6, <1>9 DEF Waits
  <2>2. CASE Delay!Start(a)
    <3>1. /\ run' = [run EXCEPT ![a] = "running"] /\ UNCHANGED <<taskCache, argsCache>>
          /\ run[a] \in {"sleeping", "submitted"}
      BY <2>2 DEF Delay!Start, Delay!Step, Delay!caches
    <3>2. CASE a = taskCache
      BY <1>0, <1>1, <1>9, <3>1, <3>2 DEF Kept, Safe, Waits, Delay!TypeOK
    <3>3. CASE a # taskCache
      <4>1. Delay!Ending' = {}
        BY <1>0, <1>9, <3>1 DEF Waits, Delay!Ending, Delay!TypeOK
      <4> QED
        BY <1>0, <1>1, <1>9, <3>1, <3>3, <4>1 DEF Kept, Waits, Delay!TypeOK, Delay!UnderWay
    <3> QED
      BY <3>2, <3>3
  <2>3. CASE Delay!Run(a)
    <3>1. /\ run' = [run EXCEPT ![a] = "ran"] /\ UNCHANGED <<taskCache, argsCache>>
          /\ run[a] = "running"
      BY <2>3 DEF Delay!Run, Delay!Step, Delay!caches
    <3>2. Delay!Ending' = {}
      BY <1>0, <1>9, <3>1 DEF Waits, Delay!Ending, Delay!TypeOK
    <3>3. Waits(x)'
      BY <1>0, <1>1, <1>9, <3>1, <3>2 DEF Waits, Delay!TypeOK, Delay!UnderWay
    <3> QED
      BY <3>3 DEF Kept
  <2>4. CASE Delay!PopTask(a)
    <3>1. run' = [run EXCEPT ![a] = "noTask"] /\ taskCache' = None /\ run[a] = "ran"
      BY <2>4 DEF Delay!PopTask, Delay!Step, Delay!DropTask
    <3> QED
      BY <1>0, <1>1, <1>9, <3>1 DEF Kept, Safe, Waits, Delay!TypeOK
  <2>5. ~ Delay!PopArgs(a) /\ ~ Delay!PopTime(a)
    BY <2>1 DEF Delay!PopArgs, Delay!PopTime, Delay!Step, Delay!Ending
  <2> QED
    BY <2>2, <2>3, <2>4, <2>5 DEF Delay!InTask
<1>10. ASSUME NEW x \in Calls, Kept(x) PROVE Kept(x)'
  <2>1. CASE Delay!Disturbed(x)
    BY <2>1, DisturbedStays DEF Kept
  <2>2. CASE Safe(x)
    BY <1>8, <2>2 DEF Kept
  <2>3. CASE Waits(x)
    BY <1>9, <2>3
  <2>4. CASE TakenOver(x)
    BY <1>1, <2>4 DEF Kept, TakenOver, Delay!Disturbed
  <2> QED
    BY <1>10, <2>1, <2>2, <2>3, <2>4 DEF Kept
<1> QED
  BY <1>1, <1>2, <1>4, <1>5, <1>7, <1>10 DEF DelayInv

LEMMA DelayStep ==
    ASSUME Delay!NoneAssumption, DelayInv, [Delay!Next]_(Delay!vars)
    PROVE  DelayInv'
<1>1. CASE UNCHANGED Delay!vars
  BY <1>1 DEF Delay!vars, Delay!caches, DelayInv, Delay!TypeOK, NoticeInv, OrderInv, OwnInv, Kept, Safe,
              Waits, TakenOver, Delay!Disturbed, Delay!UnderWay, Delay!Ending
<1> QED
  BY <1>1, GetKeeps, MergeKeeps, CancelKeeps, ScheduleKeeps, TaskKeeps DEF Delay!Next, Delay!InCall

LEMMA DelayBegins ==
    ASSUME Delay!NoneAssumption, Delay!Init
    PROVE  DelayInv
<1>1. Delay!UnderWay = {} /\ Delay!Ending = {}
  BY DEF Delay!Init, Delay!UnderWay, Delay!Ending
<1>2. timeCache \in BOOLEAN
  BY DEF Delay!Init
<1>3. Delay!TypeOK
  BY <1>2 DEF Delay!Init, Delay!TypeOK, Delay!PcStates, Delay!TaskStates
<1> QED
  BY <1>1, <1>3, FS_EmptySet DEF Delay!Init, DelayInv, NoticeInv, OrderInv, OwnInv

\* merge_delay_run: types hold, and the arguments of a call are lost only when the call, or one
\* that took them over, was overlapped by another call or by the end of a run.
THEOREM UndisturbedCallsAreKept ==
    ASSUME Delay!NoneAssumption
    PROVE  Delay!Spec => [](Delay!TypeOK /\ Delay!LossNeedsOverlap)
<1>1. Delay!Init => DelayInv
  BY DelayBegins
<1>2. DelayInv /\ [Delay!Next]_(Delay!vars) => DelayInv'
  BY DelayStep
<1>3. DelayInv => Delay!TypeOK /\ Delay!LossNeedsOverlap
  BY DEF DelayInv, Kept, Safe, Waits, TakenOver, Delay!TypeOK, Delay!LossNeedsOverlap, Delay!Dropped,
         Delay!Carried
<1> QED
  BY <1>1, <1>2, <1>3, PTL DEF Delay!Spec

-----------------------------------------------------------------------------
(* CountCache: a wrong count has its reason.                               *)

\* The readers of the counts, their fields, and the hash.
CONSTANTS Reader, Field, Uncounted, Timed, Unmapped, MaxVersion, Losses
VARIABLES counted, writing, early, pending, hash, countlock, reader, lost, suspect, unheard
Cache == INSTANCE CountCache WITH None <- Uncounted, db <- counted, lock <- countlock

AnyCounts == [Field -> Nat \cup {Uncounted}]
Readers ==
    [pc : {"idle", "load", "wait", "check", "compute", "reload", "answer", "failed"},
     field : Field \cup {Uncounted}, data : AnyCounts, todo : SUBSET (Field \cup {Uncounted}), got : AnyCounts,
     again : BOOLEAN]

\* TypeOK but for the bound.
CountTypes ==
    /\ counted \in [Field -> Nat]
    /\ writing \subseteq Field /\ pending \subseteq Field
    /\ lost \subseteq Field /\ suspect \subseteq Field /\ unheard \subseteq Field
    /\ hash \in AnyCounts
    /\ reader \in [Reader -> Readers]

Excused(f) == f \in pending \cup lost \cup suspect \cup unheard
CountsExcused == \A r \in Reader, f \in Field : reader[r].got[f] \notin {Uncounted, counted[f]} => Excused(f)
HashExcused == \A f \in Field : hash[f] \notin {Uncounted, counted[f]} => Excused(f)

CountInv == CountTypes /\ CountsExcused /\ HashExcused

LEMMA CountInit == ASSUME Cache!CacheAssumption PROVE Cache!Init => CountInv
<1> SUFFICES ASSUME Cache!Init PROVE CountInv OBVIOUS
<1> USE DEF Cache!Init
<1>1. Cache!NoCounts \in AnyCounts /\ \A f \in Field : Cache!NoCounts[f] = Uncounted
  BY DEF Cache!NoCounts, AnyCounts
<1>2. counted \in [Field -> Nat] /\ hash \in AnyCounts
  BY <1>1
<1>3. \A r \in Reader : reader[r] \in Readers /\ reader[r].got = Cache!NoCounts
  BY <1>1 DEF Readers
<1>4. reader \in [Reader -> Readers]
  BY <1>3
<1>5. CountTypes BY <1>2, <1>4 DEF CountTypes
<1>6. CountsExcused /\ HashExcused
  BY <1>1, <1>3 DEF CountsExcused, HashExcused
<1>7. QED BY <1>5, <1>6 DEF CountInv

\* A change and its expiry: what somebody has counted is suspect from then on.
LEMMA ChangesOfCount ==
    ASSUME Cache!CacheAssumption, CountInv, NEW f \in Field,
           \/ Cache!Write(f) \/ Cache!Commit(f) \/ Cache!Pass(f) \/ Cache!Rollback(f)
           \/ Cache!Expire(f) \/ Cache!ExpireEarly(f) \/ Cache!Lose(f)
    PROVE  CountInv'
<1> USE DEF CountInv, CountTypes, CountsExcused, HashExcused, Excused, AnyCounts, Cache!Others
<1>1. CASE Cache!Write(f) BY <1>1 DEF Cache!Write
<1>2. CASE Cache!Commit(f) \/ Cache!Pass(f)
  <2>1. counted' \in [Field -> Nat] /\ (\A g \in Field \ {f} : counted'[g] = counted[g])
    BY <1>2 DEF Cache!Commit, Cache!Pass
  <2>2. UNCHANGED <<hash, reader, suspect>> /\ writing' \subseteq writing
    BY <1>2 DEF Cache!Commit, Cache!Pass, Cache!Ended
  <2>3. /\ pending \subseteq pending' /\ pending' \subseteq Field
        /\ lost \subseteq lost' /\ lost' \subseteq Field
        /\ unheard \subseteq unheard' /\ unheard' \subseteq Field
    BY <1>2 DEF Cache!Commit, Cache!Pass, Cache!Unheard
  \* Either the change is heard of, or what was counted of the field is marked.
  <2>4. f \in pending' \cup lost' \/ Cache!Unheard(f)
    BY <1>2 DEF Cache!Commit, Cache!Pass
  <2>5. (hash[f] # Uncounted \/ \E r \in Reader : reader[r].got[f] # Uncounted)
           => f \in pending' \cup lost' \cup unheard'
    BY <2>4 DEF Cache!Unheard, Cache!Counted
  <2>6. CountTypes'
    BY <2>1, <2>2, <2>3
  <2>7. ASSUME NEW r \in Reader, NEW g \in Field, reader[r].got[g] \notin {Uncounted, counted'[g]}
        PROVE  g \in pending' \cup lost' \cup suspect' \cup unheard'
    BY <2>1, <2>2, <2>3, <2>5, <2>7
  <2>8. ASSUME NEW g \in Field, hash[g] \notin {Uncounted, counted'[g]}
        PROVE  g \in pending' \cup lost' \cup suspect' \cup unheard'
    BY <2>1, <2>2, <2>3, <2>5, <2>8
  <2>9. QED BY <2>2, <2>6, <2>7, <2>8
<1>3. CASE Cache!Rollback(f) BY <1>3 DEF Cache!Rollback, Cache!Ended
<1>4. CASE Cache!Drop(f) /\ pending \ {f} \subseteq pending' /\ pending' \subseteq pending
  <2>1. CountTypes' BY <1>4 DEF Cache!Drop
  <2>2. UNCHANGED <<counted, reader>> /\ lost' = lost \ {f} /\ unheard' = unheard \ {f}
    BY <1>4 DEF Cache!Drop
  <2>3. ASSUME NEW r \in Reader, NEW g \in Field, reader[r].got[g] \notin {Uncounted, counted[g]}
        PROVE  g \in pending' \cup lost' \cup suspect' \cup unheard'
    <3>1. CASE g = f
      <4>1. Cache!Counted(f) BY <2>3, <3>1 DEF Cache!Counted
      <4>2. QED BY <1>4, <3>1, <4>1 DEF Cache!Drop
    <3>2. CASE g # f
      <4>1. suspect \ {f} \subseteq suspect' BY <1>4 DEF Cache!Drop
      <4>2. QED BY <1>4, <2>2, <2>3, <3>2, <4>1
    <3>3. QED BY <3>1, <3>2
  <2>4. ASSUME NEW g \in Field, hash'[g] \notin {Uncounted, counted[g]}
        PROVE  g \in pending' \cup lost' \cup suspect' \cup unheard'
    <3>1. g # f /\ hash'[g] = hash[g] BY <1>4, <2>4 DEF Cache!Drop
    <3>2. suspect \ {f} \subseteq suspect' BY <1>4 DEF Cache!Drop
    <3>3. QED BY <1>4, <2>2, <2>4, <3>1, <3>2
  <2>5. QED BY <2>1, <2>2, <2>3, <2>4
<1>5. CASE Cache!Expire(f)
  <2>1. Cache!Drop(f) /\ pending' = pending \ {f} BY <1>5 DEF Cache!Expire
  <2>2. QED BY <1>4, <2>1
<1>6. CASE Cache!ExpireEarly(f)
  <2>1. Cache!Drop(f) /\ pending' = pending BY <1>6 DEF Cache!ExpireEarly
  <2>2. QED BY <1>4, <2>1
<1>7. CASE Cache!Lose(f) BY <1>7 DEF Cache!Lose
<1>8. QED BY <1>1, <1>2, <1>3, <1>5, <1>6, <1>7

\* The command empties the hash, and a lost expiry stays so only for what was counted.
LEMMA ExpireAllOfCount == ASSUME Cache!CacheAssumption, CountInv, Cache!ExpireAll PROVE CountInv'
<1> USE DEF CountInv, CountTypes, CountsExcused, HashExcused, Excused, AnyCounts, Cache!ExpireAll
<1>1. hash' \in AnyCounts /\ \A f \in Field : hash'[f] = Uncounted
  BY DEF Cache!NoCounts
<1>2. CountTypes' BY <1>1
<1>3. \A r \in Reader, f \in Field : reader[r].got[f] # Uncounted => Cache!Counted(f)
  BY DEF Cache!Counted
<1>4. QED BY <1>1, <1>2, <1>3

\* A step that changes neither the hash nor what was counted.
LEMMA CountsStay ==
    ASSUME CountInv, UNCHANGED <<Cache!Changes, hash>>, reader' \in [Reader -> Readers],
           \A r \in Reader : reader'[r].got = reader[r].got
    PROVE  CountInv'
BY DEF CountInv, CountTypes, CountsExcused, HashExcused, Excused, Cache!Changes

\* A request: what it counts is current, and what it stores it has counted.
LEMMA ReaderOfCount ==
    ASSUME Cache!CacheAssumption, CountInv, NEW r \in Reader,
           (\E f \in Field : Cache!Ask(r, f)) \/ Cache!TakeLock(r) \/ Cache!Read(r)
    PROVE  CountInv'
<1> USE DEF CountInv, CountTypes
<1>1. Cache!NoCounts \in AnyCounts /\ \A f \in Field : Cache!NoCounts[f] = Uncounted
  BY DEF Cache!NoCounts, AnyCounts
<1>2. CASE \E f \in Field : Cache!Ask(r, f)
  <2>1. PICK f \in Field, data \in {reader[r].data, Cache!NoCounts} :
          reader' = [reader EXCEPT ![r] = [@ EXCEPT !.pc = "load", !.field = f, !.data = data,
                                                    !.again = FALSE]]
    BY <1>2 DEF Cache!Ask
  <2>2. reader' \in [Reader -> Readers] /\ \A s \in Reader : reader'[s].got = reader[s].got
    BY <1>1, <2>1, ZenonT(60) DEF Readers
  <2>3. QED BY <1>2, <2>2, CountsStay DEF Cache!Ask
<1>3. CASE Cache!Load(r)
  <2>1. reader' \in [Reader -> Readers] /\ \A s \in Reader : reader'[s].got = reader[s].got
    BY <1>3 DEF Cache!Load, Cache!Go, Readers
  <2>2. QED BY <1>3, <2>1, CountsStay DEF Cache!Load
<1>4. CASE Cache!TakeLock(r)
  <2>1. reader' \in [Reader -> Readers] /\ \A s \in Reader : reader'[s].got = reader[s].got
    BY <1>4 DEF Cache!TakeLock, Cache!Go, Readers
  <2>2. QED BY <1>4, <2>1, CountsStay DEF Cache!TakeLock
<1>5. CASE Cache!Check(r)
  <2>1. reader' \in [Reader -> Readers] /\ \A s \in Reader : reader'[s].got = reader[s].got
    BY <1>5 DEF Cache!Check, Cache!Compute, Readers
  <2>2. QED BY <1>5, <2>1, CountsStay DEF Cache!Check
<1>6. CASE Cache!Reload(r)
  <2>1. reader' \in [Reader -> Readers] /\ \A s \in Reader : reader'[s].got = reader[s].got
    BY <1>6 DEF Cache!Reload, Readers
  <2>2. QED BY <1>6, <2>1, CountsStay DEF Cache!Reload
<1>7. CASE Cache!Answer(r)
  <2>1. reader' \in [Reader -> Readers] /\ \A s \in Reader : reader'[s].got = reader[s].got
    <3> DEFINE me == reader[r]
               missing == me.data # Cache!NoCounts /\ me.data[me.field] = Uncounted /\ ~ me.again
    <3>1. CASE me.data = Cache!NoCounts
      <4>1. Cache!Go(r, "failed") BY <1>7, <3>1 DEF Cache!Answer
      <4>2. QED BY <4>1 DEF Cache!Go, Readers
    <3>2. CASE missing
      <4>2. /\ (IF Cache!Filled THEN hash ELSE me.data) \in AnyCounts
            /\ (IF Cache!Filled THEN {me.field} ELSE Field) \subseteq Field \cup {Uncounted}
        BY DEF Readers
      <4> DEFINE data == IF Cache!Filled THEN hash ELSE me.data
                 rest == IF Cache!Filled THEN {me.field} ELSE Field
      <4>1. reader' = [reader EXCEPT ![r] = [me EXCEPT !.pc = "compute", !.again = TRUE,
                                                       !.data = data, !.todo = rest]]
        BY <1>7, <3>2 DEF Cache!Answer
      <4>3. reader'[r] = [me EXCEPT !.pc = "compute", !.again = TRUE, !.data = data, !.todo = rest]
        BY <4>1
      <4>4. \A s \in Reader \ {r} : reader'[s] = reader[s]
        BY <4>1
      <4> HIDE DEF data, rest
      <4>5. data \in AnyCounts /\ rest \in SUBSET (Field \cup {Uncounted})
        BY <4>2 DEF data, rest
      <4>6. reader'[r] \in Readers /\ reader'[r].got = me.got
        <5>1. me \in Readers OBVIOUS
        <5> HIDE DEF me, CountInv, CountTypes
        <5>2. QED BY <4>3, <4>5, <5>1, ZenonT(60) DEF Readers
      <4>7. reader' \in [Reader -> Readers]
        BY <4>1, <4>4, <4>6
      <4>8. QED BY <4>4, <4>6, <4>7
    <3>3. CASE me.data # Cache!NoCounts /\ ~ missing
      <4>1. Cache!Go(r, "idle") BY <1>7, <3>3 DEF Cache!Answer
      <4>2. QED BY <4>1 DEF Cache!Go, Readers
    <3>4. QED BY <3>1, <3>2, <3>3
  <2>2. QED BY <1>7, <2>1, CountsStay DEF Cache!Answer
<1>8. CASE \E f \in Field : Cache!Count(r, f)
  <2>1. PICK f \in Field : Cache!Count(r, f) BY <1>8
  <2>2. counted[f] \in Nat BY <2>1
  <2>3. reader' \in [Reader -> Readers]
    <3>1. [reader[r].got EXCEPT ![f] = counted[f]] \in AnyCounts
      BY <2>2 DEF Readers, AnyCounts
    <3>2. reader' = [reader EXCEPT ![r].todo = @ \ {f}, ![r].got[f] = counted[f]]
      BY <2>1 DEF Cache!Count
    <3>3. \A s \in Reader \ {r} : reader'[s] = reader[s]
      BY <3>2
    <3>4. reader'[r] = [reader[r] EXCEPT !.todo = @ \ {f}, !.got = [reader[r].got EXCEPT ![f] = counted[f]]]
      BY <3>2 DEF Readers
    <3>5. reader'[r] \in Readers
      BY <3>1, <3>4, ZenonT(60) DEF Readers
    <3>6. QED BY <3>2, <3>3, <3>5
  <2>4. \A s \in Reader, g \in Field :
          reader'[s].got[g] = IF s = r /\ g = f THEN counted[f] ELSE reader[s].got[g]
    BY <2>1 DEF Cache!Count, Readers, AnyCounts
  <2>5. UNCHANGED <<Cache!Changes, hash>> BY <2>1 DEF Cache!Count
  <2>6. QED BY <2>3, <2>4, <2>5 DEF Cache!Changes, CountsExcused, HashExcused, Excused
<1>9. CASE Cache!Store(r)
  <2>1. reader[r].got \in AnyCounts BY DEF Readers
  <2>2. hash' \in AnyCounts
        /\ \A f \in Field : hash'[f] \in {reader[r].got[f], hash[f]}
    BY <1>9, <2>1 DEF Cache!Store, AnyCounts
  <2>3. reader' \in [Reader -> Readers]
    BY <1>9, <1>1 DEF Cache!Store, Readers
  <2>4. \A s \in Reader, f \in Field : reader'[s].got[f] \in {Uncounted, reader[s].got[f]}
    BY <1>9, <1>1 DEF Cache!Store, Readers
  <2>5. UNCHANGED Cache!Changes BY <1>9 DEF Cache!Store
  <2>6. QED BY <2>2, <2>3, <2>4, <2>5 DEF Cache!Changes, CountsExcused, HashExcused, Excused
<1>10. QED
  BY <1>2, <1>3, <1>4, <1>5, <1>6, <1>7, <1>8, <1>9 DEF Cache!Read

\* Cache: a count that is wrong has its expiry still to come, lost or come too early, or was
\* counted by some request before the expiry and stored after it, or has changed since by the
\* clock or by a change that no receiver maps.
THEOREM WrongCountsAreExcused ==
    ASSUME Cache!CacheAssumption
    PROVE  Cache!Spec => []Cache!StaleNeedsARace
<1>1. Cache!Init => CountInv BY CountInit
<1>2. CountInv /\ [Cache!Next]_(Cache!vars) => CountInv'
  <2> SUFFICES ASSUME CountInv, [Cache!Next]_(Cache!vars) PROVE CountInv' OBVIOUS
  <2>1. CASE UNCHANGED Cache!vars
    BY <2>1 DEF Cache!vars, CountInv, CountTypes, CountsExcused, HashExcused, Excused
  <2>2. QED BY ChangesOfCount, ExpireAllOfCount, ReaderOfCount, <2>1 DEF Cache!Next
<1>3. CountInv => Cache!StaleNeedsARace BY DEF CountInv, HashExcused, Excused, Cache!StaleNeedsARace
<1>4. QED BY <1>1, <1>2, <1>3, PTL DEF Cache!Spec

\* A request that is not idle asks for a field.
AnyReader ==
    [pc : {"idle", "load", "wait", "check", "compute", "reload", "answer", "failed"},
     field : Field \cup {Uncounted}, data : Cache!Counts, todo : SUBSET Field, got : Cache!Counts,
     again : BOOLEAN]
Asks(a) == a.pc # "idle" => a.field \in Field
BoundsInv ==
    /\ Cache!TypeOK
    /\ \A f \in writing : counted[f] < MaxVersion
    /\ \A r \in Reader : Asks(reader[r])

LEMMA NothingCounted == Cache!NoCounts \in Cache!Counts
BY DEF Cache!NoCounts, Cache!Counts

\* A step of one request that leaves the changes alone.
LEMMA OneReads ==
    ASSUME BoundsInv, NEW r \in Reader, NEW a \in AnyReader, Asks(a), reader' = [reader EXCEPT ![r] = a],
           UNCHANGED Cache!Changes, hash' \in Cache!Counts, countlock' \in Reader \cup {Nobody}
    PROVE  BoundsInv'
<1>1. reader \in [Reader -> AnyReader]
  BY DEF BoundsInv, Cache!TypeOK, AnyReader
<1>2. reader' \in [Reader -> AnyReader] /\ \A s \in Reader : Asks(reader'[s])
  BY <1>1 DEF BoundsInv
<1>3. reader' \in [Reader -> AnyReader] => Cache!TypeOK'
  BY DEF BoundsInv, Cache!TypeOK, Cache!Changes, AnyReader
<1> QED
  BY <1>2, <1>3 DEF BoundsInv, Cache!Changes

\* A change of a field, its expiry, or the command.
LEMMA ChangesAreBounded ==
    ASSUME Cache!CacheAssumption, BoundsInv,
           UNCHANGED <<countlock, reader>>, hash' \in Cache!Counts,
           counted' \in [Field -> Cache!Version], \A f \in writing' : counted'[f] < MaxVersion,
           writing' \subseteq Field, early' \subseteq writing', pending' \subseteq Field,
           lost' \subseteq Field, suspect' \subseteq Field, unheard' \subseteq Field
    PROVE  BoundsInv'
BY DEF BoundsInv, Cache!TypeOK, Asks

LEMMA BoundsStep ==
    ASSUME Cache!CacheAssumption, BoundsInv, [Cache!Next]_(Cache!vars)
    PROVE  BoundsInv'
<1>1. ASSUME NEW f \in Field,
             \/ Cache!Write(f) \/ Cache!Rollback(f) \/ Cache!Lose(f)
             \/ Cache!Expire(f) \/ Cache!ExpireEarly(f)
      PROVE  BoundsInv'
  <2>1. counted' = counted /\ \A g \in writing' : counted[g] < MaxVersion
    BY <1>1 DEF BoundsInv, Cache!Write, Cache!Rollback, Cache!Lose, Cache!Ended, Cache!Expire,
       Cache!ExpireEarly, Cache!Drop
  <2>2. hash' \in Cache!Counts
    BY <1>1 DEF BoundsInv, Cache!TypeOK, Cache!Counts, Cache!Write, Cache!Rollback, Cache!Lose, Cache!Expire,
       Cache!ExpireEarly, Cache!Drop, Cache!Others
  <2>3. /\ writing' \subseteq Field /\ early' \subseteq writing' /\ pending' \subseteq Field
        /\ lost' \subseteq Field /\ suspect' \subseteq Field /\ unheard' \subseteq Field
        /\ UNCHANGED <<countlock, reader>>
    BY <1>1 DEF BoundsInv, Cache!TypeOK, Cache!Write, Cache!Rollback, Cache!Lose, Cache!Ended, Cache!Expire,
       Cache!ExpireEarly, Cache!Drop, Cache!Others
  <2> QED
    BY <2>1, <2>2, <2>3, ChangesAreBounded DEF BoundsInv, Cache!TypeOK
<1>2. ASSUME NEW f \in Field, Cache!Commit(f) \/ Cache!Pass(f) PROVE BoundsInv'
  <2>1. counted' = [counted EXCEPT ![f] = @ + 1] /\ counted[f] < MaxVersion
    BY <1>2 DEF BoundsInv, Cache!TypeOK, Cache!Version, Cache!CacheAssumption, Cache!Commit, Cache!Pass
  <2>2. writing' = writing \ {f} \/ (writing' = writing /\ (f \in writing => counted[f] + 1 < MaxVersion))
    BY <1>2 DEF BoundsInv, Cache!Commit, Cache!Pass, Cache!Ended
  <2>3. counted' \in [Field -> Cache!Version] /\ \A g \in writing' : counted'[g] < MaxVersion
    BY <2>1, <2>2 DEF BoundsInv, Cache!TypeOK, Cache!Version, Cache!CacheAssumption
  <2>4. /\ writing' \subseteq Field /\ early' \subseteq writing'
        /\ UNCHANGED <<countlock, reader, suspect>> /\ hash' \in Cache!Counts
    BY <1>2 DEF BoundsInv, Cache!TypeOK, Cache!Commit, Cache!Pass, Cache!Ended, Cache!Others
  <2>5. pending' \subseteq Field /\ lost' \subseteq Field /\ unheard' \subseteq Field
    BY <1>2 DEF BoundsInv, Cache!TypeOK, Cache!Commit, Cache!Pass, Cache!Unheard
  <2> QED
    BY <2>3, <2>4, <2>5, ChangesAreBounded DEF BoundsInv, Cache!TypeOK
<1>3. CASE Cache!ExpireAll
  BY <1>3, NothingCounted, ChangesAreBounded DEF BoundsInv, Cache!TypeOK, Cache!ExpireAll
<1>4. ASSUME NEW r \in Reader, NEW f \in Field, Cache!Ask(r, f) PROVE BoundsInv'
  <2>1. PICK data \in {reader[r].data, Cache!NoCounts} :
          reader' = [reader EXCEPT ![r] = [@ EXCEPT !.pc = "load", !.field = f, !.data = data,
                                                    !.again = FALSE]]
    BY <1>4 DEF Cache!Ask
  <2> DEFINE a == [reader[r] EXCEPT !.pc = "load", !.field = f, !.data = data, !.again = FALSE]
  <2>2. reader[r] \in AnyReader /\ data \in Cache!Counts
    BY NothingCounted DEF BoundsInv, Cache!TypeOK, AnyReader
  <2>3. a \in AnyReader /\ Asks(a)
    BY <2>2 DEF AnyReader, Asks
  <2>4. reader' = [reader EXCEPT ![r] = a]
    BY <2>1
  <2> HIDE DEF a
  <2> QED
    BY <1>4, <2>3, <2>4, OneReads DEF BoundsInv, Cache!TypeOK, Cache!Ask
<1>5. ASSUME NEW r \in Reader, Cache!TakeLock(r) \/ Cache!Read(r) PROVE BoundsInv'
  <2> DEFINE me == reader[r]
  <2>1. me \in AnyReader /\ Asks(me) /\ hash \in Cache!Counts /\ countlock \in Reader \cup {Nobody}
    BY DEF BoundsInv, Cache!TypeOK, AnyReader
  <2>2. PICK a \in AnyReader : Asks(a) /\ reader' = [reader EXCEPT ![r] = a]
    <3> DEFINE To(a) == a \in AnyReader /\ Asks(a) /\ reader' = [reader EXCEPT ![r] = a]
    <3> SUFFICES \E a : To(a)
      OBVIOUS
    <3>1. CASE Cache!TakeLock(r)
      <4>1. To([me EXCEPT !.pc = "check"])
        BY <2>1, <3>1 DEF Cache!TakeLock, Cache!Go, AnyReader, Asks
      <4> QED BY <4>1
    <3>2. CASE Cache!Load(r)
      <4>1. CASE me.data # Cache!NoCounts
        <5>1. To([me EXCEPT !.pc = "answer"])
          BY <2>1, <3>2, <4>1 DEF Cache!Load, Cache!Go, AnyReader, Asks
        <5> QED BY <5>1
      <4>2. CASE me.data = Cache!NoCounts
        <5>1. To([me EXCEPT !.data = hash, !.pc = IF Cache!Filled THEN "answer" ELSE "wait"])
          BY <2>1, <3>2, <4>2 DEF Cache!Load, AnyReader, Asks
        <5> QED BY <5>1
      <4> QED BY <4>1, <4>2
    <3>3. CASE Cache!Check(r)
      <4>1. CASE Cache!Filled
        <5>1. To([me EXCEPT !.data = hash, !.pc = "answer"])
          BY <2>1, <3>3, <4>1 DEF Cache!Check, AnyReader, Asks
        <5> QED BY <5>1
      <4>2. CASE ~Cache!Filled
        <5>1. To([me EXCEPT !.pc = "compute", !.todo = Field])
          BY <2>1, <3>3, <4>2 DEF Cache!Check, Cache!Compute, AnyReader, Asks
        <5> QED BY <5>1
      <4> QED BY <4>1, <4>2
    <3>4. CASE Cache!Store(r)
      <4>1. To([me EXCEPT !.got = Cache!NoCounts, !.pc = "reload"])
        BY <2>1, <3>4, NothingCounted DEF Cache!Store, AnyReader, Asks
      <4> QED BY <4>1
    <3>5. CASE Cache!Reload(r)
      <4>1. To([me EXCEPT !.data = IF Cache!Filled THEN hash ELSE @, !.pc = "answer"])
        BY <2>1, <3>5 DEF Cache!Reload, AnyReader, Asks
      <4> QED BY <4>1
    <3>6. CASE Cache!Answer(r)
      <4> DEFINE data == IF Cache!Filled THEN hash ELSE me.data
                 rest == IF Cache!Filled THEN {me.field} ELSE Field
      <4>1. me.field \in Field
        BY <2>1, <3>6 DEF Cache!Answer, Asks
      <4>2. data \in Cache!Counts /\ rest \in SUBSET Field
        BY <2>1, <4>1 DEF AnyReader
      <4>3. \/ reader' = [reader EXCEPT ![r].pc = "failed"]
            \/ reader' = [reader EXCEPT ![r].pc = "idle"]
            \/ reader' = [reader EXCEPT ![r] = [me EXCEPT !.pc = "compute", !.again = TRUE,
                                                          !.data = data, !.todo = rest]]
        <5> DEFINE missing == me.data # Cache!NoCounts /\ me.data[me.field] = Uncounted /\ ~ me.again
        <5>1. CASE me.data = Cache!NoCounts
          BY <3>6, <5>1 DEF Cache!Answer, Cache!Go
        <5>2. CASE missing
          BY <3>6, <5>2 DEF Cache!Answer, Cache!Go
        <5>3. CASE me.data # Cache!NoCounts /\ ~missing
          BY <3>6, <5>3 DEF Cache!Answer, Cache!Go
        <5> QED BY <5>1, <5>2, <5>3
      <4> HIDE DEF data, rest
      <4>4. CASE reader' = [reader EXCEPT ![r].pc = "failed"]
        <5>1. To([me EXCEPT !.pc = "failed"])
          BY <2>1, <4>1, <4>4 DEF AnyReader, Asks
        <5> QED BY <5>1
      <4>5. CASE reader' = [reader EXCEPT ![r].pc = "idle"]
        <5>1. To([me EXCEPT !.pc = "idle"])
          BY <2>1, <4>1, <4>5 DEF AnyReader, Asks
        <5> QED BY <5>1
      <4>6. CASE reader' = [reader EXCEPT ![r] = [me EXCEPT !.pc = "compute", !.again = TRUE,
                                                            !.data = data, !.todo = rest]]
        <5>1. To([me EXCEPT !.pc = "compute", !.again = TRUE, !.data = data, !.todo = rest])
          BY <2>1, <4>1, <4>2, <4>6 DEF AnyReader, Asks
        <5> QED BY <5>1
      <4> QED BY <4>3, <4>4, <4>5, <4>6
    <3>7. CASE \E f \in Field : Cache!Count(r, f)
      <4>1. PICK f \in Field : Cache!Count(r, f)
        BY <3>7
      <4> DEFINE got == [me.got EXCEPT ![f] = counted[f]]
      <4>2. got \in Cache!Counts
        BY <2>1 DEF AnyReader, Cache!Counts, BoundsInv, Cache!TypeOK
      <4>3. reader' = [reader EXCEPT ![r] = [me EXCEPT !.todo = @ \ {f}, !.got = got]]
        BY <2>1, <4>1 DEF Cache!Count, AnyReader
      <4> HIDE DEF got
      <4>4. To([me EXCEPT !.todo = @ \ {f}, !.got = got])
        BY <2>1, <4>1, <4>2, <4>3 DEF AnyReader, Asks
      <4> QED BY <4>4
    <3> QED
      BY <1>5, <3>1, <3>2, <3>3, <3>4, <3>5, <3>6, <3>7 DEF Cache!Read
  <2>3. UNCHANGED Cache!Changes /\ countlock' \in Reader \cup {Nobody}
    BY <1>5, <2>1 DEF Cache!Read, Cache!TakeLock, Cache!Load, Cache!Check, Cache!Store, Cache!Reload, Cache!Answer,
       Cache!Count
  <2>4. hash' \in Cache!Counts
    <3>1. CASE Cache!Store(r)
      BY <2>1, <3>1 DEF Cache!Store, AnyReader, Cache!Counts
    <3> QED
      BY <1>5, <2>1, <3>1 DEF Cache!Read, Cache!TakeLock, Cache!Load, Cache!Check, Cache!Reload, Cache!Answer,
         Cache!Count
  <2> QED
    BY <2>2, <2>3, <2>4, OneReads
<1>6. CASE UNCHANGED Cache!vars
  BY <1>6 DEF Cache!vars, BoundsInv, Cache!TypeOK, Asks
<1> QED
  BY <1>1, <1>2, <1>3, <1>4, <1>5, <1>6 DEF Cache!Next

\* OrgResourceStatisticsCache: types hold, whoever counts, stores and expires in whatever order;
\* a request computes fields that there are.
THEOREM CountsAreBounded ==
    ASSUME Cache!CacheAssumption
    PROVE  Cache!Spec => []Cache!TypeOK
<1>1. Cache!Init => BoundsInv
  <2> SUFFICES ASSUME Cache!Init PROVE BoundsInv
    OBVIOUS
  <2>1. \A r \in Reader : reader[r] \in AnyReader /\ Asks(reader[r])
    BY NothingCounted DEF Cache!Init, AnyReader, Asks
  <2>2. reader \in [Reader -> AnyReader]
    BY <2>1 DEF Cache!Init
  <2>3. Cache!TypeOK
    BY <2>2, NothingCounted DEF Cache!Init, Cache!TypeOK, AnyReader, Cache!Version, Cache!CacheAssumption
  <2> QED
    BY <2>1, <2>3 DEF Cache!Init, BoundsInv
<1>2. BoundsInv /\ [Cache!Next]_(Cache!vars) => BoundsInv'
  BY BoundsStep
<1>3. BoundsInv => Cache!TypeOK
  BY DEF BoundsInv
<1> QED
  BY <1>1, <1>2, <1>3, PTL DEF Cache!Spec

-----------------------------------------------------------------------------
(* JobRun: the executions of a job.                                        *)

\* An execution of a job, its task, and what wants to stop or close it.
CONSTANTS Worker, Request, Outcomes
VARIABLES job, jobtask, taskcopy, outcome, worker, pidfile, stop, signal, old, pass, killed
Job == INSTANCE JobRun WITH row <- job, task <- jobtask, copy <- taskcopy

\* Nothing has begun before a worker has the task, and a runner that ended has a status.
NotYetBegun == jobtask \in {"unsent", "queued"} => ~ job.begun
EndedHasStatus == jobtask = "ended" => outcome # "running"

JobInv == Job!TypeOK /\ NotYetBegun /\ EndedHasStatus /\ Job!RunningHasWorker

\* An execution that is created has not begun.
LEMMA JobInit == Job!Init => JobInv
<1> SUFFICES ASSUME Job!Init PROVE JobInv OBVIOUS
<1>1. job \in [status : Job!Status, begun : BOOLEAN] /\ ~ job.begun
  BY DEF Job!Init, Job!Status
<1>2. stop \in [Request -> {"new", "read", "revoke", "kill", "close", "done"}]
  BY DEF Job!Init
<1>3. Job!TypeOK
  BY <1>1, <1>2 DEF Job!Init, Job!TypeOK, Job!Status
<1>4. NotYetBegun /\ EndedHasStatus /\ Job!RunningHasWorker
  BY <1>1 DEF Job!Init, NotYetBegun, EndedHasStatus, Job!RunningHasWorker
<1>5. QED BY <1>3, <1>4 DEF JobInv

USE DEF Job!AtWork, Job!Status

\* The steps of the task itself.
LEMMA JobTaskKeeps ==
    ASSUME Job!JobAssumption, JobInv,
           \/ Job!Send \/ Job!Begin \/ Job!GetRunner \/ Job!Run \/ Job!WritePid \/ Job!Raise
           \/ Job!SetResult \/ Job!SetError \/ Job!Die
           \/ (\E w \in Worker : Job!Receive(w))
           \/ (\E o \in Outcomes : Job!RunnerEnds(o))
    PROVE  JobInv'
<1> USE DEF JobInv, Job!TypeOK, NotYetBegun, EndedHasStatus, Job!RunningHasWorker, Job!Outside
<1>1. CASE Job!Send BY <1>1 DEF Job!Send
<1>2. CASE Job!Begin BY <1>2 DEF Job!Begin
<1>3. CASE Job!GetRunner
  <2>1. job' \in [status : Job!Status, begun : BOOLEAN] /\ job'.begun = job.begun
    BY <1>3 DEF Job!GetRunner
  <2>2. QED BY <1>3, <2>1 DEF Job!GetRunner
<1>4. CASE Job!Run BY <1>4 DEF Job!Run
<1>5. CASE Job!WritePid BY <1>5 DEF Job!WritePid
<1>6. CASE Job!Raise BY <1>6 DEF Job!Raise
<1>7. CASE Job!SetResult
  <2>1. job' \in [status : Job!Status, begun : BOOLEAN] /\ job'.status = outcome
    BY <1>7 DEF Job!SetResult
  <2>2. QED BY <1>7, <2>1 DEF Job!SetResult
<1>8. CASE Job!SetError
  <2>1. job' \in [status : Job!Status, begun : BOOLEAN] /\ job'.status = "failed"
    BY <1>8 DEF Job!SetError
  <2>2. QED BY <1>8, <2>1 DEF Job!SetError
<1>9. CASE Job!Die BY <1>9 DEF Job!Die
<1>10. CASE \E w \in Worker : Job!Receive(w) BY <1>10 DEF Job!Receive
<1>11. CASE \E o \in Outcomes : Job!RunnerEnds(o)
  BY <1>11 DEF Job!RunnerEnds, Job!JobAssumption
<1>12. QED
  BY <1>1, <1>2, <1>3, <1>4, <1>5, <1>6, <1>7, <1>8, <1>9, <1>10, <1>11

\* The requests to stop it, and what they cause.
LEMMA StopKeeps ==
    ASSUME JobInv, NEW h \in Request,
           \/ Job!StopReads(h) \/ Job!Inspect(h) \/ Job!Revoke(h) \/ Job!Publish(h)
           \/ Job!StopCloses(h) \/ Job!Terminate
    PROVE  JobInv'
<1> USE DEF JobInv, Job!TypeOK, NotYetBegun, EndedHasStatus, Job!RunningHasWorker, Job!Inside, Job!Advance
<1>1. CASE Job!StopReads(h) BY <1>1 DEF Job!StopReads
<1>2. CASE Job!Inspect(h) BY <1>2 DEF Job!Inspect
<1>3. CASE Job!Revoke(h) BY <1>3 DEF Job!Revoke
<1>4. CASE Job!Publish(h) BY <1>4 DEF Job!Publish
<1>5. CASE Job!StopCloses(h)
  <2>1. job' \in [status : Job!Status, begun : BOOLEAN] /\ job'.status = "failed" /\ job'.begun = job.begun
    BY <1>5 DEF Job!StopCloses
  <2>2. QED BY <1>5, <2>1 DEF Job!StopCloses
<1>6. CASE Job!Terminate BY <1>6 DEF Job!Terminate
<1>7. QED BY <1>1, <1>2, <1>3, <1>4, <1>5, <1>6

\* The hourly pass.
LEMMA CleanKeeps == ASSUME JobInv, Job!Clean PROVE JobInv'
<1> USE DEF JobInv, Job!TypeOK, NotYetBegun, EndedHasStatus, Job!RunningHasWorker
<1>1. CASE Job!Grow BY <1>1 DEF Job!Grow
<1>2. CASE Job!Find BY <1>2 DEF Job!Find
<1>3. CASE Job!Close
  <2>1. job' \in [status : Job!Status, begun : BOOLEAN] /\ job'.status = "failed" /\ job'.begun = job.begun
    BY <1>3 DEF Job!Close
  <2>2. QED BY <1>3, <2>1, ZenonT(60) DEF Job!Close
<1>4. QED BY <1>1, <1>2, <1>3 DEF Job!Clean

\* _run_ops_job_execution catches what start does not: a begun execution that says running
\* has a task at work on it, or a process that had it was killed.
THEOREM RunsAreWorkedOn ==
    ASSUME Job!JobAssumption
    PROVE  Job!Spec => [](Job!TypeOK /\ Job!RunningHasWorker)
<1>1. Job!Init => JobInv BY JobInit
<1>2. JobInv /\ [Job!Next]_(Job!vars) => JobInv'
  <2> SUFFICES ASSUME JobInv, [Job!Next]_(Job!vars) PROVE JobInv' OBVIOUS
  <2>1. CASE Job!Terminate
    BY <2>1 DEF Job!Terminate, JobInv, Job!TypeOK, NotYetBegun, EndedHasStatus, Job!RunningHasWorker
  <2>2. CASE UNCHANGED Job!vars
    BY <2>2 DEF Job!vars, JobInv, Job!TypeOK, NotYetBegun, EndedHasStatus, Job!RunningHasWorker
  <2>3. QED BY JobTaskKeeps, StopKeeps, CleanKeeps, <2>1, <2>2 DEF Job!Next
<1>3. JobInv => Job!TypeOK /\ Job!RunningHasWorker BY DEF JobInv
<1>4. QED BY <1>1, <1>2, <1>3, PTL DEF Job!Spec

-----------------------------------------------------------------------------
(* DistributedLock: the locks that processes share.                        *)

\* A lock, and the threads and processes that use it.
CONSTANTS Thread, Object, Reentrant, OnCommit, Rollbacks, Deaths
VARIABLES owner, mark, by, open, txn, due
Lock == INSTANCE DistributedLock

\* The objects of a thread are its own, each used for one context.
OwnObjects(t) ==
    /\ \A i \in DOMAIN open[t] : by[open[t][i]] = t
    /\ \A i \in DOMAIN due[t] : by[due[t][i].lock] = t
UsedOnce(t) ==
    /\ \A i, j \in DOMAIN open[t] : open[t][i] = open[t][j] => i = j
    /\ \A i, j \in DOMAIN due[t] : due[t][i].lock = due[t][j].lock => i = j
    /\ \A i \in DOMAIN open[t], j \in DOMAIN due[t] : open[t][i] # due[t][j].lock

\* Releases wait only for a transaction that used the lock.
InOrder(t) ==
    /\ due[t] # << >> => OnCommit /\ txn[t] \in {"used", "ended"}
    /\ txn[t] = "ended" => due[t] # << >> /\ open[t] = << >>
    /\ txn[t] = "open" => open[t] = << >>

\* A plain lock: one context, or the release it left.
Single(t) ==
    /\ open[t] # << >> => Len(open[t]) = 1 /\ due[t] = << >> /\ owner = open[t][1]
    /\ due[t] # << >> => Len(due[t]) = 1 /\ due[t][1] = [lock |-> owner, kind |-> "plain"]
    /\ OnCommit /\ txn[t] = "used" => open[t] # << >> \/ due[t] # << >>

\* A reentrant one: the mark of a thread is the key, which its outermost context or a release
\* that waits will give back, and no other.
Releasing(t) == \E i \in DOMAIN due[t] : due[t][i] = [lock |-> owner, kind |-> "me"]
Outermost(t) == open[t] # << >> /\ open[t][Len(open[t])] = owner
Marked(t) ==
    /\ mark[t] # Nobody => owner = mark[t] /\ by[owner] = t /\ (Releasing(t) \/ Outermost(t))
    /\ open[t] # << >> => mark[t] # Nobody
    /\ OnCommit /\ txn[t] = "used" => mark[t] # Nobody
    /\ \A i \in DOMAIN due[t] : /\ due[t][i].kind # "plain"
                                /\ due[t][i].kind = "me" => due[t][i].lock = mark[t]

ThreadOK(t) ==
    /\ OwnObjects(t) /\ UsedOnce(t) /\ InOrder(t)
    /\ ~ Reentrant => Single(t)
    /\ Reentrant => Marked(t)

Claimed == Lock!LockAssumption /\ ~ (Reentrant /\ OnCommit /\ Rollbacks)
LockInv == Claimed /\ Lock!TypeOK /\ \A t \in Thread : ThreadOK(t)

LEMMA ElementOf ==
    ASSUME NEW S, NEW s \in Seq(S), NEW i \in DOMAIN s
    PROVE  s[i] \in S
  OBVIOUS

LEMMA DueCalls ==
    ASSUME NEW S, NEW K, NEW s \in Seq([lock : S, kind : K]), NEW i \in DOMAIN s
    PROVE  s[i] \in [lock : S, kind : K] /\ s[i].lock \in S /\ s[i].kind \in K
<1>1. s[i] \in [lock : S, kind : K]
  BY ElementOf, Zenon
<1> QED
  BY <1>1

\* A thread another one leaves alone.
LEMMA OthersKeep ==
    ASSUME LockInv, NEW u \in Thread,
           open'[u] = open[u], due'[u] = due[u], txn'[u] = txn[u], mark'[u] = mark[u],
           \A o \in Object : by[o] # Nobody => by'[o] = by[o],
           owner' = owner \/ owner = Nobody \/ by[owner] # u
    PROVE  ThreadOK(u)'
<1>1. /\ open[u] \in Seq(Object) /\ mark[u] \in Object \cup {Nobody} /\ owner \in Object \cup {Nobody}
      /\ due[u] \in Seq([lock : Object, kind : Lock!Kinds])
      /\ ThreadOK(u) /\ u # Nobody /\ Nobody \notin Object
  BY DEF LockInv, Claimed, Lock!LockAssumption, Lock!TypeOK
<1>2. \A i \in DOMAIN open[u] : open[u][i] \in Object
  BY <1>1
<1>3. \A i \in DOMAIN due[u] : due[u][i].lock \in Object
  BY <1>1, DueCalls
<1>4. OwnObjects(u)'
  <2>1. \A i \in DOMAIN open[u] : by'[open[u][i]] = u
    BY <1>1, <1>2 DEF OwnObjects, ThreadOK
  <2>2. \A i \in DOMAIN due[u] : by'[due[u][i].lock] = u
    BY <1>1, <1>3 DEF OwnObjects, ThreadOK
  <2> QED
    BY <2>1, <2>2 DEF OwnObjects
<1>5. UsedOnce(u)' /\ InOrder(u)'
  BY <1>1 DEF UsedOnce, InOrder, ThreadOK
<1>6. ASSUME ~ Reentrant PROVE Single(u)'
  <2>1. Single(u) /\ OwnObjects(u)
    BY <1>1, <1>6 DEF ThreadOK
  <2>2. open[u] # << >> => owner' = owner
    <3> SUFFICES ASSUME open[u] # << >> PROVE owner' = owner
      OBVIOUS
    <3>1. 1 \in DOMAIN open[u] /\ owner = open[u][1]
      BY <1>1, <2>1 DEF Single
    <3> QED
      BY <1>1, <1>2, <2>1, <3>1 DEF OwnObjects
  <2>3. due[u] # << >> => owner' = owner
    <3> SUFFICES ASSUME due[u] # << >> PROVE owner' = owner
      OBVIOUS
    <3>1. 1 \in DOMAIN due[u] /\ due[u][1].lock = owner
      BY <1>1, <2>1 DEF Single
    <3> QED
      BY <1>1, <1>3, <2>1, <3>1 DEF OwnObjects
  <2> QED
    BY <2>1, <2>2, <2>3 DEF Single
<1>7. ASSUME Reentrant PROVE Marked(u)'
  <2>1. Marked(u)
    BY <1>1, <1>7 DEF ThreadOK
  <2>2. mark[u] # Nobody => owner' = owner /\ owner \in Object /\ by'[owner] = u
    BY <1>1, <2>1 DEF Marked
  <2> QED
    BY <2>1, <2>2 DEF Marked, Releasing, Outermost
<1> QED
  BY <1>4, <1>5, <1>6, <1>7 DEF ThreadOK

\* The context a thread enters is its innermost.
LEMMA Pushed ==
    ASSUME NEW S, NEW s \in Seq(S), NEW o \in S, NEW q, q = <<o>> \o s
    PROVE  /\ q \in Seq(S) /\ q # << >> /\ Len(q) = Len(s) + 1 /\ q[1] = o
           /\ \A i \in DOMAIN q : i # 1 => i - 1 \in DOMAIN s /\ q[i] = s[i - 1]
           /\ s # << >> => q[Len(q)] = s[Len(s)]
  OBVIOUS

\* What Entered does to its thread.
LEMMA EnteredKeeps ==
    ASSUME LockInv, NEW t \in Thread, NEW o \in Object, Lock!Entered(t, o)
    PROVE  /\ by' \in [Object -> Thread \cup {Nobody}] /\ by'[o] = t
           /\ \A x \in Object : by[x] # Nobody => by'[x] = by[x]
           /\ open' \in [Thread -> Seq(Object)] /\ open'[t] = <<o>> \o open[t]
           /\ txn' \in [Thread -> {"none", "open", "used", "ended"}]
           /\ txn'[t] = IF txn[t] = "open" THEN "used" ELSE txn[t]
           /\ due' = due
           /\ \A u \in Thread \ {t} : open'[u] = open[u] /\ txn'[u] = txn[u]
           /\ txn[t] # "ended" => OwnObjects(t)' /\ UsedOnce(t)' /\ InOrder(t)'
<1> USE DEF LockInv, Lock!TypeOK, Lock!Entered
<1>1. by' \in [Object -> Thread \cup {Nobody}] /\ by'[o] = t /\ by[o] = Nobody
  OBVIOUS
<1>2. \A x \in Object : by[x] # Nobody => by'[x] = by[x]
  OBVIOUS
<1>3. open'[t] = <<o>> \o open[t] /\ open[t] \in Seq(Object)
  OBVIOUS
<1>4. /\ open'[t] \in Seq(Object) /\ open'[t] # << >> /\ open'[t][1] = o
      /\ \A i \in DOMAIN open'[t] : i # 1 => i - 1 \in DOMAIN open[t] /\ open'[t][i] = open[t][i - 1]
      /\ DOMAIN open'[t] \subseteq Nat
  BY <1>3, Pushed
<1>5. open' \in [Thread -> Seq(Object)]
  BY <1>4
<1>6. txn' \in [Thread -> {"none", "open", "used", "ended"}] /\ txn'[t] = IF txn[t] = "open" THEN "used" ELSE txn[t]
  OBVIOUS
<1>7. \A u \in Thread \ {t} : open'[u] = open[u] /\ txn'[u] = txn[u]
  OBVIOUS
<1>8. /\ OwnObjects(t) /\ UsedOnce(t) /\ InOrder(t)
      /\ due[t] \in Seq([lock : Object, kind : Lock!Kinds])
      /\ \A i \in DOMAIN due[t] : due[t][i].lock \in Object
      /\ \A i \in DOMAIN open[t] : open[t][i] \in Object
      /\ t # Nobody
  <2>1. /\ due[t] \in Seq([lock : Object, kind : Lock!Kinds]) /\ t # Nobody
        /\ OwnObjects(t) /\ UsedOnce(t) /\ InOrder(t)
    BY DEF ThreadOK, Claimed, Lock!LockAssumption
  <2>2. \A i \in DOMAIN due[t] : due[t][i].lock \in Object
    BY <2>1, DueCalls
  <2> QED
    BY <1>3, <2>1, <2>2
<1>9. \A i \in DOMAIN open[t] : open[t][i] # o
  BY <1>1, <1>8 DEF OwnObjects
<1>10. \A i \in DOMAIN due[t] : due[t][i].lock # o
  BY <1>1, <1>8 DEF OwnObjects
<1>11. OwnObjects(t)'
  <2>1. \A i \in DOMAIN open'[t] : by'[open'[t][i]] = t
    BY <1>1, <1>2, <1>4, <1>8 DEF OwnObjects
  <2>2. \A i \in DOMAIN due[t] : by'[due[t][i].lock] = t
    BY <1>2, <1>8 DEF OwnObjects
  <2> QED
    BY <2>1, <2>2 DEF OwnObjects
<1>12. UsedOnce(t)'
  <2>1. \A i, j \in DOMAIN open'[t] : open'[t][i] = open'[t][j] => i = j
    BY <1>4, <1>8, <1>9, SMTT(60) DEF UsedOnce
  <2>2. \A i \in DOMAIN open'[t], j \in DOMAIN due[t] : open'[t][i] # due[t][j].lock
    BY <1>4, <1>8, <1>10 DEF UsedOnce
  <2> QED
    BY <1>8, <2>1, <2>2 DEF UsedOnce
<1>13. txn[t] # "ended" => InOrder(t)'
  BY <1>6, <1>8 DEF InOrder
<1> QED
  BY <1>1, <1>2, <1>3, <1>5, <1>6, <1>7, <1>11, <1>12, <1>13

LEMMA AcquireKeeps ==
    ASSUME LockInv, NEW t \in Thread, NEW o \in Object, Lock!Acquire(t, o)
    PROVE  LockInv'
<1>1. Lock!Entered(t, o) /\ txn[t] # "ended" /\ owner = Nobody /\ owner' = o
  BY DEF Lock!Acquire, Lock!MayAsk
<1>2. /\ mark' \in [Thread -> Object \cup {Nobody}]
      /\ \A u \in Thread \ {t} : mark'[u] = mark[u]
      /\ Reentrant => mark'[t] = o
  BY DEF Lock!Acquire, LockInv, Lock!TypeOK
<1>3. Lock!TypeOK'
  BY <1>1, <1>2, EnteredKeeps DEF LockInv, Lock!TypeOK
<1>4. \A u \in Thread \ {t} : ThreadOK(u)'
  <2> SUFFICES ASSUME NEW u \in Thread \ {t} PROVE ThreadOK(u)'
    OBVIOUS
  <2> QED
    BY <1>1, <1>2, EnteredKeeps, OthersKeep, ZenonT(60)
<1>5. OwnObjects(t)' /\ UsedOnce(t)' /\ InOrder(t)'
  BY <1>1, EnteredKeeps
<1>6. open[t] \in Seq(Object) /\ open'[t] = <<o>> \o open[t] /\ due' = due /\ ThreadOK(t) /\ by'[o] = t
      /\ Nobody \notin Object
  BY <1>1, EnteredKeeps DEF LockInv, Lock!TypeOK, Claimed, Lock!LockAssumption
<1>7. ASSUME ~ Reentrant PROVE Single(t)'
  <2>1. open[t] = << >> /\ due[t] = << >>
    BY <1>7 DEF Lock!Acquire, Lock!MayAsk
  <2>2. open'[t] = <<o>>
    BY <1>6, <2>1
  <2> QED
    BY <1>1, <1>6, <2>1, <2>2 DEF Single
<1>8. ASSUME Reentrant PROVE Marked(t)'
  <2>1. mark[t] = Nobody
    BY <1>1, <1>6, <1>8 DEF ThreadOK, Marked, LockInv, Lock!TypeOK
  <2>2. open[t] = << >> /\ due[t] = << >>
    BY <1>1, <1>6, <1>8, <2>1 DEF ThreadOK, Marked, InOrder
  <2>3. open'[t] = <<o>>
    BY <1>6, <2>2
  <2>4. Outermost(t)'
    BY <1>1, <2>3 DEF Outermost
  <2> QED
    BY <1>1, <1>2, <1>6, <1>8, <2>2, <2>3, <2>4 DEF Marked
<1> QED
  BY <1>3, <1>4, <1>5, <1>7, <1>8 DEF LockInv, ThreadOK, Claimed

LEMMA ReEnterKeeps ==
    ASSUME LockInv, NEW t \in Thread, NEW o \in Object, Lock!ReEnter(t, o)
    PROVE  LockInv'
<1>1. Lock!Entered(t, o) /\ txn[t] # "ended" /\ Reentrant /\ UNCHANGED <<owner, mark>>
      /\ owner # Nobody /\ mark[t] = owner
  BY DEF Lock!ReEnter, Lock!MayAsk, Lock!Mine
<1>2. Lock!TypeOK'
  BY <1>1, EnteredKeeps DEF LockInv, Lock!TypeOK
<1>3. \A u \in Thread \ {t} : ThreadOK(u)'
  <2> SUFFICES ASSUME NEW u \in Thread \ {t} PROVE ThreadOK(u)'
    OBVIOUS
  <2> QED
    BY <1>1, EnteredKeeps, OthersKeep, ZenonT(60)
<1>4. OwnObjects(t)' /\ UsedOnce(t)' /\ InOrder(t)'
  BY <1>1, EnteredKeeps
<1>5. open[t] \in Seq(Object) /\ open'[t] = <<o>> \o open[t] /\ due' = due /\ Marked(t) /\ Nobody \notin Object
      /\ by'[owner] = t
  <2>1. owner \in Object /\ by[owner] = t /\ t # Nobody
    BY <1>1 DEF LockInv, ThreadOK, Marked, Lock!TypeOK, Claimed, Lock!LockAssumption
  <2> QED
    BY <1>1, <2>1, EnteredKeeps DEF LockInv, Lock!TypeOK, Claimed, Lock!LockAssumption, ThreadOK
<1>6. open'[t] # << >> /\ (Outermost(t) => Outermost(t)')
  BY <1>1, <1>5, Pushed DEF Outermost
<1>7. Marked(t)'
  BY <1>1, <1>5, <1>6 DEF Marked, Releasing
<1> QED
  BY <1>1, <1>2, <1>3, <1>4, <1>7 DEF LockInv, ThreadOK, Claimed

LEMMA EmptyOf ==
    ASSUME NEW S, NEW s \in Seq(S)
    PROVE  Len(s) = 0 <=> s = << >>
  OBVIOUS

\* The context a thread leaves is its innermost.
LEMMA Popped ==
    ASSUME NEW S, NEW s \in Seq(S), s # << >>
    PROVE  /\ Tail(s) \in Seq(S) /\ Len(Tail(s)) = Len(s) - 1 /\ Head(s) = s[1] /\ Head(s) \in S
           /\ 1 \in DOMAIN s /\ Len(s) \in DOMAIN s
           /\ \A i \in DOMAIN Tail(s) : i + 1 \in DOMAIN s /\ i \in Nat \ {0} /\ Tail(s)[i] = s[i + 1]
           /\ \A i \in DOMAIN s : i # 1 => i - 1 \in DOMAIN Tail(s) /\ Tail(s)[i - 1] = s[i]
           /\ Len(s) # 1 => Tail(s) # << >> /\ Tail(s)[Len(Tail(s))] = s[Len(s)]
           /\ Len(s) = 1 => Tail(s) = << >>
<1>1. /\ Tail(s) \in Seq(S) /\ Len(Tail(s)) = Len(s) - 1 /\ Head(s) = s[1] /\ Head(s) \in S
      /\ Len(s) \in Nat \ {0}
  OBVIOUS
<1>2. DOMAIN s = 1 .. Len(s) /\ DOMAIN Tail(s) = 1 .. Len(s) - 1
  BY <1>1
<1>3. \A i \in 1 .. Len(s) - 1 : Tail(s)[i] = s[i + 1]
  OBVIOUS
<1>4. \A i \in DOMAIN s : i # 1 => i - 1 \in DOMAIN Tail(s) /\ Tail(s)[i - 1] = s[i]
  BY <1>1, <1>2, <1>3
<1>5. Len(s) # 1 => Tail(s) # << >> /\ Tail(s)[Len(Tail(s))] = s[Len(s)]
  <2>1. ASSUME Len(s) # 1
        PROVE  Len(s) - 1 \in 1 .. Len(s) - 1 /\ Len(s) - 1 + 1 = Len(s) /\ Len(Tail(s)) # 0
    BY <1>1, <2>1
  <2> QED
    BY <1>1, <1>3, <2>1
<1>6. Len(s) = 1 => Tail(s) = << >>
  <2>1. Len(s) = 1 => Len(Tail(s)) = 0
    BY <1>1
  <2> QED
    BY <1>1, <2>1, EmptyOf, Zenon
<1>7. \A i \in DOMAIN Tail(s) : i + 1 \in DOMAIN s /\ i \in Nat \ {0} /\ Tail(s)[i] = s[i + 1]
  BY <1>1, <1>2, <1>3
<1> QED
  BY <1>1, <1>2, <1>4, <1>5, <1>6, <1>7

\* The release that is asked for last runs last.
LEMMA Appended ==
    ASSUME NEW S, NEW s \in Seq(S), NEW c \in S
    PROVE  /\ Append(s, c) \in Seq(S) /\ Append(s, c) # << >> /\ Len(Append(s, c)) = Len(s) + 1
           /\ Append(s, c)[Len(s) + 1] = c /\ Len(s) + 1 \in DOMAIN Append(s, c)
           /\ \A i \in DOMAIN Append(s, c) :
                i # Len(s) + 1 => i \in DOMAIN s /\ Append(s, c)[i] = s[i]
           /\ \A i \in DOMAIN s : i \in DOMAIN Append(s, c) /\ Append(s, c)[i] = s[i]
  OBVIOUS

\* What is known of a thread.
LEMMA OfThread ==
    ASSUME LockInv, NEW t \in Thread
    PROVE  /\ open[t] \in Seq(Object) /\ mark[t] \in Object \cup {Nobody} /\ owner \in Object \cup {Nobody}
           /\ due[t] \in Seq([lock : Object, kind : Lock!Kinds])
           /\ txn[t] \in {"none", "open", "used", "ended"}
           /\ OwnObjects(t) /\ UsedOnce(t) /\ InOrder(t)
           /\ ~ Reentrant => Single(t)
           /\ Reentrant => Marked(t)
           /\ t # Nobody /\ Nobody \notin Object
           /\ Reentrant \in BOOLEAN /\ OnCommit \in BOOLEAN
  BY DEF LockInv, Claimed, Lock!LockAssumption, Lock!TypeOK, ThreadOK

\* The parts of a step that leave the other threads alone.
LEMMA StepOf ==
    ASSUME LockInv, NEW t \in Thread, ThreadOK(t)',
           owner' \in Object \cup {Nobody},
           NEW m \in Object \cup {Nobody}, mark' = [mark EXCEPT ![t] = m],
           NEW s \in Seq(Object), open' = [open EXCEPT ![t] = s],
           NEW d \in Seq([lock : Object, kind : Lock!Kinds]), due' = [due EXCEPT ![t] = d],
           NEW x \in {"none", "open", "used", "ended"}, txn' = [txn EXCEPT ![t] = x],
           by' = by,
           owner' = owner \/ owner = Nobody \/ by[owner] = t
    PROVE  LockInv'
<1>1. Lock!TypeOK
  BY DEF LockInv
<1>2. Lock!TypeOK'
  <2>1. mark' \in [Thread -> Object \cup {Nobody}]
    BY <1>1 DEF Lock!TypeOK
  <2>2. open' \in [Thread -> Seq(Object)]
    BY <1>1 DEF Lock!TypeOK
  <2>3. due' \in [Thread -> Seq([lock : Object, kind : Lock!Kinds])]
    <3> DEFINE D == Seq([lock : Object, kind : Lock!Kinds])
    <3>1. due \in [Thread -> D] /\ d \in D
      BY <1>1 DEF Lock!TypeOK
    <3> HIDE DEF D
    <3>2. due' \in [Thread -> D]
      BY <3>1
    <3> QED
      BY <3>2 DEF D
  <2>4. txn' \in [Thread -> {"none", "open", "used", "ended"}]
    BY <1>1 DEF Lock!TypeOK
  <2> QED
    BY <1>1, <2>1, <2>2, <2>3, <2>4 DEF Lock!TypeOK
<1>3. ASSUME NEW u \in Thread \ {t} PROVE ThreadOK(u)'
  <2>1. open'[u] = open[u] /\ due'[u] = due[u] /\ txn'[u] = txn[u] /\ mark'[u] = mark[u]
    BY <1>1 DEF Lock!TypeOK
  <2> QED
    BY <2>1, OthersKeep
<1> QED
  BY <1>2, <1>3 DEF LockInv, Claimed

\* A context whose release waits for the commit.
LEMMA DeferKeeps ==
    ASSUME LockInv, NEW t \in Thread, Lock!Leave(t), Lock!Deferred(t)
    PROVE  LockInv'
<1> DEFINE o == Head(open[t])
           kind == Lock!KindOf(t, o)
           release == [lock |-> o, kind |-> kind]
<1>1. /\ open[t] # << >> /\ open' = [open EXCEPT ![t] = Tail(open[t])]
      /\ due' = [due EXCEPT ![t] = Append(due[t], release)]
      /\ UNCHANGED <<owner, mark, by, txn>> /\ OnCommit
  BY DEF Lock!Leave, Lock!Deferred
<1>2. txn[t] = "used"
  BY <1>1, OfThread DEF Lock!Deferred, Lock!InTransaction, InOrder
<1>3. /\ Tail(open[t]) \in Seq(Object) /\ o = open[t][1] /\ o \in Object /\ 1 \in DOMAIN open[t]
      /\ \A i \in DOMAIN Tail(open[t]) : /\ i + 1 \in DOMAIN open[t] /\ i \in Nat \ {0}
                                         /\ Tail(open[t])[i] = open[t][i + 1]
      /\ Len(open[t]) # 1 => Tail(open[t]) # << >> /\ Tail(open[t])[Len(Tail(open[t]))] = open[t][Len(open[t])]
      /\ Len(open[t]) = 1 => Tail(open[t]) = << >>
  BY <1>1, Popped, OfThread, SMTT(60)
<1>4. release \in [lock : Object, kind : Lock!Kinds] /\ release.lock = o /\ release.kind = kind
  BY <1>3 DEF Lock!KindOf, Lock!Kinds
<1>5. due[t] \in Seq([lock : Object, kind : Lock!Kinds])
  BY OfThread
<1> HIDE DEF o, kind, release
<1>6. /\ Append(due[t], release) \in Seq([lock : Object, kind : Lock!Kinds]) /\ Append(due[t], release) # << >>
      /\ Len(Append(due[t], release)) = Len(due[t]) + 1
      /\ Append(due[t], release)[Len(due[t]) + 1] = release
      /\ Len(due[t]) + 1 \in DOMAIN Append(due[t], release)
      /\ \A i \in DOMAIN Append(due[t], release) :
           i # Len(due[t]) + 1 => i \in DOMAIN due[t] /\ Append(due[t], release)[i] = due[t][i]
      /\ \A i \in DOMAIN due[t] : i \in DOMAIN Append(due[t], release) /\ Append(due[t], release)[i] = due[t][i]
  BY <1>4, <1>5, Appended
<1>7. open'[t] = Tail(open[t]) /\ due'[t] = Append(due[t], release)
  BY <1>1, <1>4, <1>5 DEF LockInv, Lock!TypeOK
<1>8. OwnObjects(t)'
  <2>1. \A i \in DOMAIN open'[t] : by[open'[t][i]] = t
    BY <1>3, <1>7, OfThread DEF OwnObjects
  <2>2. \A i \in DOMAIN due'[t] : by[due'[t][i].lock] = t
    BY <1>1, <1>3, <1>4, <1>6, <1>7, OfThread DEF OwnObjects
  <2> QED
    BY <1>1, <2>1, <2>2 DEF OwnObjects
<1>9. UsedOnce(t)'
  <2>1. UsedOnce(t)
    BY OfThread
  <2>2. \A i, j \in DOMAIN open'[t] : open'[t][i] = open'[t][j] => i = j
    BY <1>3, <1>7, <2>1, SMTT(90) DEF UsedOnce
  <2>3. \A i \in DOMAIN due[t] : due[t][i].lock # o
    BY <1>3, <2>1 DEF UsedOnce
  <2>4. \A i, j \in DOMAIN due'[t] : due'[t][i].lock = due'[t][j].lock => i = j
    BY <1>4, <1>6, <1>7, <2>1, <2>3 DEF UsedOnce
  <2>5. \A i \in DOMAIN open'[t] : open'[t][i] # o
    BY <1>3, <1>7, <2>1 DEF UsedOnce
  <2>6. \A i \in DOMAIN open'[t], j \in DOMAIN due'[t] : open'[t][i] # due'[t][j].lock
    BY <1>3, <1>4, <1>6, <1>7, <2>1, <2>5, SMTT(60) DEF UsedOnce
  <2> QED
    BY <2>2, <2>4, <2>6 DEF UsedOnce
<1>10. InOrder(t)'
  BY <1>1, <1>2 DEF InOrder
<1>11. ASSUME ~ Reentrant PROVE Single(t)'
  <2>1. Len(open[t]) = 1 /\ due[t] = << >> /\ owner = o
    BY <1>1, <1>3, <1>11, OfThread DEF Single
  <2>2. release = [lock |-> owner, kind |-> "plain"]
    BY <1>11, <2>1 DEF release, kind, Lock!KindOf
  <2>3. due'[t] = <<release>>
    BY <1>7, <2>1
  <2>4. open'[t] = << >>
    BY <1>3, <1>7, <2>1
  <2>5. Len(due'[t]) = 1 /\ due'[t][1] = release
    BY <2>3
  <2> QED
    BY <1>1, <2>2, <2>4, <2>5 DEF Single
<1>12. ASSUME Reentrant PROVE Marked(t)'
  <2>1. Marked(t) /\ mark[t] # Nobody /\ owner = mark[t] /\ by[owner] = t
    BY <1>1, <1>12, OfThread DEF Marked
  <2>2. kind = IF owner = o THEN "me" ELSE "brother"
    BY <1>12, <2>1 DEF kind, Lock!KindOf, Lock!Mine
  <2>3. Releasing(t)' \/ Outermost(t)'
    <3>1. CASE owner = o
      <4>1. release = [lock |-> owner, kind |-> "me"]
        BY <2>2, <3>1 DEF release
      <4> QED
        BY <1>1, <1>6, <1>7, <4>1 DEF Releasing
    <3>2. CASE owner # o /\ Outermost(t)
      BY <1>1, <1>3, <1>7, <3>2 DEF Outermost
    <3>3. CASE Releasing(t)
      BY <1>1, <1>6, <1>7, <3>3 DEF Releasing
    <3> QED
      BY <2>1, <3>1, <3>2, <3>3 DEF Marked
  <2>4. \A i \in DOMAIN due'[t] : /\ due'[t][i].kind # "plain"
                                  /\ due'[t][i].kind = "me" => due'[t][i].lock = mark[t]
    BY <1>4, <1>6, <1>7, <2>1, <2>2 DEF Marked
  <2> QED
    BY <1>1, <2>1, <2>3, <2>4 DEF Marked
<1>13. ThreadOK(t)'
  BY <1>8, <1>9, <1>10, <1>11, <1>12 DEF ThreadOK
<1>14. owner' \in Object \cup {Nobody} /\ mark' = [mark EXCEPT ![t] = mark[t]] /\ txn' = [txn EXCEPT ![t] = txn[t]]
  BY <1>1 DEF LockInv, Lock!TypeOK
<1> QED
  BY <1>1, <1>3, <1>6, <1>13, <1>14, StepOf, OfThread

\* A context whose release is made at once.
LEMMA ReleaseKeeps ==
    ASSUME LockInv, NEW t \in Thread, Lock!Leave(t), ~ Lock!Deferred(t)
    PROVE  LockInv'
<1> DEFINE o == Head(open[t])
           kind == Lock!KindOf(t, o)
<1>1. /\ open[t] # << >> /\ open' = [open EXCEPT ![t] = Tail(open[t])]
      /\ Lock!Release(t, o, kind) /\ UNCHANGED <<due, by, txn>>
  BY DEF Lock!Leave
<1>2. due[t] = << >> /\ ~ (OnCommit /\ txn[t] = "used")
  BY <1>1, OfThread DEF Lock!Deferred, Lock!InTransaction, InOrder
<1>3. /\ Tail(open[t]) \in Seq(Object) /\ o = open[t][1] /\ o \in Object /\ 1 \in DOMAIN open[t]
      /\ Len(open[t]) \in DOMAIN open[t]
      /\ \A i \in DOMAIN Tail(open[t]) : /\ i + 1 \in DOMAIN open[t] /\ i \in Nat \ {0}
                                         /\ Tail(open[t])[i] = open[t][i + 1]
      /\ Len(open[t]) # 1 => Tail(open[t]) # << >> /\ Tail(open[t])[Len(Tail(open[t]))] = open[t][Len(open[t])]
      /\ Len(open[t]) = 1 => Tail(open[t]) = << >>
  BY <1>1, Popped, OfThread, SMTT(60)
<1> HIDE DEF o, kind
<1>4. open'[t] = Tail(open[t]) /\ due'[t] = << >>
  BY <1>1, <1>2 DEF LockInv, Lock!TypeOK
<1>5. OwnObjects(t)' /\ UsedOnce(t)'
  <2>1. \A i \in DOMAIN open'[t] : by[open'[t][i]] = t
    BY <1>3, <1>4, OfThread, SMTT(60) DEF OwnObjects
  <2>2. \A i, j \in DOMAIN open'[t] : open'[t][i] = open'[t][j] => i = j
    <3> SUFFICES ASSUME NEW i \in DOMAIN Tail(open[t]), NEW j \in DOMAIN Tail(open[t]),
                        Tail(open[t])[i] = Tail(open[t])[j]
                 PROVE  i = j
      BY <1>4
    <3>1. UsedOnce(t)
      BY OfThread
    <3>2. i \in Nat /\ j \in Nat /\ i + 1 = j + 1
      BY <1>3, <3>1, SMTT(60) DEF UsedOnce
    <3> QED
      BY <3>2
  <2> QED
    BY <1>1, <1>4, <2>1, <2>2 DEF OwnObjects, UsedOnce
<1>6. InOrder(t)'
  BY <1>1, <1>2, <1>4, OfThread DEF InOrder
<1>7. ASSUME ~ Reentrant
      PROVE  Single(t)' /\ by[owner] = t /\ owner' \in Object \cup {Nobody} /\ mark' = mark
  <2>1. Len(open[t]) = 1 /\ owner = o /\ by[owner] = t
    BY <1>1, <1>3, <1>7, OfThread DEF Single, OwnObjects
  <2>2. open'[t] = << >>
    BY <1>3, <1>4, <2>1
  <2>3. kind = "plain"
    BY <1>7 DEF kind, Lock!KindOf
  <2> QED
    BY <1>1, <1>2, <1>4, <2>1, <2>2, <2>3, OfThread DEF Single, Lock!Release, Lock!Refused, Lock!Freed
<1>8. ASSUME Reentrant
      PROVE  /\ Marked(t)' /\ by[owner] = t /\ owner' \in Object \cup {Nobody}
             /\ \E m \in Object \cup {Nobody} : mark' = [mark EXCEPT ![t] = m]
  <2>1. Marked(t) /\ mark[t] # Nobody /\ owner = mark[t] /\ by[owner] = t /\ Outermost(t)
    BY <1>1, <1>2, <1>8, OfThread DEF Marked, Releasing
  <2>2. kind = IF owner = o THEN "me" ELSE "brother"
    BY <1>8, <2>1 DEF kind, Lock!KindOf, Lock!Mine
  <2>3. CASE owner = o
    <3>1. Len(open[t]) = 1
      BY <1>3, <2>1, <2>3, OfThread DEF Outermost, UsedOnce
    <3>2. open'[t] = << >>
      BY <1>3, <1>4, <3>1
    <3>3. owner' = Nobody /\ mark' = [mark EXCEPT ![t] = Nobody]
      BY <1>1, <2>1, <2>2, <2>3 DEF Lock!Release, Lock!Refused, Lock!Freed
    <3>4. mark'[t] = Nobody
      BY <3>3 DEF LockInv, Lock!TypeOK
    <3>5. due'[t] = << >> /\ ~ (OnCommit /\ txn'[t] = "used")
      BY <1>1, <1>2, <1>4
    <3>6. Marked(t)'
      BY <3>2, <3>4, <3>5 DEF Marked
    <3> QED
      BY <2>1, <3>3, <3>6
  <2>4. CASE owner # o
    <3>1. UNCHANGED <<owner, mark>>
      BY <1>1, <2>2, <2>4 DEF Lock!Release
    <3>2. Outermost(t)'
      BY <1>3, <1>4, <2>1, <2>4, <3>1 DEF Outermost
    <3>3. mark' = [mark EXCEPT ![t] = mark[t]]
      BY <3>1 DEF LockInv, Lock!TypeOK
    <3> QED
      BY <1>1, <1>2, <1>4, <2>1, <3>1, <3>2, <3>3, OfThread DEF Marked
  <2> QED
    BY <2>3, <2>4
<1>9. ThreadOK(t)'
  BY <1>5, <1>6, <1>7, <1>8 DEF ThreadOK
<1>10. /\ due' = [due EXCEPT ![t] = due[t]] /\ txn' = [txn EXCEPT ![t] = txn[t]]
       /\ ~ Reentrant => mark' = [mark EXCEPT ![t] = mark[t]]
  BY <1>1, <1>7 DEF LockInv, Lock!TypeOK
<1>11. PICK m \in Object \cup {Nobody} : mark' = [mark EXCEPT ![t] = m]
  BY <1>8, <1>10, OfThread
<1>12. by[owner] = t /\ owner' \in Object \cup {Nobody}
  BY <1>7, <1>8
<1> QED
  BY <1>1, <1>3, <1>9, <1>10, <1>11, <1>12, StepOf, OfThread, ZenonT(60)

\* The calls that wait for the commit, after it.
LEMMA RunDueKeeps ==
    ASSUME LockInv, NEW t \in Thread, Lock!RunDue(t)
    PROVE  LockInv'
<1> DEFINE release == Head(due[t])
<1>1. due[t] # << >> /\ open[t] = << >> /\ txn[t] = "ended"
  BY OfThread DEF InOrder, Lock!RunDue
<1>2. /\ Tail(due[t]) \in Seq([lock : Object, kind : Lock!Kinds]) /\ release = due[t][1] /\ 1 \in DOMAIN due[t]
      /\ release \in [lock : Object, kind : Lock!Kinds]
      /\ \A i \in DOMAIN Tail(due[t]) : /\ i + 1 \in DOMAIN due[t] /\ i \in Nat \ {0}
                                        /\ Tail(due[t])[i] = due[t][i + 1]
      /\ \A i \in DOMAIN due[t] : i # 1 => i - 1 \in DOMAIN Tail(due[t]) /\ Tail(due[t])[i - 1] = due[t][i]
      /\ Len(due[t]) = 1 => Tail(due[t]) = << >>
  <2> DEFINE D == [lock : Object, kind : Lock!Kinds]
  <2>1. due[t] \in Seq(D)
    BY OfThread
  <2> HIDE DEF D
  <2>2. /\ Tail(due[t]) \in Seq(D) /\ release = due[t][1] /\ 1 \in DOMAIN due[t] /\ release \in D
        /\ \A i \in DOMAIN Tail(due[t]) : /\ i + 1 \in DOMAIN due[t] /\ i \in Nat \ {0}
                                          /\ Tail(due[t])[i] = due[t][i + 1]
        /\ \A i \in DOMAIN due[t] : i # 1 => i - 1 \in DOMAIN Tail(due[t]) /\ Tail(due[t])[i - 1] = due[t][i]
        /\ Len(due[t]) = 1 => Tail(due[t]) = << >>
    BY <1>1, <2>1, Popped
  <2> QED
    BY <2>2 DEF D
<1>3. release.lock \in Object /\ release.kind \in Lock!Kinds
  BY <1>2
<1>4. ~ Lock!Refused(t, release.lock, release.kind)
  <2>1. CASE Reentrant
    BY <1>2, <2>1, OfThread DEF Marked, Lock!Refused
  <2>2. CASE ~ Reentrant
    BY <1>1, <1>2, <2>2, OfThread DEF Single, Lock!Refused
  <2> QED
    BY <2>1, <2>2
<1>5. /\ due' = [due EXCEPT ![t] = Tail(due[t])]
      /\ txn' = [txn EXCEPT ![t] = IF Tail(due[t]) = << >> THEN "none" ELSE "ended"]
      /\ Lock!Release(t, release.lock, release.kind) /\ UNCHANGED <<by, open>>
  BY <1>4 DEF Lock!RunDue
<1> HIDE DEF release
<1>6. /\ due'[t] = Tail(due[t]) /\ open'[t] = << >>
      /\ txn'[t] = IF Tail(due[t]) = << >> THEN "none" ELSE "ended"
  BY <1>1, <1>5 DEF LockInv, Lock!TypeOK
<1>7. OwnObjects(t)' /\ UsedOnce(t)'
  <2>1. \A i \in DOMAIN due'[t] : by[due'[t][i].lock] = t
    BY <1>2, <1>6, OfThread, SMTT(60) DEF OwnObjects
  <2>2. \A i, j \in DOMAIN due'[t] : due'[t][i].lock = due'[t][j].lock => i = j
    <3> SUFFICES ASSUME NEW i \in DOMAIN Tail(due[t]), NEW j \in DOMAIN Tail(due[t]),
                        Tail(due[t])[i].lock = Tail(due[t])[j].lock
                 PROVE  i = j
      BY <1>6
    <3>1. UsedOnce(t)
      BY OfThread
    <3>2. i \in Nat /\ j \in Nat /\ i + 1 = j + 1
      BY <1>2, <3>1, SMTT(60) DEF UsedOnce
    <3> QED
      BY <3>2
  <2> QED
    BY <1>5, <1>6, <2>1, <2>2, SMTT(90) DEF OwnObjects, UsedOnce
<1>8. InOrder(t)'
  BY <1>1, <1>6, OfThread DEF InOrder
<1>9. ASSUME ~ Reentrant
      PROVE  Single(t)' /\ by[owner] = t /\ owner' \in Object \cup {Nobody} /\ mark' = mark
  <2>1. Len(due[t]) = 1 /\ release = [lock |-> owner, kind |-> "plain"]
    <3>1. Single(t)
      BY <1>9, OfThread
    <3>2. Len(due[t]) = 1 /\ due[t][1] = [lock |-> owner, kind |-> "plain"]
      BY <1>1, <3>1 DEF Single
    <3> QED
      BY <1>2, <3>2
  <2>2. by[owner] = t
    <3>1. 1 \in DOMAIN due[t] /\ due[t][1].lock = owner
      BY <1>2, <2>1
    <3> QED
      BY <3>1, OfThread DEF OwnObjects
  <2>3. due'[t] = << >> /\ txn'[t] = "none"
    BY <1>2, <1>6, <2>1
  <2>4. mark' = mark /\ owner' = Nobody
    BY <1>4, <1>5, <2>1 DEF Lock!Release, Lock!Freed
  <2> QED
    BY <1>6, <2>2, <2>3, <2>4 DEF Single
<1>10. ASSUME Reentrant
       PROVE  /\ Marked(t)' /\ owner' \in Object \cup {Nobody}
              /\ owner' = owner \/ by[owner] = t
              /\ \E m \in Object \cup {Nobody} : mark' = [mark EXCEPT ![t] = m]
  <2>1. Marked(t) /\ release.kind \in {"me", "brother"}
    BY <1>2, <1>3, <1>10, OfThread DEF Marked, Lock!Kinds
  <2>2. CASE release.kind = "me"
    <3>1. release.lock = mark[t] /\ mark[t] # Nobody /\ owner = mark[t] /\ by[owner] = t
      BY <1>2, <1>3, <2>1, <2>2, OfThread DEF Marked
    <3>2. owner' = Nobody /\ mark' = [mark EXCEPT ![t] = Nobody]
      BY <1>4, <1>5, <2>2, <3>1 DEF Lock!Release, Lock!Freed
    <3>3. mark'[t] = Nobody
      BY <3>2 DEF LockInv, Lock!TypeOK
    <3>4. \A i \in DOMAIN due'[t] : due'[t][i].kind # "plain" /\ due'[t][i].kind # "me"
      BY <1>2, <1>6, <2>1, <3>1, OfThread, SMTT(60) DEF Marked, UsedOnce
    <3> QED
      BY <1>6, <3>1, <3>2, <3>3, <3>4 DEF Marked
  <2>3. CASE release.kind = "brother"
    <3>1. UNCHANGED <<owner, mark>>
      BY <1>5, <2>3 DEF Lock!Release
    <3>2. mark' = [mark EXCEPT ![t] = mark[t]]
      BY <3>1 DEF LockInv, Lock!TypeOK
    <3>3. Releasing(t) => Releasing(t)'
      <4> SUFFICES ASSUME NEW i \in DOMAIN due[t], due[t][i] = [lock |-> owner, kind |-> "me"]
                   PROVE  Releasing(t)'
        BY DEF Releasing
      <4>1. i # 1
        BY <1>2, <2>3
      <4> QED
        BY <1>2, <1>6, <3>1, <4>1, ZenonT(60) DEF Releasing
    <3>4. \A i \in DOMAIN due'[t] : /\ due'[t][i].kind # "plain"
                                    /\ due'[t][i].kind = "me" => due'[t][i].lock = mark[t]
      BY <1>2, <1>6, <2>1 DEF Marked
    <3>5. ~ Outermost(t)
      BY <1>1 DEF Outermost
    <3> QED
      <4>1. mark'[t] # Nobody => owner' = mark'[t] /\ by'[owner'] = t /\ Releasing(t)'
        BY <1>5, <2>1, <3>1, <3>3, <3>5 DEF Marked
      <4>2. Marked(t)'
        BY <1>6, <3>1, <3>4, <4>1 DEF Marked
      <4> QED
        BY <3>1, <3>2, <4>2, OfThread
  <2> QED
    BY <2>1, <2>2, <2>3
<1>11. ThreadOK(t)'
  BY <1>7, <1>8, <1>9, <1>10 DEF ThreadOK
<1>12. /\ open' = [open EXCEPT ![t] = open[t]]
       /\ ~ Reentrant => mark' = [mark EXCEPT ![t] = mark[t]]
  BY <1>5, <1>9 DEF LockInv, Lock!TypeOK
<1>13. PICK m \in Object \cup {Nobody} : mark' = [mark EXCEPT ![t] = m]
  BY <1>10, <1>12, OfThread
<1>14. owner' \in Object \cup {Nobody} /\ (owner' = owner \/ by[owner] = t)
  BY <1>9, <1>10
<1> QED
  BY <1>2, <1>5, <1>11, <1>12, <1>13, <1>14, StepOf, OfThread

\* Transactions, and what ends without a release.
LEMMA TransactionKeeps ==
    ASSUME LockInv, NEW t \in Thread, Lock!Begin(t) \/ Lock!Commit(t)
    PROVE  LockInv'
<1>1. /\ open[t] = << >> /\ UNCHANGED <<owner, mark, by, open, due>>
      /\ \/ txn[t] = "none" /\ txn' = [txn EXCEPT ![t] = "open"]
         \/ /\ txn[t] \in {"open", "used"}
            /\ txn' = [txn EXCEPT ![t] = IF due[t] = << >> THEN "none" ELSE "ended"]
  BY DEF Lock!Begin, Lock!Commit, Lock!InTransaction
<1>2. PICK x \in {"none", "open", "ended"} : txn' = [txn EXCEPT ![t] = x]
  BY <1>1
<1>3. /\ due[t] # << >> => txn'[t] = "ended"
      /\ txn'[t] = "ended" => due[t] # << >>
      /\ txn'[t] # "used"
  BY <1>1, OfThread DEF InOrder, LockInv, Lock!TypeOK
<1>4. OwnObjects(t)' /\ UsedOnce(t)' /\ InOrder(t)'
  BY <1>1, <1>3, OfThread DEF OwnObjects, UsedOnce, InOrder
<1>5. ASSUME ~ Reentrant PROVE Single(t)'
  <2>1. Single(t)
    BY <1>5, OfThread
  <2> QED
    BY <1>1, <1>3, <2>1 DEF Single
<1>6. ASSUME Reentrant PROVE Marked(t)'
  <2>1. Marked(t)
    BY <1>6, OfThread
  <2> QED
    BY <1>1, <1>3, <2>1 DEF Marked, Releasing, Outermost
<1>7. /\ mark' = [mark EXCEPT ![t] = mark[t]] /\ open' = [open EXCEPT ![t] = open[t]]
      /\ due' = [due EXCEPT ![t] = due[t]]
  BY <1>1 DEF LockInv, Lock!TypeOK
<1>8. ThreadOK(t)'
  BY <1>4, <1>5, <1>6 DEF ThreadOK
<1> QED
  BY <1>1, <1>2, <1>7, <1>8, StepOf, OfThread

LEMMA TxnEndKeeps ==
    ASSUME LockInv, NEW t \in Thread, Lock!Rollback(t) \/ Lock!Die(t)
    PROVE  LockInv'
<1>1. /\ txn' = [txn EXCEPT ![t] = "none"] /\ due' = [due EXCEPT ![t] = << >>]
      /\ UNCHANGED <<owner, by>>
  BY DEF Lock!Rollback, Lock!Die
<1>2. open' = [open EXCEPT ![t] = << >>]
  BY DEF Lock!Rollback, Lock!Die, LockInv, Lock!TypeOK
<1>3. txn'[t] = "none" /\ due'[t] = << >> /\ open'[t] = << >>
  BY <1>1, <1>2 DEF LockInv, Lock!TypeOK
<1>4. \/ mark' = [mark EXCEPT ![t] = Nobody]
      \/ /\ mark' = [mark EXCEPT ![t] = mark[t]] /\ mark' = mark
         /\ open[t] = << >> /\ Rollbacks
  BY DEF Lock!Rollback, Lock!Die, LockInv, Lock!TypeOK
<1>5. Reentrant => mark'[t] = Nobody
  <2>1. CASE mark' = [mark EXCEPT ![t] = Nobody]
    BY <2>1 DEF LockInv, Lock!TypeOK
  <2>2. CASE mark' = mark /\ open[t] = << >> /\ Rollbacks
    <3> SUFFICES ASSUME Reentrant PROVE mark[t] = Nobody
      BY <2>2
    <3>1. ~ OnCommit
      BY <2>2 DEF LockInv, Claimed
    <3>2. due[t] = << >>
      BY <3>1, OfThread DEF InOrder
    <3> QED
      BY <2>2, <3>2, OfThread DEF Marked, Releasing, Outermost
  <2> QED
    BY <1>4, <2>1, <2>2
<1>6. ThreadOK(t)'
  BY <1>3, <1>5 DEF ThreadOK, OwnObjects, UsedOnce, InOrder, Single, Marked
<1>7. PICK m \in Object \cup {Nobody} : mark' = [mark EXCEPT ![t] = m]
  BY <1>4, OfThread
<1>8. << >> \in Seq(Object) /\ << >> \in Seq([lock : Object, kind : Lock!Kinds])
  OBVIOUS
<1> QED
  BY <1>1, <1>2, <1>6, <1>7, <1>8, StepOf, OfThread

LEMMA ExpireKeeps ==
    ASSUME LockInv, Lock!Expire
    PROVE  LockInv'
<1>1. /\ owner # Nobody /\ owner' = Nobody /\ ~ Lock!Alive(owner)
      /\ UNCHANGED <<mark, by, open, txn, due>>
  BY DEF Lock!Expire
<1>2. Lock!TypeOK'
  BY <1>1 DEF LockInv, Lock!TypeOK
<1>3. ASSUME NEW t \in Thread PROVE ThreadOK(t)'
  <2>1. OwnObjects(t)' /\ UsedOnce(t)' /\ InOrder(t)'
    BY <1>1, OfThread DEF OwnObjects, UsedOnce, InOrder
  <2>2. ASSUME ~ Reentrant PROVE Single(t)'
    <3>1. Single(t) /\ open[t] \in Seq(Object)
      BY <2>2, OfThread
    <3>2. open[t] = << >>
      <4> SUFFICES ASSUME open[t] # << >> PROVE FALSE
        OBVIOUS
      <4>1. 1 \in DOMAIN open[t] /\ open[t][1] = owner
        BY <3>1 DEF Single
      <4> QED
        BY <1>1, <4>1 DEF Lock!Alive
    <3>3. due[t] = << >>
      <4> SUFFICES ASSUME due[t] # << >> PROVE FALSE
        OBVIOUS
      <4>1. 1 \in DOMAIN due[t] /\ due[t][1].lock = owner
        BY <3>1, OfThread DEF Single
      <4> QED
        BY <1>1, <4>1 DEF Lock!Alive
    <3> QED
      BY <1>1, <3>1, <3>2, <3>3 DEF Single
  <2>3. ASSUME Reentrant PROVE Marked(t)'
    <3>1. Marked(t) /\ open[t] \in Seq(Object)
      BY <2>3, OfThread
    <3>2. ~ Releasing(t)
      BY <1>1 DEF Releasing, Lock!Alive
    <3>3. ~ Outermost(t)
      <4> SUFFICES ASSUME Outermost(t) PROVE FALSE
        OBVIOUS
      <4>1. Len(open[t]) \in DOMAIN open[t] /\ open[t][Len(open[t])] = owner
        BY <3>1 DEF Outermost
      <4> QED
        BY <1>1, <4>1 DEF Lock!Alive
    <3>4. mark[t] = Nobody
      BY <3>1, <3>2, <3>3 DEF Marked
    <3> QED
      BY <1>1, <3>1, <3>4 DEF Marked
  <2> QED
    BY <2>1, <2>2, <2>3 DEF ThreadOK
<1> QED
  BY <1>2, <1>3 DEF LockInv, Claimed

\* A lock is its user's own: while a thread is in a context, and until its transaction has
\* committed where that is asked for, the key holds an object of this thread, whoever else
\* asks, dies, rolls back or leaves its contexts in any order (DistributedLock.acquire,
\* release).  A reentrant lock that waits for a commit is claimed without rollbacks, after
\* which the thread believes in a key it has lost.
THEOREM LocksAreHeld ==
    ASSUME Lock!LockAssumption, ~ (Reentrant /\ OnCommit /\ Rollbacks)
    PROVE  Lock!Spec => []Lock!HeldWhileInside
<1>1. Lock!Init => LockInv
  BY DEF Lock!Init, LockInv, Claimed, Lock!TypeOK, Lock!LockAssumption, ThreadOK, OwnObjects, UsedOnce,
         InOrder, Single, Marked
<1>2. LockInv /\ [Lock!Next]_(Lock!vars) => LockInv'
  <2> SUFFICES ASSUME LockInv, [Lock!Next]_(Lock!vars) PROVE LockInv'
    OBVIOUS
  <2>1. CASE UNCHANGED Lock!vars
    <3>1. \A t \in Thread : ThreadOK(t)'
      BY <2>1, OthersKeep DEF Lock!vars
    <3> QED
      BY <2>1, <3>1 DEF Lock!vars, LockInv, Claimed, Lock!TypeOK
  <2>2. ASSUME NEW t \in Thread, Lock!Leave(t) PROVE LockInv'
    BY <2>2, DeferKeeps, ReleaseKeeps
  <2> QED
    BY <2>1, <2>2, AcquireKeeps, ReEnterKeeps, TransactionKeeps, RunDueKeeps, TxnEndKeeps, ExpireKeeps
    DEF Lock!Next
<1>3. LockInv => Lock!HeldWhileInside
  <2> SUFFICES ASSUME LockInv, NEW t \in Thread, Lock!Inside(t)
               PROVE  owner # Nobody /\ by[owner] = t
    BY DEF Lock!HeldWhileInside
  <2>1. open[t] # << >> \/ (OnCommit /\ txn[t] = "used")
    BY DEF Lock!Inside
  <2>2. CASE Reentrant
    <3>1. Marked(t)
      BY <2>2, OfThread
    <3>2. mark[t] # Nobody
      BY <2>1, <3>1 DEF Marked
    <3> QED
      BY <3>1, <3>2 DEF Marked
  <2>3. CASE ~ Reentrant
    <3>1. Single(t) /\ OwnObjects(t) /\ open[t] \in Seq(Object)
      BY <2>3, OfThread
    <3>2. CASE open[t] # << >>
      <4>1. 1 \in DOMAIN open[t] /\ open[t][1] = owner /\ owner \in Object
        BY <3>1, <3>2 DEF Single
      <4> QED
        BY <3>1, <4>1, OfThread DEF OwnObjects
    <3>3. CASE due[t] # << >>
      <4>1. 1 \in DOMAIN due[t] /\ due[t][1].lock = owner
        BY <3>1, <3>3, OfThread DEF Single
      <4>2. owner \in Object
        BY <4>1, DueCalls, OfThread
      <4> QED
        BY <3>1, <4>1, <4>2, OfThread DEF OwnObjects
    <3> QED
      BY <2>1, <3>1, <3>2, <3>3 DEF Single
  <2> QED
    BY <2>2, <2>3
<1> QED
  BY <1>1, <1>2, <1>3, PTL DEF Lock!Spec

\* One more at the end, and one less at the front.
LEMMA LongerAndShorter ==
    ASSUME NEW S, NEW s \in Seq(S)
    PROVE  /\ \A x \in S : Append(s, x) \in Seq(S) /\ Append(s, x) # << >>
           /\ s # << >> => Tail(s) \in Seq(S) /\ 1 \in DOMAIN s /\ Head(s) = s[1]
<1>1. ASSUME NEW x \in S PROVE Append(s, x) \in Seq(S) /\ Append(s, x) # << >>
  <2>1. Append(s, x) \in Seq(S) /\ Len(Append(s, x)) = Len(s) + 1 /\ Len(s) \in Nat
    OBVIOUS
  <2> QED
    BY <2>1
<1>2. ASSUME s # << >> PROVE Tail(s) \in Seq(S) /\ 1 \in DOMAIN s /\ Head(s) = s[1]
  <2>1. Tail(s) \in Seq(S)
    BY <1>2
  <2>2. Len(s) \in Nat /\ Len(s) # 0 /\ DOMAIN s = 1..Len(s)
    BY <1>2
  <2> QED
    BY <1>2, <2>1, <2>2
<1> QED
  BY <1>1, <1>2

\* A transaction that has ended has releases to run.
EndedWaits == \A t \in Thread : txn[t] = "ended" => due[t] # << >>

\* What a release does to the key and to the marks.
LEMMA ReleaseTypes ==
    ASSUME Lock!TypeOK, NEW t \in Thread, NEW o \in Object, NEW kind, Lock!Release(t, o, kind)
    PROVE  owner' \in Object \cup {Nobody} /\ mark' \in [Thread -> Object \cup {Nobody}]
  BY DEF Lock!TypeOK, Lock!Release, Lock!Freed

LEMMA LockTypesKept ==
    ASSUME Lock!LockAssumption, Lock!TypeOK, EndedWaits, [Lock!Next]_(Lock!vars)
    PROVE  Lock!TypeOK' /\ EndedWaits'
<1>1. CASE UNCHANGED Lock!vars
  BY <1>1 DEF Lock!vars, Lock!TypeOK, EndedWaits
<1>2. CASE Lock!Expire
  BY <1>2 DEF Lock!Expire, Lock!TypeOK, EndedWaits
<1>3. ASSUME NEW t \in Thread, NEW o \in Object, Lock!Acquire(t, o) \/ Lock!ReEnter(t, o)
      PROVE  Lock!TypeOK' /\ EndedWaits'
  <2>1. open' = [open EXCEPT ![t] = << o >> \o open[t]] /\ open[t] \in Seq(Object)
    BY <1>3 DEF Lock!Acquire, Lock!ReEnter, Lock!Entered, Lock!TypeOK
  <2>2. open' \in [Thread -> Seq(Object)]
    <3>1. << o >> \o open[t] \in Seq(Object)
      BY <2>1
    <3> QED
      BY <2>1, <3>1 DEF Lock!TypeOK
  <2>3. /\ owner' \in Object \cup {Nobody} /\ mark' \in [Thread -> Object \cup {Nobody}]
        /\ by' \in [Object -> Thread \cup {Nobody}] /\ due' = due
    <3>1. by' = [by EXCEPT ![o] = t] /\ due' = due
      BY <1>3 DEF Lock!Acquire, Lock!ReEnter, Lock!Entered
    <3>2. owner' \in {owner, o} /\ mark' \in {mark, [mark EXCEPT ![t] = o]}
      BY <1>3 DEF Lock!Acquire, Lock!ReEnter
    <3> QED
      BY <3>1, <3>2 DEF Lock!TypeOK
  <2>4. txn' = [txn EXCEPT ![t] = IF txn[t] = "open" THEN "used" ELSE txn[t]]
    BY <1>3 DEF Lock!Acquire, Lock!ReEnter, Lock!Entered
  <2>5. /\ txn' \in [Thread -> {"none", "open", "used", "ended"}]
        /\ \A u \in Thread : txn'[u] = "ended" => txn[u] = "ended"
    BY <2>4 DEF Lock!TypeOK
  <2> QED
    BY <2>2, <2>3, <2>5 DEF Lock!TypeOK, EndedWaits
<1>4. ASSUME NEW t \in Thread, Lock!Leave(t) PROVE Lock!TypeOK' /\ EndedWaits'
  <2> DEFINE o == Head(open[t])
             kind == Lock!KindOf(t, o)
  <2>1. open[t] \in Seq(Object) /\ open[t] # << >> /\ open' = [open EXCEPT ![t] = Tail(open[t])]
    BY <1>4 DEF Lock!Leave, Lock!TypeOK
  <2>2. o \in Object /\ Tail(open[t]) \in Seq(Object)
    BY <2>1
  <2>3. open' \in [Thread -> Seq(Object)]
    BY <2>1, <2>2 DEF Lock!TypeOK
  <2>4. kind \in Lock!Kinds
    BY DEF Lock!KindOf, Lock!Kinds
  <2>5. \/ /\ due' = [due EXCEPT ![t] = Append(due[t], [lock |-> o, kind |-> kind])]
           /\ UNCHANGED << owner, mark >>
        \/ Lock!Release(t, o, kind) /\ due' = due
    BY <1>4 DEF Lock!Leave
  <2> HIDE DEF o, kind
  <2>6. /\ due' \in [Thread -> Seq([lock : Object, kind : Lock!Kinds])]
        /\ \A u \in Thread : due[u] # << >> => due'[u] # << >>
    <3>1. [lock |-> o, kind |-> kind] \in [lock : Object, kind : Lock!Kinds]
      BY <2>2, <2>4
    <3>2. due \in [Thread -> Seq([lock : Object, kind : Lock!Kinds])]
      BY DEF Lock!TypeOK
    <3>4. /\ Append(due[t], [lock |-> o, kind |-> kind]) \in Seq([lock : Object, kind : Lock!Kinds])
          /\ Append(due[t], [lock |-> o, kind |-> kind]) # << >>
      BY <3>1, <3>2, LongerAndShorter
    <3> QED
      BY <2>5, <3>2, <3>4, Zenon
  <2>7. owner' \in Object \cup {Nobody} /\ mark' \in [Thread -> Object \cup {Nobody}]
    BY <2>2, <2>5, ReleaseTypes DEF Lock!TypeOK
  <2> QED
    BY <1>4, <2>3, <2>6, <2>7 DEF Lock!Leave, Lock!TypeOK, EndedWaits
<1>5. ASSUME NEW t \in Thread, Lock!Begin(t) \/ Lock!Commit(t) PROVE Lock!TypeOK' /\ EndedWaits'
  BY <1>5 DEF Lock!Begin, Lock!Commit, Lock!TypeOK, EndedWaits
<1>6. ASSUME NEW t \in Thread, Lock!RunDue(t) PROVE Lock!TypeOK' /\ EndedWaits'
  <2> DEFINE K == [lock : Object, kind : Lock!Kinds]
             release == Head(due[t])
             left == IF Lock!Refused(t, release.lock, release.kind) THEN << >> ELSE Tail(due[t])
  <2>1. due \in [Thread -> Seq(K)] /\ due[t] # << >>
    BY <1>6 DEF Lock!TypeOK, EndedWaits, Lock!RunDue
  <2>2. due[t][1] \in K /\ due[t][1].lock \in Object /\ release = due[t][1]
    <3>1. due[t] \in Seq(K)
      BY <2>1
    <3>2. 1 \in DOMAIN due[t] /\ Head(due[t]) = due[t][1]
      <4> HIDE DEF K
      <4> QED
        BY <2>1, <3>1, LongerAndShorter
    <3> QED
      BY <3>1, <3>2, DueCalls
  <2>3. left \in Seq(K)
    <3>1. due[t] \in Seq(K) /\ Tail(due[t]) \in Seq(K)
      <4> HIDE DEF K
      <4> QED
        BY <2>1, LongerAndShorter
    <3>2. << >> \in Seq(K)
      <4> HIDE DEF K
      <4> QED
        OBVIOUS
    <3> QED
      BY <3>1, <3>2
  <2>4. /\ Lock!Release(t, release.lock, release.kind)
        /\ due' = [due EXCEPT ![t] = left]
        /\ txn' = [txn EXCEPT ![t] = IF left = << >> THEN "none" ELSE "ended"]
        /\ by' = by /\ open' = open
    BY <1>6 DEF Lock!RunDue
  <2> HIDE DEF left, release, K
  <2>5. owner' \in Object \cup {Nobody} /\ mark' \in [Thread -> Object \cup {Nobody}]
    BY <2>2, <2>4, ReleaseTypes
  <2>6. due' \in [Thread -> Seq(K)]
    BY <2>1, <2>3, <2>4
  <2>7. txn' \in [Thread -> {"none", "open", "used", "ended"}] /\ EndedWaits'
    BY <2>1, <2>4 DEF Lock!TypeOK, EndedWaits
  <2> QED
    BY <2>4, <2>5, <2>6, <2>7 DEF Lock!TypeOK, K
<1>7. ASSUME NEW t \in Thread, Lock!Rollback(t) \/ Lock!Die(t) PROVE Lock!TypeOK' /\ EndedWaits'
  <2>1. << >> \in Seq(Object) /\ << >> \in Seq([lock : Object, kind : Lock!Kinds])
    OBVIOUS
  <2>2. /\ owner' = owner /\ by' = by
        /\ open' \in [Thread -> Seq(Object)]
        /\ mark' \in [Thread -> Object \cup {Nobody}]
        /\ txn' \in [Thread -> {"none", "open", "used", "ended"}]
    BY <1>7, <2>1, ZenonT(60) DEF Lock!Rollback, Lock!Die, Lock!TypeOK
  <2>3. due' = [due EXCEPT ![t] = << >>] /\ txn' = [txn EXCEPT ![t] = "none"]
    BY <1>7 DEF Lock!Rollback, Lock!Die
  <2>4. due' \in [Thread -> Seq([lock : Object, kind : Lock!Kinds])]
    BY <2>1, <2>3 DEF Lock!TypeOK
  <2>5. EndedWaits'
    BY <2>3 DEF Lock!TypeOK, EndedWaits
  <2> QED
    BY <2>2, <2>4, <2>5 DEF Lock!TypeOK
<1> QED
  BY <1>1, <1>2, <1>3, <1>4, <1>5, <1>6, <1>7 DEF Lock!Next

\* Whichever way a lock is used, the key names an object or nobody, and releases that wait are
\* those of objects (DistributedLock).
THEOREM LockTypes ==
    ASSUME Lock!LockAssumption
    PROVE  Lock!Spec => []Lock!TypeOK
<1>1. Lock!Init => Lock!TypeOK /\ EndedWaits
  BY DEF Lock!Init, Lock!TypeOK, EndedWaits
<1>2. Lock!TypeOK /\ EndedWaits /\ [Lock!Next]_(Lock!vars) => (Lock!TypeOK /\ EndedWaits)'
  BY LockTypesKept
<1> QED
  BY <1>1, <1>2, PTL DEF Lock!Spec

-----------------------------------------------------------------------------
(* AccountDiscovery: what an execution found out about a host.             *)

\* The users of a host, the executions that discover them, and the requests about their risks.
CONSTANTS User, Run, Handling, Sync, AtOnce, MaxChanges
VARIABLES remote, accounts, gathered, risk, discovery, request, calm, changes
Discover == INSTANCE AccountDiscovery WITH Request <- Handling, row <- gathered, run <- discovery

\* A request that has read a risk is about a user.
AboutSomebody == \A h \in Handling : request[h].pc = "read" => request[h].user \in User
DiscoverInv == Discover!DiscoveryAssumption /\ Discover!TypeOK /\ AboutSomebody

RunRow == [pc : Discover!Steps, seen : SUBSET User, accounts : SUBSET User,
           row : Discover!RowTable, risk : Discover!RiskTable]
RequestRow == [pc : {"new", "read", "done"}, user : User \cup {None}, kind : Discover!Kind,
               act : Discover!Actions, copy : Discover!Risks \cup {None}]

\* No row and no risk is None.
LEMMA NoneIsNoRow ==
    ASSUME Discover!DiscoveryAssumption
    PROVE  /\ \A x \in Discover!Rows \cup {None} : x # None => x \in Discover!Rows
           /\ \A x \in Discover!Risks \cup {None} : x # None => x \in Discover!Risks
  OBVIOUS

\* A row that is changed, and a risk.
LEMMA RowChanges ==
    ASSUME NEW x \in Discover!Rows, NEW s \in Discover!Status, NEW b \in BOOLEAN
    PROVE  /\ [x EXCEPT !.status = s] \in Discover!Rows
           /\ [x EXCEPT !.present = b] \in Discover!Rows
           /\ [x EXCEPT !.remote = b] \in Discover!Rows
           /\ [x EXCEPT !.status = s, !.remote = b] \in Discover!Rows
           /\ [x EXCEPT !.status = s, !.present = b] \in Discover!Rows
  BY DEF Discover!Rows

LEMMA RiskChanges ==
    ASSUME NEW x \in Discover!Risks, NEW s \in Discover!Status, NEW ref \in Run \cup {None}, NEW b \in BOOLEAN
    PROVE  /\ [x EXCEPT !.status = s, !.row = ref] \in Discover!Risks
           /\ [x EXCEPT !.status = s, !.account = b] \in Discover!Risks
  BY DEF Discover!Risks

\* What a step of an execution writes about itself.
LEMMA GoTypes ==
    ASSUME DiscoverInv, NEW g \in Run, NEW where \in Discover!Steps, Discover!Go(g, where)
    PROVE  discovery' \in [Run -> RunRow]
  BY SMTT(60) DEF DiscoverInv, Discover!TypeOK, Discover!Go, RunRow

\* What goes with an account leaves a table of risks.
LEMMA WithoutTypes ==
    ASSUME NEW table \in Discover!RiskTable, NEW users, NEW rows \in BOOLEAN
    PROVE  Discover!Without(table, users, rows) \in Discover!RiskTable
  BY DEF Discover!Without, Discover!RiskTable

\* What update_gather_accounts_status leaves are rows.
LEMMA StatusTypes ==
    ASSUME DiscoverInv, NEW users, NEW s \in Discover!Status, NEW b \in BOOLEAN
    PROVE  /\ Discover!Marked(users, s) \in Discover!RowTable
           /\ Discover!Present(users, b) \in Discover!RowTable
           /\ Discover!Remote(users, b) \in Discover!RowTable
           /\ [u \in User |-> IF u \in Discover!NotIgnored(users)
                                THEN [gathered[u] EXCEPT !.status = s, !.remote = b]
                                ELSE gathered[u]] \in Discover!RowTable
<1>1. \A u \in Discover!NotIgnored(users) : u \in User => gathered[u] \in Discover!Rows
  BY NoneIsNoRow DEF DiscoverInv, Discover!TypeOK, Discover!RowTable, Discover!NotIgnored
<1>2. \A u \in User : gathered[u] \in Discover!Rows \cup {None}
  BY SMTT(60) DEF DiscoverInv, Discover!TypeOK, Discover!RowTable
<1>3. \A u \in Discover!NotIgnored(users) : u \in User =>
        /\ [gathered[u] EXCEPT !.status = s] \in Discover!Rows
        /\ [gathered[u] EXCEPT !.present = b] \in Discover!Rows
        /\ [gathered[u] EXCEPT !.remote = b] \in Discover!Rows
        /\ [gathered[u] EXCEPT !.status = s, !.remote = b] \in Discover!Rows
  BY <1>1, RowChanges
<1> QED
  BY <1>2, <1>3 DEF Discover!Marked, Discover!Present, Discover!Remote, Discover!RowTable

\* A risk refers to a row that was made by an execution.
LEMMA ReferencesAreRuns ==
    ASSUME DiscoverInv, NEW g \in Run, NEW k \in Discover!Kind, NEW u \in User
    PROVE  Discover!RefOf(g, k, u) \in Run \cup {None}
<1>1. discovery[g] \in RunRow
  BY DEF DiscoverInv, Discover!TypeOK, RunRow
<1>2. u \in Discover!Known(g) => discovery[g].row[u].id \in Run
  BY <1>1, NoneIsNoRow DEF DiscoverInv, Discover!Known, RunRow, Discover!RowTable, Discover!Rows
<1> QED
  BY <1>2 DEF Discover!RefOf

\* What an execution reports are risks.
LEMMA FlushedTypes ==
    ASSUME DiscoverInv, NEW g \in Run
    PROVE  Discover!Flushed(g) \in Discover!RiskTable
<1>1. /\ discovery[g] \in RunRow
      /\ \A k \in Discover!Kind, u \in User : risk[k][u] \in Discover!Risks \cup {None}
  BY DEF DiscoverInv, Discover!TypeOK, RunRow, Discover!RiskTable
<1>2. \A k \in Discover!Kind, u \in User : Discover!RefOf(g, k, u) \in Run \cup {None}
  BY ReferencesAreRuns, SMTT(60)
<1>3. \A k \in Discover!Kind : \A u \in Discover!Outdated(g, k) :
        u \in User => Discover!Updated(g, k, u) \in Discover!Risks
  <2> SUFFICES ASSUME NEW k \in Discover!Kind, NEW u \in Discover!Outdated(g, k), u \in User
               PROVE  Discover!Updated(g, k, u) \in Discover!Risks
    OBVIOUS
  <2> DEFINE x == discovery[g].risk[k][u]
             ref == IF Discover!RefOf(g, k, u) = None THEN x.row ELSE Discover!RefOf(g, k, u)
  <2>1. x # None
    BY DEF Discover!Outdated, Discover!Missing
  <2>2. x \in Discover!Risks
    BY <1>1, <2>1, NoneIsNoRow DEF DiscoverInv, RunRow, Discover!RiskTable
  <2>3. ref \in Run \cup {None}
    BY <1>2, <2>2 DEF Discover!Risks
  <2>4. Discover!Updated(g, k, u) = [x EXCEPT !.status = "pending", !.row = ref]
    BY DEF Discover!Updated
  <2> HIDE DEF x, ref
  <2> QED
    BY <2>2, <2>3, <2>4, RiskChanges, ZenonT(60) DEF Discover!Status
<1>4. \A k \in Discover!Kind, u \in User :
        [id |-> g, status |-> "pending", row |-> Discover!RefOf(g, k, u), account |-> FALSE] \in Discover!Risks
  BY <1>2 DEF Discover!Risks, Discover!Status
<1>5. \A k \in Discover!Kind, u \in User :
        (CASE u \in Discover!Resolved(g)[k] /\ Discover!SameRisk(g, k, u) -> None
          [] u \in Discover!Missing(g, k) /\ risk[k][u] = None /\ <<k, u>> \notin Discover!Broken(g) ->
               [id |-> g, status |-> "pending", row |-> Discover!RefOf(g, k, u), account |-> FALSE]
          [] u \in Discover!Outdated(g, k) /\ Discover!SameRisk(g, k, u) -> Discover!Updated(g, k, u)
          [] OTHER -> risk[k][u]) \in Discover!Risks \cup {None}
  BY <1>1, <1>3, <1>4
<1> QED
  BY <1>5 DEF Discover!Flushed, Discover!RiskTable

\* What a handler does leaves users, rows and risks.
LEMMA EffectTypes ==
    ASSUME DiscoverInv, NEW act \in Discover!Actions, NEW u \in User
    PROVE  /\ Discover!Effect(act, u).accounts \in SUBSET User
           /\ Discover!Effect(act, u).row \in Discover!RowTable
           /\ Discover!Effect(act, u).risk \in Discover!RiskTable
<1> DEFINE x == gathered[u]
           r == CASE x = None \/ act \in {"reopen", "close"} -> x
                  [] x # None /\ act = "ignore" -> [x EXCEPT !.status = "ignored"]
                  [] x # None /\ act = "add_account" -> [x EXCEPT !.status = "confirmed", !.present = TRUE]
                  [] x # None /\ act = "delete_account" -> None
<1>1. gathered \in Discover!RowTable /\ x \in Discover!Rows \cup {None} /\ accounts \in SUBSET User
  BY DEF DiscoverInv, Discover!TypeOK, Discover!RowTable
<1>2. x # None => /\ [x EXCEPT !.status = "ignored"] \in Discover!Rows
                  /\ [x EXCEPT !.status = "confirmed", !.present = TRUE] \in Discover!Rows
  <2> HIDE DEF x
  <2> QED
    BY <1>1, NoneIsNoRow, RowChanges, ZenonT(60) DEF DiscoverInv, Discover!Status
<1>3. r \in Discover!Rows \cup {None}
  <2> HIDE DEF x
  <2> QED
    BY <1>1, <1>2 DEF Discover!Actions
<1>4. Discover!Effect(act, u).row = [gathered EXCEPT ![u] = r]
  BY DEF Discover!Effect
<1> HIDE DEF r, x
<1>5. Discover!Effect(act, u).row \in Discover!RowTable
  BY <1>1, <1>3, <1>4 DEF Discover!RowTable
<1>6. risk \in Discover!RiskTable /\ Discover!Without(risk, {u}, TRUE) \in Discover!RiskTable
  BY WithoutTypes DEF DiscoverInv, Discover!TypeOK
<1>7. /\ Discover!Effect(act, u).accounts \in {accounts, accounts \cup {u}, accounts \ {u}}
      /\ Discover!Effect(act, u).risk \in {risk, Discover!Without(risk, {u}, TRUE)}
  BY DEF Discover!Effect
<1> QED
  BY <1>1, <1>5, <1>6, <1>7

\* The steps of an execution.
LEMMA GatherKeeps ==
    ASSUME DiscoverInv, NEW g \in Run, Discover!Gather(g)
    PROVE  DiscoverInv'
<1>1. /\ remote \in SUBSET User /\ accounts \in SUBSET User
      /\ gathered \in Discover!RowTable /\ risk \in Discover!RiskTable
      /\ discovery \in [Run -> RunRow] /\ request \in [Handling -> RequestRow]
      /\ calm \in Run \cup {None} /\ changes \in 0..MaxChanges
  BY SMTT(60) DEF DiscoverInv, Discover!TypeOK, RunRow, RequestRow
<1>2. remote' = remote /\ request' = request /\ changes' = changes
  BY DEF Discover!Gather, Discover!Scan, Discover!Prefetch, Discover!LoadRisks, Discover!CreateRows,
         Discover!UpdateStatus, Discover!SyncAccounts, Discover!Flush
<1>3. ASSUME accounts' \in SUBSET User, gathered' \in Discover!RowTable, risk' \in Discover!RiskTable,
             discovery' \in [Run -> RunRow], calm' \in Run \cup {None}
      PROVE  DiscoverInv'
  BY <1>1, <1>2, <1>3 DEF DiscoverInv, AboutSomebody, Discover!TypeOK, Discover!DiscoveryAssumption,
     RunRow, RequestRow
<1>4. CASE Discover!Scan(g)
  <2>1. discovery' \in [Run -> RunRow]
    BY <1>1, <1>4, ZenonT(60) DEF Discover!Scan, RunRow, Discover!Steps
  <2> QED
    BY <1>1, <1>3, <1>4, <2>1 DEF Discover!Scan
<1>5. CASE Discover!Prefetch(g)
  <2>1. discovery' \in [Run -> RunRow]
    <3> DEFINE me == [discovery[g] EXCEPT !.pc = "read", !.accounts = accounts, !.row = gathered]
    <3>1. discovery[g] \in RunRow
      BY <1>1
    <3>2. me \in RunRow
      BY <1>1, <3>1 DEF RunRow, Discover!Steps
    <3>3. discovery' = [discovery EXCEPT ![g] = me]
      BY <1>5 DEF Discover!Prefetch
    <3> HIDE DEF me
    <3> QED
      BY <1>1, <3>2, <3>3
  <2> QED
    BY <1>1, <1>3, <1>5, <2>1 DEF Discover!Prefetch
<1>6. CASE Discover!LoadRisks(g)
  <2>1. discovery' \in [Run -> RunRow]
    BY <1>1, <1>6, ZenonT(60) DEF Discover!LoadRisks, RunRow, Discover!Steps
  <2> QED
    BY <1>1, <1>3, <1>6, <2>1 DEF Discover!LoadRisks
<1>7. CASE Discover!CreateRows(g)
  <2>1. [id |-> g, remote |-> TRUE, present |-> FALSE, status |-> "pending"] \in Discover!Rows
    BY DEF Discover!Rows, Discover!Status
  <2>2. gathered' \in Discover!RowTable
    BY <1>1, <1>7, <2>1 DEF Discover!CreateRows, Discover!RowTable
  <2>3. discovery' \in [Run -> RunRow]
    BY <1>7, GoTypes DEF Discover!CreateRows, Discover!Steps
  <2> QED
    BY <1>1, <1>3, <1>7, <2>2, <2>3 DEF Discover!CreateRows
<1>8. CASE Discover!UpdateStatus(g)
  <2>1. \E where \in Discover!Steps : Discover!Go(g, where)
    BY <1>8 DEF Discover!UpdateStatus, Discover!Steps
  <2>2. gathered' \in Discover!RowTable
    <3>1. \A users : /\ Discover!Marked(users, "pending") \in Discover!RowTable
                     /\ Discover!Marked(users, "confirmed") \in Discover!RowTable
                     /\ Discover!Remote(users, TRUE) \in Discover!RowTable
                     /\ Discover!Present(users, FALSE) \in Discover!RowTable
                     /\ Discover!Present(users, TRUE) \in Discover!RowTable
      BY StatusTypes DEF Discover!Status
    <3> DEFINE vanished == Discover!Known(g) \ discovery[g].seen
    <3>2. [u \in User |-> IF u \in Discover!NotIgnored(vanished)
             THEN [gathered[u] EXCEPT !.status = "pending", !.remote = FALSE]
             ELSE gathered[u]] \in Discover!RowTable
      <4> HIDE DEF vanished
      <4> QED
        BY StatusTypes DEF Discover!Status
    <3> QED
      BY <1>8, <3>1, <3>2, Zenon DEF Discover!UpdateStatus
  <2>3. discovery' \in [Run -> RunRow]
    BY <2>1, GoTypes
  <2>4. UNCHANGED <<accounts, risk, calm>>
    BY <1>8 DEF Discover!UpdateStatus
  <2> QED
    BY <1>1, <1>3, <2>2, <2>3, <2>4
<1>9. CASE Discover!SyncAccounts(g)
  <2>1. \E where \in Discover!Steps : Discover!Go(g, where)
    BY <1>9, SMTT(60) DEF Discover!SyncAccounts, Discover!Steps
  <2>2. \A u \in User : /\ gathered[u] \in Discover!Rows \cup {None}
                        /\ gathered[u] # None =>
                             /\ [gathered[u] EXCEPT !.status = "confirmed"] \in Discover!Rows
                             /\ [gathered[u] EXCEPT !.present = TRUE] \in Discover!Rows
    BY <1>1, NoneIsNoRow, RowChanges, ZenonT(60) DEF DiscoverInv, Discover!RowTable, Discover!Status
  <2>3. CASE discovery[g].pc = "sync"
    <3> DEFINE new == {u \in User : gathered[u] # None /\ u \notin accounts}
    <3>1. /\ accounts' = accounts \cup new
          /\ gathered' = [u \in User |-> IF u \in new THEN [gathered[u] EXCEPT !.status = "confirmed"]
                                                       ELSE gathered[u]]
      BY <1>9, <2>3 DEF Discover!SyncAccounts
    <3>2. gathered' \in Discover!RowTable
      BY <2>2, <3>1 DEF Discover!RowTable
    <3>3. accounts' \in SUBSET User
      BY <1>1, <3>1
    <3> QED
      BY <1>1, <1>3, <1>9, <2>1, <3>2, <3>3, GoTypes DEF Discover!SyncAccounts
  <2>4. CASE discovery[g].pc = "synced"
    <3>1. gathered' \in Discover!RowTable
      BY <1>9, <2>2, <2>4 DEF Discover!SyncAccounts, Discover!RowTable
    <3>2. accounts' = accounts
      BY <1>9, <2>4 DEF Discover!SyncAccounts
    <3> QED
      BY <1>1, <1>3, <1>9, <2>1, <3>1, <3>2, GoTypes DEF Discover!SyncAccounts
  <2> QED
    BY <1>9, <2>3, <2>4 DEF Discover!SyncAccounts
<1>10. CASE Discover!Flush(g)
  <2>1. discovery' \in [Run -> RunRow]
    BY <1>10, GoTypes DEF Discover!Flush, Discover!Steps
  <2>2. risk' \in Discover!RiskTable
    BY <1>1, <1>10, FlushedTypes DEF Discover!Flush
  <2> QED
    BY <1>1, <1>3, <1>10, <2>1, <2>2 DEF Discover!Flush
<1> QED
  BY <1>4, <1>5, <1>6, <1>7, <1>8, <1>9, <1>10 DEF Discover!Gather

\* The steps of a request.
LEMMA RequestKeeps ==
    ASSUME DiscoverInv, NEW h \in Handling,
           \/ \E k \in Discover!Kind, u \in User, act \in Discover!Actions : Discover!Read(h, k, u, act)
           \/ Discover!Finish(h)
    PROVE  DiscoverInv'
<1>1. /\ remote \in SUBSET User /\ accounts \in SUBSET User
      /\ gathered \in Discover!RowTable /\ risk \in Discover!RiskTable
      /\ discovery \in [Run -> RunRow] /\ request \in [Handling -> RequestRow]
      /\ calm \in Run \cup {None} /\ changes \in 0..MaxChanges
  BY SMTT(60) DEF DiscoverInv, Discover!TypeOK, RunRow, RequestRow
<1>2. remote' = remote /\ discovery' = discovery /\ changes' = changes /\ calm' = None
  BY ZenonT(60) DEF Discover!Read, Discover!Finish, Discover!Lone
<1>3. ASSUME accounts' \in SUBSET User, gathered' \in Discover!RowTable, risk' \in Discover!RiskTable,
             request' \in [Handling -> RequestRow], AboutSomebody'
      PROVE  DiscoverInv'
  BY <1>1, <1>2, <1>3 DEF DiscoverInv, Discover!TypeOK, Discover!DiscoveryAssumption, RunRow, RequestRow
<1>4. ASSUME NEW k \in Discover!Kind, NEW u \in User, NEW act \in Discover!Actions, Discover!Read(h, k, u, act)
      PROVE  DiscoverInv'
  <2> DEFINE kind == IF act = "add_account" THEN "new_found" ELSE k
             copied == Discover!Effect(act, u).risk[kind][u]
             me == [pc |-> "read", user |-> u, kind |-> kind, act |-> act, copy |-> copied]
  <2>1. kind \in Discover!Kind
    BY DEF Discover!Kind
  <2>2. copied \in Discover!Risks \cup {None}
    <3> HIDE DEF kind
    <3> QED
      BY <2>1, EffectTypes DEF Discover!RiskTable
  <2>3. request' = [request EXCEPT ![h] = me]
    BY <1>4 DEF Discover!Read
  <2>4. me \in RequestRow /\ me.user = u
    <3> HIDE DEF kind, copied
    <3> QED
      BY <2>1, <2>2 DEF RequestRow
  <2> HIDE DEF me
  <2>5. request' \in [Handling -> RequestRow] /\ AboutSomebody'
    BY <1>1, <2>3, <2>4 DEF DiscoverInv, AboutSomebody
  <2> QED
    BY <1>1, <1>3, <1>4, <2>5 DEF Discover!Read
<1>5. CASE Discover!Finish(h)
  <2> DEFINE me == request[h]
             done == Discover!Effect(me.act, me.user)
             kept == [me.copy EXCEPT !.status = Discover!StatusOf(me.act),
                                      !.account = @ \/ me.act = "add_account"]
             filled == [done.risk EXCEPT ![me.kind][me.user] = kept]
  <2>1. me \in RequestRow /\ me.pc = "read" /\ me.user \in User
    BY <1>1, <1>5, ZenonT(60) DEF Discover!Finish, DiscoverInv, AboutSomebody
  <2>2. me.act \in Discover!Actions /\ me.kind \in Discover!Kind /\ me.copy \in Discover!Risks \cup {None}
    BY <2>1 DEF RequestRow
  <2>3. done.accounts \in SUBSET User /\ done.row \in Discover!RowTable /\ done.risk \in Discover!RiskTable
    <3> HIDE DEF me
    <3> QED
      BY <2>1, <2>2, EffectTypes, SMTT(60)
  <2>4. me.copy # None => kept \in Discover!Risks
    <3> DEFINE account == me.copy.account \/ me.act = "add_account"
    <3>1. kept = [me.copy EXCEPT !.status = Discover!StatusOf(me.act), !.account = account]
      OBVIOUS
    <3>2. account \in BOOLEAN /\ Discover!StatusOf(me.act) \in Discover!Status
      BY DEF Discover!StatusOf, Discover!Status
    <3> HIDE DEF account, me, kept
    <3> QED
      BY <2>2, <3>1, <3>2, NoneIsNoRow, RiskChanges DEF DiscoverInv
  <2>5. me.copy # None => filled \in Discover!RiskTable
    <3> HIDE DEF me, kept, done
    <3> QED
      BY <2>1, <2>2, <2>3, <2>4, SMTT(60) DEF Discover!RiskTable
  <2>6. \/ UNCHANGED <<accounts, gathered, risk>>
        \/ /\ accounts' = done.accounts /\ gathered' = done.row
           /\ IF me.copy = None THEN risk' = done.risk ELSE risk' = filled
    BY <1>5, ZenonT(60) DEF Discover!Finish
  <2>7. accounts' \in SUBSET User /\ gathered' \in Discover!RowTable /\ risk' \in Discover!RiskTable
    <3> HIDE DEF me, done, filled
    <3> QED
      BY <1>1, <2>3, <2>5, <2>6, SMTT(60)
  <2>8. request' = [request EXCEPT ![h].pc = "done"]
    BY <1>5, ZenonT(60) DEF Discover!Finish
  <2>9. request' \in [Handling -> RequestRow] /\ AboutSomebody'
    BY <1>1, <2>8 DEF RequestRow, DiscoverInv, AboutSomebody
  <2> QED
    BY <1>3, <2>7, <2>9, SMTT(60)
<1> QED
  BY <1>4, <1>5

LEMMA DiscoverBegins ==
    ASSUME Discover!DiscoveryAssumption
    PROVE  Discover!Init => DiscoverInv
<1> SUFFICES ASSUME Discover!Init PROVE DiscoverInv
  OBVIOUS
<1>1. Discover!NoRows \in Discover!RowTable /\ Discover!NoRisks \in Discover!RiskTable
  BY DEF Discover!NoRows, Discover!NoRisks, Discover!RowTable, Discover!RiskTable
<1>2. discovery \in [Run -> RunRow]
  BY <1>1 DEF Discover!Init, RunRow, Discover!Steps
<1>3. request \in [Handling -> RequestRow] /\ AboutSomebody
  BY DEF Discover!Init, RequestRow, Discover!Kind, Discover!Actions, AboutSomebody
<1>4. changes \in 0..MaxChanges
  BY DEF Discover!Init, Discover!DiscoveryAssumption
<1> QED
  BY <1>1, <1>2, <1>3, <1>4 DEF Discover!Init, DiscoverInv, Discover!TypeOK, RunRow, RequestRow

LEMMA DiscoverKeeps == DiscoverInv /\ [Discover!Next]_(Discover!vars) => DiscoverInv'
<1> SUFFICES ASSUME DiscoverInv, [Discover!Next]_(Discover!vars) PROVE DiscoverInv'
  OBVIOUS
<1>1. CASE UNCHANGED Discover!vars
  BY <1>1 DEF DiscoverInv, Discover!vars, Discover!TypeOK, AboutSomebody, Discover!DiscoveryAssumption
<1>2. ASSUME NEW u \in User, Discover!Change(u) PROVE DiscoverInv'
  <2>1. remote \in SUBSET User /\ accounts \in SUBSET User /\ risk \in Discover!RiskTable
    BY DEF DiscoverInv, Discover!TypeOK
  <2>2. changes' \in 0..MaxChanges
    <3>1. changes \in 0..MaxChanges /\ changes < MaxChanges /\ changes' = changes + 1 /\ MaxChanges \in Nat
      BY <1>2 DEF Discover!Change, DiscoverInv, Discover!TypeOK, Discover!DiscoveryAssumption
    <3> QED
      BY <3>1
  <2>3. remote' \in SUBSET User /\ accounts' \in SUBSET User
    BY <1>2, <2>1 DEF Discover!Change
  <2>4. risk' \in Discover!RiskTable
    <3>1. Discover!Without(risk, {u}, FALSE) \in Discover!RiskTable
      BY <2>1, WithoutTypes
    <3>2. risk' \in {risk, Discover!Without(risk, {u}, FALSE)}
      BY <1>2 DEF Discover!Change
    <3> QED
      BY <2>1, <3>1, <3>2
  <2> QED
    BY <1>2, <2>2, <2>3, <2>4 DEF Discover!Change, Discover!Lone, DiscoverInv, AboutSomebody, Discover!TypeOK,
       Discover!DiscoveryAssumption
<1> QED
  BY <1>1, <1>2, GatherKeeps, RequestKeeps DEF Discover!Next

\* The tables of the discovery keep their types, whatever executions, requests and changes of
\* the host cross (GatherAccountsManager, AnalyseAccountRisk, RiskHandler): a risk refers to an
\* execution's row or to none, and what a request saves is a risk.
THEOREM DiscoveryTypes ==
    ASSUME Discover!DiscoveryAssumption
    PROVE  Discover!Spec => []Discover!TypeOK
<1>1. Discover!Init => DiscoverInv
  BY DiscoverBegins
<1>2. DiscoverInv /\ [Discover!Next]_(Discover!vars) => DiscoverInv'
  BY DiscoverKeeps
<1>3. DiscoverInv => Discover!TypeOK
  BY SMTT(60) DEF DiscoverInv
<1> QED
  BY <1>1, <1>2, <1>3, PTL DEF Discover!Spec

\* Without synchronisation no execution comes to its statements.
NoSync == ~ Sync => \A g \in Run : discovery[g].pc \notin {"sync", "synced"}

LEMMA NoSyncKeeps ==
    ASSUME DiscoverInv, NoSync, [Discover!Next]_(Discover!vars)
    PROVE  NoSync'
<1>1. discovery \in [Run -> RunRow]
  BY DEF DiscoverInv, Discover!TypeOK, RunRow
<1> SUFFICES ASSUME ~ Sync, NEW g \in Run PROVE discovery'[g].pc \notin {"sync", "synced"}
  BY DEF NoSync
<1>2. discovery[g].pc \notin {"sync", "synced"}
  BY DEF NoSync
<1>3. CASE UNCHANGED discovery
  BY <1>2, <1>3
<1>4. ASSUME NEW x \in Run, NEW where \in Discover!Steps \ {"sync", "synced"}, Discover!Go(x, where)
      PROVE  discovery'[g].pc \notin {"sync", "synced"}
  BY <1>1, <1>2, <1>4 DEF Discover!Go, RunRow
<1>5. ASSUME NEW x \in Run, Discover!Gather(x)
      PROVE  discovery'[g].pc \notin {"sync", "synced"}
  <2>1. discovery[x].pc \notin {"sync", "synced"}
    BY DEF NoSync
  <2>2. CASE Discover!Scan(x) \/ Discover!Prefetch(x) \/ Discover!LoadRisks(x)
    BY <1>1, <1>2, <2>2 DEF Discover!Scan, Discover!Prefetch, Discover!LoadRisks, RunRow
  <2>3. CASE Discover!CreateRows(x)
    BY <1>4, <2>3 DEF Discover!CreateRows, Discover!Steps
  <2>4. CASE Discover!UpdateStatus(x)
    <3>1. \E where \in Discover!Steps \ {"sync", "synced"} : Discover!Go(x, where)
      BY <2>4 DEF Discover!UpdateStatus, Discover!Steps
    <3> QED
      BY <1>4, <3>1
  <2>5. CASE Discover!SyncAccounts(x)
    BY <2>1, <2>5 DEF Discover!SyncAccounts
  <2>6. CASE Discover!Flush(x)
    BY <1>4, <2>6 DEF Discover!Flush, Discover!Steps
  <2> QED
    BY <1>5, <2>2, <2>3, <2>4, <2>5, <2>6 DEF Discover!Gather
<1> QED
  BY <1>3, <1>5, ZenonT(60) DEF Discover!Next, Discover!Change, Discover!Read, Discover!Finish, Discover!vars

\* What a step of an execution does to a row that is ignored.
LEMMA IgnoredRow ==
    ASSUME NoSync, ~ Sync, NEW u \in User, gathered[u] # None, gathered[u].status = "ignored",
           NEW g \in Run, Discover!Gather(g)
    PROVE  gathered'[u] = gathered[u]
<1>1. \A users : u \notin Discover!NotIgnored(users)
  BY DEF Discover!NotIgnored
<1>2. CASE Discover!CreateRows(g)
  BY <1>2 DEF Discover!CreateRows
<1>3. CASE Discover!UpdateStatus(g)
  <2> DEFINE vanished == Discover!Known(g) \ discovery[g].seen
  <2>1. \/ gathered' = [x \in User |-> IF x \in Discover!NotIgnored(vanished)
              THEN [gathered[x] EXCEPT !.status = "pending", !.remote = FALSE]
              ELSE gathered[x]]
        \/ \E users : \/ \E s \in Discover!Status : gathered' = Discover!Marked(users, s)
                      \/ \E b \in BOOLEAN : \/ gathered' = Discover!Remote(users, b)
                                             \/ gathered' = Discover!Present(users, b)
    BY <1>3 DEF Discover!UpdateStatus, Discover!Status
  <2> HIDE DEF vanished
  <2> QED
    BY <1>1, <2>1 DEF Discover!Marked, Discover!Remote, Discover!Present
<1>4. CASE Discover!SyncAccounts(g)
  BY <1>4 DEF Discover!SyncAccounts, NoSync
<1>5. CASE UNCHANGED gathered
  BY <1>5
<1> QED
  BY <1>2, <1>3, <1>4, <1>5 DEF Discover!Gather, Discover!Scan, Discover!Prefetch, Discover!LoadRisks,
     Discover!Flush

\* Without synchronisation executions leave a row as it is from the moment a user ignores it,
\* also when that happens between two of their statements (update_gather_accounts_status); only
\* a request about this user changes it.
THEOREM IgnoredRowsStay ==
    ASSUME Discover!DiscoveryAssumption
    PROVE  Discover!Spec => Discover!IgnoredStays
<1>1. Discover!Init => DiscoverInv /\ NoSync
  BY DiscoverBegins DEF Discover!Init, NoSync
<1>2. DiscoverInv /\ NoSync /\ [Discover!Next]_(Discover!vars) => (DiscoverInv /\ NoSync)'
  BY DiscoverKeeps, NoSyncKeeps
<1>3. DiscoverInv /\ NoSync /\ [Discover!Next]_(Discover!vars) => [Discover!IgnoredKept]_(Discover!vars)
  <2> SUFFICES ASSUME DiscoverInv, NoSync, Discover!Next, ~ Sync, NEW u \in User,
                      gathered[u] # None, gathered[u].status = "ignored"
               PROVE  gathered'[u] = gathered[u]
                        \/ \E h \in Handling : request[h].pc = "read" /\ request[h].user = u
    BY DEF Discover!IgnoredKept
  <2>1. ASSUME NEW g \in Run, Discover!Gather(g) PROVE gathered'[u] = gathered[u]
    BY <2>1, IgnoredRow
  <2>2. ASSUME NEW h \in Handling, Discover!Finish(h)
        PROVE  gathered'[u] = gathered[u] \/ (request[h].pc = "read" /\ request[h].user = u)
    <3> SUFFICES ASSUME request[h].user # u PROVE gathered'[u] = gathered[u]
      BY <2>2 DEF Discover!Finish
    <3>1. gathered \in [User -> Discover!Rows \cup {None}]
      BY SMTT(60) DEF DiscoverInv, Discover!TypeOK, Discover!RowTable
    <3>2. gathered' \in {gathered, Discover!Effect(request[h].act, request[h].user).row}
      BY <2>2, ZenonT(60) DEF Discover!Finish
    <3>3. Discover!Effect(request[h].act, request[h].user).row[u] = gathered[u]
      BY <3>1 DEF Discover!Effect
    <3> QED
      BY <3>2, <3>3, SMTT(60)
  <2> QED
    BY <2>1, <2>2 DEF Discover!Next, Discover!Change, Discover!Read
<1> QED
  BY <1>1, <1>2, <1>3, PTL DEF Discover!Spec, Discover!IgnoredStays

\* An execution that nothing interferes with knows what it needs: the users of the host, the
\* accounts as they are, and until it writes them the rows and the risks.
AtAbsent == {"absent", "present", "sync", "synced", "flush", "done"}
AtSeen == {"seen"} \cup AtAbsent
AtKnown == {"known"} \cup AtSeen
Rowed == {"lost", "added"} \cup AtKnown
Unflushed == {"loaded"} \cup (Rowed \ {"done"})

\* The row of a user that was not ignored when it was read, as far as the execution is: what
\* its statements have set so far, whatever was there before.
RowFollows(g, u) ==
    /\ gathered[u].status # "ignored"
    /\ discovery[g].pc # "lost" /\ u \notin remote => ~ gathered[u].remote
    /\ discovery[g].pc \in AtAbsent /\ u \in remote => gathered[u].remote
    /\ ~ Sync =>
         /\ discovery[g].pc \in {"lost", "added"} /\ u \notin Discover!Known(g)
              => gathered[u].status = "pending"
         /\ discovery[g].pc \in AtKnown /\ u \notin accounts => gathered[u].status = "pending"
         /\ discovery[g].pc \in AtSeen /\ u \in accounts => gathered[u].status = "confirmed"
         /\ discovery[g].pc \in {"present", "flush", "done"} /\ u \notin accounts => ~ gathered[u].present
         /\ discovery[g].pc \in {"flush", "done"} /\ u \in accounts => gathered[u].present
NotIgnoredBefore(g, u) == discovery[g].row[u] # None => discovery[g].row[u].status # "ignored"

\* There are the rows that were read and those of the users of the host.
RowThere(g, u) ==
    /\ gathered[u] # None <=> u \in Discover!Known(g) \/ u \in remote
    /\ gathered[u] # None =>
         gathered[u].id = IF u \in Discover!Known(g) THEN discovery[g].row[u].id ELSE g
RowQuiet(g, u) == /\ RowThere(g, u)
                  /\ gathered[u] # None /\ NotIgnoredBefore(g, u) => RowFollows(g, u)

\* What is gone from the host is a risk, what nobody manages is one, and nothing else.
RisksRight(u) ==
    /\ u \in remote => /\ risk["account_deleted"][u] = None
                       /\ u \in accounts => risk["new_found"][u] = None
                       /\ u \notin accounts => /\ risk["new_found"][u] # None
                                               /\ risk["new_found"][u].status = "pending"
    /\ u \notin remote /\ gathered[u] # None =>
         risk["account_deleted"][u] # None /\ risk["account_deleted"][u].status = "pending"

\* With synchronised accounts every row has one from then on.
AccountsThen(g) ==
    accounts = IF Sync /\ discovery[g].pc \in {"synced", "flush", "done", "failed"}
                 THEN discovery[g].accounts \cup {u \in User : gathered[u] # None}
                 ELSE discovery[g].accounts

Quietly(g) ==
    /\ \A h \in Run : h # g => discovery[h].pc \in {"new", "done", "failed"}
    /\ discovery[g].pc # "new" /\ discovery[g].seen = remote
    /\ discovery[g].pc \in {"sync", "synced"} => Sync
    /\ discovery[g].pc # "scanned" => AccountsThen(g)
    /\ discovery[g].pc \in {"read", "loaded"} => gathered = discovery[g].row
    /\ discovery[g].pc \in Unflushed => risk = discovery[g].risk
    /\ discovery[g].pc \in Rowed => \A u \in User : RowQuiet(g, u)
    /\ discovery[g].pc = "done" => \A u \in User : RisksRight(u)
QuietInv == calm # None => Quietly(calm)

\* A statement of an execution moves it and nothing else of what it has read.
LEMMA GoMeans ==
    ASSUME DiscoverInv, NEW g \in Run, NEW where, Discover!Go(g, where)
    PROVE  /\ discovery'[g].pc = where /\ discovery'[g].seen = discovery[g].seen
           /\ discovery'[g].accounts = discovery[g].accounts /\ discovery'[g].row = discovery[g].row
           /\ discovery'[g].risk = discovery[g].risk
           /\ \A h \in Run : h # g => discovery'[h] = discovery[h]
           /\ Discover!Known(g)' = Discover!Known(g)
           /\ \A u : NotIgnoredBefore(g, u)' <=> NotIgnoredBefore(g, u)
<1>1. discovery \in [Run -> RunRow]
  BY DEF DiscoverInv, Discover!TypeOK, RunRow
<1>2. discovery' = [discovery EXCEPT ![g] = [discovery[g] EXCEPT !.pc = where]]
  BY DEF Discover!Go
<1>3. /\ discovery'[g].pc = where /\ discovery'[g].seen = discovery[g].seen
      /\ discovery'[g].accounts = discovery[g].accounts /\ discovery'[g].row = discovery[g].row
      /\ discovery'[g].risk = discovery[g].risk
      /\ \A h \in Run : h # g => discovery'[h] = discovery[h]
  BY <1>1, <1>2 DEF RunRow
<1>4. Discover!Known(g)' = Discover!Known(g)
  BY <1>3 DEF Discover!Known
<1> QED
  BY <1>3, <1>4 DEF NotIgnoredBefore

\* The rows after a statement of update_gather_accounts_status.
LEMMA UpdatedRow ==
    ASSUME DiscoverInv, NEW u \in User, NEW users,
           gathered[u] # None, gathered[u].status # "ignored"
    PROVE  /\ gathered[u] \in Discover!Rows
           /\ \A s : /\ Discover!Marked(users, s)[u] =
                          IF u \in users THEN [gathered[u] EXCEPT !.status = s] ELSE gathered[u]
                     /\ Discover!Present(users, s)[u] =
                          IF u \in users THEN [gathered[u] EXCEPT !.present = s] ELSE gathered[u]
                     /\ Discover!Remote(users, s)[u] =
                          IF u \in users THEN [gathered[u] EXCEPT !.remote = s] ELSE gathered[u]
           /\ u \in Discover!NotIgnored(users) <=> u \in users
<1>1. gathered[u] \in Discover!Rows
  BY NoneIsNoRow DEF DiscoverInv, Discover!TypeOK, Discover!RowTable
<1>2. u \in Discover!NotIgnored(users) <=> u \in users
  BY SMTT(60) DEF Discover!NotIgnored
<1> QED
  BY <1>1, <1>2 DEF Discover!Marked, Discover!Present, Discover!Remote

\* Rows come and go by no such statement, and keep their keys.
LEMMA RowsStayThere ==
    ASSUME DiscoverInv, NEW g \in Run, NEW users, NEW u \in User,
           NEW s \in Discover!Status, NEW b \in BOOLEAN,
           \/ gathered' = Discover!Marked(users, s)
           \/ gathered' = Discover!Present(users, b)
           \/ gathered' = Discover!Remote(users, b)
           \/ gathered' = [x \in User |-> IF x \in Discover!NotIgnored(users)
                             THEN [gathered[x] EXCEPT !.status = s, !.remote = b] ELSE gathered[x]],
           RowThere(g, u), Discover!Known(g)' = Discover!Known(g), discovery'[g].row = discovery[g].row,
           remote' = remote
    PROVE  RowThere(g, u)'
<1>1. gathered[u] # None => gathered[u] \in Discover!Rows
  BY NoneIsNoRow DEF DiscoverInv, Discover!TypeOK, Discover!RowTable
<1>2. \A x \in Discover!Rows : x # None
  BY DEF DiscoverInv, Discover!DiscoveryAssumption
<1>3. \A x \in Discover!Rows :
        /\ [x EXCEPT !.status = s].id = x.id /\ [x EXCEPT !.status = s] # None
        /\ [x EXCEPT !.present = b].id = x.id /\ [x EXCEPT !.present = b] # None
        /\ [x EXCEPT !.remote = b].id = x.id /\ [x EXCEPT !.remote = b] # None
        /\ [x EXCEPT !.status = s, !.remote = b].id = x.id /\ [x EXCEPT !.status = s, !.remote = b] # None
  <2> SUFFICES ASSUME NEW x \in Discover!Rows
               PROVE  /\ [x EXCEPT !.status = s].id = x.id /\ [x EXCEPT !.status = s] # None
                      /\ [x EXCEPT !.present = b].id = x.id /\ [x EXCEPT !.present = b] # None
                      /\ [x EXCEPT !.remote = b].id = x.id /\ [x EXCEPT !.remote = b] # None
                      /\ [x EXCEPT !.status = s, !.remote = b].id = x.id
                      /\ [x EXCEPT !.status = s, !.remote = b] # None
    OBVIOUS
  <2>1. /\ [x EXCEPT !.status = s].id = x.id /\ [x EXCEPT !.present = b].id = x.id
        /\ [x EXCEPT !.remote = b].id = x.id /\ [x EXCEPT !.status = s, !.remote = b].id = x.id
    BY DEF Discover!Rows
  <2>2. /\ [x EXCEPT !.status = s] # None /\ [x EXCEPT !.present = b] # None
        /\ [x EXCEPT !.remote = b] # None /\ [x EXCEPT !.status = s, !.remote = b] # None
    BY <1>2, RowChanges, Zenon
  <2> QED
    BY <2>1, <2>2
<1> QED
  BY <1>1, <1>2, <1>3, ZenonT(60) DEF RowThere, Discover!Marked, Discover!Present, Discover!Remote, Discover!NotIgnored

\* What an execution that is alone reads.
LEMMA QuietReads ==
    ASSUME DiscoverInv, NEW g \in Run, Quietly(g), Discover!Prefetch(g) \/ Discover!LoadRisks(g)
    PROVE  Quietly(g)'
<1>1. discovery \in [Run -> RunRow] /\ discovery[g] \in RunRow
  BY DEF DiscoverInv, Discover!TypeOK, RunRow
<1>2. remote' = remote /\ accounts' = accounts /\ gathered' = gathered /\ risk' = risk
  BY DEF Discover!Prefetch, Discover!LoadRisks
<1>3. CASE Discover!Prefetch(g)
  <2>1. discovery' = [discovery EXCEPT ![g] = [discovery[g] EXCEPT !.pc = "read", !.accounts = accounts,
                                                                  !.row = gathered]]
    BY <1>3 DEF Discover!Prefetch
  <2>2. /\ discovery'[g].pc = "read" /\ discovery'[g].accounts = accounts
        /\ discovery'[g].row = gathered /\ discovery'[g].seen = discovery[g].seen
        /\ \A h \in Run : h # g => discovery'[h] = discovery[h]
    BY <1>1, <2>1 DEF RunRow
  <2> QED
    BY <1>2, <2>2 DEF Quietly, AccountsThen, Unflushed, Rowed, AtKnown, AtSeen, AtAbsent
<1>4. CASE Discover!LoadRisks(g)
  <2>1. /\ discovery[g].pc = "read"
        /\ discovery' = [discovery EXCEPT ![g] = [discovery[g] EXCEPT !.pc = "loaded", !.risk = risk]]
    BY <1>4 DEF Discover!LoadRisks
  <2>2. /\ discovery'[g].pc = "loaded" /\ discovery'[g].accounts = discovery[g].accounts
        /\ discovery'[g].row = discovery[g].row /\ discovery'[g].seen = discovery[g].seen
        /\ discovery'[g].risk = risk
        /\ \A h \in Run : h # g => discovery'[h] = discovery[h]
    BY <1>1, <2>1 DEF RunRow
  <2> QED
    BY <1>2, <2>1, <2>2 DEF Quietly, AccountsThen, Unflushed, Rowed, AtKnown, AtSeen, AtAbsent
<1> QED
  BY <1>3, <1>4

\* What it makes.
LEMMA QuietCreates ==
    ASSUME DiscoverInv, NEW g \in Run, Quietly(g), Discover!CreateRows(g)
    PROVE  Quietly(g)'
<1>1. /\ discovery[g].pc = "loaded" /\ Discover!Go(g, "lost")
      /\ remote' = remote /\ accounts' = accounts /\ risk' = risk
  BY DEF Discover!CreateRows
<1>2. /\ discovery[g].seen = remote /\ gathered = discovery[g].row /\ risk = discovery[g].risk
      /\ accounts = discovery[g].accounts
      /\ \A h \in Run : h # g => discovery[h].pc \in {"new", "done", "failed"}
  BY <1>1 DEF Quietly, Unflushed, Rowed, AccountsThen
<1>3. /\ discovery'[g].pc = "lost" /\ discovery'[g].seen = discovery[g].seen
      /\ discovery'[g].accounts = discovery[g].accounts /\ discovery'[g].row = discovery[g].row
      /\ discovery'[g].risk = discovery[g].risk
      /\ \A h \in Run : h # g => discovery'[h] = discovery[h]
      /\ Discover!Known(g)' = Discover!Known(g)
      /\ \A u : NotIgnoredBefore(g, u)' <=> NotIgnoredBefore(g, u)
  BY <1>1, GoMeans
<1>4. ASSUME NEW u \in User PROVE RowQuiet(g, u)'
  <2> DEFINE reported == [id |-> g, remote |-> TRUE, present |-> FALSE, status |-> "pending"]
  <2>1. gathered'[u] = IF u \in discovery[g].seen \ Discover!Known(g) /\ gathered[u] = None
                         THEN reported ELSE gathered[u]
    BY DEF Discover!CreateRows
  <2>2. u \in Discover!Known(g) <=> gathered[u] # None
    BY <1>2 DEF Discover!Known
  <2>3. reported # None /\ reported.id = g /\ reported.remote /\ reported.status = "pending"
    <3>1. reported \in Discover!Rows
      BY DEF Discover!Rows, Discover!Status
    <3> QED
      BY <3>1 DEF DiscoverInv, Discover!DiscoveryAssumption
  <2> HIDE DEF reported
  <2>4. CASE u \in Discover!Known(g)
    <3>1. gathered'[u] = gathered[u] /\ gathered[u] = discovery[g].row[u]
      BY <1>2, <2>1, <2>4
    <3> QED
      BY <1>1, <1>3, <2>2, <2>4, <3>1
      DEF RowQuiet, RowThere, RowFollows, NotIgnoredBefore, AtAbsent, AtSeen, AtKnown
  <2>5. CASE u \notin Discover!Known(g) /\ u \in remote
    BY <1>1, <1>2, <1>3, <2>1, <2>2, <2>3, <2>5
    DEF RowQuiet, RowThere, RowFollows, AtAbsent, AtSeen, AtKnown
  <2>6. CASE u \notin Discover!Known(g) /\ u \notin remote
    BY <1>1, <1>2, <1>3, <2>1, <2>2, <2>6 DEF RowQuiet, RowThere
  <2> QED
    BY <2>4, <2>5, <2>6
<1> QED
  BY <1>1, <1>2, <1>3, <1>4 DEF Quietly, AccountsThen, Unflushed

\* The statements of update_gather_accounts_status, for one user.
LEMMA QuietStatement ==
    ASSUME DiscoverInv, NEW g \in Run, Quietly(g), Discover!UpdateStatus(g), NEW u \in User
    PROVE  RowQuiet(g, u)'
<1> DEFINE me == discovery[g]
           vanished == Discover!Known(g) \ me.seen
           r == gathered[u]
           s == gathered'[u]
<1>1. /\ me.pc \in {"lost", "added", "known", "seen", "absent", "present"}
      /\ remote' = remote /\ accounts' = accounts
      /\ \E where : Discover!Go(g, where)
  BY DEF Discover!UpdateStatus
<1>2. /\ me.seen = remote /\ accounts = me.accounts /\ RowQuiet(g, u)
      /\ remote \in SUBSET User /\ accounts \in SUBSET User
  BY <1>1 DEF Quietly, Rowed, AccountsThen, AtKnown, AtSeen, AtAbsent, DiscoverInv, Discover!TypeOK
<1>3. /\ discovery'[g].row = me.row /\ Discover!Known(g)' = Discover!Known(g)
      /\ NotIgnoredBefore(g, u)' <=> NotIgnoredBefore(g, u)
  BY <1>1, GoMeans
<1>4. RowThere(g, u)'
  <2>1. \/ \E users : \/ \E x \in Discover!Status : gathered' = Discover!Marked(users, x)
                      \/ \E b \in BOOLEAN : \/ gathered' = Discover!Remote(users, b)
                                            \/ gathered' = Discover!Present(users, b)
        \/ gathered' = [x \in User |-> IF x \in Discover!NotIgnored(vanished)
             THEN [gathered[x] EXCEPT !.status = "pending", !.remote = FALSE]
             ELSE gathered[x]]
    BY DEF Discover!UpdateStatus, Discover!Status
  <2>2. "pending" \in Discover!Status /\ FALSE \in BOOLEAN
    BY DEF Discover!Status
  <2> HIDE DEF vanished
  <2>3. RowThere(g, u)
    BY <1>2 DEF RowQuiet
  <2>4. ASSUME NEW users, NEW x \in Discover!Status, gathered' = Discover!Marked(users, x)
        PROVE  RowThere(g, u)'
    BY <1>1, <1>3, <2>3, <2>4, RowsStayThere, Zenon
  <2>5. ASSUME NEW users, NEW b \in BOOLEAN,
               gathered' = Discover!Remote(users, b) \/ gathered' = Discover!Present(users, b)
        PROVE  RowThere(g, u)'
    <3>1. "pending" \in Discover!Status
      BY <2>2
    <3> QED
      BY <1>1, <1>3, <2>3, <2>5, <3>1, RowsStayThere, Zenon
  <2>6. CASE gathered' = [x \in User |-> IF x \in Discover!NotIgnored(vanished)
               THEN [gathered[x] EXCEPT !.status = "pending", !.remote = FALSE]
               ELSE gathered[x]]
    BY <1>1, <1>3, <2>2, <2>3, <2>6, RowsStayThere, Zenon
  <2> QED
    BY <2>1, <2>4, <2>5, <2>6
<1>5. ASSUME s # None, NotIgnoredBefore(g, u) PROVE RowFollows(g, u)'
  <2>1. r # None /\ RowFollows(g, u) /\ (u \in Discover!Known(g) \/ u \in remote)
    <3>1. s # None <=> u \in Discover!Known(g) \/ u \in remote
      BY <1>1, <1>3, <1>4 DEF RowThere
    <3>2. r # None <=> u \in Discover!Known(g) \/ u \in remote
      BY <1>2 DEF RowQuiet, RowThere
    <3> QED
      BY <1>2, <1>5, <3>1, <3>2 DEF RowQuiet
  <2>2. r.status # "ignored"
    BY <2>1 DEF RowFollows
  <2>3. /\ r \in Discover!Rows
        /\ \A users, x : /\ Discover!Marked(users, x)[u] =
                              IF u \in users THEN [r EXCEPT !.status = x] ELSE r
                         /\ Discover!Present(users, x)[u] =
                              IF u \in users THEN [r EXCEPT !.present = x] ELSE r
                         /\ Discover!Remote(users, x)[u] =
                              IF u \in users THEN [r EXCEPT !.remote = x] ELSE r
        /\ \A users : u \in Discover!NotIgnored(users) <=> u \in users
    BY <2>1, <2>2, UpdatedRow
  <2>4. \A x : /\ [r EXCEPT !.status = x].status = x /\ [r EXCEPT !.status = x].remote = r.remote
               /\ [r EXCEPT !.status = x].present = r.present
               /\ [r EXCEPT !.present = x].present = x /\ [r EXCEPT !.present = x].remote = r.remote
               /\ [r EXCEPT !.present = x].status = r.status
               /\ [r EXCEPT !.remote = x].remote = x /\ [r EXCEPT !.remote = x].present = r.present
               /\ [r EXCEPT !.remote = x].status = r.status
               /\ [r EXCEPT !.status = "pending", !.remote = x].remote = x
               /\ [r EXCEPT !.status = "pending", !.remote = x].present = r.present
               /\ [r EXCEPT !.status = "pending", !.remote = x].status = "pending"
    <3> HIDE DEF r
    <3> QED
      BY <2>3 DEF Discover!Rows
  <2>5. CASE me.pc = "lost"
    <3>1. /\ discovery'[g].pc = "added"
          /\ s = IF u \in Discover!Known(g) \ remote THEN [r EXCEPT !.status = "pending", !.remote = FALSE]
                                                     ELSE r
      <4>1. /\ Discover!Go(g, "added")
            /\ gathered' = [x \in User |-> IF x \in Discover!NotIgnored(vanished)
                              THEN [gathered[x] EXCEPT !.status = "pending", !.remote = FALSE]
                              ELSE gathered[x]]
        BY <2>5 DEF Discover!UpdateStatus
      <4>2. s = IF u \in vanished THEN [r EXCEPT !.status = "pending", !.remote = FALSE] ELSE r
        <5> HIDE DEF vanished
        <5> QED
          BY <2>3, <4>1
      <4> QED
        BY <1>2, <4>1, <4>2, GoMeans
    <3> HIDE DEF r, s
    <3>2. /\ s.status = IF u \in Discover!Known(g) \ remote THEN "pending" ELSE r.status
          /\ s.remote = IF u \in Discover!Known(g) \ remote THEN FALSE ELSE r.remote
      BY <2>4, <3>1
    <3> QED
      BY <1>1, <1>3, <2>1, <2>5, <3>1, <3>2 DEF RowFollows, AtAbsent, AtSeen, AtKnown, r, s
  <2>6. CASE me.pc = "added"
    <3>1. /\ discovery'[g].pc = "known"
          /\ s = IF u \in Discover!Known(g) \ accounts THEN [r EXCEPT !.status = "pending"] ELSE r
      <4>1. Discover!Go(g, "known") /\ gathered' = Discover!Marked(Discover!Known(g) \ me.accounts, "pending")
        BY <2>6 DEF Discover!UpdateStatus
      <4> QED
        BY <1>2, <2>3, <4>1, GoMeans
    <3> HIDE DEF r, s
    <3>2. /\ s.status = IF u \in Discover!Known(g) \ accounts THEN "pending" ELSE r.status
          /\ s.remote = r.remote
      BY <2>4, <3>1
    <3> QED
      BY <1>1, <1>3, <2>1, <2>6, <3>1, <3>2 DEF RowFollows, AtAbsent, AtSeen, AtKnown, r, s
  <2>7. CASE me.pc = "known"
    <3>1. /\ discovery'[g].pc = "seen"
          /\ s = IF u \in accounts THEN [r EXCEPT !.status = "confirmed"] ELSE r
      <4>1. Discover!Go(g, "seen") /\ gathered' = Discover!Marked(me.accounts, "confirmed")
        BY <2>7 DEF Discover!UpdateStatus
      <4> QED
        BY <1>2, <2>3, <4>1, GoMeans
    <3> HIDE DEF r, s
    <3>2. /\ s.status = IF u \in accounts THEN "confirmed" ELSE r.status
          /\ s.remote = r.remote
      BY <2>4, <3>1
    <3> QED
      BY <1>1, <1>3, <2>1, <2>7, <3>1, <3>2 DEF RowFollows, AtAbsent, AtSeen, AtKnown, r, s
  <2>8. CASE me.pc = "seen"
    <3>1. /\ discovery'[g].pc = "absent"
          /\ s = IF u \in remote THEN [r EXCEPT !.remote = TRUE] ELSE r
      <4>1. Discover!Go(g, "absent") /\ gathered' = Discover!Remote(me.seen, TRUE)
        BY <2>8 DEF Discover!UpdateStatus
      <4>2. s = IF u \in me.seen THEN [r EXCEPT !.remote = TRUE] ELSE r
        BY <2>3, <4>1, Zenon
      <4> QED
        BY <1>2, <4>1, <4>2, GoMeans
    <3> HIDE DEF r, s
    <3>2. /\ s.remote = IF u \in remote THEN TRUE ELSE r.remote
          /\ s.status = r.status
      BY <2>4, <3>1
    <3> QED
      BY <1>1, <1>3, <2>1, <2>8, <3>1, <3>2 DEF RowFollows, AtAbsent, AtSeen, AtKnown, r, s
  <2>9. CASE me.pc = "absent"
    <3>1. /\ discovery'[g].pc = "present"
          /\ s = IF u \in accounts THEN r ELSE [r EXCEPT !.present = FALSE]
      <4>1. Discover!Go(g, "present") /\ gathered' = Discover!Present(User \ me.accounts, FALSE)
        BY <2>9 DEF Discover!UpdateStatus
      <4>2. u \in User \ me.accounts <=> u \notin accounts
        BY <1>2
      <4>3. s = IF u \in User \ me.accounts THEN [r EXCEPT !.present = FALSE] ELSE r
        BY <2>3, <4>1, Zenon
      <4> QED
        BY <4>1, <4>2, <4>3, GoMeans
    <3> HIDE DEF r, s
    <3>2. /\ s.present = IF u \in accounts THEN r.present ELSE FALSE
          /\ s.status = r.status /\ s.remote = r.remote
      BY <2>4, <3>1
    <3> QED
      BY <1>1, <1>3, <2>1, <2>9, <3>1, <3>2 DEF RowFollows, AtAbsent, AtSeen, AtKnown, r, s
  <2>10. CASE me.pc = "present"
    <3>1. /\ discovery'[g].pc = IF Sync THEN "sync" ELSE "flush"
          /\ s = IF u \in accounts THEN [r EXCEPT !.present = TRUE] ELSE r
      <4>1. /\ Discover!Go(g, IF Sync THEN "sync" ELSE "flush")
            /\ gathered' = Discover!Present(me.accounts, TRUE)
        BY <2>10 DEF Discover!UpdateStatus
      <4>2. s = IF u \in me.accounts THEN [r EXCEPT !.present = TRUE] ELSE r
        BY <2>3, <4>1, Zenon
      <4> QED
        BY <1>2, <4>1, <4>2, GoMeans
    <3> HIDE DEF r, s
    <3>2. /\ s.present = IF u \in accounts THEN TRUE ELSE r.present
          /\ s.status = r.status /\ s.remote = r.remote
      BY <2>4, <3>1
    <3> QED
      BY <1>1, <1>3, <2>1, <2>10, <3>1, <3>2 DEF RowFollows, AtAbsent, AtSeen, AtKnown, r, s
  <2> QED
    BY <1>1, <2>5, <2>6, <2>7, <2>8, <2>9, <2>10
<1> QED
  BY <1>3, <1>4, <1>5 DEF RowQuiet

LEMMA QuietUpdates ==
    ASSUME DiscoverInv, NEW g \in Run, Quietly(g), Discover!UpdateStatus(g)
    PROVE  Quietly(g)'
<1> DEFINE me == discovery[g]
<1>1. /\ me.pc \in {"lost", "added", "known", "seen", "absent", "present"}
      /\ remote' = remote /\ accounts' = accounts /\ risk' = risk
  BY DEF Discover!UpdateStatus
<1>2. PICK where \in {"added", "known", "seen", "absent", "present", "sync", "flush"} :
        Discover!Go(g, where) /\ (where = "sync" => Sync) /\ (where = "flush" => ~ Sync)
  <2>1. CASE me.pc # "present"
    BY <2>1 DEF Discover!UpdateStatus
  <2>2. CASE me.pc = "present" /\ Sync
    BY <2>2 DEF Discover!UpdateStatus
  <2>3. CASE me.pc = "present" /\ ~ Sync
    BY <2>3 DEF Discover!UpdateStatus
  <2> QED
    BY <2>1, <2>2, <2>3
<1>3. /\ discovery'[g].pc = where /\ discovery'[g].seen = me.seen /\ discovery'[g].accounts = me.accounts
      /\ discovery'[g].risk = me.risk
      /\ \A h \in Run : h # g => discovery'[h] = discovery[h]
  BY <1>2, GoMeans
<1>4. \A u \in User : RowQuiet(g, u)'
  BY QuietStatement
<1>5. me.pc \in Unflushed /\ where \in Unflushed /\ where \notin {"new", "read", "loaded", "failed", "synced", "done"}
  BY <1>1, <1>2 DEF Unflushed, Rowed, AtKnown, AtSeen, AtAbsent
<1>6. AccountsThen(g)'
  BY <1>1, <1>2, <1>3, <1>5 DEF Quietly, AccountsThen
<1> QED
  BY <1>1, <1>2, <1>3, <1>4, <1>5, <1>6 DEF Quietly

\* The statements of sync_accounts.
LEMMA QuietSyncs ==
    ASSUME DiscoverInv, NEW g \in Run, Quietly(g), Discover!SyncAccounts(g)
    PROVE  Quietly(g)'
<1> DEFINE me == discovery[g]
           new == {u \in User : gathered[u] # None /\ u \notin accounts}
<1>1. /\ me.pc \in {"sync", "synced"} /\ remote' = remote /\ risk' = risk
      /\ Discover!Go(g, IF me.pc = "sync" THEN "synced" ELSE "flush")
  BY DEF Discover!SyncAccounts
<1>2. Sync /\ me.pc \in Rowed /\ me.pc \in Unflushed /\ me.pc \in AtAbsent
  BY <1>1 DEF Quietly, Rowed, Unflushed, AtKnown, AtSeen, AtAbsent
<1>3. PICK where \in {"synced", "flush"} : where = (IF me.pc = "sync" THEN "synced" ELSE "flush") /\ Discover!Go(g, where)
  BY <1>1
<1>4. /\ discovery'[g].pc = where /\ discovery'[g].seen = me.seen /\ discovery'[g].accounts = me.accounts
      /\ discovery'[g].risk = me.risk /\ discovery'[g].row = me.row
      /\ \A h \in Run : h # g => discovery'[h] = discovery[h]
      /\ Discover!Known(g)' = Discover!Known(g)
      /\ \A u : NotIgnoredBefore(g, u)' <=> NotIgnoredBefore(g, u)
  BY <1>3, GoMeans
<1>5. ASSUME NEW u \in User
      PROVE  /\ gathered'[u] # None <=> gathered[u] # None
             /\ gathered[u] # None => /\ gathered'[u].id = gathered[u].id
                                      /\ gathered'[u].remote = gathered[u].remote
                                      /\ gathered[u].status # "ignored" => gathered'[u].status # "ignored"
  <2> DEFINE r == gathered[u]
             confirmed == [r EXCEPT !.status = "confirmed"]
             present == [r EXCEPT !.present = TRUE]
  <2>1. gathered'[u] \in {r, confirmed, present} /\ (r = None => gathered'[u] = r)
    BY <1>1 DEF Discover!SyncAccounts
  <2>2. r # None => r \in Discover!Rows
    BY NoneIsNoRow DEF DiscoverInv, Discover!TypeOK, Discover!RowTable
  <2> HIDE DEF r
  <2>3. r \in Discover!Rows => /\ confirmed.id = r.id /\ confirmed.remote = r.remote
                               /\ confirmed.status = "confirmed"
                               /\ present.id = r.id /\ present.remote = r.remote /\ present.status = r.status
    BY DEF Discover!Rows
  <2>4. r \in Discover!Rows => confirmed # None /\ present # None
    <3>1. r \in Discover!Rows => confirmed \in Discover!Rows /\ present \in Discover!Rows
      BY RowChanges, ZenonT(60) DEF Discover!Status
    <3> QED
      BY <3>1, ZenonT(60) DEF DiscoverInv, Discover!DiscoveryAssumption
  <2> HIDE DEF confirmed, present
  <2>5. /\ gathered'[u] # None <=> r # None
        /\ r # None => /\ gathered'[u].id = r.id /\ gathered'[u].remote = r.remote
                       /\ r.status # "ignored" => gathered'[u].status # "ignored"
    BY <2>1, <2>2, <2>3, <2>4
  <2> QED
    BY <2>5 DEF r
<1>6. \A u \in User : RowQuiet(g, u)'
  <2> SUFFICES ASSUME NEW u \in User PROVE RowQuiet(g, u)'
    OBVIOUS
  <2>1. RowThere(g, u) /\ (gathered[u] # None /\ NotIgnoredBefore(g, u) => RowFollows(g, u))
    BY <1>2 DEF Quietly, RowQuiet
  <2>2. RowThere(g, u)'
    BY <1>1, <1>4, <1>5, <2>1 DEF RowThere
  <2>3. ASSUME gathered'[u] # None, NotIgnoredBefore(g, u) PROVE RowFollows(g, u)'
    <3>1. gathered[u] # None /\ RowFollows(g, u)
      BY <1>5, <2>1, <2>3
    <3> QED
      BY <1>1, <1>2, <1>4, <1>5, <3>1 DEF RowFollows
  <2> QED
    BY <1>4, <2>2, <2>3 DEF RowQuiet
<1>7. AccountsThen(g)'
  <2>1. CASE me.pc = "sync"
    <3>1. accounts = me.accounts /\ accounts' = accounts \cup new
      BY <2>1 DEF Quietly, AccountsThen, Discover!SyncAccounts
    <3>2. {u \in User : gathered'[u] # None} = {u \in User : gathered[u] # None}
      BY <1>5
    <3> QED
      BY <1>2, <1>3, <1>4, <2>1, <3>1, <3>2 DEF AccountsThen
  <2>2. CASE me.pc = "synced"
    <3>1. accounts = me.accounts \cup {u \in User : gathered[u] # None} /\ accounts' = accounts
      BY <1>2, <2>2 DEF Quietly, AccountsThen, Discover!SyncAccounts
    <3>2. {u \in User : gathered'[u] # None} = {u \in User : gathered[u] # None}
      BY <1>5
    <3> QED
      BY <1>2, <1>3, <1>4, <2>2, <3>1, <3>2 DEF AccountsThen
  <2> QED
    BY <1>1, <2>1, <2>2
<1>8. where \in Unflushed /\ where \notin {"new", "read", "loaded", "done"}
  BY <1>3 DEF Unflushed, Rowed, AtKnown, AtSeen, AtAbsent
<1> QED
  BY <1>1, <1>2, <1>4, <1>6, <1>7, <1>8 DEF Quietly

\* What an execution that is alone makes of a risk: one that is resolved is gone, ...
LEMMA ResolvedIsGone ==
    ASSUME NEW g \in Run, NEW k \in Discover!Kind, NEW u \in User, risk = discovery[g].risk,
           u \in Discover!Resolved(g)[k], u \notin Discover!Recorded(g)[k]
    PROVE  Discover!Flushed(g)[k][u] = None
<1>1. u \notin Discover!Missing(g, k) /\ u \notin Discover!Outdated(g, k)
  BY DEF Discover!Missing, Discover!Outdated
<1>2. Discover!SameRisk(g, k, u) <=> risk[k][u] # None
  BY DEF Discover!SameRisk
<1>3. Discover!Flushed(g)[k][u] =
        CASE u \in Discover!Resolved(g)[k] /\ Discover!SameRisk(g, k, u) -> None
          [] u \in Discover!Missing(g, k) /\ risk[k][u] = None /\ <<k, u>> \notin Discover!Broken(g) ->
               [id |-> g, status |-> "pending", row |-> Discover!RefOf(g, k, u), account |-> FALSE]
          [] u \in Discover!Outdated(g, k) /\ Discover!SameRisk(g, k, u) -> Discover!Updated(g, k, u)
          [] OTHER -> risk[k][u]
  BY DEF Discover!Flushed
<1> QED
  BY <1>1, <1>2, <1>3

\* ... and one that is recorded is there and waits to be handled.
LEMMA RecordedWaits ==
    ASSUME DiscoverInv, NEW g \in Run, NEW k \in Discover!Kind, NEW u \in User, risk = discovery[g].risk,
           u \in Discover!Recorded(g)[k], u \notin Discover!Resolved(g)[k],
           Discover!HasRow(u, Discover!RefOf(g, k, u))
    PROVE  /\ Discover!Flushed(g)[k][u] # None
           /\ Discover!Flushed(g)[k][u].status = "pending"
<1> DEFINE x == risk[k][u]
           reported == [id |-> g, status |-> "pending", row |-> Discover!RefOf(g, k, u), account |-> FALSE]
<1>1. Discover!Flushed(g)[k][u] =
        CASE u \in Discover!Resolved(g)[k] /\ Discover!SameRisk(g, k, u) -> None
          [] u \in Discover!Missing(g, k) /\ x = None /\ <<k, u>> \notin Discover!Broken(g) -> reported
          [] u \in Discover!Outdated(g, k) /\ Discover!SameRisk(g, k, u) -> Discover!Updated(g, k, u)
          [] OTHER -> x
  BY DEF Discover!Flushed
<1>2. /\ u \in Discover!Missing(g, k) <=> x = None
      /\ Discover!SameRisk(g, k, u) <=> x # None
      /\ u \in Discover!Outdated(g, k) <=> x # None /\ Discover!Updated(g, k, u) # x
  BY DEF Discover!Missing, Discover!SameRisk, Discover!Outdated
<1>3. <<k, u>> \notin Discover!Broken(g)
  BY DEF Discover!Broken
<1>4. x # None => x \in Discover!Risks
  BY NoneIsNoRow DEF DiscoverInv, Discover!TypeOK, Discover!RiskTable
<1>5. Discover!RefOf(g, k, u) \in Run \cup {None}
  BY ReferencesAreRuns
<1>6. reported \in Discover!Risks /\ reported.status = "pending"
  BY <1>5 DEF Discover!Risks, Discover!Status
<1>7. x # None => Discover!Updated(g, k, u) \in Discover!Risks /\ Discover!Updated(g, k, u).status = "pending"
  <2> SUFFICES ASSUME x # None
               PROVE  Discover!Updated(g, k, u) \in Discover!Risks /\ Discover!Updated(g, k, u).status = "pending"
    OBVIOUS
  <2> DEFINE ref == IF Discover!RefOf(g, k, u) = None THEN x.row ELSE Discover!RefOf(g, k, u)
  <2>1. Discover!Updated(g, k, u) = [x EXCEPT !.status = "pending", !.row = ref]
    BY DEF Discover!Updated
  <2>2. ref \in Run \cup {None} /\ x \in Discover!Risks
    BY <1>4, <1>5 DEF Discover!Risks
  <2> HIDE DEF ref, x
  <2> QED
    BY <2>1, <2>2 DEF Discover!Risks, Discover!Status
<1>8. \A y \in Discover!Risks : y # None
  BY DEF DiscoverInv, Discover!DiscoveryAssumption
<1> HIDE DEF x, reported
<1>9. CASE x = None
  <2>1. Discover!Flushed(g)[k][u] = reported
    BY <1>1, <1>2, <1>3, <1>9
  <2> QED
    BY <1>6, <1>8, <2>1
<1>10. CASE x # None /\ Discover!Updated(g, k, u) # x
  <2>1. Discover!Flushed(g)[k][u] = Discover!Updated(g, k, u)
    BY <1>1, <1>2, <1>10
  <2> QED
    BY <1>7, <1>8, <1>10, <2>1
<1>11. CASE x # None /\ Discover!Updated(g, k, u) = x
  <2>1. Discover!Flushed(g)[k][u] = x
    BY <1>1, <1>2, <1>11
  <2> QED
    BY <1>7, <1>11, <2>1
<1> QED
  BY <1>9, <1>10, <1>11

\* The end of an execution.
LEMMA QuietFlushes ==
    ASSUME DiscoverInv, NEW g \in Run, Quietly(g), Discover!Flush(g)
    PROVE  Quietly(g)'
<1> DEFINE me == discovery[g]
<1>1. /\ me.pc = "flush" /\ remote' = remote /\ accounts' = accounts /\ gathered' = gathered
      /\ \/ risk' = Discover!Flushed(g) /\ Discover!Go(g, "done")
         \/ Discover!Go(g, "failed")
  BY DEF Discover!Flush
<1>2. /\ me.seen = remote /\ risk = me.risk /\ AccountsThen(g)
      /\ \A u \in User : RowQuiet(g, u)
      /\ \A h \in Run : h # g => discovery[h].pc \in {"new", "done", "failed"}
  BY <1>1 DEF Quietly, Unflushed, Rowed, AtKnown, AtSeen, AtAbsent
<1>3. ASSUME NEW where \in {"done", "failed"}, Discover!Go(g, where)
      PROVE  /\ discovery'[g].pc = where /\ discovery'[g].seen = me.seen /\ discovery'[g].accounts = me.accounts
             /\ discovery'[g].row = me.row
             /\ \A h \in Run : h # g => discovery'[h].pc \in {"new", "done", "failed"}
             /\ Discover!Known(g)' = Discover!Known(g)
             /\ \A u : NotIgnoredBefore(g, u)' <=> NotIgnoredBefore(g, u)
             /\ AccountsThen(g)'
  <2>1. /\ discovery'[g].pc = where /\ discovery'[g].seen = me.seen /\ discovery'[g].accounts = me.accounts
        /\ discovery'[g].row = me.row
        /\ \A h \in Run : h # g => discovery'[h] = discovery[h]
        /\ Discover!Known(g)' = Discover!Known(g)
        /\ \A u : NotIgnoredBefore(g, u)' <=> NotIgnoredBefore(g, u)
    BY <1>3, GoMeans
  <2>2. AccountsThen(g)'
    BY <1>1, <1>2, <2>1 DEF AccountsThen
  <2> QED
    BY <1>2, <2>1, <2>2
<1>4. CASE Discover!Go(g, "failed")
  BY <1>1, <1>2, <1>3, <1>4 DEF Quietly, Unflushed, Rowed, AtKnown, AtSeen, AtAbsent
<1>5. CASE risk' = Discover!Flushed(g) /\ Discover!Go(g, "done")
  <2>1. \A u \in User : RowQuiet(g, u)'
    <3> SUFFICES ASSUME NEW u \in User PROVE RowQuiet(g, u)'
      OBVIOUS
    <3>1. RowQuiet(g, u)
      BY <1>2
    <3>2. RowThere(g, u)'
      BY <1>1, <1>3, <1>5, <3>1 DEF RowQuiet, RowThere
    <3>3. RowFollows(g, u) => RowFollows(g, u)'
      BY <1>1, <1>3, <1>5 DEF RowFollows, AtKnown, AtSeen, AtAbsent
    <3> QED
      BY <1>1, <1>3, <1>5, <3>1, <3>2, <3>3 DEF RowQuiet
  <2>2. ASSUME NEW u \in User PROVE RisksRight(u)'
    <3>1. RowThere(g, u) /\ "new_found" \in Discover!Kind /\ "account_deleted" \in Discover!Kind
      BY <1>2 DEF RowQuiet, Discover!Kind
    <3>2. /\ Discover!Resolved(g)["account_deleted"] = remote
          /\ Discover!Recorded(g)["account_deleted"] = Discover!Known(g) \ remote
          /\ Discover!Resolved(g)["new_found"] = IF Sync THEN remote ELSE remote \cap me.accounts
          /\ Discover!Recorded(g)["new_found"] = IF Sync THEN {} ELSE remote \ me.accounts
      BY <1>2 DEF Discover!Resolved, Discover!Recorded, Discover!Kind
    <3>3. CASE u \in remote
      <4>1. Discover!Flushed(g)["account_deleted"][u] = None
        BY <1>2, <3>1, <3>2, <3>3, ResolvedIsGone
      <4>2. gathered[u] # None
        BY <3>1, <3>3 DEF RowThere
      <4>3. u \in accounts => Discover!Flushed(g)["new_found"][u] = None
        <5>1. u \in accounts => Sync \/ u \in me.accounts
          BY <1>2 DEF AccountsThen
        <5> QED
          BY <1>2, <3>1, <3>2, <3>3, <5>1, ResolvedIsGone
      <4>4. ASSUME u \notin accounts
            PROVE  /\ Discover!Flushed(g)["new_found"][u] # None
                   /\ Discover!Flushed(g)["new_found"][u].status = "pending"
        <5>1. ~ Sync /\ u \notin me.accounts
          BY <1>1, <1>2, <4>2, <4>4 DEF AccountsThen
        <5>2. u \in Discover!Recorded(g)["new_found"] /\ u \notin Discover!Resolved(g)["new_found"]
          BY <3>2, <3>3, <5>1
        <5>3. Discover!HasRow(u, Discover!RefOf(g, "new_found", u))
          BY <3>1, <4>2 DEF RowThere, Discover!HasRow, Discover!RefOf
        <5> QED
          BY <1>2, <3>1, <5>2, <5>3, RecordedWaits
      <4> QED
        BY <1>1, <1>5, <3>3, <4>1, <4>3, <4>4 DEF RisksRight
    <3>4. CASE u \notin remote
      <4>1. ASSUME gathered[u] # None
            PROVE  /\ Discover!Flushed(g)["account_deleted"][u] # None
                   /\ Discover!Flushed(g)["account_deleted"][u].status = "pending"
        <5>1. /\ u \in Discover!Recorded(g)["account_deleted"]
              /\ u \notin Discover!Resolved(g)["account_deleted"]
          BY <3>1, <3>2, <3>4, <4>1 DEF RowThere
        <5>2. Discover!HasRow(u, Discover!RefOf(g, "account_deleted", u))
          BY SMTT(60) DEF Discover!HasRow, Discover!RefOf
        <5> QED
          BY <1>2, <3>1, <5>1, <5>2, RecordedWaits
      <4> QED
        BY <1>1, <1>5, <3>4, <4>1 DEF RisksRight
    <3> QED
      BY <3>3, <3>4
  <2> QED
    BY <1>1, <1>2, <1>3, <1>5, <2>1, <2>2 DEF Quietly, Unflushed, Rowed, AtKnown, AtSeen, AtAbsent
<1> QED
  BY <1>1, <1>4, <1>5

\* Whoever begins, finds nobody at work, and ends alone.
LEMMA QuietSteps ==
    ASSUME DiscoverInv, QuietInv, [Discover!Next]_(Discover!vars)
    PROVE  QuietInv'
<1>1. CASE calm' = None
  BY <1>1 DEF QuietInv
<1>2. CASE UNCHANGED Discover!vars
  <2>1. \A g : Quietly(g)' <=> Quietly(g)
    BY <1>2 DEF Discover!vars, Quietly, AccountsThen, RowQuiet, RowThere, RowFollows, NotIgnoredBefore,
       RisksRight, Discover!Known
  <2> QED
    BY <1>2, <2>1 DEF QuietInv, Discover!vars
<1>3. ASSUME NEW g \in Run, Discover!Scan(g), calm' # None PROVE QuietInv'
  <2>1. calm' = g /\ Discover!Busy = {}
    BY <1>3 DEF Discover!Scan
  <2>2. discovery' = [discovery EXCEPT ![g] = [discovery[g] EXCEPT !.pc = "scanned", !.seen = remote]]
    BY <1>3 DEF Discover!Scan
  <2>3. /\ discovery'[g].pc = "scanned" /\ discovery'[g].seen = remote /\ remote' = remote
        /\ \A h \in Run : h # g => discovery'[h] = discovery[h]
    BY <1>3, <2>2 DEF DiscoverInv, Discover!TypeOK, Discover!Scan
  <2>4. \A h \in Run : discovery[h].pc \in {"new", "done", "failed"}
    BY <2>1 DEF Discover!Busy
  <2> QED
    BY <2>1, <2>3, <2>4 DEF QuietInv, Quietly, Unflushed, Rowed, AtKnown, AtSeen, AtAbsent
<1>4. ASSUME NEW g \in Run, Discover!Gather(g), ~ Discover!Scan(g), calm' # None PROVE QuietInv'
  <2>1. calm' = calm /\ discovery[g].pc \notin {"new", "done", "failed"}
    BY <1>4 DEF Discover!Gather, Discover!Prefetch, Discover!LoadRisks, Discover!CreateRows,
       Discover!UpdateStatus, Discover!SyncAccounts, Discover!Flush
  <2>2. calm = g /\ Quietly(g)
    BY <1>4, <2>1 DEF QuietInv, Quietly
  <2>3. Quietly(g)'
    BY <1>4, <2>2, QuietReads, QuietCreates, QuietUpdates, QuietSyncs, QuietFlushes DEF Discover!Gather
  <2> QED
    BY <2>1, <2>2, <2>3, SMTT(60) DEF QuietInv
<1> QED
  BY <1>1, <1>2, <1>3, <1>4, ZenonT(60)
  DEF Discover!Next, Discover!Change, Discover!Read, Discover!Finish, Discover!Lone

\* An execution that nothing interfered with leaves rows and risks as the host and the accounts
\* are, whatever earlier executions, requests and changes left behind
\* (GatherAccountsManager.do_run, update_gather_accounts_status, AnalyseAccountRisk): what
\* nobody manages and what is gone from the host is a pending risk, what is managed or came
\* back is none.
THEOREM QuietRunsRepair ==
    ASSUME Discover!DiscoveryAssumption
    PROVE  Discover!Spec => []Discover!QuietRunRepairs
<1>1. Discover!Init => DiscoverInv /\ QuietInv
  BY DiscoverBegins DEF Discover!Init, QuietInv
<1>2. DiscoverInv /\ QuietInv /\ [Discover!Next]_(Discover!vars) => (DiscoverInv /\ QuietInv)'
  BY DiscoverKeeps, QuietSteps
<1>3. DiscoverInv /\ QuietInv => Discover!QuietRunRepairs
  <2> SUFFICES ASSUME DiscoverInv, QuietInv, NEW g \in Run, Discover!Quiet(g), NEW u \in User
               PROVE  /\ u \in remote =>
                           /\ gathered[u] # None /\ risk["account_deleted"][u] = None
                           /\ u \in accounts => risk["new_found"][u] = None
                           /\ u \notin accounts => /\ risk["new_found"][u] # None
                                                   /\ risk["new_found"][u].status = "pending"
                           /\ Discover!Judged(g, u) =>
                                /\ gathered[u].remote
                                /\ ~ Sync => /\ gathered[u].present <=> u \in accounts
                                             /\ gathered[u].status = "confirmed" <=> u \in accounts
                      /\ u \notin remote /\ gathered[u] # None =>
                           /\ risk["account_deleted"][u] # None
                           /\ risk["account_deleted"][u].status = "pending"
                           /\ Discover!Judged(g, u) => ~ gathered[u].remote
    BY DEF Discover!QuietRunRepairs, DiscoverInv, Discover!TypeOK
  <2>1. discovery[g].pc = "done" /\ calm = g /\ g # None
    BY DEF Discover!Quiet, DiscoverInv, Discover!DiscoveryAssumption
  <2>2. RowQuiet(g, u) /\ RisksRight(u)
    BY <2>1 DEF QuietInv, Quietly, Rowed, AtKnown, AtSeen, AtAbsent
  <2>3. u \in remote => gathered[u] # None
    BY <2>2 DEF RowQuiet, RowThere
  <2>4. gathered[u] # None /\ Discover!Judged(g, u) => RowFollows(g, u)
    BY <2>2 DEF RowQuiet, NotIgnoredBefore, Discover!Judged
  <2> QED
    BY <2>1, <2>2, <2>3, <2>4 DEF RisksRight, RowFollows, AtKnown, AtSeen, AtAbsent
<1> QED
  BY <1>1, <1>2, <1>3, PTL DEF Discover!Spec
=============================================================================
