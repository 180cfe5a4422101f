----------------------------- MODULE WorkerWatch -----------------------------
(***************************************************************************)
(* How an execution whose worker died is found.  A Celery task runs its    *)
(* executions one after the other; the periodic check closes those that    *)
(* are open though their task is over (Celery says so), or though their    *)
(* worker does not run the task (the workers say so, twice, long enough    *)
(* apart), or whose worker no longer answers after the hard deadline.      *)
(* What closing an execution does to its records is SecretRotation's part. *)
(* A tick is the period of the check, ten minutes.                         *)
(***************************************************************************)
EXTENDS Integers, FiniteSets

CONSTANTS
  Tasks, Executions, Workers, None,
  OwnerOf,      \* the task of an execution
  Grace,        \* INTERRUPTED_TASK_START_GRACE
  Confirm,      \* INTERRUPTED_TASK_CONFIRM_SECONDS
  MarkerTTL,    \* INTERRUPTED_TASK_CACHE_TIMEOUT
  Deadline,     \* total_timeout + 600
  MaxFaults     \* bound on what goes wrong

WatchAssumption ==
  /\ OwnerOf \in [Executions -> Tasks] /\ IsFiniteSet(Tasks) /\ None \notin Executions \cup Workers
  /\ {Grace, Confirm, MarkerTTL, Deadline, MaxFaults} \subseteq Nat
  /\ 0 < Confirm /\ Confirm < MarkerTTL /\ Grace < Deadline

VARIABLES
  task,     \* what the worker does: state, host, current execution
  celery,   \* rows CeleryTaskExecution
  row,      \* status of the rows of the executions
  age,      \* ticks since date_start, at most Deadline
  up,       \* workers that run
  cut,      \* workers that do not hear the others
  marker,   \* account_automation:missing:<execution>, its age
  missed,   \* executions of a running task a reply left out, and not seen since
  check,    \* the periodic check
  revoked,  \* executions on_celery_task_revoked still closes
  faults,
  recent    \* whether the beat has started the check of this tick
vars == <<task, celery, row, age, up, cut, marker, missed, check, revoked, faults, recent>>

NoCheck == [state |-> "idle"]
NoTask == [state |-> "new", host |-> None, cur |-> None]
Live(t) == task[t].state = "running"
Terminal == {"SUCCESS", "FAILURE", "REVOKED"}
CloseAs(e, s) == row' = [row EXCEPT ![e] = s]

(* One type invariant; one task has one open execution at work. *)
TypeOK ==
  /\ task \in [Tasks -> [state: {"new", "running", "ending", "over"}, host: Workers \cup {None},
                         cur: Executions \cup {None}]]
  /\ celery \in [Tasks -> {"PENDING", "RUNNING"} \cup Terminal]
  /\ row \in [Executions -> {"none", "open", "done", "canceled", "error"}]
  /\ age \in [Executions -> 0..Deadline] /\ marker \in [Executions -> -1..MarkerTTL]
  /\ up \subseteq Workers /\ cut \subseteq Workers /\ missed \subseteq Executions /\ revoked \subseteq Executions
  /\ faults \in 0..MaxFaults /\ recent \in BOOLEAN
  /\ check.state \in {"idle", "ended", "inspect", "missing"}
  /\ \A t \in Tasks : Live(t) => task[t].host \in up

----------------------------------------------------------------------------
(* The worker. *)
Start(t, w) ==
  /\ task[t] = NoTask /\ w \in up
  /\ task' = [task EXCEPT ![t] = [NoTask EXCEPT !.state = "running", !.host = w]]
  /\ celery' = [celery EXCEPT ![t] = "RUNNING"]
  /\ UNCHANGED <<row, age, up, cut, marker, missed, check, revoked, faults, recent>>
Create(t, e) ==
  /\ Live(t) /\ task[t].cur = None /\ OwnerOf[e] = t /\ row[e] = "none"
  /\ CloseAs(e, "open") /\ age' = [age EXCEPT ![e] = 0]
  /\ task' = [task EXCEPT ![t].cur = e]
  /\ UNCHANGED <<celery, up, cut, marker, missed, check, revoked, faults, recent>>
(* post_run; when its save raises, the task goes no further. *)
Save(t) ==
  /\ Live(t) /\ task[t].cur # None
  /\ \/ /\ CloseAs(task[t].cur, "done") /\ UNCHANGED faults
        /\ task' = [task EXCEPT ![t].cur = None]
     \/ /\ UNCHANGED row /\ faults < MaxFaults /\ faults' = faults + 1
        /\ task' = [task EXCEPT ![t].cur = None, ![t].state = "ending"]
  /\ UNCHANGED <<celery, age, up, cut, marker, missed, check, revoked, recent>>
End(t) ==
  /\ Live(t) /\ task[t].cur = None /\ task' = [task EXCEPT ![t].state = "ending"]
  /\ UNCHANGED <<celery, row, age, up, cut, marker, missed, check, revoked, faults, recent>>
(* on_celery_task_post_run *)
PostRun(t) ==
  /\ task[t].state = "ending" /\ task' = [task EXCEPT ![t].state = "over"]
  /\ \E s \in {"SUCCESS", "FAILURE"} : celery' = [celery EXCEPT ![t] = IF @ = "REVOKED" THEN @ ELSE s]
  /\ UNCHANGED <<row, age, up, cut, marker, missed, check, revoked, faults, recent>>

TasksDie(w) ==
  [t \in Tasks |-> IF task[t].host = w THEN [task[t] EXCEPT !.state = "over", !.cur = None] ELSE task[t]]
Kill(w) ==
  /\ w \in up /\ faults < MaxFaults /\ faults' = faults + 1 /\ up' = up \ {w}
  /\ task' = TasksDie(w)
  /\ UNCHANGED <<celery, row, age, cut, marker, missed, check, revoked, recent>>
Restart(w) ==
  /\ w \notin up /\ up' = up \cup {w}
  /\ UNCHANGED <<task, celery, row, age, cut, marker, missed, check, revoked, faults, recent>>
(* One worker at least hears the check. *)
Cut(w) ==
  /\ w \notin cut /\ cut \cup {w} # Workers /\ faults < MaxFaults /\ faults' = faults + 1
  /\ cut' = cut \cup {w}
  /\ UNCHANGED <<task, celery, row, age, up, marker, missed, check, revoked, recent>>
Heal(w) ==
  /\ w \in cut /\ cut' = cut \ {w}
  /\ UNCHANGED <<task, celery, row, age, up, marker, missed, check, revoked, faults, recent>>

(* A task is terminated: on_celery_task_revoked. *)
Revoke(t) ==
  /\ Live(t) /\ faults < MaxFaults /\ faults' = faults + 1
  /\ task' = [task EXCEPT ![t].state = "over", ![t].cur = None]
  /\ celery' = [celery EXCEPT ![t] = "REVOKED"]
  /\ revoked' = revoked \cup {e \in Executions : OwnerOf[e] = t /\ row[e] = "open"}
  /\ UNCHANGED <<row, age, up, cut, marker, missed, check, recent>>

----------------------------------------------------------------------------
(* finalize_interrupted_execution: the row is read again under its lock.   *)
AsRead(e) == TRUE
StillOpen(e) == row[e] = "open"
Finalize(e, s) == IF StillOpen(e) THEN CloseAs(e, s) ELSE UNCHANGED row
CloseRevoked(e) ==
  /\ e \in revoked
  /\ \/ Finalize(e, "canceled") /\ revoked' = revoked \ {e} /\ UNCHANGED faults
     \/ UNCHANGED row /\ revoked' = {} /\ faults < MaxFaults /\ faults' = faults + 1
  /\ UNCHANGED <<task, celery, age, up, cut, marker, missed, check, recent>>

(* The check.  First the executions whose task Celery knows to be over.    *)
BeginCheck ==
  /\ check = NoCheck /\ ~recent
  /\ LET open == {e \in Executions : row[e] = "open"}
         over == {e \in open : celery[OwnerOf[e]] \in Terminal} IN
     check' = [state |-> "ended", over |-> over, rest |-> open \ over,
               how |-> [e \in over |-> IF celery[OwnerOf[e]] = "REVOKED" THEN "canceled" ELSE "error"]]
  /\ recent' = TRUE
  /\ UNCHANGED <<task, celery, row, age, up, cut, marker, missed, revoked, faults>>
CloseEnded(e) ==
  /\ check.state = "ended" /\ e \in check.over
  /\ Finalize(e, check.how[e]) /\ marker' = [marker EXCEPT ![e] = -1]
  /\ check' = [check EXCEPT !.over = @ \ {e}]
  /\ UNCHANGED <<task, celery, age, up, cut, missed, revoked, faults, recent>>

(* Then the workers are asked.  A reply may leave a running task out, but  *)
(* not a second time before a pass has seen its executions running.        *)
Replies == up \ cut
Inspect ==
  /\ check.state = "ended" /\ check.over = {}
  /\ IF check.rest = {} \/ Replies = {} THEN check' = NoCheck /\ UNCHANGED <<missed, faults>>
     ELSE LET run == {t \in Tasks : Live(t) /\ task[t].host \in Replies} IN
       \E out \in SUBSET {t \in run : \A e \in missed : OwnerOf[e] # t} :
         /\ faults + Cardinality(out) <= MaxFaults /\ faults' = faults + Cardinality(out)
         /\ missed' = missed \cup {e \in check.rest : OwnerOf[e] \in out}
         /\ check' = [state |-> "missing", rest |-> check.rest, active |-> run \ out, replied |-> Replies]
  /\ UNCHANGED <<task, celery, row, age, up, cut, marker, revoked, recent>>

Host(e) == task[OwnerOf[e]].host
IsActive(e) == OwnerOf[e] \in check.active
WorkerReplied(e) == Host(e) \in check.replied
(* What one reply says of an execution. *)
TooYoung(e) == age[e] < Grace
PresentWithoutReply(e) == IsActive(e) \/ ~WorkerReplied(e)
Present(e) == IsActive(e) \/ (~WorkerReplied(e) /\ age[e] < Deadline)
Clear(e) == [marker EXCEPT ![e] = -1]
ConfirmedAtOnce(e) == TRUE
Confirmed(e) == marker[e] >= Confirm
Look(e) ==
  /\ check.state = "missing" /\ e \in check.rest
  /\ CASE TooYoung(e) -> UNCHANGED <<row, celery, marker>>
       [] ~TooYoung(e) /\ Present(e) -> marker' = Clear(e) /\ UNCHANGED <<row, celery>>
       [] ~TooYoung(e) /\ ~Present(e) /\ ~Confirmed(e) ->
            /\ marker' = [marker EXCEPT ![e] = IF @ = -1 THEN 0 ELSE @]
            /\ UNCHANGED <<row, celery>>
       [] OTHER ->
            /\ Finalize(e, "canceled") /\ marker' = [marker EXCEPT ![e] = -1]
            /\ celery' = IF StillOpen(e) /\ celery[OwnerOf[e]] \notin Terminal
                         THEN [celery EXCEPT ![OwnerOf[e]] = "REVOKED"] ELSE celery
  /\ check' = [check EXCEPT !.rest = @ \ {e}]
  /\ missed' = IF IsActive(e) THEN missed \ {e} ELSE missed
  /\ UNCHANGED <<task, age, up, cut, revoked, faults, recent>>
EndCheck ==
  /\ check.state = "missing" /\ check.rest = {} /\ check' = NoCheck
  /\ UNCHANGED <<task, celery, row, age, up, cut, marker, missed, revoked, faults, recent>>
(* An exception ends the pass, or the worker of the check dies. *)
CheckFails ==
  /\ check # NoCheck /\ faults < MaxFaults /\ faults' = faults + 1 /\ check' = NoCheck
  /\ UNCHANGED <<task, celery, row, age, up, cut, marker, missed, revoked, recent>>

(* Ten minutes pass: the beat has started a check in the meantime, and the *)
(* time limits of the automation end its executions before the deadline.   *)
Tick ==
  /\ check = NoCheck /\ recent /\ recent' = FALSE
  /\ \A t \in Tasks : Live(t) /\ task[t].cur # None => age[task[t].cur] < Deadline - 1
  /\ age' = [e \in Executions |-> IF row[e] = "open" /\ age[e] < Deadline THEN age[e] + 1 ELSE age[e]]
  /\ marker' = [e \in Executions |-> IF marker[e] = -1 THEN -1 ELSE (IF marker[e] + 1 = MarkerTTL THEN -1 ELSE marker[e] + 1)]
  /\ UNCHANGED <<task, celery, row, up, cut, missed, check, revoked, faults>>

Init ==
  /\ task = [t \in Tasks |-> NoTask] /\ celery = [t \in Tasks |-> "PENDING"]
  /\ row = [e \in Executions |-> "none"] /\ age = [e \in Executions |-> 0]
  /\ up = Workers /\ cut = {} /\ marker = [e \in Executions |-> -1] /\ missed = {}
  /\ check = NoCheck /\ revoked = {} /\ faults = 0 /\ recent = FALSE

Work(t) == Save(t) \/ End(t) \/ PostRun(t) \/ \E e \in Executions : Create(t, e)
Watch == BeginCheck \/ Inspect \/ EndCheck \/ \E e \in Executions : CloseEnded(e) \/ Look(e)
Next ==
  \/ \E t \in Tasks : Work(t) \/ Revoke(t) \/ \E w \in Workers : Start(t, w)
  \/ \E w \in Workers : Kill(w) \/ Restart(w) \/ Cut(w) \/ Heal(w)
  \/ \E e \in Executions : CloseRevoked(e)
  \/ Watch \/ CheckFails \/ Tick

Spec == Init /\ [][Next]_vars
(* Workers work and are restarted, the beat and time go on; a network that *)
(* is cut may stay so.                                                     *)
Fairness ==
  /\ WF_vars(Watch) /\ WF_vars(Tick)
  /\ \A t \in Tasks : WF_vars(Work(t))
  /\ \A w \in Workers : WF_vars(Restart(w))
  /\ \A e \in Executions : WF_vars(CloseRevoked(e))
FairSpec == Spec /\ Fairness

----------------------------------------------------------------------------
(* The check never closes an execution whose task still works on it, with  *)
(* workers that do not answer, replies that leave a task out, tasks that   *)
(* end or die between two steps of a pass.                                 *)
ClosesGone ==
  \A e \in Executions, t \in Tasks :
    row[e] = "open" /\ row'[e] \in {"canceled", "error"} => ~(Live(t) /\ task[t].cur = e)
(* What an execution wrote as its result stays, though the check works     *)
(* with what it read at the start of its pass.                             *)
KeepsResults == \A e \in Executions : row[e] \in {"done", "canceled", "error"} => row'[e] = row[e]
(* Every execution is closed in the end, also when passes of the check die,*)
(* a result cannot be saved or a worker stays out of reach for ever.       *)
ExecutionsClose == \A e \in Executions : row[e] = "open" ~> row[e] # "open"
============================================================================
