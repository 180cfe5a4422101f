------------------------------- MODULE JobRun -------------------------------
(***************************************************************************)
(* One execution of a job of the job centre: the row, the task that works  *)
(* on it with an object it has read, requests that stop it, and the hourly *)
(* pass that closes what still says running after three hours.  Whoever    *)
(* closes a row reads it again and writes its status whatever it was.      *)
(***************************************************************************)
EXTENDS Naturals

CONSTANTS Worker,    \* workers of the ansible queue
          Request,   \* requests to stop the execution
          Nobody,
          Outcomes   \* how a runner may end

\* A runner's status that has no name of its own is stored as it is.
JobAssumption == Nobody \notin Worker /\ Outcomes \subseteq {"success", "failed", "timeout", "unknown"}

VARIABLES row,      \* status, and whether task_id is set
          task,     \* where the task is
          copy,     \* the status in the object the task has read
          outcome,  \* how its runner ended
          worker,   \* who works on it
          pidfile,  \* whether the runner has written its process id
          stop,     \* where the requests are
          signal,   \* what is on its way to the worker
          old,      \* whether the execution is three hours old
          pass,     \* whether the pass has found it
          killed    \* whether a process that had it was killed

vars == <<row, task, copy, outcome, worker, pidfile, stop, signal, old, pass, killed>>

Status == {"running", "success", "failed", "timeout", "unknown"}
AtWork == {"loaded", "saved", "ready", "running", "ended", "failing"}

TypeOK ==
    /\ row \in [status : Status, begun : BOOLEAN]
    /\ task \in {"unsent", "queued", "gone"} \cup AtWork
    /\ copy \in Status /\ outcome \in Status
    /\ worker \in Worker \cup {Nobody}
    /\ stop \in [Request -> {"new", "read", "revoke", "kill", "close", "done"}]
    /\ signal \subseteq {"terminate", "kill"}
    /\ {pidfile, old, pass, killed} \subseteq BOOLEAN

Init ==
    /\ row = [status |-> "running", begun |-> FALSE]
    /\ task = "unsent" /\ copy = "running" /\ outcome = "running"
    /\ worker = Nobody /\ pidfile = FALSE
    /\ stop = [h \in Request |-> "new"]
    /\ signal = {} /\ old = FALSE /\ pass = FALSE /\ killed = FALSE

-----------------------------------------------------------------------------
(* The task. *)

Outside == <<stop, signal, old, pass, killed>>

\* perform_create, run_job: the task is sent after the commit.
Send ==
    /\ task = "unsent"
    /\ task' = "queued"
    /\ UNCHANGED <<row, copy, outcome, worker, pidfile, Outside>>

\* run_ops_job_execution reads the row; it returns at once where commands are disabled.
Receive(w) ==
    /\ task = "queued"
    /\ \/ task' = "loaded" /\ worker' = w /\ copy' = row.status
       \/ task' = "gone" /\ UNCHANGED <<worker, copy>>
    /\ UNCHANGED <<row, outcome, pidfile, Outside>>

\* start saves the whole object with its task_id.
Begin ==
    /\ task = "loaded"
    /\ row' = [status |-> copy, begun |-> TRUE]
    /\ task' = "saved"
    /\ UNCHANGED <<copy, outcome, worker, pidfile, Outside>>

\* get_runner saves it again when hosts were excluded.
GetRunner ==
    /\ task = "saved"
    /\ row' \in {row, [row EXCEPT !.status = copy]}
    /\ task' = "ready"
    /\ UNCHANGED <<copy, outcome, worker, pidfile, Outside>>

Run ==
    /\ task = "ready"
    /\ task' = "running"
    /\ UNCHANGED <<row, copy, outcome, worker, pidfile, Outside>>

WritePid ==
    /\ task = "running" /\ ~ pidfile
    /\ pidfile' = TRUE
    /\ UNCHANGED <<row, task, copy, outcome, worker, Outside>>

RunnerEnds(o) ==
    /\ task = "running"
    /\ "kill" \in signal => o # "success"
    /\ task' = "ended" /\ outcome' = o
    /\ UNCHANGED <<row, copy, worker, pidfile, Outside>>

\* Permissions, rules, the runner, the save of its result or the soft time limit raise.
Raise ==
    /\ task \in AtWork \ {"failing"}
    /\ task' = "failing"
    /\ UNCHANGED <<row, copy, outcome, worker, pidfile, Outside>>

\* set_result, set_error: each reads the row again.  (That the database fails here too is
\* left out.)
SetResult ==
    /\ task = "ended"
    /\ row' = [row EXCEPT !.status = outcome]
    /\ task' = "gone"
    /\ UNCHANGED <<copy, outcome, worker, pidfile, Outside>>

\* Mutant: what is raised before the runner is not caught.
OnlyRunnerErrors ==
    /\ task = "failing"
    /\ row' = [row EXCEPT !.status = IF pidfile THEN "failed" ELSE @]
    /\ task' = "gone"
    /\ UNCHANGED <<copy, outcome, worker, pidfile, Outside>>

SetError ==
    /\ task = "failing"
    /\ row' = [row EXCEPT !.status = "failed"]
    /\ task' = "gone"
    /\ UNCHANGED <<copy, outcome, worker, pidfile, Outside>>

\* The process dies: the sender's before it has sent, the worker's at any time; or the
\* worker is told to terminate the task.
Die ==
    /\ task \in {"unsent"} \cup AtWork
    /\ task' = "gone" /\ killed' = TRUE
    /\ UNCHANGED <<row, copy, outcome, worker, pidfile, stop, signal, old, pass>>

-----------------------------------------------------------------------------
(* Requests to stop it. *)

Inside == <<task, copy, outcome, worker, pidfile, old, pass, killed>>

Advance(h, to) == stop' = [stop EXCEPT ![h] = to]

\* The execution is looked for by its task_id, so it is found once it has begun.
StopReads(h) ==
    /\ stop[h] = "new" /\ row.begun
    /\ Advance(h, "read")
    /\ UNCHANGED <<row, signal, Inside>>

\* The workers are asked one after the other, and one without the task decides; a request
\* that cannot ask them only closes the row.
Active(w) == task \in AtWork /\ worker = w
Inspect(h) ==
    /\ stop[h] = "read"
    /\ \/ Advance(h, IF \E w \in Worker : ~ Active(w) THEN "revoke" ELSE "kill")
       \/ Advance(h, "close")
    /\ UNCHANGED <<row, signal, Inside>>

Revoke(h) ==
    /\ stop[h] = "revoke"
    /\ signal' = signal \cup {"terminate"}
    /\ Advance(h, "close")
    /\ UNCHANGED <<row, Inside>>

\* stop publishes the process id, if there is one.
Publish(h) ==
    /\ stop[h] = "kill"
    /\ signal' = IF pidfile THEN signal \cup {"kill"} ELSE signal
    /\ Advance(h, "close")
    /\ UNCHANGED <<row, Inside>>

StopCloses(h) ==
    /\ stop[h] = "close"
    /\ row' = [row EXCEPT !.status = "failed"]
    /\ Advance(h, "done")
    /\ UNCHANGED <<signal, Inside>>

Terminate ==
    /\ "terminate" \in signal
    /\ signal' = signal \ {"terminate"}
    /\ task' = IF task \in AtWork THEN "gone" ELSE task
    /\ killed' = (killed \/ task \in AtWork)
    /\ UNCHANGED <<row, copy, outcome, worker, pidfile, stop, old, pass>>

-----------------------------------------------------------------------------
(* clean_unexpected_execution. *)

Grow ==
    /\ ~ old
    /\ old' = TRUE
    /\ UNCHANGED <<row, task, copy, outcome, worker, pidfile, stop, signal, pass, killed>>

Find ==
    /\ old /\ ~ pass /\ row.status = "running"
    /\ pass' = TRUE
    /\ UNCHANGED <<row, task, copy, outcome, worker, pidfile, stop, signal, old, killed>>

\* Mutant: only executions that have begun are closed.
CloseBegun ==
    /\ pass
    /\ row' = [row EXCEPT !.status = IF row.begun THEN "failed" ELSE @]
    /\ pass' = FALSE
    /\ UNCHANGED <<task, copy, outcome, worker, pidfile, stop, signal, old, killed>>

Close ==
    /\ pass
    /\ row' = [row EXCEPT !.status = "failed"]
    /\ pass' = FALSE
    /\ UNCHANGED <<task, copy, outcome, worker, pidfile, stop, signal, old, killed>>

Clean == Grow \/ Find \/ Close

Next ==
    \/ Send \/ Begin \/ GetRunner \/ Run \/ WritePid \/ Raise \/ SetResult \/ SetError \/ Die
    \/ \E w \in Worker : Receive(w)
    \/ \E o \in Outcomes : RunnerEnds(o)
    \/ \E h \in Request : StopReads(h) \/ Inspect(h) \/ Revoke(h) \/ Publish(h) \/ StopCloses(h)
    \/ Terminate
    \/ Clean

Spec == Init /\ [][Next]_vars

\* Time passes and the pass comes every hour; tasks and requests may hang for ever.
Fairness == WF_vars(Clean)

-----------------------------------------------------------------------------
\* A begun execution that says running has a task at work on it, or one that was killed:
\* however a task ends by itself, and whoever wrote the row meanwhile, it closes the row.
RunningHasWorker == row.status = "running" /\ row.begun => task \in AtWork \/ killed

\* In the end an execution does not say running and stays so, although a task that began
\* with an old object may open it again.
JobCloses == <>[](row.status # "running")
=============================================================================
