----------------------------- MODULE MC_Delays -----------------------------
(***************************************************************************)
(* Instances for TLC of the modules about what must happen some time after *)
(* it was asked for: SessionEndQueue, SessionLife, MergeDelay and          *)
(* WorkerWatch.  They share no variable, so a run explores them side by    *)
(* side: part says which of them a behaviour is about, and the variables   *)
(* of the others keep their first values.                                  *)
(***************************************************************************)
EXTENDS SessionEndQueue

CONSTANTS
    Parts,                  \* what a run explores
    LifeTtl, LifeSessions,  \* of SessionLife
    Calls,                  \* calls of one debounced function
    w1, w2, e1, e2, k1      \* workers, executions and their task

VARIABLES
    part,
    row, live, left, silent, ever, trusted, kill, contact, told, todo, doomed, deaths,
    pc, dict, seen, heap, snap, run, argsCache, taskCache, timeCache, handled, overlapped,
    worktask, celery, exe, age, up, cut, marker, missed, check, revoked, faults, recent

lvars == <<row, live, left, silent, ever, trusted, kill, contact, told, todo, doomed, deaths>>
mvars == <<pc, dict, seen, heap, snap, run, argsCache, taskCache, timeCache, handled, overlapped>>
wvars == <<worktask, celery, exe, age, up, cut, marker, missed, check, revoked, faults, recent>>
allvars == <<part, vars, lvars, mvars, wvars>>

Life == INSTANCE SessionLife WITH Sessions <- LifeSessions, Ttl <- LifeTtl, Nobody <- None,
          MaxDeaths <- 1, task <- kill
Delay == INSTANCE MergeDelay WITH task <- run

\* One task with two executions, one after the other.
Watch == INSTANCE WorkerWatch WITH Tasks <- {k1}, Executions <- {e1, e2}, Workers <- {w1, w2},
           OwnerOf <- [e \in {e1, e2} |-> k1], Grace <- 1, Confirm <- 1, MarkerTTL <- 2,
           Deadline <- 2, MaxFaults <- 2, task <- worktask, row <- exe

ASSUME QueueAssumption /\ Life!SessionAssumption /\ Delay!NoneAssumption /\ Watch!WatchAssumption

AllInit == part \in Parts /\ Init /\ Life!Init /\ Delay!Init /\ Watch!Init

InQueue(A) == part = "queue" /\ A /\ UNCHANGED <<part, lvars, mvars, wvars>>
InLife(A) == part = "life" /\ A /\ UNCHANGED <<part, vars, mvars, wvars>>
InDelay(A) == part = "delay" /\ A /\ UNCHANGED <<part, vars, lvars, wvars>>
InWatch(A) == part = "watch" /\ A /\ UNCHANGED <<part, vars, lvars, mvars>>

AllNext == InQueue(Next) \/ InLife(Life!Next) \/ InDelay(Delay!Next) \/ InWatch(Watch!Next)

\* What is fair of each, where it moves.
AllFairness ==
    /\ WF_allvars(InQueue(Tick)) /\ \A k \in Tasks : WF_allvars(InQueue(Work(k)))
    /\ SF_allvars(InLife(Life!Tick)) /\ WF_allvars(InLife(Life!Report)) /\ WF_allvars(InLife(Life!Clean))
    /\ \A a \in Calls : WF_allvars(InDelay(Delay!InCall(a))) /\ WF_allvars(InDelay(Delay!InTask(a)))
    /\ WF_allvars(InWatch(Watch!Watch)) /\ WF_allvars(InWatch(Watch!Tick))
    /\ WF_allvars(InWatch(Watch!Work(k1)))
    /\ \A w \in {w1, w2} : WF_allvars(InWatch(Watch!Restart(w)))
    /\ \A e \in {e1, e2} : WF_allvars(InWatch(Watch!CloseRevoked(e)))

AllSpec == AllInit /\ [][AllNext]_allvars /\ AllFairness

-----------------------------------------------------------------------------
(* The properties of the modules, each about the part it belongs to. *)

\* An ended session is followed by a change of its account's secret, a session nobody
\* reports any more is finished in the end, and a delayed call that nothing disturbed is
\* handled (SessionSerializer, clean_orphan_session, merge_delay_run).
NothingStaysOpen == EndIsFollowed /\ Life!OrphansEnd /\ Delay!AloneIsHandled

\* An execution whose worker or task is gone is closed in the end, whatever went wrong.
ExecutionsClose == Watch!ExecutionsClose
============================================================================
