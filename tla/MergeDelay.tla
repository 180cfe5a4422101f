---------------------------- MODULE MergeDelay ----------------------------
(***************************************************************************)
(* merge_delay_run: calls of func.delay with one key, made by the threads  *)
(* of a process within ttl seconds, are answered by one run of the         *)
(* function with the union of their arguments.  Three dictionaries of the  *)
(* process hold the merged arguments, the pending task and the time of the *)
(* first call; callers and runs use them without a lock.  Here a call is   *)
(* named by its one argument.  How long a task sleeps is left open, and so *)
(* is whether ttl seconds have passed since the first call.                *)
(***************************************************************************)
EXTENDS Naturals, FiniteSets

CONSTANTS
  Calls,   \* calls of delay, each in a thread of its own
  None

NoneAssumption == None \notin Calls

VARIABLES
  pc,          \* how far a call is
  dict,        \* the dictionary object a call uses, named by the call that made it
  seen,        \* its content when the call read it
  heap,        \* content of the dictionary objects
  snap,        \* the arguments a call passes on to its task
  task,        \* the task of a call
  argsCache,   \* _loop_debouncer_func_args_cache
  taskCache,   \* _loop_debouncer_func_task_cache
  timeCache,   \* whether _loop_debouncer_func_task_time_cache has the key
  handled,     \* arguments the function was called with
  overlapped   \* calls made while another call or the end of a run was under way
caches == <<argsCache, taskCache, timeCache>>
vars == <<pc, dict, seen, heap, snap, task, caches, handled, overlapped>>

PcStates == {"start", "merge", "cancel", "schedule", "done"}
TaskStates == {"none", "sleeping", "submitted", "running", "ran", "noTask", "noArgs", "ended", "cancelled"}

(* One type invariant. *)
TypeOK ==
  /\ pc \in [Calls -> PcStates] /\ task \in [Calls -> TaskStates]
  /\ dict \in [Calls -> Calls \cup {None}]
  /\ {seen, heap, snap} \subseteq [Calls -> SUBSET Calls]
  /\ argsCache \in Calls \cup {None} /\ taskCache \in Calls \cup {None}
  /\ timeCache \in BOOLEAN
  /\ handled \cup overlapped \subseteq Calls
  /\ taskCache # None => pc[taskCache] = "done"
  /\ \A a \in Calls : task[a] # "none" => snap[a] # {}

UnderWay == {a \in Calls : pc[a] \in {"merge", "cancel", "schedule"}}
Ending == {a \in Calls : task[a] \in {"noTask", "noArgs"}}
NoteOverlap ==
  overlapped' = overlapped \cup (IF Cardinality(UnderWay') > 1 \/ Ending' # {} THEN UnderWay' ELSE {})
Goto(a, l) == pc' = [pc EXCEPT ![a] = l]

----------------------------------------------------------------------------
(* delay: the dictionary with the arguments so far, or a new one. *)
OwnDict(a) == a
DictOf(a) == IF argsCache = None THEN a ELSE argsCache
Get(a) ==
  /\ pc[a] = "start"
  /\ dict' = [dict EXCEPT ![a] = DictOf(a)]
  /\ seen' = [seen EXCEPT ![a] = heap[dict'[a]]]
  /\ Goto(a, "merge")
  /\ UNCHANGED <<heap, snap, task, caches, handled>> /\ NoteOverlap

Merge(a) ==
  /\ pc[a] = "merge"
  /\ heap' = [heap EXCEPT ![dict[a]] = seen[a] \cup {a}]
  /\ argsCache' = dict[a]
  /\ Goto(a, "cancel")
  /\ UNCHANGED <<dict, seen, snap, task, taskCache, timeCache, handled>> /\ NoteOverlap

(* run_debouncer_func gets the arguments by value and cancels the task     *)
(* before it; a thread that already runs the function is not stopped.      *)
CancelTask(t) == IF t = "sleeping" THEN "cancelled" ELSE t
Args(a) == heap[dict[a]]
Cancel(a) ==
  /\ pc[a] = "cancel"
  /\ snap' = [snap EXCEPT ![a] = Args(a)]
  /\ IF taskCache = None
     THEN UNCHANGED <<task, taskCache>>
     ELSE /\ task' = [task EXCEPT ![taskCache] = CancelTask(@)]
          /\ taskCache' = IF task[taskCache] = "ended" THEN None ELSE taskCache
  /\ Goto(a, "schedule")
  /\ UNCHANGED <<dict, seen, heap, argsCache, timeCache, handled>> /\ NoteOverlap

Delay(a) ==
  /\ task' = [task EXCEPT ![a] = "sleeping"]
  /\ taskCache' = a /\ timeCache' = TRUE
  /\ UNCHANGED argsCache

(* More than ttl seconds after the first call: run at once. *)
Submit(a) ==
  /\ timeCache
  /\ task' = [task EXCEPT ![a] = "submitted"]
  /\ argsCache' = None /\ timeCache' = FALSE
  /\ UNCHANGED taskCache

Schedule(a) ==
  /\ pc[a] = "schedule"
  /\ Delay(a) \/ Submit(a)
  /\ Goto(a, "done")
  /\ UNCHANGED <<dict, seen, heap, snap, handled>> /\ NoteOverlap

----------------------------------------------------------------------------
(* _run_func_with_org: the function, then the three caches one by one. *)
Step(a, from, to) == task[a] = from /\ task' = [task EXCEPT ![a] = to]

Start(a) ==
  /\ Step(a, "sleeping", "running") \/ Step(a, "submitted", "running")
  /\ UNCHANGED <<pc, dict, seen, heap, snap, caches, handled>> /\ NoteOverlap
Run(a) ==
  /\ Step(a, "running", "ran")
  /\ handled' = handled \cup snap[a]
  /\ UNCHANGED <<pc, dict, seen, heap, snap, caches>> /\ NoteOverlap
KeepTask == UNCHANGED taskCache
DropTask == taskCache' = None
PopTask(a) ==
  /\ Step(a, "ran", "noTask") /\ DropTask
  /\ UNCHANGED <<pc, dict, seen, heap, snap, argsCache, timeCache, handled>> /\ NoteOverlap
PopArgs(a) ==
  /\ Step(a, "noTask", "noArgs") /\ argsCache' = None
  /\ UNCHANGED <<pc, dict, seen, heap, snap, taskCache, timeCache, handled>> /\ NoteOverlap
PopTime(a) ==
  /\ Step(a, "noArgs", "ended") /\ timeCache' = FALSE
  /\ UNCHANGED <<pc, dict, seen, heap, snap, argsCache, taskCache, handled>> /\ NoteOverlap

Init ==
  /\ pc = [a \in Calls |-> "start"] /\ task = [a \in Calls |-> "none"]
  /\ dict = [a \in Calls |-> None]
  /\ seen = [a \in Calls |-> {}] /\ heap = seen /\ snap = seen
  /\ argsCache = None /\ taskCache = None /\ timeCache = FALSE
  /\ handled = {} /\ overlapped = {}

InCall(a) == Merge(a) \/ Cancel(a) \/ Schedule(a)
InTask(a) == Start(a) \/ Run(a) \/ PopTask(a) \/ PopArgs(a) \/ PopTime(a)
Next == \E a \in Calls : Get(a) \/ InCall(a) \/ InTask(a)

Spec == Init /\ [][Next]_vars
(* A thread that made a call goes on, and the loop and the executor run.   *)
Fairness == \A a \in Calls : WF_vars(InCall(a)) /\ WF_vars(InTask(a))
FairSpec == Spec /\ Fairness

----------------------------------------------------------------------------
(* Some call passed it on, and its task is not yet over. *)
Carried(a) ==
  \/ a \in handled
  \/ \E b \in Calls : a \in snap[b] /\ (pc[b] = "schedule" \/ task[b] \in {"sleeping", "submitted", "running"})
Dropped(a) == pc[a] = "done" /\ ~Carried(a)

(* Its call, or one that passed the argument on, overlapped something. *)
Disturbed(a) == \E b \in overlapped : b = a \/ a \in snap[b]

(* What the code gives: an argument is dropped only when its own call, or  *)
(* a later one that took it over, overlaps another call of the key or the  *)
(* moment at which a run clears the caches under it; calls that come one   *)
(* after the other lose nothing, however the runs they cause fall in       *)
(* between.                                                                *)
LossNeedsOverlap == \A a \in Calls : Dropped(a) => Disturbed(a)

(* Every call that was not disturbed is handled in the end.                *)
AloneIsHandled == \A a \in Calls : pc[a] = "done" ~> (a \in handled \/ Disturbed(a))
============================================================================
