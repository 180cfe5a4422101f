------------------------------ MODULE BulkLog ------------------------------
(***************************************************************************)
(* bulk_handle: records a decorated function returns are collected in a    *)
(* list that the threads of a process share, and saved together when a     *)
(* batch is full or the caller finishes.  The activity logs are written    *)
(* this way by the requests and tasks of a process.                        *)
(***************************************************************************)
EXTENDS Naturals, Sequences, SequencesExt

CONSTANTS Threads,
          Nobody,    \* no thread
          BatchSize,
          MaxCalls,  \* bound on the calls of create_activities
          MaxItems   \* bound on the records of a call

BulkAssumption ==
    /\ Nobody \notin Threads
    /\ BatchSize \in Nat \ {0} /\ MaxCalls \in Nat /\ MaxItems \in Nat

VARIABLES cache,  \* the list
          lock,   \* the thread that holds the lock
          batch,  \* the records bulk_create took from the list
          saved,  \* how often each record was saved
          made,   \* number of records made so far: they are called 1, 2, ...
          pc, after, todo, calls

vars == <<cache, lock, batch, saved, made, pc, after, todo, calls>>

MaxRecords == MaxCalls * MaxItems
Records == 1..MaxRecords

TypeOK ==
    /\ cache \in Seq(Records) /\ batch \in Seq(Records)
    /\ lock \in Threads \cup {Nobody}
    /\ saved \in [Records -> Nat]
    /\ made \in 0..MaxRecords
    /\ pc \in [Threads -> {"idle", "add", "handle", "save", "clear"}]
    /\ after \in [Threads -> {"idle", "add"}]
    /\ todo \in [Threads -> 0..MaxItems]
    /\ calls \in 0..MaxCalls
    \* one thread saves, and what it saves is what it found in the list
    /\ \A t \in Threads : pc[t] \in {"save", "clear"} <=> lock = t
    /\ (lock = Nobody) = (batch = <<>>)
    /\ lock # Nobody => IsPrefix(batch, cache)

Init ==
    /\ cache = <<>> /\ batch = <<>> /\ lock = Nobody
    /\ saved = [r \in Records |-> 0] /\ made = 0
    /\ pc = [t \in Threads |-> "idle"]
    /\ after = [t \in Threads |-> "idle"]
    /\ todo = [t \in Threads |-> 0]
    /\ calls = 0

Goto(t, label) == pc' = [pc EXCEPT ![t] = label]

\* create_activities: create_activity for each record, then finish.
Call(t) ==
    /\ pc[t] = "idle" /\ calls < MaxCalls
    /\ \E n \in 1..MaxItems : todo' = [todo EXCEPT ![t] = n]
    /\ calls' = calls + 1
    /\ Goto(t, "add")
    /\ UNCHANGED <<cache, lock, batch, saved, made, after>>

\* handle_on_org_changed: the last record was of another organisation.
OrgChanged(t) ==
    /\ pc[t] = "add" /\ todo[t] > 0
    /\ Goto(t, "handle") /\ after' = [after EXCEPT ![t] = "add"]
    /\ UNCHANGED <<cache, lock, batch, saved, made, todo, calls>>

\* The wrapper appends without the lock.
Add(t) ==
    /\ pc[t] = "add" /\ todo[t] > 0
    /\ made' = made + 1
    /\ cache' = Append(cache, made + 1)
    /\ todo' = [todo EXCEPT ![t] = @ - 1]
    /\ IF Len(cache') >= BatchSize
         THEN Goto(t, "handle") /\ after' = [after EXCEPT ![t] = "add"]
         ELSE UNCHANGED <<pc, after>>
    /\ UNCHANGED <<lock, batch, saved, calls>>

\* handle_remaining.
Finish(t) ==
    /\ pc[t] = "add" /\ todo[t] = 0
    /\ Goto(t, IF cache = <<>> THEN "idle" ELSE "handle")
    /\ after' = [after EXCEPT ![t] = "idle"]
    /\ UNCHANGED <<cache, lock, batch, saved, made, todo, calls>>

\* Mutant: the lock is not waited for.
NoLock == TRUE

LockIsFree == lock = Nobody

\* handle_it: under the lock, unless another thread emptied the list.
Handle(t) ==
    /\ pc[t] = "handle" /\ LockIsFree
    /\ IF cache = <<>>
         THEN Goto(t, after[t]) /\ UNCHANGED <<lock, batch>>
         ELSE Goto(t, "save") /\ lock' = t /\ batch' = cache
    /\ UNCHANGED <<cache, saved, made, after, todo, calls>>

Save(t) ==
    /\ pc[t] = "save"
    /\ saved' = [r \in Records |-> saved[r] + (IF Contains(batch, r) THEN 1 ELSE 0)]
    /\ Goto(t, "clear")
    /\ UNCHANGED <<cache, lock, batch, made, after, todo, calls>>

\* Mutant: the list is emptied although the save was rolled back.
Emptied == <<>>

KeptOnFailure == cache

\* The transaction is rolled back, the exception leaves the lock and the call.
SaveFails(t) ==
    /\ pc[t] = "save"
    /\ cache' = KeptOnFailure
    /\ lock' = Nobody /\ batch' = <<>>
    /\ todo' = [todo EXCEPT ![t] = 0]
    /\ Goto(t, "idle")
    /\ UNCHANGED <<saved, made, after, calls>>

Clear(t) ==
    /\ pc[t] = "clear"
    /\ cache' = <<>>
    /\ lock' = Nobody /\ batch' = <<>>
    /\ Goto(t, after[t])
    /\ UNCHANGED <<saved, made, after, todo, calls>>

Next == \E t \in Threads :
    \/ Call(t)
    \/ OrgChanged(t)
    \/ Add(t)
    \/ Finish(t)
    \/ Handle(t)
    \/ Save(t)
    \/ SaveFails(t)
    \/ Clear(t)

Spec == Init /\ [][Next]_vars

-----------------------------------------------------------------------------
(* A record is saved at most once, by whichever thread, after any number   *)
(* of failed saves.                                                        *)
SavedOnce == \A r \in Records : saved[r] <= 1

(* A record that was made is saved or still waits in the list ("for thread *)
(* safety", says the lock).                                                *)
NothingLost == \A r \in 1..made : saved[r] > 0 \/ Contains(cache, r)
=============================================================================
