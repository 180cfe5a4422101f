---------------------------- MODULE SessionLife ----------------------------
(***************************************************************************)
(* The session rows of one terminal component.  The component creates and  *)
(* finishes them and reports its live sessions in its status, which sets a *)
(* key in the cache for each; a periodic task finishes the sessions that   *)
(* have no key, because their component is gone.  Time is in minutes.      *)
(***************************************************************************)
EXTENDS Naturals, FiniteSets

CONSTANTS Sessions,
          Ttl,        \* life of a session's key, minutes (5)
          Nobody,     \* no session
          MaxDeaths   \* bound on the cleaning passes that die

SessionAssumption ==
    /\ Ttl \in Nat \ {0}
    /\ Nobody \notin Sessions /\ MaxDeaths \in Nat

VARIABLES row,      \* the rows: "none", "open" or "finished"
          live,     \* sessions that run on the component
          left,     \* minutes left of the key of a session, 0 without one
          silent,   \* minutes since a session was created or reported
          ever,     \* sessions reported at least once
          trusted,  \* those the server has heard of within a Ttl ever since
          task,     \* the kill task of a session
          contact,  \* whether the component reaches the server
          told,     \* whether it reported in this minute
          todo,     \* sessions the cleaning pass has still to visit
          doomed,   \* the session it found inactive
          deaths

vars == <<row, live, left, silent, ever, trusted, task, contact, told, todo,
          doomed, deaths>>

TypeOK ==
    /\ row \in [Sessions -> {"none", "open", "finished"}]
    /\ live \subseteq Sessions /\ ever \subseteq Sessions
    /\ trusted \subseteq Sessions
    /\ left \in [Sessions -> 0..Ttl]
    /\ silent \in [Sessions -> 0..Ttl]
    /\ task \in [Sessions -> {"none", "open", "executed", "dropped"}]
    /\ contact \in BOOLEAN /\ told \in BOOLEAN
    /\ todo \subseteq Sessions
    /\ doomed \in Sessions \cup {Nobody}
    /\ deaths \in 0..MaxDeaths

Init ==
    /\ row = [s \in Sessions |-> "none"]
    /\ live = {} /\ ever = {} /\ trusted = {}
    /\ left = [s \in Sessions |-> 0]
    /\ silent = [s \in Sessions |-> 0]
    /\ task = [s \in Sessions |-> "none"]
    /\ contact = TRUE /\ told = FALSE
    /\ todo = {} /\ doomed = Nobody /\ deaths = 0

-----------------------------------------------------------------------------
(* The component. *)

Open == {s \in Sessions : row[s] = "open"}

\* The row is created when the session starts; no key is set.
Start(s) ==
    /\ contact /\ row[s] = "none"
    /\ row' = [row EXCEPT ![s] = "open"]
    /\ live' = live \cup {s}
    /\ silent' = [silent EXCEPT ![s] = 0]
    /\ UNCHANGED <<left, ever, trusted, task, contact, told, todo, doomed, deaths>>

\* Mutant: only sessions that have no key get one.
SetMissing == [s \in Sessions |-> IF s \in live /\ left[s] = 0 THEN Ttl ELSE left[s]]

SetActive == [s \in Sessions |-> IF s \in live THEN Ttl ELSE left[s]]

\* set_sessions_active for the sessions of a status.
Report ==
    /\ contact
    /\ left' = SetActive
    /\ silent' = [s \in Sessions |-> IF s \in live THEN 0 ELSE silent[s]]
    /\ ever' = ever \cup live
    /\ trusted' = trusted \cup {s \in (live \ ever) \cap Open : s # doomed}
    /\ told' = TRUE
    /\ UNCHANGED <<row, live, task, contact, todo, doomed, deaths>>

\* The session ends and the component finishes its row.
Finish(s) ==
    /\ contact /\ s \in live
    /\ live' = live \ {s}
    /\ row' = [row EXCEPT ![s] = "finished"]
    /\ UNCHANGED <<left, silent, ever, trusted, task, contact, told, todo, doomed, deaths>>

\* The component is handed an open task and reports it finished.
Execute(s) ==
    /\ contact /\ task[s] = "open"
    /\ task' = [task EXCEPT ![s] = "executed"]
    /\ live' = live \ {s}
    /\ row' = [row EXCEPT ![s] = "finished"]
    /\ UNCHANGED <<left, silent, ever, trusted, contact, told, todo, doomed, deaths>>

\* It is cut off, or dies with all its sessions.
LoseContact ==
    /\ contact /\ contact' = FALSE
    /\ live' \in {live, {}}
    /\ UNCHANGED <<row, left, silent, ever, trusted, task, told, todo, doomed, deaths>>

Return ==
    /\ ~ contact /\ contact' = TRUE /\ told' = FALSE
    /\ UNCHANGED <<row, live, left, silent, ever, trusted, task, todo, doomed, deaths>>

-----------------------------------------------------------------------------
(* The server. *)

\* create_sessions_tasks.
RequestKill(s) ==
    /\ row[s] = "open" /\ task[s] = "none"
    /\ task' = [task EXCEPT ![s] = "open"]
    /\ UNCHANGED <<row, live, left, silent, ever, trusted, contact, told, todo, doomed, deaths>>

Aged == [s \in Sessions |-> IF left[s] > 0 THEN left[s] - 1 ELSE 0]

\* A component in contact reports every half minute.
Tick ==
    /\ contact => told
    /\ told' = FALSE
    /\ left' = Aged
    /\ silent' = [s \in Sessions |-> IF silent[s] < Ttl THEN silent[s] + 1 ELSE Ttl]
    /\ trusted' = trusted \ {s \in Sessions : silent'[s] = Ttl}
    /\ UNCHANGED <<row, live, ever, task, contact, todo, doomed, deaths>>

CleanBegin ==
    /\ todo = {} /\ doomed = Nobody
    /\ Open # {}
    /\ todo' = Open
    /\ UNCHANGED <<row, live, left, silent, ever, trusted, task, contact, told, doomed, deaths>>

\* Mutant: the key is set without a timeout.
ReportedOnce(s) == s \in ever

is_active(s) == left[s] > 0

\* The tasks of the session are finished first, whether or not it is active.
CleanVisit(s) ==
    /\ doomed = Nobody /\ s \in todo
    /\ todo' = todo \ {s}
    /\ task' = [task EXCEPT ![s] = IF @ = "open" THEN "dropped" ELSE @]
    /\ doomed' = IF is_active(s) THEN Nobody ELSE s
    /\ UNCHANGED <<row, live, left, silent, ever, trusted, contact, told, deaths>>

CleanEnd ==
    /\ doomed # Nobody
    /\ row' = [row EXCEPT ![doomed] = "finished"]
    /\ doomed' = Nobody
    /\ UNCHANGED <<live, left, silent, ever, trusted, task, contact, told, todo, deaths>>

CleanDies ==
    /\ todo # {} \/ doomed # Nobody
    /\ deaths < MaxDeaths
    /\ todo' = {} /\ doomed' = Nobody /\ deaths' = deaths + 1
    /\ UNCHANGED <<row, live, left, silent, ever, trusted, task, contact, told>>

Clean == CleanBegin \/ (\E s \in Sessions : CleanVisit(s)) \/ CleanEnd

Next ==
    \/ \E s \in Sessions : Start(s) \/ Finish(s) \/ Execute(s) \/ RequestKill(s)
    \/ Report
    \/ LoseContact
    \/ Return
    \/ Tick
    \/ Clean
    \/ CleanDies

Spec == Init /\ [][Next]_vars

\* Time passes, a component in contact reports, and the task runs again.
Fairness == SF_vars(Tick) /\ WF_vars(Report) /\ WF_vars(Clean)
FairSpec == Spec /\ Fairness

-----------------------------------------------------------------------------
(* The row of a session that runs is open from its first report on, unless *)
(* its component was silent about it for the life of a key: slow passes,   *)
(* passes that die and reports in between end no other session.            *)
LiveIsOpen == \A s \in live \cap trusted : row[s] = "open"

(* A session whose component is gone does not stay open.                   *)
OrphansEnd ==
    \A s \in Sessions : (row[s] = "open" /\ s \notin live) ~> row[s] = "finished"
=============================================================================
