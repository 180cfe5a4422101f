---------------------------- MODULE SettingCopies ----------------------------
(***************************************************************************)
(* One setting and its copies in the memory of the processes: each process *)
(* reads all settings when it starts, then subscribes to a channel, and    *)
(* reads the setting again for every message on it; a change publishes its *)
(* message after its commit.  A connection that broke is renewed, and what *)
(* was published meanwhile is not sent again.  A handler that raises is    *)
(* logged and its message is gone; a first load that fails is passed over, *)
(* and the process runs with the setting of its configuration file.        *)
(***************************************************************************)
EXTENDS Naturals

CONSTANTS Process,
          Writer,      \* requests that save the setting
          None,
          Default,     \* the value of the configuration file
          MaxVersion,  \* bound on its changes
          MaxFaults    \* bound on broken connections, restarts, lost messages and errors

SettingAssumption ==
    /\ {MaxVersion, MaxFaults} \subseteq Nat
    /\ None \notin Nat /\ Default \notin Nat /\ None # Default

VARIABLES db,       \* the committed value
          draft,    \* a writer's step: its uncommitted row, or its message still to publish
          copy,     \* the value a process uses
          link,     \* its subscription
          inbox,    \* messages on their way to it
          read,     \* what its handler has read and not yet set
          missed,   \* whether a message, a handler or a load failed it since it last read
          faults

vars == <<db, draft, copy, link, inbox, read, missed, faults>>

Value == 0..MaxVersion

TypeOK ==
    /\ db \in Value
    /\ draft \in [Writer -> {"none", "written", "committed"}]
    /\ copy \in [Process -> Value \cup {None, Default}]
    /\ link \in [Process -> {"down", "started", "up", "broken"}]
    /\ inbox \in [Process -> 0..MaxVersion]
    /\ read \in [Process -> Value \cup {None}]
    /\ missed \in [Process -> BOOLEAN]
    /\ faults \in 0..MaxFaults

Init ==
    /\ db = 0
    /\ draft = [w \in Writer |-> "none"]
    /\ copy = [p \in Process |-> None]
    /\ link = [p \in Process |-> "down"]
    /\ inbox = [p \in Process |-> 0]
    /\ read = [p \in Process |-> None]
    /\ missed = [p \in Process |-> FALSE]
    /\ faults = 0

-----------------------------------------------------------------------------
(* A change of the setting. *)

\* Whether the row is locked by a transaction.
Locked == \E w \in Writer : draft[w] = "written"

Write(w) ==
    /\ draft[w] = "none" /\ ~ Locked /\ db < MaxVersion
    /\ draft' = [draft EXCEPT ![w] = "written"]
    /\ UNCHANGED <<db, copy, link, inbox, read, missed, faults>>

Commit(w) ==
    /\ draft[w] = "written"
    /\ draft' = [draft EXCEPT ![w] = "committed"]
    /\ db' = db + 1
    /\ UNCHANGED <<copy, link, inbox, read, missed, faults>>

Rollback(w) ==
    /\ draft[w] = "written"
    /\ draft' = [draft EXCEPT ![w] = "none"]
    /\ UNCHANGED <<db, copy, link, inbox, read, missed, faults>>

Sent(to) ==
    /\ inbox' = [p \in Process |-> IF p \in to /\ link[p] = "up" THEN inbox[p] + 1 ELSE inbox[p]]
    /\ missed' = [p \in Process |-> missed[p] \/ p \notin to \/ link[p] # "up"]

\* refresh_settings_on_changed; redis gives the message to whoever is subscribed.
Publish(w) ==
    /\ draft[w] = "committed"
    /\ draft' = [draft EXCEPT ![w] = "none"]
    /\ \/ Sent(Process) /\ UNCHANGED faults
       \/ Sent({}) /\ faults < MaxFaults /\ faults' = faults + 1   \* the process died first
    /\ UNCHANGED <<db, copy, link, read>>

-----------------------------------------------------------------------------
(* A process. *)

\* refresh_all_settings.
Start(p) ==
    /\ link[p] = "down"
    /\ link' = [link EXCEPT ![p] = "started"]
    /\ copy' = [copy EXCEPT ![p] = db]
    /\ missed' = [missed EXCEPT ![p] = FALSE]
    /\ UNCHANGED <<db, draft, inbox, read, faults>>

Faulty == faults < MaxFaults /\ faults' = faults + 1

\* The query raises OperationalError or ProgrammingError, which refresh_all_settings passes over.
StartFails(p) ==
    /\ Faulty
    /\ link[p] = "down"
    /\ link' = [link EXCEPT ![p] = "started"]
    /\ copy' = [copy EXCEPT ![p] = Default]
    /\ missed' = [missed EXCEPT ![p] = TRUE]
    /\ UNCHANGED <<db, draft, inbox, read>>

\* subscribe, also after the connection broke.
Subscribe(p) ==
    /\ link[p] \in {"started", "broken"}
    /\ link' = [link EXCEPT ![p] = "up"]
    /\ UNCHANGED <<db, draft, copy, inbox, read, missed, faults>>

\* Mutant: the handler does not wait for a message.
ReadAnyway(p) ==
    /\ link[p] = "up" /\ read[p] = None
    /\ ~ Locked
    /\ inbox' = [inbox EXCEPT ![p] = @ - 1]
    /\ read' = [read EXCEPT ![p] = db]
    /\ missed' = [missed EXCEPT ![p] = FALSE]
    /\ UNCHANGED <<db, draft, copy, link, faults>>

\* refresh_item: a row under change is waited for.
Read(p) ==
    /\ link[p] = "up" /\ read[p] = None /\ inbox[p] > 0
    /\ ~ Locked
    /\ inbox' = [inbox EXCEPT ![p] = @ - 1]
    /\ read' = [read EXCEPT ![p] = db]
    /\ missed' = [missed EXCEPT ![p] = FALSE]
    /\ UNCHANGED <<db, draft, copy, link, faults>>

\* Mutant: messages that came while the handler was at work are taken as handled.
SetAndDrop(p) ==
    /\ read[p] # None
    /\ copy' = [copy EXCEPT ![p] = read[p]]
    /\ read' = [read EXCEPT ![p] = None]
    /\ inbox' = [inbox EXCEPT ![p] = 0]
    /\ UNCHANGED <<db, draft, link, missed, faults>>

\* refresh_setting; the handler ends its message although the connection is broken.
Set(p) ==
    /\ read[p] # None
    /\ copy' = [copy EXCEPT ![p] = read[p]]
    /\ read' = [read EXCEPT ![p] = None]
    /\ UNCHANGED <<db, draft, link, inbox, missed, faults>>

\* _handle_msg logs what the handler raises, before or after it has read the row (a wait for
\* the row that times out, a value that cannot be decoded), and goes on to the next message.
HandlerFails(p) ==
    /\ Faulty
    /\ \/ /\ link[p] = "up" /\ read[p] = None /\ inbox[p] > 0
          /\ inbox' = [inbox EXCEPT ![p] = @ - 1]
          /\ UNCHANGED read
       \/ /\ read[p] # None
          /\ read' = [read EXCEPT ![p] = None]
          /\ UNCHANGED inbox
    /\ missed' = [missed EXCEPT ![p] = TRUE]
    /\ UNCHANGED <<db, draft, copy, link>>

\* The connection breaks with the messages on it.
Break(p) ==
    /\ Faulty
    /\ link[p] = "up"
    /\ link' = [link EXCEPT ![p] = "broken"]
    /\ inbox' = [inbox EXCEPT ![p] = 0]
    /\ missed' = [missed EXCEPT ![p] = @ \/ inbox[p] > 0]
    /\ UNCHANGED <<db, draft, copy, read>>

\* The process is killed.
Die(p) ==
    /\ Faulty
    /\ link[p] # "down"
    /\ link' = [link EXCEPT ![p] = "down"]
    /\ copy' = [copy EXCEPT ![p] = None]
    /\ inbox' = [inbox EXCEPT ![p] = 0]
    /\ read' = [read EXCEPT ![p] = None]
    /\ UNCHANGED <<db, draft, missed>>

Next ==
    \/ \E w \in Writer : Write(w) \/ Commit(w) \/ Rollback(w) \/ Publish(w)
    \/ \E p \in Process :
         \/ Start(p) \/ StartFails(p) \/ Subscribe(p) \/ Read(p) \/ Set(p)
         \/ HandlerFails(p) \/ Break(p) \/ Die(p)

Spec == Init /\ [][Next]_vars

\* Processes are started again, connections are retried for ever, transactions end.
Fairness ==
    /\ \A w \in Writer : WF_vars(Commit(w) \/ Rollback(w)) /\ WF_vars(Publish(w))
    /\ \A p \in Process : WF_vars(Start(p)) /\ WF_vars(Subscribe(p)) /\ WF_vars(Set(p))
                          /\ SF_vars(Read(p))

-----------------------------------------------------------------------------
\* A process uses an old value only while it is told so or after something failed it: the
\* change is not published yet, a message is on its way, or its handler is at work; or since
\* it last read, a message was missed, a handler raised or its first load failed.
OldNeedsAMiss ==
    \A p \in Process : copy[p] \notin {None, db} =>
        \/ missed[p] \/ inbox[p] > 0 \/ read[p] = db
        \/ \E w \in Writer : draft[w] = "committed"

\* In the end a process that nothing failed since it last read uses the value of the database.
CopiesAgree == \A p \in Process : <>[](copy[p] = db \/ missed[p])
=============================================================================
